--------------------------- MODULE AzureProvider ----------------------------
(***************************************************************************)
(* The Azure provider.  Everything belongs to a resource group and has a   *)
(* name derived from the cluster's, so a look-up is a Get by name and a    *)
(* creation an idempotent CreateOrUpdate.  What a Get does not tell is     *)
(* whether the resource is complete: Azure answers CreateOrUpdate when it  *)
(* has accepted the request and provisions the resource afterwards.  Marks *)
(* "done" and "failed" are the ends of that.                               *)
(***************************************************************************)
EXTENDS CloudProvider

Kinds == {"rg", "vnet", "nsg-master", "nsg-node", "rt", "subnet-master", "subnet-node",
          "lb-internal", "pip", "lb-public", "nic", "master"}

Done(kind)    == With(kind, "done")
Settled(kind) == \A r \in Only(kind) : r.has \cap {"done", "failed"} # {}

\* External: CreateOrUpdate returns once Azure has taken the request.
CreateOrUpdate(from, ok, kind, to) ==
    IF Only(kind) # {} THEN Check(from, ok, to) ELSE Make(from, ok, kind, 0, {}, to)

\* External: polls until the operation has ended.
WaitForCompletionRef(from, kind, to) ==
    Settled(kind) /\ Check(from, Done(kind) # {}, to)

\* External: Azure finishes an operation, whether or not somebody waits.
Provision ==
    /\ pc \in {"idle", "ready", "vnetWait", "nsgMasterWait", "nsgNodeWait", "rtWait",
               "subnetMasterWait", "subnetNodeWait", "lbInternalWait", "pipWait",
               "lbPublicWait", "nicWait"}
    /\ \E r \in All(Kinds) :
         /\ r.has \cap {"done", "failed"} = {}
         /\ \/ cloud' = Marked({r}, {"done"}) /\ UNCHANGED aborts
            \/ /\ aborts < MaxAborts /\ aborts' = aborts + 1
               /\ cloud' = Marked({r}, {"failed"})
    /\ UNCHANGED <<pc, db, mem, net, cur, sets, torn, lost>>

newconnector == Connect("rg", "dworkers")

-----------------------------------------------------------------------------
(* PrepareCloud *)

getResourceGroup == Find("rg", Only("rg"), "vnet", "rgMake")

\* A group is complete at once.
ensureResourceGroup ==
    IF Only("rg") # {} THEN Check("rgMake", TRUE, "vnet")
    ELSE Make("rgMake", TRUE, "rg", 0, {"done"}, "vnet")

getVirtualNetwork    == Find("vnet", Only("vnet"), "nsgMaster", "vnetMake")
ensureVirtualNetwork ==
    \/ CreateOrUpdate("vnetMake", Only("rg") # {}, "vnet", "vnetWait")
    \/ WaitForCompletionRef("vnetWait", "vnet", "nsgMaster")

getNetworkSecurityGroup(kind, from, found, missing) == Find(from, Only(kind), found, missing)
createNetworkSecurityGroup(kind, make, wait, to) ==
    \/ CreateOrUpdate(make, Only("rg") # {}, kind, wait)
    \/ WaitForCompletionRef(wait, kind, to)

ensureSecurityGroup ==
    \/ getNetworkSecurityGroup("nsg-master", "nsgMaster", "nsgNode", "nsgMasterMake")
    \/ createNetworkSecurityGroup("nsg-master", "nsgMasterMake", "nsgMasterWait", "nsgNode")
    \/ getNetworkSecurityGroup("nsg-node", "nsgNode", "rt", "nsgNodeMake")
    \/ createNetworkSecurityGroup("nsg-node", "nsgNodeMake", "nsgNodeWait", "rt")

getRouteTable    == Find("rt", Only("rt"), "subnetMaster", "rtMake")
createRouteTable ==
    \/ CreateOrUpdate("rtMake", Only("rg") # {}, "rt", "rtWait")
    \/ WaitForCompletionRef("rtWait", "rt", "subnetMaster")

getSubnetID(kind, from, found, missing) == Find(from, Only(kind), found, missing)

\* Azure refuses while the virtual network or what the subnet refers to is not
\* complete.
createSubnetID(kind, needs, make, wait, to) ==
    \/ CreateOrUpdate(make, \A k \in needs : Done(k) # {}, kind, wait)
    \/ WaitForCompletionRef(wait, kind, to)

ensureSubnet ==
    \/ getSubnetID("subnet-master", "subnetMaster", "subnetNode", "subnetMasterMake")
    \/ createSubnetID("subnet-master", {"vnet", "nsg-master"},
                      "subnetMasterMake", "subnetMasterWait", "subnetNode")
    \/ getSubnetID("subnet-node", "subnetNode", "lbInternal", "subnetNodeMake")
    \/ createSubnetID("subnet-node", {"vnet", "nsg-node", "rt"},
                      "subnetNodeMake", "subnetNodeWait", "lbInternal")

findLoadBalancer(kind, from, found, missing) == Find(from, Only(kind), found, missing)

createInternalLoadBalancer ==
    \/ CreateOrUpdate("lbInternalMake", Done("subnet-master") # {}, "lb-internal", "lbInternalWait")
    \/ WaitForCompletionRef("lbInternalWait", "lb-internal", "pip")

getPublicIP    == Find("pip", Only("pip"), "lbPublic", "pipMake")
createPublicIP ==
    \/ CreateOrUpdate("pipMake", Only("rg") # {}, "pip", "pipWait")
    \/ WaitForCompletionRef("pipWait", "pip", "lbPublic")

createPublicLoadBalancer ==
    \/ CreateOrUpdate("lbPublicMake", Done("pip") # {}, "lb-public", "lbPublicWait")
    \/ WaitForCompletionRef("lbPublicWait", "lb-public", "endpoint")

\* The address of the public IP becomes the endpoint; without an address yet
\* the command panics.
ensureLoadBalancer ==
    \/ findLoadBalancer("lb-internal", "lbInternal", "pip", "lbInternalMake")
    \/ findLoadBalancer("lb-public", "lbPublic", "endpoint", "lbPublicMake")
    \/ /\ pc = "endpoint"
       /\ IF Done("pip") # {}
          THEN pc' = "nic" /\ mem' = [mem EXCEPT !.endp = TRUE] /\ UNCHANGED <<net, cur>>
          ELSE Return
       /\ UNCHANGED <<db, cloud, sets, torn, aborts, lost>>

\* The pools that a balancer found by a Get may not have yet are needed here.
getNetworkInterface    == Find("nic", Only("nic"), "masterNic", "nicMake")
createNetworkInterface ==
    \/ CreateOrUpdate("nicMake",
           \A k \in {"subnet-master", "lb-public", "lb-internal"} : Done(k) # {}, "nic", "nicWait")
    \/ WaitForCompletionRef("nicWait", "nic", "masterNic")

-----------------------------------------------------------------------------
(* EnsureMaster *)

masterNIC         == Check("masterNic", Only("nic") # {}, "master")
getVirtualMachine == Find("master", Only("master"), "ready", "masterMake")

\* Nobody waits for the machine; its start-up script is an extension.
createVirtualMachine ==
    \/ CreateOrUpdate("masterMake", Done("nic") # {}, "master", "extension")
    \/ Mark("extension", TRUE, Only("master"), {"script"}, "save")

\* Only the run that has created the machine stores the cluster here, and the
\* machine's id.
EnsureMaster ==
    \/ Save("save", mem.endp, {}, "vmid")
    \/ /\ pc = "vmid" /\ pc' = "ready"
       /\ mem' = [mem EXCEPT !.ids = @ \cup {"vmid"}]
       /\ db' = [db EXCEPT !.ids = @ \cup {"vmid"}]
       /\ UNCHANGED <<cloud, net, cur, sets, torn, aborts, lost>>

Reachable ==
    \A k \in {"vnet", "nsg-master", "subnet-master", "pip", "lb-public", "nic", "master"} :
        Done(k) # {}

-----------------------------------------------------------------------------
(* ApplyDelete *)

\* The request is accepted, and refused once there is no such group any more.
deleteResourceGroup ==
    Mark("drg", Only("rg") # {}, Only("rg"), {"deleting"}, "dend")

\* External: Azure empties a group that is being deleted.
removeGroup ==
    /\ With("rg", "deleting") # {} /\ pc = "idle"
    /\ cloud' = {}
    /\ UNCHANGED <<pc, db, mem, net, cur, sets, torn, aborts, lost>>

ApplyDelete == Finish("dend", "Deleted")

-----------------------------------------------------------------------------

Prepare ==
    \/ getResourceGroup \/ ensureResourceGroup \/ getVirtualNetwork \/ ensureVirtualNetwork
    \/ ensureSecurityGroup \/ getRouteTable \/ createRouteTable \/ ensureSubnet
    \/ createInternalLoadBalancer \/ getPublicIP \/ createPublicIP \/ createPublicLoadBalancer
    \/ ensureLoadBalancer \/ getNetworkInterface \/ createNetworkInterface

Master ==
    \/ masterNIC \/ getVirtualMachine \/ createVirtualMachine \/ EnsureMaster
    \/ MarkReady("ready", Reachable)

Teardown == StartDelete("dworkers", Reachable, "drg") \/ deleteResourceGroup \/ ApplyDelete

Step == newconnector \/ Prepare \/ Master \/ Teardown

Environment ==
    \/ Provision
    \/ removeGroup
    \/ With("rg", "deleting") = {} /\ ControllerScale(Done("master"), "drg")

Next == Apply \/ DeleteCluster \/ Step \/ Abort \/ Environment

Spec == Init /\ [][Next]_vars

-----------------------------------------------------------------------------
(* Properties *)

\* Names make every creation idempotent, failed look-ups included.
NoTwins == \A k \in Kinds : Cardinality(Only(k)) <= 1

\* When ApplyDelete has reported success, nothing lives outside a group that
\* Azure is deleting.
NetworkGone == torn /\ cloud # {} => With("rg", "deleting") # {}

\* A repeated apply takes over everything but a resource that Azure has failed
\* to provision: the Get finds it and it is not created again.
Resumable ==
    /\ \A r \in cloud : "failed" \notin r.has
    /\ aborts = MaxAborts /\ lost = MaxLost

\* ApplyDelete needs the resource group: when the command is killed after the
\* group's deletion was accepted and Azure is done with it, every later attempt
\* is refused and the cluster stays Deleting.
Deletable ==
    /\ Only("rg") # {} /\ With("rg", "deleting") = {}
    /\ aborts = MaxAborts /\ lost = MaxLost
=============================================================================
