---------------------------- MODULE EksProvider -----------------------------
(***************************************************************************)
(* The EKS provider: CloudFormation stacks for the service role, the VPC   *)
(* and the node group, a key pair, and the control plane, found again by   *)
(* their names.  A stack has its outputs once it is done.                  *)
(*                                                                         *)
(* Mark of the control plane: "auth" (the nodes' role is in aws-auth).     *)
(***************************************************************************)
EXTENDS ManagedProvider

Stacks == {"role", "vpc", "nodes"}

newconnector == Connect("image", "dsets") /\ UNCHANGED store

-----------------------------------------------------------------------------
(* PrepareCloud *)

DetectInstanceImage == Check("image", TRUE, "role") /\ UNCHANGED store

isStackExists(kind, from, found, missing) ==
    Find(from, Only(kind), found, missing) /\ UNCHANGED store

\* External: the name of a stack is taken.
createStack(kind, ok, from, to) ==
    Make(from, ok /\ Only(kind) = {}, kind, 0, {}, to) /\ UNCHANGED store

WaitForStackOperation(kind, from, to) == WaitFor(from, Only(kind), to)

getOutput(kind, from, to) == Check(from, Up(kind) # {}, to) /\ UNCHANGED store

ensureStackServiceRole ==
    \/ isStackExists("role", "role", "roleGet", "roleMake")
    \/ createStack("role", TRUE, "roleMake", "roleWait")
    \/ WaitForStackOperation("role", "roleWait", "roleGet")
    \/ getOutput("role", "roleGet", "key")

getPublicKey    == Find("key", Only("key"), "vpc", "keyMake") /\ UNCHANGED store
importPublicKey == Make("keyMake", Only("key") = {}, "key", 0, {}, "vpc") /\ UNCHANGED store

ensureClusterVPC ==
    \/ isStackExists("vpc", "vpc", "vpcGet", "vpcMake")
    \/ createStack("vpc", TRUE, "vpcMake", "vpcWait")
    \/ WaitForStackOperation("vpc", "vpcWait", "vpcGet")
    \/ getOutput("vpc", "vpcGet", "plane")

isControlPlaneExists(from, found, missing) ==
    Find(from, Only("plane"), found, missing) /\ UNCHANGED store

createControlPlane ==
    Make("planeMake", Only("plane") = {}, "plane", 0, {}, "planeWait") /\ UNCHANGED store

WaitForControlPlaneOperation == WaitFor("planeWait", Only("plane"), "save")

\* The ids of the VPC are stored with the cluster.
PrepareCloud == Save("save", mem.endp, {"vpc"}, "client") /\ UNCHANGED store

\* Panics while the control plane has no certificate yet.
GetEKSAdminClient == Check("client", Up("plane") # {}, "ready") /\ UNCHANGED store

-----------------------------------------------------------------------------
(* ApplyScale, in ApplyCreate and in ApplyDelete, which ignores its errors *)

Deleting == mem.phase = "Deleting"

\* Mutant: an error of ApplyScale ends ApplyDelete.
ScaleStrict(from, ok, to) == Check(from, ok, to) /\ UNCHANGED store

Scale(from, ok, to) ==
    Check(from, ok \/ Deleting, IF ok THEN to ELSE "dplane") /\ UNCHANGED store

ScaleSteps == {"scale", "ng", "ngMake", "ngWait", "ngAuth", "ngDelete", "ngForget",
               "ngStatus", "scaled"}

\* Some call of ApplyScale fails while the cluster is being deleted.
scaleFails ==
    /\ pc \in ScaleSteps /\ Deleting /\ lost < MaxLost
    /\ lost' = lost + 1 /\ Continue("dplane")
    /\ UNCHANGED <<db, cloud, sets, torn, aborts, ng, pki>>

ApplyScale ==
    \/ ng # "none" /\ Scale("scale", Up("plane") # {}, "ng")
    \/ ng = "none" /\ Scale("scale", Up("plane") # {}, "scaled")
    \/ Update("scaled", IF Deleting THEN "dplane" ELSE "end")
    \/ Done("end")

nodeGroupExists == isStackExists("nodes", "ng", "ngFound", "ngMake")

\* Without the ids of the VPC the parameters are not valid.
createNodeGroup ==
    \/ Only("nodes") = {} /\ mem.ids # {} /\ createStack("nodes", TRUE, "ngMake", "ngWait")
    \/ (Only("nodes") # {} \/ mem.ids = {}) /\ Scale("ngMake", FALSE, "ngWait")

WaitForNodeGroup ==
    /\ \A r \in Only("nodes") : r.has \cap {"done", "failed", "deleting"} # {}
    /\ Scale("ngWait", Up("nodes") # {}, "ngAuth")

newNodeAuthConfigMap ==
    IF Up("plane") # {}
    THEN Mark("ngAuth", TRUE, Only("plane"), {"auth"}, "ngStatus") /\ UNCHANGED store
    ELSE Scale("ngAuth", FALSE, "ngStatus")

\* An existing node group is updated (errors are logged), or deleted if it was
\* marked.
NodeGroupApply == Check("ngFound", TRUE, IF ng = "marked" THEN "ngDelete" ELSE "ngStatus") /\ UNCHANGED store

deleteStack(kind, from, to) ==
    /\ pc = from /\ Continue(to)
    /\ \/ cloud' = Marked(Only(kind), {"deleting"}) /\ UNCHANGED lost
       \/ Only(kind) # {} /\ lost < MaxLost /\ lost' = lost + 1 /\ UNCHANGED cloud
    /\ UNCHANGED <<db, sets, torn, aborts, ng, pki>>

NodeGroup ==
    \/ nodeGroupExists \/ createNodeGroup \/ WaitForNodeGroup \/ newNodeAuthConfigMap
    \/ NodeGroupApply \/ deleteStack("nodes", "ngDelete", "ngForget")
    \/ Forget("ngForget", "scaled") \/ UpdateStatus("ngStatus", "scaled")

-----------------------------------------------------------------------------
(* ApplyDelete: nothing is waited for, and every error is logged *)

deleteControlPlane ==
    \/ isControlPlaneExists("dplane", "dplaneFound", "drole")
    \/ deleteStack("plane", "dplaneFound", "drole")

deleteStacks ==
    \/ isStackExists("role", "drole", "droleFound", "dvpc")
    \/ deleteStack("role", "droleFound", "dvpc")
    \/ isStackExists("vpc", "dvpc", "dvpcFound", "dkey")
    \/ deleteStack("vpc", "dvpcFound", "dkey")

deleteSSHKey == RemoveLogged("dkey", TRUE, Only("key"), "dend") /\ UNCHANGED store

MarkDeleted == Finish("dend", "Deleted") /\ UNCHANGED store

-----------------------------------------------------------------------------

Prepare ==
    \/ DetectInstanceImage \/ ensureStackServiceRole \/ getPublicKey \/ importPublicKey
    \/ ensureClusterVPC \/ isControlPlaneExists("plane", "save", "planeMake")
    \/ createControlPlane \/ WaitForControlPlaneOperation \/ PrepareCloud
    \/ GetEKSAdminClient \/ ApplyCreate("ready", Up("plane") # {}, "scale")

Teardown ==
    ApplyDelete("scale") \/ deleteControlPlane \/ deleteStacks \/ deleteSSHKey \/ MarkDeleted

Step == newconnector \/ Prepare \/ ApplyScale \/ scaleFails \/ NodeGroup \/ Teardown

\* External: a VPC that is in use is not deleted: DELETE_FAILED.
vpcKept ==
    /\ Going("vpc") # {} /\ All({"plane", "nodes"}) # {}
    /\ cloud' = (cloud \ Only("vpc")) \cup {[r EXCEPT !.has = @ \ {"deleting"}] : r \in Only("vpc")}
    /\ UNCHANGED <<pc, db, mem, net, cur, sets, torn, aborts, lost, ng, pki>>

Environment ==
    \/ Provision(Stacks \cup {"plane"})
    \/ Withdraw(Going("plane")) \/ Withdraw(Going("role")) \/ Withdraw(Going("nodes"))
    \/ Withdraw(IF All({"plane", "nodes"}) = {} THEN Going("vpc") ELSE {})
    \/ vpcKept

Next == runApplyCmd \/ deleteCluster \/ DeleteMachineSet \/ Step \/ Kill \/ Environment

Spec == ManagedInit /\ [][Next]_managedVars

-----------------------------------------------------------------------------
(* Properties *)

NoTwins == \A r, q \in cloud : r.kind = q.kind => r = q

\* When the cluster is marked Deleted nothing has been waited for.  Once the
\* cloud is done, two things may be left: the VPC, whose deletion fails while
\* the control plane uses it, and a node group, made by the very deletion when
\* it was not there.
NetworkGone ==
    torn /\ lost = 0 /\ (\A r \in cloud : "deleting" \notin r.has) =>
        \A r \in cloud : r.kind \in {"vpc", "nodes"}

\* Endpoint and certificate are asked of the cloud.
GetKubeConfig == Up("plane") # {}

\* A Ready cluster without a failure on the way has its node group, and the
\* nodes may join.
Served ==
    GetKubeConfig /\ (ng = "wanted" => Up("nodes") # {} /\ With("plane", "auth") # {})

\* What CloudFormation failed to create is found and never created again.
Resumable == (\A r \in cloud : r.has \cap {"failed", "deleting"} = {}) /\ NoFaultsLeft

Deletable == NoFaultsLeft
=============================================================================
