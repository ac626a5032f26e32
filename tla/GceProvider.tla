---------------------------- MODULE GceProvider -----------------------------
(***************************************************************************)
(* The GCE provider.  Resources have names derived from the cluster's and  *)
(* GCE refuses a second one of a name.  The network and one firewall rule  *)
(* are the project's and are never deleted.  Every deletion is attempted   *)
(* once: an error is logged and the cluster is marked Deleted all the same.*)
(***************************************************************************)
EXTENDS CloudProvider

Project  == {"metadata", "network", "fw-default"}
Balancer == {"address", "healthcheck", "pool", "rule"}

\* External: GCE refuses a name that is taken.
Insert(from, ok, kind, to) == Make(from, ok /\ Only(kind) = {}, kind, 0, {}, to)

\* Where the code takes "alreadyExists" for success.
InsertIfMissing(from, kind, to) ==
    IF Only(kind) # {} THEN Check(from, TRUE, to) ELSE Make(from, TRUE, kind, 0, {}, to)

newconnector == Connect("key", "dworkers")

-----------------------------------------------------------------------------
(* PrepareCloud *)

\* Sets the project's metadata, as often as it is called.
importPublicKey == InsertIfMissing("key", "metadata", "network")

getNetworks    == Find("network", Only("network"), "rules", "networkMake")
ensureNetworks == Insert("networkMake", TRUE, "network", "rules")

\* One look at the three rules of the cluster; an error is a missing rule.
getFirewallRules ==
    LET all == \A k \in {"fw-cluster", "fw-ssh", "fw-api"} : Only(k) # {}
    IN Find("rules", IF all THEN Only("fw-api") ELSE {}, "lb", "fwDefault")

\* Each rule is looked for again, and inserted where the look-up fails.
ensureRule(kind, from, make, to) ==
    \/ Find(from, Only(kind), to, make)
    \/ Insert(make, Only("network") # {}, kind, to)

ensureFirewallRules ==
    \/ ensureRule("fw-default", "fwDefault", "fwDefaultMake", "fwCluster")
    \/ ensureRule("fw-cluster", "fwCluster", "fwClusterMake", "fwSave")
    \/ Save("fwSave", mem.endp, {"fw-cluster"}, "fwSsh")
    \/ ensureRule("fw-ssh", "fwSsh", "fwSshMake", "fwApi")
    \/ ensureRule("fw-api", "fwApi", "fwApiMake", "fwSaveApi")
    \/ Save("fwSaveApi", mem.endp, {"fw-api"}, "lb")

getLoadBalancer ==
    LET all == \A k \in Balancer : Only(k) # {}
    IN Find("lb", IF all THEN Only("address") ELSE {}, "endpoint", "address")

\* Mutant: "alreadyExists" is an error.
createLoadBalancerStrict ==
    \/ Insert("address", TRUE, "address", "healthcheck")
    \/ Insert("healthcheck", TRUE, "healthcheck", "pool")
    \/ Insert("pool", TRUE, "pool", "rule")
    \/ Insert("rule", TRUE, "rule", "endpoint")

createLoadBalancer ==
    \/ InsertIfMissing("address", "address", "healthcheck")
    \/ InsertIfMissing("healthcheck", "healthcheck", "pool")
    \/ InsertIfMissing("pool", "pool", "rule")
    \/ InsertIfMissing("rule", "rule", "endpoint")

\* The endpoint is kept in memory only.
ensureLoadBalancer ==
    /\ pc = "endpoint" /\ pc' = "master"
    /\ mem' = [mem EXCEPT !.endp = TRUE]
    /\ UNCHANGED <<db, cloud, net, cur, sets, torn, aborts, lost>>

-----------------------------------------------------------------------------
(* EnsureMaster *)

getMasterInstance == Find("master", Only("master"), "ready", "disk")
getMasterPDDisk   == Find("disk", Only("disk"), "masterMake", "diskMake")
createDisk        == Insert("diskMake", TRUE, "disk", "masterMake")
createMasterIntance ==
    Insert("masterMake", Only("disk") # {} /\ Only("network") # {}, "master", "masterWait")

\* Polls until the operation is done, or times out: Abort.
waitForZoneOperation ==
    With("master", "running") # {} /\ Check("masterWait", TRUE, "ready")

Reachable ==
    /\ With("master", "running") # {}
    /\ \A k \in Balancer \cup {"fw-api", "network"} : Only(k) # {}

-----------------------------------------------------------------------------
(* ApplyDelete *)

\* The masters that are stored; an instance that is gone already is an error
\* too, and logged.
deleteMaster == RemoveLogged("dmaster", TRUE, Only("master"), "dfwCluster")

deleteFirewall(kind, from, to) == RemoveLogged(from, TRUE, Only(kind), to)
deleteFirewalls ==
    \/ deleteFirewall("fw-cluster", "dfwCluster", "dfwSsh")
    \/ deleteFirewall("fw-ssh", "dfwSsh", "dfwApi")
    \/ deleteFirewall("fw-api", "dfwApi", "ddisk")

\* External: a disk in use is not deleted.
deleteDisk == RemoveLogged("ddisk", Only("master") = {}, Only("disk"), "daddress")

\* Mutant: the error is returned instead of logged.
deletePartReturn(kind, ok, from, to) == Remove(from, Only(kind) = {} \/ ok, Only(kind), to)

\* A part of the balancer; any error ends its deletion.
deletePart(kind, ok, from, to) ==
    /\ pc = from
    /\ \/ (Only(kind) = {} \/ ok) /\ cloud' = cloud \ Only(kind) /\ Continue(to) /\ UNCHANGED lost
       \/ Only(kind) # {} /\ ~ok /\ Continue("dend") /\ UNCHANGED <<cloud, lost>>
       \/ lost < MaxLost /\ lost' = lost + 1 /\ Continue("dend") /\ UNCHANGED cloud
    /\ UNCHANGED <<db, sets, torn, aborts>>

\* The address goes first, while the forwarding rule uses it.  External: GCE
\* refuses that, at once or in the operation that nobody waits for.
deleteLoadBalancer ==
    \/ deletePart("address", Only("rule") = {}, "daddress", "drule")
    \/ Only("rule") # {} /\ Only("address") # {} /\ Check("daddress", TRUE, "drule")
    \/ deletePart("rule", TRUE, "drule", "dpool")
    \/ deletePart("pool", Only("rule") = {}, "dpool", "dhealth")
    \/ deletePart("healthcheck", Only("pool") = {}, "dhealth", "dend")

ApplyDelete == Finish("dend", "Deleted")

-----------------------------------------------------------------------------

Prepare ==
    \/ importPublicKey \/ getNetworks \/ ensureNetworks \/ getFirewallRules
    \/ ensureFirewallRules \/ getLoadBalancer \/ createLoadBalancer \/ ensureLoadBalancer

Master ==
    \/ getMasterInstance \/ getMasterPDDisk \/ createDisk \/ createMasterIntance
    \/ waitForZoneOperation \/ MarkReady("ready", Reachable)

Teardown ==
    \/ StartDelete("dworkers", Reachable, "dmaster")
    \/ deleteMaster \/ deleteFirewalls \/ deleteDisk \/ deleteLoadBalancer \/ ApplyDelete

Step == newconnector \/ Prepare \/ Master \/ Teardown

Environment ==
    \/ Boot({"master"}, "masterWait")
    \/ ControllerScale(With("master", "running"), "dmaster")

Next == Apply \/ DeleteCluster \/ Step \/ Abort \/ Environment

Spec == Init /\ [][Next]_vars

-----------------------------------------------------------------------------
(* Properties *)

\* GCE's names keep every resource unique, failed look-ups included.
NoTwins == \A r, q \in cloud : r.kind = q.kind => r = q

\* When the cluster is marked Deleted its master, disk and firewall rules are
\* gone, unless an error was logged.  What may be left: the balancer, whose
\* address cannot be deleted first, and a worker that the controller had not
\* removed when its master went.
NetworkGone ==
    torn /\ lost = 0 => \A r \in cloud : r.kind \in Project \cup Balancer \cup {"worker"}

\* Everything an interrupted run has left is taken over by the next.
Resumable == aborts = MaxAborts /\ lost = MaxLost

\* No error stops the deletion.
Deletable == aborts = MaxAborts /\ lost = MaxLost
=============================================================================
