--------------------------- MODULE LinodeProvider ---------------------------
(***************************************************************************)
(* The Linode provider: a NodeBalancer, a StackScript per machine and the  *)
(* instances, made by the pharmer command (the master) and by the machine  *)
(* actuator that runs in the cluster (the workers).  The command and the   *)
(* actuator share the cloud and run side by side.                          *)
(*                                                                         *)
(* Marks: "config" (the balancer has its port), "lb" (the master is behind *)
(* the balancer), "running".                                               *)
(***************************************************************************)
EXTENDS CloudProvider

\* The actuator's work on the Machine object of a worker, "none" if there is
\* no such object.
VARIABLE ctl

linodeVars == <<vars, ctl>>

newconnector == Connect("lb", "dworkers")

-----------------------------------------------------------------------------
(* PrepareCloud *)

lbByName(from, found, missing) == Find(from, Only("lb"), found, missing)

\* Mutant: creates without the second look.
createLoadBalancerBlind == Check("lbAgain", TRUE, "lbMake")

\* Looks again; an error other than "not found" is taken for a balancer and
\* the command panics.
createLoadBalancer ==
    \/ Check("lbAgain", TRUE, IF Only("lb") = {} THEN "lbMake" ELSE "endpoint")
    \/ /\ Only("lb") # {} /\ lost < MaxLost /\ lost' = lost + 1
       /\ pc = "lbAgain" /\ Return
       /\ UNCHANGED <<db, cloud, sets, torn, aborts>>

createNodeBalancer       == Make("lbMake", TRUE, "lb", 0, {}, "lbGet")
buildLoadBalancerRequest == Check("lbGet", Current("lb") # {}, "lbConfig")
createNodeBalancerConfig == Mark("lbConfig", TRUE, Current("lb"), {"config"}, "endpoint")

PrepareCloud ==
    /\ pc = "endpoint" /\ pc' = "master"
    /\ mem' = [mem EXCEPT !.endp = TRUE]
    /\ UNCHANGED <<db, cloud, net, cur, sets, torn, aborts, lost>>

-----------------------------------------------------------------------------
(* EnsureMaster *)

\* An error of the look-up is taken for a missing instance.
instanceIfExists == Find("master", Only("master"), "ready", "script")

createOrUpdateStackScript(from, to) ==
    IF Only("script-master") = {}
    THEN Make(from, TRUE, "script-master", 0, {}, to)
    ELSE Check(from, Cardinality(Only("script-master")) = 1, to)

getStartupScriptID == Check("scriptId", Cardinality(Only("script-master")) = 1, "masterMake")

\* External: Linode refuses a label that is taken.
CreateInstance == Make("masterMake", Only("master") = {}, "master", 0, {}, "masterWait")

\* Times out unless the instance comes up: Abort.
waitForStatus ==
    /\ \A r \in Current("master") : "running" \in r.has
    /\ Check("masterWait", TRUE, "masterReg")

\* Uses the first port of the balancer; without one the command panics.
addNodeToBalancer ==
    Mark("masterReg", With("lb", "config") # {}, Current("master"), {"lb"}, "save")

EnsureMaster == Save("save", mem.endp, {}, "ready")

Reachable ==
    /\ With("lb", "config") # {}
    /\ \E m \in With("master", "lb") : "running" \in m.has

-----------------------------------------------------------------------------
(* ApplyDelete: the nodes are listed through the API server *)

Listed == Reachable

\* Mutant: the balancer goes first, and the API server with it.
deleteBalancerFirst == Remove("dnodes", TRUE, Only("lb"), "dmasters")

\* The scripts of the workers that have joined.
deleteNodeScripts ==
    RemoveLogged("dnodes", Listed /\ With("worker", "running") # {},
                 Only("script-node"), "dmasters")

listMasters ==
    \/ Check("dmasters", TRUE, IF Listed THEN "dscript" ELSE "dlb")
    \/ /\ Listed /\ lost < MaxLost /\ lost' = lost + 1
       /\ pc = "dmasters" /\ Continue("dlb")
       /\ UNCHANGED <<db, cloud, sets, torn, aborts>>

DeleteStackScript == RemoveLogged("dscript", TRUE, Only("script-master"), "dmaster")
DeleteInstanceByProviderID == RemoveLogged("dmaster", TRUE, Only("master"), "dlb")

deleteLoadBalancer == Remove("dlb", TRUE, Only("lb"), "dend")

ApplyDelete == Finish("dend", "Deleted")

-----------------------------------------------------------------------------
(* The machine actuator, while a master is up.  A call that fails ends the   *)
(* reconciliation, and the object is reconciled again.                       *)

Alive == With("master", "running") # {}

Reconcile(from, to) ==
    /\ Alive /\ ctl = from /\ ctl' = to
    /\ UNCHANGED <<pc, db, mem, net, cur, sets, torn, aborts>>

\* External: the machine set controller adds the Machine object.
AddMachine == sets /\ Reconcile("none", "new") /\ UNCHANGED <<cloud, lost>>

\* Exists answers "no" when the look-up fails.
Exists ==
    \/ Reconcile("new", IF Only("worker") # {} THEN "status" ELSE "script") /\ UNCHANGED <<cloud, lost>>
    \/ /\ Only("worker") # {} /\ lost < MaxLost /\ lost' = lost + 1
       /\ Reconcile("new", "script") /\ UNCHANGED cloud

workerScript ==
    /\ Reconcile("script", IF Cardinality(Only("script-node")) > 1 THEN "new" ELSE "instance")
    /\ cloud' = cloud \cup IF Only("script-node") = {}
                           THEN {Resource("script-node", 1, 0, {})} ELSE {}
    /\ UNCHANGED lost

\* Workers only: masters are created by EnsureMaster, so the branch that puts a new
\* control plane machine behind the balancer is not taken.
Create ==
    /\ Reconcile("instance", IF Only("worker") = {} THEN "wait" ELSE "new")
    /\ cloud' = cloud \cup IF Only("worker") = {} THEN {Resource("worker", 1, 0, {})} ELSE {}
    /\ UNCHANGED lost

\* The worker comes up, or the wait times out.
workerWait ==
    /\ Reconcile("wait", IF With("worker", "running") # {} THEN "status" ELSE "new")
    /\ UNCHANGED <<cloud, lost>>

updateMachineStatus ==
    /\ Reconcile("status", IF Only("worker") # {} THEN "up" ELSE "new")
    /\ UNCHANGED <<cloud, lost>>

\* The object goes, whether or not the instance does.
Delete ==
    /\ ~sets
    /\ \E from \in {"new", "up"} : Reconcile(from, "none")
    /\ \/ cloud' = cloud \ Only("worker") /\ UNCHANGED lost
       \/ Only("worker") # {} /\ lost < MaxLost /\ lost' = lost + 1 /\ UNCHANGED cloud

\* The cluster actuator makes the balancer again when it is gone: it runs as
\* long as a master does, also after the cluster was marked Deleted.
ReconcileCluster ==
    /\ Alive /\ db.phase # "Pending" /\ Only("lb") = {}
    /\ cloud' = cloud \cup {Resource("lb", 1, 0, {"config"})}
    /\ UNCHANGED <<pc, db, mem, net, cur, sets, torn, aborts, lost, ctl>>

Actuator ==
    \/ ReconcileCluster
    \/ AddMachine \/ Exists \/ workerScript \/ Create \/ workerWait
    \/ updateMachineStatus \/ Delete

-----------------------------------------------------------------------------

Prepare ==
    \/ lbByName("lb", "endpoint", "lbAgain") \/ createLoadBalancer \/ createNodeBalancer
    \/ buildLoadBalancerRequest \/ createNodeBalancerConfig \/ PrepareCloud

Master ==
    \/ instanceIfExists \/ createOrUpdateStackScript("script", "scriptAgain")
    \/ createOrUpdateStackScript("scriptAgain", "scriptId") \/ getStartupScriptID
    \/ CreateInstance \/ waitForStatus \/ addNodeToBalancer \/ EnsureMaster
    \/ MarkReady("ready", Reachable)

Teardown ==
    \/ StartDelete("dworkers", Reachable, "dkube") \/ GetAdminClient("dkube", "dnodes")
    \/ deleteNodeScripts \/ listMasters \/ DeleteStackScript \/ DeleteInstanceByProviderID
    \/ deleteLoadBalancer \/ ApplyDelete

Step == newconnector \/ Prepare \/ Master \/ Teardown

Command == (Apply \/ DeleteCluster \/ Step \/ Abort) /\ UNCHANGED ctl

Environment == Actuator \/ (Boot({"master", "worker"}, "masterWait") /\ UNCHANGED ctl)

Next == Command \/ Environment

LinodeInit == Init /\ ctl = "none"

Spec == LinodeInit /\ [][Next]_linodeVars

-----------------------------------------------------------------------------
(* Properties *)

\* Both the command and the actuator take a failed look-up for a missing
\* instance; the label keeps instances unique, and the second look of
\* createLoadBalancer the balancer.
NoTwins == \A r, q \in cloud : r.kind = q.kind => r = q

\* When the cluster is marked Deleted, its master, the master's script and the
\* balancer are gone unless an error was logged; a worker (with its script) is
\* left if the actuator had not removed it when its master went, and the script
\* of a worker that had not joined.
NetworkGone ==
    torn /\ lost = 0 => \A r \in cloud : r.kind \in {"worker", "script-node"}

\* Left as they are by every later apply: a balancer without a port, a master
\* that is not behind the balancer.
Resumable ==
    /\ \A r \in Only("lb") : "config" \in r.has
    /\ \A r \in Only("master") : "lb" \in r.has
    /\ aborts = MaxAborts /\ lost = MaxLost

\* ApplyDelete needs an endpoint: a cluster whose creation stopped before
\* EnsureMaster stored one cannot be deleted.
Deletable == db.endp /\ aborts = MaxAborts /\ lost = MaxLost
=============================================================================
