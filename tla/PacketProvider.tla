--------------------------- MODULE PacketProvider ---------------------------
(***************************************************************************)
(* The Packet provider: a key of the project and the machines.  There is   *)
(* no load balancer: the API endpoint is the address of the master, and    *)
(* only the run that creates the master learns it.  Packet accepts several *)
(* devices of one host name.  The machine actuator makes the workers.      *)
(***************************************************************************)
EXTENDS CloudProvider

\* The actuator's work on the Machine object of a worker.
VARIABLE ctl

packetVars == <<vars, ctl>>

newconnector == Connect("key", "dworkers")

-----------------------------------------------------------------------------
(* PrepareCloud *)

\* By the recorded id if there is one, else by its label; here an error is
\* returned.
getPublicKey == Check("key", TRUE, IF Only("key") # {} THEN "master" ELSE "keyImport")

importPublicKey == Make("keyImport", Only("key") = {}, "key", 0, {}, "master")

-----------------------------------------------------------------------------
(* EnsureMaster *)

\* An error of the look-up is taken for a missing device.
instanceIfExists == Find("master", Only("master"), "ready", "masterMake")

CreateInstance == Make("masterMake", Only("key") # {}, "master", 0, {}, "masterWait")

\* Times out unless the device becomes active: Abort.
waitForInstance ==
    /\ \A r \in Current("master") : "running" \in r.has
    /\ Check("masterWait", TRUE, "save")

\* The address is stored after the device is up; an endpoint that is stored
\* already stays the first one.
EnsureMaster ==
    Save("save", TRUE, IF mem.ids = {} THEN {cur} ELSE {}, "ready")

Reachable == \E m \in With("master", "running") : m.id \in mem.ids

-----------------------------------------------------------------------------
(* ApplyDelete *)

Listed == Reachable

\* The masters that have joined, listed through the API server.
listMasters ==
    \/ Check("dlist", TRUE, IF Listed THEN "dmaster" ELSE "dend")
    \/ /\ Listed /\ lost < MaxLost /\ lost' = lost + 1
       /\ pc = "dlist" /\ Continue("dend")
       /\ UNCHANGED <<db, cloud, sets, torn, aborts>>

\* A second master of the same name has made a cluster of its own.
DeleteInstanceByProviderID ==
    RemoveLogged("dmaster", TRUE, {m \in Only("master") : m.id \in mem.ids}, "dend")

ApplyDelete == Finish("dend", "Deleted")

-----------------------------------------------------------------------------
(* The machine actuator *)

Alive == \E m \in With("master", "running") : m.id \in db.ids

Reconcile(from, to) ==
    /\ Alive /\ ctl = from /\ ctl' = to
    /\ UNCHANGED <<pc, db, mem, net, cur, sets, torn, aborts>>

\* External: the machine set controller adds the Machine object.
AddMachine == sets /\ Reconcile("none", "new") /\ UNCHANGED <<cloud, lost>>

\* Exists answers "no" when the look-up fails.
Exists ==
    \/ Reconcile("new", IF Only("worker") # {} THEN "status" ELSE "make") /\ UNCHANGED <<cloud, lost>>
    \/ /\ Only("worker") # {} /\ lost < MaxLost /\ lost' = lost + 1
       /\ Reconcile("new", "make") /\ UNCHANGED cloud

Create ==
    /\ FreshIds("worker") # {} /\ Reconcile("make", "wait")
    /\ cloud' = cloud \cup {Resource("worker", FreshId("worker"), 0, {})}
    /\ UNCHANGED lost

\* The worker comes up, or the wait times out: the object is reconciled again.
workerWait ==
    /\ Reconcile("wait", IF With("worker", "running") # {} THEN "status" ELSE "new")
    /\ UNCHANGED <<cloud, lost>>

updateMachineStatus == Reconcile("status", "up") /\ UNCHANGED <<cloud, lost>>

\* Deletes one device of the name; the object goes in any case.
Delete ==
    /\ ~sets
    /\ \E from \in {"new", "up"} : Reconcile(from, "none")
    /\ \/ /\ cloud' = cloud \ {w \in Only("worker") : w.id = First(Only("worker"))}
          /\ UNCHANGED lost
       \/ Only("worker") # {} /\ lost < MaxLost /\ lost' = lost + 1 /\ UNCHANGED cloud

Actuator ==
    AddMachine \/ Exists \/ Create \/ workerWait \/ updateMachineStatus \/ Delete

-----------------------------------------------------------------------------

Prepare == getPublicKey \/ importPublicKey

Master ==
    \/ instanceIfExists \/ CreateInstance \/ waitForInstance \/ EnsureMaster
    \/ MarkReady("ready", Reachable)

Teardown ==
    \/ StartDelete("dworkers", Reachable, "dkube") \/ GetAdminClient("dkube", "dlist")
    \/ listMasters \/ DeleteInstanceByProviderID \/ ApplyDelete

Step == newconnector \/ Prepare \/ Master \/ Teardown

Command == (Apply \/ DeleteCluster \/ Step \/ Abort) /\ UNCHANGED ctl

Environment == Actuator \/ (Boot({"master", "worker"}, "masterWait") /\ UNCHANGED ctl)

Next == Command \/ Environment

PacketInit == Init /\ ctl = "none"

Spec == PacketInit /\ [][Next]_packetVars

-----------------------------------------------------------------------------
(* Properties *)

\* Two masters of a cluster, or two workers of a Machine, need a look-up that
\* failed, one for each.
NoTwins == \A k \in {"key", "master", "worker"} : Cardinality(Only(k)) <= 1 + lost

\* When the cluster is marked Deleted, its master is gone unless an error was
\* logged.  The key stays, and so do workers that the actuator had not removed
\* when its master went.
NetworkGone == torn /\ lost = 0 => \A r \in cloud : r.kind \in {"key", "worker"}

\* A master whose address was not stored stays unknown: every later apply finds
\* the device and leaves without an endpoint.
Resumable ==
    /\ \A m \in Only("master") : m.id \in db.ids
    /\ aborts = MaxAborts /\ lost = MaxLost

\* ApplyDelete needs an endpoint: a cluster whose creation stopped before
\* EnsureMaster stored one cannot be deleted.
Deletable == db.endp /\ aborts = MaxAborts /\ lost = MaxLost
=============================================================================
