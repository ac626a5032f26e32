--------------------------- MODULE CloudProvider ----------------------------
(***************************************************************************)
(* What the providers that build a cluster from machines have in common:   *)
(* the pharmer command that works on one cluster, the resources it has     *)
(* made in the cloud, and the calls it makes.  The module of a provider    *)
(* extends this one and gives the steps of PrepareCloud, EnsureMaster and  *)
(* ApplyDelete.                                                            *)
(*                                                                         *)
(* A resource is created by one call and completed by others (tags,        *)
(* attachments, rules), and found again by what those calls left on it.    *)
(* So a resource carries a set of marks, and a look-up is a condition on   *)
(* marks.  A command that ends between two calls leaves a resource with    *)
(* some of its marks; whatever the next command makes of it is what the    *)
(* properties are about.                                                   *)
(***************************************************************************)
EXTENDS Naturals, FiniteSets

CONSTANTS
    MaxTwins,   \* bound: resources of one kind that exist at once
    MaxAborts,  \* bound: calls that fail and commands that are killed
    MaxLost     \* bound: errors that the code only logs

ASSUME ProviderBounds ==
    MaxTwins \in Nat /\ MaxAborts \in Nat /\ MaxLost \in Nat

VARIABLES
    pc,      \* next step of the command, "idle" if there is none
    db,      \* the stored cluster
    mem,     \* the command's copy of it (cm.Cluster)
    cloud,   \* the resources that exist
    net,     \* id of the network the command works in
    cur,     \* id of the resource the command is setting up
    sets,    \* kube: there are MachineSets inside the cluster
    torn,    \* history: ApplyDelete has returned without an error
    aborts,  \* calls that failed, commands that were killed
    lost     \* errors that were only logged

vars == <<pc, db, mem, cloud, net, cur, sets, torn, aborts, lost>>

-----------------------------------------------------------------------------
(* Data *)

\* Phase, DeletionTimestamp, API endpoint, and the cloud ids and other facts
\* that were recorded in the spec or the status.
Cluster(phase, del, endp, ids) ==
    [phase |-> phase, del |-> del, endp |-> endp, ids |-> ids]

NewCluster == Cluster("Pending", FALSE, FALSE, {})

Resource(kind, id, in, has) == [kind |-> kind, id |-> id, in |-> in, has |-> has]

All(kinds)       == {r \in cloud : r.kind \in kinds}
Only(kind)       == All({kind})
With(kind, mark) == {r \in Only(kind) : mark \in r.has}
In(n, S)         == {r \in S : r.in = n}

\* A list call returns the oldest resource first.
First(S) == (CHOOSE r \in S : \A q \in S : r.id <= q.id).id

FreshIds(kind) == {i \in 1..MaxTwins : \A r \in Only(kind) : r.id # i}
FreshId(kind)  == CHOOSE i \in FreshIds(kind) : \A j \in FreshIds(kind) : i <= j

Marked(S, marks) ==
    (cloud \ S) \cup {[r EXCEPT !.has = @ \cup marks] : r \in S}

Current(kind) == {r \in Only(kind) : r.id = cur}

-----------------------------------------------------------------------------
(* Calls *)

Continue(to) == pc' = to /\ UNCHANGED <<mem, net, cur>>

\* The command ends, with or without an error.
Return == pc' = "idle" /\ mem' = NewCluster /\ net' = 0 /\ cur' = 0

\* The result of a call that the state decides: ok, or an error that the
\* command returns.
Decide(ok, to) == IF ok THEN Continue(to) ELSE Return

\* A step that changes neither the cloud nor the cluster.
Check(from, ok, to) ==
    /\ pc = from
    /\ Decide(ok, to)
    /\ UNCHANGED <<db, cloud, sets, torn, aborts, lost>>

\* A look-up whose error is only logged: then nothing was found.
Find(from, S, found, missing) ==
    /\ pc = from
    /\ \/ S # {} /\ pc' = found /\ cur' = First(S) /\ UNCHANGED lost
       \/ /\ pc' = missing /\ cur' = 0
          /\ lost' = IF S = {} THEN lost ELSE lost + 1
          /\ lost' <= MaxLost
    /\ UNCHANGED <<db, mem, cloud, net, sets, torn, aborts>>

\* A creating call, refused by the cloud unless ok.
Make(from, ok, kind, in, marks, to) ==
    /\ pc = from
    /\ IF ok /\ FreshIds(kind) # {}
       THEN /\ cloud' = cloud \cup {Resource(kind, FreshId(kind), in, marks)}
            /\ cur' = FreshId(kind) /\ pc' = to /\ UNCHANGED <<mem, net>>
       ELSE Return /\ UNCHANGED cloud
    /\ UNCHANGED <<db, sets, torn, aborts, lost>>

\* A call that completes the resources S.
Mark(from, ok, S, marks, to) ==
    /\ pc = from
    /\ Decide(ok, to)
    /\ cloud' = IF ok THEN Marked(S, marks) ELSE cloud
    /\ UNCHANGED <<db, sets, torn, aborts, lost>>

\* Tags are set one by one, in any order: an error leaves some of them.
Tag(from, S, tags, to) ==
    /\ pc = from
    /\ \/ /\ Continue(to) /\ UNCHANGED aborts
          /\ cloud' = Marked(S, tags)
       \/ /\ aborts < MaxAborts /\ aborts' = aborts + 1
          /\ Return
          /\ \E some \in (SUBSET tags) \ {tags} : cloud' = Marked(S, some)
    /\ UNCHANGED <<db, sets, torn, lost>>

\* A deleting call for the resources S, refused unless ok.
Remove(from, ok, S, to) ==
    /\ pc = from
    /\ Decide(ok, to)
    /\ cloud' = IF ok THEN cloud \ S ELSE cloud
    /\ UNCHANGED <<db, sets, torn, aborts, lost>>

\* The same where an error is only logged.
RemoveLogged(from, ok, S, to) ==
    /\ pc = from
    /\ Continue(to)
    /\ \/ cloud' = (IF ok THEN cloud \ S ELSE cloud) /\ UNCHANGED lost
       \/ S # {} /\ lost < MaxLost /\ lost' = lost + 1 /\ UNCHANGED cloud
    /\ UNCHANGED <<db, sets, torn, aborts>>

\* Removes the resources S one after the other; goes on when there are none.
RemoveEach(from, ok, S, to) ==
    /\ pc = from
    /\ \/ S = {} /\ Continue(to) /\ UNCHANGED cloud
       \/ S # {} /\ ok /\ Continue(from) /\ \E r \in S : cloud' = cloud \ {r}
       \/ S # {} /\ ~ok /\ Return /\ UNCHANGED cloud
    /\ UNCHANGED <<db, sets, torn, aborts, lost>>

\* StoreProvider.Clusters().Update(cm.Cluster), with what the command has
\* found out about the cluster.
Save(from, endp, ids, to) ==
    /\ pc = from
    /\ mem' = [mem EXCEPT !.endp = endp, !.ids = @ \cup ids]
    /\ db' = mem' /\ pc' = to
    /\ UNCHANGED <<cloud, net, cur, sets, torn, aborts, lost>>

-----------------------------------------------------------------------------
(* The parts of the command around the provider *)

Init ==
    /\ pc = "idle" /\ db = NewCluster /\ mem = NewCluster
    /\ cloud = {} /\ net = 0 /\ cur = 0
    /\ sets = FALSE /\ torn = FALSE /\ aborts = 0 /\ lost = 0

\* pharmer delete cluster; the current phase is not looked at.
DeleteCluster ==
    /\ pc = "idle"
    /\ db' = [db EXCEPT !.del = TRUE, !.phase = "Deleting"]
    /\ UNCHANGED <<pc, mem, cloud, net, cur, sets, torn, aborts, lost>>

\* cloud.Apply up to SetCloudConnector: there is something to do for a Pending
\* cluster and for one that is to be deleted.
Apply ==
    /\ pc = "idle"
    /\ db.phase = "Pending" \/ (db.del /\ db.phase # "Deleted")
    /\ mem' = db /\ pc' = "connect"
    /\ UNCHANGED <<db, cloud, net, cur, sets, torn, aborts, lost>>

\* Once the provider's connector is there (a missing or invalid credential ends
\* the command: Abort), a Pending cluster is created, any other one deleted.
Connect(prepare, delete) ==
    Check("connect", TRUE, IF mem.phase = "Pending" THEN prepare ELSE delete)

\* The rest of ApplyCreate and ApplyScale: WaitForReadyMaster times out unless
\* the API server can be reached; then updateProviderStatus stores the whole
\* cluster, the phase follows, and the machine sets are created inside.  These
\* writes are one step here: a crash between the phase and ApplyScale, after which
\* no apply creates the machine sets, is in ClusterLifecycle.
MarkReady(from, reachable) ==
    /\ pc = from
    /\ IF reachable /\ mem.endp
       THEN db' = [mem EXCEPT !.phase = "Ready"] /\ sets' = TRUE
       ELSE UNCHANGED <<db, sets>>
    /\ Return
    /\ UNCHANGED <<cloud, torn, aborts, lost>>

\* cloud.ApplyDelete up to the provider's part: errors of
\* deleteAllWorkerMachines are only logged, the phase Deleting is stored.
StartDelete(from, reachable, to) ==
    /\ pc = from
    /\ \/ sets' = (sets /\ ~(mem.endp /\ reachable)) /\ UNCHANGED lost
       \/ sets /\ lost < MaxLost /\ lost' = lost + 1 /\ UNCHANGED sets
    /\ mem' = [mem EXCEPT !.phase = IF @ = "Ready" THEN "Deleting" ELSE @]
    /\ db' = [db EXCEPT !.phase = mem'.phase]
    /\ pc' = to
    /\ UNCHANGED <<cloud, net, cur, torn, aborts>>

\* The client for the cluster's API server, made without talking to it: only a
\* missing endpoint is an error.
GetAdminClient(from, to) == Check(from, mem.endp, to)

\* ApplyDelete of the provider returns nil.
Finish(from, phase) ==
    /\ pc = from
    /\ torn' = TRUE
    /\ db' = [db EXCEPT !.phase = phase]
    /\ Return
    /\ UNCHANGED <<cloud, sets, aborts, lost>>

\* A call fails for reasons of its own, or the command is killed.
Abort ==
    /\ pc # "idle" /\ aborts < MaxAborts
    /\ aborts' = aborts + 1
    /\ Return
    /\ UNCHANGED <<db, cloud, sets, torn, lost>>

\* External: an instance that was started comes up, while the command waits
\* for it or between two commands.
Boot(kinds, waiting) ==
    /\ pc \in {"idle", waiting}
    /\ \E r \in All(kinds) : "running" \notin r.has /\ cloud' = Marked({r}, {"running"})
    /\ UNCHANGED <<pc, db, mem, net, cur, sets, torn, aborts, lost>>

\* External: the machine controller inside the cluster creates and removes the
\* workers; it lives on the masters.  It is seen to act between two commands,
\* and before ApplyDelete takes the masters away.
ControllerScale(masters, delete) ==
    /\ masters # {} /\ pc \in {"idle", delete}
    /\ \/ sets /\ Only("worker") = {}
          /\ cloud' = cloud \cup {Resource("worker", 1, (CHOOSE m \in masters : TRUE).in, {"owner", "running"})}
       \/ ~sets /\ Only("worker") # {} /\ cloud' = cloud \ Only("worker")
    /\ UNCHANGED <<pc, db, mem, net, cur, sets, torn, aborts, lost>>
=============================================================================
