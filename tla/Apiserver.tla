------------------------------ MODULE Apiserver ------------------------------
(***************************************************************************)
(* `pharmer serve': servers that take operations on one cluster from NATS  *)
(* streaming subjects and run them against the Postgres store.             *)
(*                                                                         *)
(* Each server subscribes to the subjects create-cluster, delete-cluster   *)
(* and retry-cluster, in a queue group per subject and in manual ack mode; *)
(* one subscription calls its handler for one message at a time.  A        *)
(* message that is not acked is delivered again, to any server, where it   *)
(* may wait for the handler until after it was acked.  The cluster row and *)
(* the operation rows are written by another service before it publishes   *)
(* an operation.                                                           *)
(*                                                                         *)
(* cloud.CreateCluster and cloud.Apply are reduced to their writes of the  *)
(* cluster object; module ClusterLifecycle has their steps.                *)
(***************************************************************************)
EXTENDS Naturals

CONSTANTS
    Servers,     \* `pharmer serve' processes
    Creates,     \* operations published on create-cluster,
    Deletes,     \* on delete-cluster
    Retries,     \* and on retry-cluster
    MaxCrashes,  \* bound: servers that are killed (and started again)
    MaxFails     \* bound: cloud and store calls that return an error

ASSUME OperationsAssumption ==
    /\ Creates \cap Deletes = {}
    /\ Creates \cap Retries = {}
    /\ Deletes \cap Retries = {}

ASSUME BoundsAssumption == MaxCrashes \in Nat /\ MaxFails \in Nat

VARIABLES
    op,       \* Operation.State of each operation row
    msg,      \* each operation's message at the streaming server
    inbox,    \* messages delivered to a server and not yet handled
    db,       \* the cluster row
    keys,     \* the cluster's certificate and SSH key rows
    pc,       \* step of each handler
    cur,      \* the operation each handler works on
    opst,     \* Operation.State as each handler read it
    mem,      \* scope.Cluster of each handler
    runs,     \* how often CreateCluster was called for a create operation
    stale,    \* when the mark was last stored, a handler held an older cluster object
    crashes,
    fails

vars == <<op, msg, inbox, db, keys, pc, cur, opst, mem, runs, stale, crashes, fails>>

Ops == Creates \cup Deletes \cup Retries
NoOp == "none"
Subjects == {"create", "delete", "retry"}
Handlers == Servers \X Subjects

OpStates == {"Pending", "Running", "Done"}
Phases == {"Pending", "Ready", "Deleting", "Deleted"}
Clusters == [phase : Phases, del : BOOLEAN]

\* The row of a cluster that no operation was published for.
NewCluster == [phase |-> "Pending", del |-> FALSE]

Steps == {"idle", "claim", "mark", "savemark", "ack", "create", "keys", "apply",
          "build", "ready", "teardown", "deleted", "done"}

OpsOf(subject) == CASE subject = "create" -> Creates
                    [] subject = "delete" -> Deletes
                    [] subject = "retry" -> Retries

-----------------------------------------------------------------------------
(* operationXormStore.Update *)

\* engine.Update leaves out the columns of the bean's zero fields, and
\* OperationDone is 0.
UpdateState(stored, state) == IF state = "Done" THEN stored ELSE state

-----------------------------------------------------------------------------
(* Handlers *)

\* A handler that has read the cluster and may still write the whole of it.
Holds(h) == \/ pc[h] \in {"create", "keys", "build"}
            \/ pc[h] = "claim" /\ opst[h] = "Pending"
            \/ pc[h] = "ack" /\ (h[2] = "create" \/ mem[h].phase = "Pending")
            \/ pc[h] = "apply" /\ mem[h].phase = "Pending"

Goto(h, step) == pc' = [pc EXCEPT ![h] = step]

\* The callback returns and its variables are gone.
Return(h) == /\ pc' = [pc EXCEPT ![h] = "idle"]
             /\ cur' = [cur EXCEPT ![h] = NoOp]
             /\ opst' = [opst EXCEPT ![h] = "Pending"]
             /\ mem' = [mem EXCEPT ![h] = NewCluster]

Publish(o) ==
    /\ msg[o] = "none"
    /\ msg' = [msg EXCEPT ![o] = "unacked"]
    /\ UNCHANGED <<op, inbox, db, keys, pc, cur, opst, mem, runs, stale, crashes, fails>>

\* Delivery of a message, for the first time or again.  At most one copy of it
\* waits at a server.
Deliver(s, o) ==
    /\ msg[o] = "unacked"
    /\ o \notin inbox[s]
    /\ inbox' = [inbox EXCEPT ![s] = @ \cup {o}]
    /\ UNCHANGED <<op, msg, db, keys, pc, cur, opst, mem, runs, stale, crashes, fails>>

\* The handler is called.  Init: the operation and the cluster are read.
Receive(h, o) ==
    /\ pc[h] = "idle"
    /\ o \in OpsOf(h[2])
    /\ o \in inbox[h[1]]
    /\ inbox' = [inbox EXCEPT ![h[1]] = @ \ {o}]
    /\ cur' = [cur EXCEPT ![h] = o]
    /\ opst' = [opst EXCEPT ![h] = op[o]]
    /\ mem' = [mem EXCEPT ![h] = db]
    /\ Goto(h, CASE h[2] = "create" -> "claim"
                 [] h[2] = "delete" -> "mark"
                 [] h[2] = "retry" -> "ack")
    /\ UNCHANGED <<op, msg, db, keys, runs, stale, crashes, fails>>

\* Mutant of Claim: the state of the operation is not looked at.
ClaimAny(h) ==
    /\ pc[h] = "claim"
    /\ op' = [op EXCEPT ![cur[h]] = UpdateState(@, "Running")]
    /\ Goto(h, "ack")
    /\ UNCHANGED <<msg, inbox, db, keys, cur, opst, mem, runs, stale, crashes, fails>>

\* create: an operation that is not Pending is left alone, and its message is
\* not acked.
Claim(h) ==
    /\ pc[h] = "claim"
    /\ \/ /\ opst[h] = "Pending"
          /\ op' = [op EXCEPT ![cur[h]] = UpdateState(@, "Running")]
          /\ Goto(h, "ack")
          /\ UNCHANGED <<cur, opst, mem>>
       \/ /\ opst[h] # "Pending"
          /\ Return(h)
          /\ UNCHANGED op
    /\ UNCHANGED <<msg, inbox, db, keys, runs, stale, crashes, fails>>

\* Mutant: a cluster that is marked already makes the handler return.
MarkOnce(h) ==
    /\ pc[h] = "mark"
    /\ \/ db.del /\ Return(h)
       \/ /\ ~db.del
          /\ mem' = [mem EXCEPT ![h] = [db EXCEPT !.phase = "Deleting", !.del = TRUE]]
          /\ Goto(h, "savemark")
          /\ UNCHANGED <<cur, opst>>
    /\ UNCHANGED <<op, msg, inbox, db, keys, runs, stale, crashes, fails>>

\* delete: cloud.Delete reads the cluster again and writes the whole of it.
Mark(h) ==
    /\ pc[h] = "mark"
    /\ mem' = [mem EXCEPT ![h] = [db EXCEPT !.phase = "Deleting", !.del = TRUE]]
    /\ Goto(h, "savemark")
    /\ UNCHANGED <<op, msg, inbox, db, keys, cur, opst, runs, stale, crashes, fails>>

SaveMark(h) ==
    /\ pc[h] = "savemark"
    /\ db' = mem[h]
    /\ stale' = \E g \in Handlers \ {h} : Holds(g) /\ ~mem[g].del
    /\ Goto(h, "ack")
    /\ UNCHANGED <<op, msg, inbox, keys, cur, opst, mem, runs, crashes, fails>>

\* Mutant of Ack: it is left to the end of the handler.
AckLate(h) ==
    /\ pc[h] = "ack"
    /\ Goto(h, IF h[2] = "create" THEN "create" ELSE "apply")
    /\ UNCHANGED <<op, msg, inbox, db, keys, cur, opst, mem, runs, stale, crashes, fails>>

Ack(h) ==
    /\ pc[h] = "ack"
    /\ msg' = [msg EXCEPT ![cur[h]] = "acked"]
    /\ Goto(h, IF h[2] = "create" THEN "create" ELSE "apply")
    /\ UNCHANGED <<op, inbox, db, keys, cur, opst, mem, runs, stale, crashes, fails>>

\* setDefaultCluster resets the status and keeps the DeletionTimestamp.
setDefaultCluster(cluster) == [cluster EXCEPT !.phase = "Pending"]

\* Mutant of CreateCluster: it starts from a new object.
CreateClusterAnew(h) ==
    /\ pc[h] = "create"
    /\ runs' = [runs EXCEPT ![cur[h]] = @ + 1]
    /\ mem' = [mem EXCEPT ![h] = NewCluster]
    /\ \/ keys = "none" /\ keys' = "some" /\ Goto(h, "keys")
       \/ keys # "none" /\ UNCHANGED keys /\ Goto(h, "apply")
    /\ UNCHANGED <<op, msg, inbox, db, cur, opst, stale, crashes, fails>>

\* cloud.CreateCluster sets the defaults of the stored cluster, in memory; the
\* first key pair that is already stored ends it with an error, which is only
\* logged.
CreateCluster(h) ==
    /\ pc[h] = "create"
    /\ runs' = [runs EXCEPT ![cur[h]] = @ + 1]
    /\ mem' = [mem EXCEPT ![h] = setDefaultCluster(@)]
    /\ \/ keys = "none" /\ keys' = "some" /\ Goto(h, "keys")
       \/ keys # "none" /\ UNCHANGED keys /\ Goto(h, "apply")
    /\ UNCHANGED <<op, msg, inbox, db, cur, opst, stale, crashes, fails>>

SaveNewCluster(h) ==
    /\ pc[h] = "keys"
    /\ keys' = "all"
    /\ db' = mem[h]
    /\ Goto(h, "apply")
    /\ UNCHANGED <<op, msg, inbox, cur, opst, mem, runs, stale, crashes, fails>>

\* An error of CreateCluster does not stop the handler.
CreateFails(h) ==
    /\ pc[h] = "keys"
    /\ fails < MaxFails
    /\ fails' = fails + 1
    /\ Goto(h, "apply")
    /\ UNCHANGED <<op, msg, inbox, db, keys, cur, opst, mem, runs, stale, crashes>>

-----------------------------------------------------------------------------
(* ApplyCluster: cloud.Apply, then the operation is Done *)

Apply(h) ==
    /\ pc[h] = "apply"
    /\ \/ mem[h].phase = "Deleted" /\ Goto(h, "done")
       \/ mem[h].phase = "Pending" /\ keys = "all" /\ Goto(h, "build")
       \/ /\ mem[h].phase \in {"Ready", "Deleting"} /\ keys = "all"
          /\ Goto(h, IF mem[h].del THEN "teardown" ELSE "done")
    /\ UNCHANGED <<op, msg, inbox, db, keys, cur, opst, mem, runs, stale, crashes, fails>>

\* GetCloudManager fails for a cluster whose key pairs are not all stored.
NoCloudManager(h) ==
    /\ pc[h] = "apply"
    /\ mem[h].phase # "Deleted"
    /\ keys # "all"
    /\ Return(h)
    /\ UNCHANGED <<op, msg, inbox, db, keys, runs, stale, crashes, fails>>

\* ApplyCreate: EnsureMaster writes the whole object,
Build(h) ==
    /\ pc[h] = "build"
    /\ db' = mem[h]
    /\ Goto(h, "ready")
    /\ UNCHANGED <<op, msg, inbox, keys, cur, opst, mem, runs, stale, crashes, fails>>

\* and the status is written at the end.
MarkReady(h) ==
    /\ pc[h] = "ready"
    /\ db' = [db EXCEPT !.phase = "Ready"]
    /\ mem' = [mem EXCEPT ![h].phase = "Ready"]
    /\ Goto(h, IF mem[h].del THEN "teardown" ELSE "done")
    /\ UNCHANGED <<op, msg, inbox, keys, cur, opst, runs, stale, crashes, fails>>

\* ApplyDelete writes the status before and after the cloud is cleaned up.
Teardown(h) ==
    /\ pc[h] = "teardown"
    /\ mem' = [mem EXCEPT ![h].phase = "Deleting"]
    /\ db' = [db EXCEPT !.phase = "Deleting"]
    /\ Goto(h, "deleted")
    /\ UNCHANGED <<op, msg, inbox, keys, cur, opst, runs, stale, crashes, fails>>

MarkDeleted(h) ==
    /\ pc[h] = "deleted"
    /\ mem' = [mem EXCEPT ![h].phase = "Deleted"]
    /\ db' = [db EXCEPT !.phase = "Deleted"]
    /\ Goto(h, "done")
    /\ UNCHANGED <<op, msg, inbox, keys, cur, opst, runs, stale, crashes, fails>>

Done(h) ==
    /\ pc[h] = "done"
    /\ op' = [op EXCEPT ![cur[h]] = UpdateState(@, "Done")]
    /\ Return(h)
    /\ UNCHANGED <<msg, inbox, db, keys, runs, stale, crashes, fails>>

\* A store, streaming or cloud call fails: the handler returns.
Fail(h) ==
    /\ pc[h] \in Steps \ {"idle", "create", "keys"}
    /\ fails < MaxFails
    /\ fails' = fails + 1
    /\ Return(h)
    /\ UNCHANGED <<op, msg, inbox, db, keys, runs, stale, crashes>>

\* A server dies with its three handlers, and is started again.
Crash(s) ==
    /\ crashes < MaxCrashes
    /\ crashes' = crashes + 1
    /\ inbox' = [inbox EXCEPT ![s] = {}]
    /\ pc' = [h \in Handlers |-> IF h[1] = s THEN "idle" ELSE pc[h]]
    /\ cur' = [h \in Handlers |-> IF h[1] = s THEN NoOp ELSE cur[h]]
    /\ opst' = [h \in Handlers |-> IF h[1] = s THEN "Pending" ELSE opst[h]]
    /\ mem' = [h \in Handlers |-> IF h[1] = s THEN NewCluster ELSE mem[h]]
    /\ UNCHANGED <<op, msg, db, keys, runs, stale, fails>>

-----------------------------------------------------------------------------

\* The row that the other service wrote: a Pending cluster.
Init ==
    /\ op = [o \in Ops |-> "Pending"]
    /\ msg = [o \in Ops |-> "none"]
    /\ inbox = [s \in Servers |-> {}]
    /\ db = NewCluster
    /\ keys = "none"
    /\ pc = [h \in Handlers |-> "idle"]
    /\ cur = [h \in Handlers |-> NoOp]
    /\ opst = [h \in Handlers |-> "Pending"]
    /\ mem = [h \in Handlers |-> NewCluster]
    /\ runs = [o \in Creates |-> 0]
    /\ stale = FALSE
    /\ crashes = 0
    /\ fails = 0

Step(h) ==
    \/ Claim(h) \/ Mark(h) \/ SaveMark(h) \/ Ack(h)
    \/ CreateCluster(h) \/ SaveNewCluster(h)
    \/ Apply(h) \/ NoCloudManager(h) \/ Build(h) \/ MarkReady(h) \/ Teardown(h) \/ MarkDeleted(h)
    \/ Done(h)

Next ==
    \/ \E o \in Ops : Publish(o)
    \/ \E h \in Handlers : \/ Step(h) \/ CreateFails(h) \/ Fail(h)
                           \/ \E o \in Ops : Receive(h, o)
    \/ \E s \in Servers : Crash(s) \/ \E o \in Ops : Deliver(s, o)

Spec == Init /\ [][Next]_vars

\* Handlers run, and the streaming server keeps delivering every message that
\* was not acked to the members of its queue group.
FairSpec == /\ Spec
            /\ \A h \in Handlers : WF_vars(Step(h))
            /\ \A o \in Ops : /\ WF_vars(\E s \in Servers : Deliver(s, o))
                             /\ SF_vars(\E h \in Handlers : Receive(h, o))

-----------------------------------------------------------------------------
(* Properties *)

\* Every variable holds a value of its type.
TypeOK ==
    /\ op \in [Ops -> OpStates]
    /\ msg \in [Ops -> {"none", "unacked", "acked"}]
    /\ inbox \in [Servers -> SUBSET Ops]
    /\ db \in Clusters
    /\ keys \in {"none", "some", "all"}
    /\ pc \in [Handlers -> Steps]
    /\ cur \in [Handlers -> Ops \cup {NoOp}]
    /\ opst \in [Handlers -> OpStates]
    /\ mem \in [Handlers -> Clusters]
    /\ runs \in [Creates -> Nat]
    /\ stale \in BOOLEAN
    /\ crashes \in 0 .. MaxCrashes
    /\ fails \in 0 .. MaxFails

\* With one server, a create operation is run at most once, however often its
\* message is delivered and the server killed: the stored state Running, written
\* before the ack, keeps a copy that was delivered meanwhile from running it
\* again.
CreateRunsOnce == \A o \in Creates : runs[o] <= 1

\* An acked delete request stays recorded in the cluster row: no crash and no
\* operation that is received later takes it away, a create included, which then
\* builds the cluster and tears it down.  The exception is a handler that had read
\* the row before the mark was stored and writes its whole copy afterwards.
DeletionKept == (\E o \in Deletes : msg[o] = "acked") => db.del \/ stale

\* A create operation that is Running but not acked, which every redelivery will
\* ignore, was orphaned by a crash or a failed call between the two.
OrphanedByFailure ==
    \A o \in Creates :
        op[o] = "Running" /\ msg[o] = "unacked" /\ crashes + fails = 0 =>
            \E h \in Handlers : cur[h] = o /\ pc[h] = "ack"

\* A delete request that was published is acted upon in spite of crashes and
\* errors: DeleteCluster acks it only after the cluster is marked.
DeleteServed == \A o \in Deletes : msg[o] = "unacked" ~> msg[o] = "acked"

-----------------------------------------------------------------------------
(* What the code means to do and does not *)

\* apiserver/apply.go sets an applied operation to OperationDone and updates it
\* in the store: once ApplyCluster has returned without an error, the row is Done.
DoneStored == [][\A h \in Handlers : Done(h) => op'[cur[h]] = "Done"]_vars
=============================================================================
