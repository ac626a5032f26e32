--------------------------- MODULE Apiserver_proofs ---------------------------
(***************************************************************************)
(* Proofs about Apiserver, for any number of servers, operations, crashes  *)
(* and failures (CreateRunsOnce for a single server).                      *)
(***************************************************************************)
EXTENDS Apiserver, TLAPS

\* A handler works on an operation of its own subject, and only a handler of
\* create-cluster and delete-cluster takes the steps of that subject.
Work(h) ==
    /\ pc[h] # "idle" => cur[h] \in OpsOf(h[2])
    /\ pc[h] \in {"claim", "create", "keys"} => h[2] = "create"
    /\ pc[h] \in {"mark", "savemark"} => h[2] = "delete"

TypeInv == TypeOK /\ \A h \in Handlers : Work(h)

\* The operations of one subject.
LEMMA SubjectOps ==
  ASSUME NEW h \in Handlers
  PROVE  /\ h[2] \in Subjects
         /\ OpsOf(h[2]) \subseteq Ops
         /\ h[2] = "create" => OpsOf(h[2]) = Creates
         /\ h[2] = "delete" => OpsOf(h[2]) = Deletes
         /\ h[2] = "retry" => OpsOf(h[2]) = Retries
         /\ h[1] \in Servers
  BY DEF Handlers, Subjects, OpsOf, Ops

\* The row that the other service writes has the type of a cluster; what
\* setDefaultCluster makes of one is Pending and keeps the mark.
LEMMA FreshType ==
  /\ NewCluster \in Clusters /\ NewCluster.phase = "Pending" /\ NewCluster.del = FALSE
  /\ \A c \in Clusters : /\ setDefaultCluster(c) \in Clusters
                         /\ setDefaultCluster(c).phase = "Pending"
                         /\ setDefaultCluster(c).del = c.del
  <1>1. NewCluster \in Clusters /\ NewCluster.phase = "Pending" /\ NewCluster.del = FALSE
    BY DEF NewCluster, Clusters, Phases
  <1>2. ASSUME NEW c \in Clusters
        PROVE  /\ setDefaultCluster(c) \in Clusters
               /\ setDefaultCluster(c).phase = "Pending"
               /\ setDefaultCluster(c).del = c.del
    BY DEF setDefaultCluster, Clusters, Phases
  <1>3. QED
    BY <1>1, <1>2

\* Base of the induction for TypeInv.
LEMMA TypeInit == Init => TypeInv
  <1> SUFFICES ASSUME Init PROVE TypeInv
    OBVIOUS
  <1>1. NewCluster \in Clusters
    BY FreshType
  <1>2. stale \in BOOLEAN
    BY DEF Init
  <1>3. TypeOK
    BY <1>1, <1>2, BoundsAssumption DEF Init, TypeOK, BoundsAssumption, Steps, OpStates
  <1>4. \A h \in Handlers : Work(h)
    BY DEF Init, Work
  <1>5. QED
    BY <1>3, <1>4 DEF TypeInv

\* No step takes a variable out of its type.
LEMMA TypeStep == TypeInv /\ [Next]_vars => TypeInv'
  <1> SUFFICES ASSUME TypeInv, [Next]_vars PROVE TypeInv'
    OBVIOUS
  <1> USE BoundsAssumption, FreshType, SubjectOps
  <1> USE DEF TypeInv, TypeOK, Work, BoundsAssumption, OpStates, Steps, Subjects, Goto, Return
  <1>1. ASSUME NEW h \in Handlers, Claim(h) PROVE TypeInv'
    BY <1>1 DEF Claim, UpdateState
  <1>2. ASSUME NEW h \in Handlers, Mark(h) PROVE TypeInv'
    BY <1>2 DEF Mark, Clusters, Phases
  <1>3. ASSUME NEW h \in Handlers, SaveMark(h) PROVE TypeInv'
    BY <1>3 DEF SaveMark
  <1>4. ASSUME NEW h \in Handlers, Ack(h) PROVE TypeInv'
    BY <1>4 DEF Ack
  <1>5. ASSUME NEW h \in Handlers, CreateCluster(h) PROVE TypeInv'
    BY <1>5 DEF CreateCluster
  <1>6. ASSUME NEW h \in Handlers, SaveNewCluster(h) PROVE TypeInv'
    BY <1>6 DEF SaveNewCluster
  <1>7. ASSUME NEW h \in Handlers, Apply(h) PROVE TypeInv'
    BY <1>7 DEF Apply
  <1>8. ASSUME NEW h \in Handlers, NoCloudManager(h) PROVE TypeInv'
    BY <1>8 DEF NoCloudManager
  <1>9. ASSUME NEW h \in Handlers, Build(h) PROVE TypeInv'
    BY <1>9 DEF Build
  <1>10. ASSUME NEW h \in Handlers, MarkReady(h) PROVE TypeInv'
    BY <1>10 DEF MarkReady, Clusters, Phases
  <1>11. ASSUME NEW h \in Handlers, Teardown(h) PROVE TypeInv'
    BY <1>11 DEF Teardown, Clusters, Phases
  <1>12. ASSUME NEW h \in Handlers, MarkDeleted(h) PROVE TypeInv'
    BY <1>12 DEF MarkDeleted, Clusters, Phases
  <1>13. ASSUME NEW h \in Handlers, Done(h) PROVE TypeInv'
    BY <1>13 DEF Done, UpdateState
  <1>14. ASSUME NEW h \in Handlers, CreateFails(h) PROVE TypeInv'
    BY <1>14 DEF CreateFails
  <1>15. ASSUME NEW h \in Handlers, Fail(h) PROVE TypeInv'
    BY <1>15 DEF Fail
  <1>16. ASSUME NEW h \in Handlers, NEW o \in Ops, Receive(h, o) PROVE TypeInv'
    BY <1>16 DEF Receive
  <1>17. ASSUME NEW o \in Ops, Publish(o) PROVE TypeInv'
    BY <1>17 DEF Publish
  <1>18. ASSUME NEW s \in Servers, Crash(s) PROVE TypeInv'
    BY <1>18 DEF Crash
  <1>19. ASSUME NEW s \in Servers, NEW o \in Ops, Deliver(s, o) PROVE TypeInv'
    BY <1>19 DEF Deliver
  <1>20. CASE UNCHANGED vars
    BY <1>20 DEF vars
  <1>21. QED
    BY <1>1, <1>2, <1>3, <1>4, <1>5, <1>6, <1>7, <1>8, <1>9, <1>10, <1>11, <1>12,
       <1>13, <1>14, <1>15, <1>16, <1>17, <1>18, <1>19, <1>20 DEF Next, Step

\* Every variable keeps its type, whatever the servers do.
THEOREM TypeCorrect == Spec => []TypeOK
  <1>1. Spec => []TypeInv
    BY TypeInit, TypeStep, PTL DEF Spec
  <1>2. TypeInv => TypeOK
    BY DEF TypeInv
  <1>3. QED
    BY <1>1, <1>2, PTL

-----------------------------------------------------------------------------
(* Delete requests and orphaned create operations *)

\* A delete request was acked, or is about to be.
Due == \/ \E o \in Deletes : msg[o] = "acked"
       \/ \E h \in Handlers : pc[h] = "ack" /\ h[2] = "delete"

\* The row is marked, and so is every copy of it that will be written.
Kept == db.del /\ \A h \in Handlers : Holds(h) => mem[h].del

\* A request that is due is recorded, in the row and in every copy, unless a copy
\* was older when the mark was stored.
DueInv == Due => Kept \/ stale

\* A copy that Delete is about to store is marked; an operation that was claimed,
\* or that a handler works on, was published.
MarkedInv ==
    /\ \A o \in Ops : op[o] # "Pending" => msg[o] # "none"
    /\ \A s \in Servers : \A o \in inbox[s] : msg[o] # "none"
    /\ \A h \in Handlers :
         /\ pc[h] # "idle" => msg[cur[h]] # "none"
         /\ pc[h] = "savemark" => mem[h].del

RequestInv == TypeInv /\ MarkedInv /\ DueInv /\ OrphanedByFailure

\* Every step keeps acked deletions and accounts for orphaned operations.
LEMMA RequestStep ==
  ASSUME RequestInv, [Next]_vars
  PROVE  MarkedInv' /\ DueInv' /\ OrphanedByFailure'
  <1> DEFINE Goal == MarkedInv' /\ DueInv' /\ OrphanedByFailure'
  <1> USE BoundsAssumption, OperationsAssumption, FreshType, SubjectOps
  <1> USE DEF RequestInv, TypeInv, TypeOK, Work, BoundsAssumption, OperationsAssumption, Clusters,
              MarkedInv, OrphanedByFailure, Goto, Return
  <1>1. ASSUME NEW h \in Handlers, Claim(h) PROVE Goal
    <2>1. MarkedInv'
      BY <1>1 DEF Claim, UpdateState
    <2>2. DueInv'
      BY <1>1 DEF Claim, UpdateState, DueInv, Due, Kept, Holds
    <2>3. ASSUME NEW o \in Creates, (op[o] = "Running" /\ msg[o] = "unacked" /\ crashes + fails = 0)'
          PROVE  (\E g \in Handlers : cur[g] = o /\ pc[g] = "ack")'
      <3>1. CASE opst[h] = "Pending" /\ cur[h] = o
        <4>1. cur'[h] = o /\ pc'[h] = "ack"
          BY <1>1, <3>1 DEF Claim
        <4>2. QED
          BY <4>1
      <3>2. CASE op'[o] = op[o]
        <4>1. PICK g \in Handlers : cur[g] = o /\ pc[g] = "ack"
          BY <1>1, <2>3, <3>2 DEF Claim, OrphanedByFailure
        <4>2. g # h
          BY <1>1, <4>1 DEF Claim
        <4>3. cur'[g] = o /\ pc'[g] = "ack"
          BY <1>1, <4>1, <4>2 DEF Claim
        <4>4. QED
          BY <4>3
      <3>3. QED
        BY <1>1, <3>1, <3>2 DEF Claim
    <2>4. QED
      BY <2>1, <2>2, <2>3 DEF OrphanedByFailure
  <1>2. ASSUME NEW h \in Handlers, Mark(h) PROVE Goal
    <2>1. MarkedInv'
      BY <1>2 DEF Mark
    <2>2. DueInv'
      BY <1>2 DEF Mark, DueInv, Due, Kept, Holds
    <2>3. OrphanedByFailure'
      BY <1>2 DEF Mark
    <2>4. QED
      BY <2>1, <2>2, <2>3
  <1>3. ASSUME NEW h \in Handlers, SaveMark(h) PROVE Goal
    <2>1. MarkedInv'
      BY <1>3 DEF SaveMark
    <2>2. DueInv'
      BY <1>3 DEF SaveMark, DueInv, Due, Kept, Holds
    <2>3. OrphanedByFailure'
      BY <1>3 DEF SaveMark
    <2>4. QED
      BY <2>1, <2>2, <2>3
  <1>4. ASSUME NEW h \in Handlers, Ack(h) PROVE Goal
    <2>1. MarkedInv'
      BY <1>4 DEF Ack
    <2>2. DueInv'
      <3>1. Due' => Due
        <4>1. ASSUME NEW o \in Deletes, msg'[o] = "acked" PROVE Due
          <5>1. CASE cur[h] = o
            BY <1>4, <5>1 DEF Ack, Subjects, Due
          <5>2. CASE cur[h] # o
            BY <1>4, <4>1, <5>2 DEF Ack, Ops, Due
          <5>3. QED
            BY <5>1, <5>2
        <4>2. ASSUME NEW g \in Handlers, pc'[g] = "ack", g[2] = "delete" PROVE Due
          BY <1>4, <4>2 DEF Ack, Due
        <4>3. QED
          BY <4>1, <4>2 DEF Due
      <3>2. Kept => Kept'
        BY <1>4 DEF Ack, Kept, Holds
      <3>3. QED
        BY <1>4, <3>1, <3>2 DEF Ack, DueInv
    <2>3. OrphanedByFailure'
      BY <1>4 DEF Ack, Ops
    <2>4. QED
      BY <2>1, <2>2, <2>3
  <1>5. ASSUME NEW h \in Handlers, CreateCluster(h) PROVE Goal
    <2>1. MarkedInv'
      BY <1>5 DEF CreateCluster
    <2>2. DueInv'
      BY <1>5 DEF CreateCluster, DueInv, Due, Kept, Holds
    <2>3. OrphanedByFailure'
      BY <1>5 DEF CreateCluster
    <2>4. QED
      BY <2>1, <2>2, <2>3
  <1>6. ASSUME NEW h \in Handlers, SaveNewCluster(h) PROVE Goal
    <2>1. MarkedInv'
      BY <1>6 DEF SaveNewCluster
    <2>2. DueInv'
      BY <1>6 DEF SaveNewCluster, DueInv, Due, Kept, Holds
    <2>3. OrphanedByFailure'
      BY <1>6 DEF SaveNewCluster
    <2>4. QED
      BY <2>1, <2>2, <2>3
  <1>7. ASSUME NEW h \in Handlers, Apply(h) PROVE Goal
    <2>1. MarkedInv'
      BY <1>7 DEF Apply
    <2>2. DueInv'
      BY <1>7 DEF Apply, DueInv, Due, Kept, Holds
    <2>3. OrphanedByFailure'
      BY <1>7 DEF Apply
    <2>4. QED
      BY <2>1, <2>2, <2>3
  <1>8. ASSUME NEW h \in Handlers, NoCloudManager(h) PROVE Goal
    <2>1. MarkedInv'
      BY <1>8 DEF NoCloudManager
    <2>2. DueInv'
      BY <1>8 DEF NoCloudManager, DueInv, Due, Kept, Holds
    <2>3. OrphanedByFailure'
      BY <1>8 DEF NoCloudManager
    <2>4. QED
      BY <2>1, <2>2, <2>3
  <1>9. ASSUME NEW h \in Handlers, Build(h) PROVE Goal
    <2>1. MarkedInv'
      BY <1>9 DEF Build
    <2>2. DueInv'
      BY <1>9 DEF Build, DueInv, Due, Kept, Holds
    <2>3. OrphanedByFailure'
      BY <1>9 DEF Build
    <2>4. QED
      BY <2>1, <2>2, <2>3
  <1>10. ASSUME NEW h \in Handlers, MarkReady(h) PROVE Goal
    <2>1. MarkedInv'
      BY <1>10 DEF MarkReady
    <2>2. DueInv'
      BY <1>10 DEF MarkReady, DueInv, Due, Kept, Holds
    <2>3. OrphanedByFailure'
      BY <1>10 DEF MarkReady
    <2>4. QED
      BY <2>1, <2>2, <2>3
  <1>11. ASSUME NEW h \in Handlers, Teardown(h) PROVE Goal
    <2>1. MarkedInv'
      BY <1>11 DEF Teardown
    <2>2. DueInv'
      BY <1>11 DEF Teardown, DueInv, Due, Kept, Holds
    <2>3. OrphanedByFailure'
      BY <1>11 DEF Teardown
    <2>4. QED
      BY <2>1, <2>2, <2>3
  <1>12. ASSUME NEW h \in Handlers, MarkDeleted(h) PROVE Goal
    <2>1. MarkedInv'
      BY <1>12 DEF MarkDeleted
    <2>2. DueInv'
      BY <1>12 DEF MarkDeleted, DueInv, Due, Kept, Holds
    <2>3. OrphanedByFailure'
      BY <1>12 DEF MarkDeleted
    <2>4. QED
      BY <2>1, <2>2, <2>3
  <1>13. ASSUME NEW h \in Handlers, Done(h) PROVE Goal
    <2>1. MarkedInv'
      BY <1>13 DEF Done, UpdateState
    <2>2. DueInv'
      BY <1>13 DEF Done, UpdateState, DueInv, Due, Kept, Holds
    <2>3. OrphanedByFailure'
      BY <1>13 DEF Done, UpdateState
    <2>4. QED
      BY <2>1, <2>2, <2>3
  <1>14. ASSUME NEW h \in Handlers, CreateFails(h) PROVE Goal
    <2>1. MarkedInv'
      BY <1>14 DEF CreateFails
    <2>2. DueInv'
      BY <1>14 DEF CreateFails, DueInv, Due, Kept, Holds
    <2>3. OrphanedByFailure'
      BY <1>14 DEF CreateFails
    <2>4. QED
      BY <2>1, <2>2, <2>3
  <1>15. ASSUME NEW h \in Handlers, Fail(h) PROVE Goal
    <2>1. MarkedInv'
      BY <1>15 DEF Fail
    <2>2. DueInv'
      BY <1>15 DEF Fail, DueInv, Due, Kept, Holds
    <2>3. OrphanedByFailure'
      BY <1>15 DEF Fail
    <2>4. QED
      BY <2>1, <2>2, <2>3
  <1>16. ASSUME NEW h \in Handlers, NEW o \in Ops, Receive(h, o) PROVE Goal
    <2>1. /\ pc'[h] \in {"claim", "mark", "ack"}
          /\ pc'[h] = "ack" => h[2] = "retry"
      <3>1. h[2] \in {"create", "delete", "retry"}
        BY DEF Subjects
      <3>2. QED
        BY <1>16, <3>1 DEF Receive
    <2>2. /\ \A g \in Handlers \ {h} : pc'[g] = pc[g] /\ cur'[g] = cur[g] /\ mem'[g] = mem[g]
          /\ \A s \in Servers : inbox'[s] \subseteq inbox[s]
          /\ cur'[h] = o /\ msg[o] # "none" /\ pc[h] = "idle" /\ mem'[h] = db
          /\ opst' = [opst EXCEPT ![h] = op[o]]
          /\ UNCHANGED <<op, msg, db, keys, stale, runs, crashes, fails>>
      BY <1>16 DEF Receive
    <2>3. MarkedInv'
      BY <2>1, <2>2
    <2>4. DueInv'
      <3>1. Due' => Due
        BY <2>1, <2>2 DEF Due
      <3>2. Kept => Kept'
        BY <2>1, <2>2 DEF Kept, Holds
      <3>3. QED
        BY <2>2, <3>1, <3>2 DEF DueInv
    <2>5. ASSUME NEW p \in Creates, (op[p] = "Running" /\ msg[p] = "unacked" /\ crashes + fails = 0)'
          PROVE  (\E g \in Handlers : cur[g] = p /\ pc[g] = "ack")'
      <3>1. PICK g \in Handlers : cur[g] = p /\ pc[g] = "ack"
        BY <2>2, <2>5
      <3>2. cur'[g] = p /\ pc'[g] = "ack"
        BY <2>2, <3>1
      <3>3. QED
        BY <3>2
    <2>6. QED
      BY <2>3, <2>4, <2>5
  <1>17. ASSUME NEW o \in Ops, Publish(o) PROVE Goal
    <2>1. MarkedInv'
      BY <1>17 DEF Publish
    <2>2. DueInv'
      BY <1>17 DEF Publish, Ops, DueInv, Due, Kept, Holds
    <2>3. OrphanedByFailure'
      BY <1>17 DEF Publish, Ops
    <2>4. QED
      BY <2>1, <2>2, <2>3
  <1>18. ASSUME NEW s \in Servers, Crash(s) PROVE Goal
    BY <1>18 DEF Crash, DueInv, Due, Kept, Holds
  <1>19. ASSUME NEW s \in Servers, NEW o \in Ops, Deliver(s, o) PROVE Goal
    BY <1>19 DEF Deliver, DueInv, Due, Kept, Holds
  <1>20. CASE UNCHANGED vars
    BY <1>20 DEF vars, DueInv, Due, Kept, Holds
  <1>21. QED
    BY <1>1, <1>2, <1>3, <1>4, <1>5, <1>6, <1>7, <1>8, <1>9, <1>10, <1>11, <1>12,
       <1>13, <1>14, <1>15, <1>16, <1>17, <1>18, <1>19, <1>20 DEF Next, Step

\* For any number of servers: an acked delete request stays recorded in the row,
\* whatever operations follow it and whatever crashes, unless a handler held an
\* older copy when the mark was stored; and a create operation that no redelivery
\* will run again was orphaned by a crash or a failed call.
THEOREM RequestsKept == Spec => []DeletionKept /\ []OrphanedByFailure
  <1>1. Init => RequestInv
    <2>1. ASSUME Init PROVE MarkedInv /\ DueInv /\ OrphanedByFailure
      BY <2>1 DEF Init, MarkedInv, DueInv, Due, OrphanedByFailure, Ops
    <2>2. QED
      BY <2>1, TypeInit DEF RequestInv
  <1>2. RequestInv /\ [Next]_vars => RequestInv'
    BY RequestStep, TypeStep DEF RequestInv
  <1>3. RequestInv => DeletionKept /\ OrphanedByFailure
    BY DEF RequestInv, DueInv, Due, Kept, DeletionKept
  <1>4. QED
    BY <1>1, <1>2, <1>3, PTL DEF Spec

\* A create operation that is Running and not acked, so that no redelivery runs
\* it, was left there by a crash or a failed call, for any number of servers.
THEOREM OrphansExplained == Spec => []OrphanedByFailure
  BY RequestsKept, PTL

-----------------------------------------------------------------------------
(* At most one run of a create operation, with one server *)

\* The stored state of an operation tells whether it was claimed, and the one
\* handler of create-cluster sees it.
ClaimInv ==
    /\ \A o \in Creates : op[o] = "Pending" => runs[o] = 0
    /\ \A h \in Handlers :
         /\ pc[h] = "claim" => opst[h] = op[cur[h]]
         /\ pc[h] \in {"ack", "create"} /\ h[2] = "create" =>
              op[cur[h]] # "Pending" /\ runs[cur[h]] = 0

OnceInv == TypeInv /\ ClaimInv /\ CreateRunsOnce

\* A single server has one handler per subject.
LEMMA OneHandler ==
  ASSUME \A s, t \in Servers : s = t, NEW g \in Handlers, NEW h \in Handlers,
         g[2] = h[2]
  PROVE  g = h
  BY DEF Handlers

\* Every step of a single server keeps its claims.
LEMMA OnceStep ==
  ASSUME \A s, t \in Servers : s = t, OnceInv, [Next]_vars
  PROVE  ClaimInv' /\ CreateRunsOnce'
  <1> DEFINE Goal == ClaimInv' /\ CreateRunsOnce'
  <1> USE BoundsAssumption, OperationsAssumption, SubjectOps, OneHandler
  <1> USE DEF OnceInv, TypeInv, TypeOK, Work, OpStates, BoundsAssumption, OperationsAssumption,
              ClaimInv, CreateRunsOnce, Goto, Return
  <1>1. ASSUME NEW h \in Handlers, Claim(h) PROVE Goal
    BY <1>1 DEF Claim, UpdateState
  <1>2. ASSUME NEW h \in Handlers, Mark(h) PROVE Goal
    BY <1>2 DEF Mark
  <1>3. ASSUME NEW h \in Handlers, SaveMark(h) PROVE Goal
    BY <1>3 DEF SaveMark
  <1>4. ASSUME NEW h \in Handlers, Ack(h) PROVE Goal
    BY <1>4 DEF Ack
  <1>5. ASSUME NEW h \in Handlers, CreateCluster(h) PROVE Goal
    BY <1>5 DEF CreateCluster
  <1>6. ASSUME NEW h \in Handlers, SaveNewCluster(h) PROVE Goal
    BY <1>6 DEF SaveNewCluster
  <1>7. ASSUME NEW h \in Handlers, Apply(h) PROVE Goal
    BY <1>7 DEF Apply
  <1>8. ASSUME NEW h \in Handlers, NoCloudManager(h) PROVE Goal
    BY <1>8 DEF NoCloudManager
  <1>9. ASSUME NEW h \in Handlers, Build(h) PROVE Goal
    BY <1>9 DEF Build
  <1>10. ASSUME NEW h \in Handlers, MarkReady(h) PROVE Goal
    BY <1>10 DEF MarkReady
  <1>11. ASSUME NEW h \in Handlers, Teardown(h) PROVE Goal
    BY <1>11 DEF Teardown
  <1>12. ASSUME NEW h \in Handlers, MarkDeleted(h) PROVE Goal
    BY <1>12 DEF MarkDeleted
  <1>13. ASSUME NEW h \in Handlers, Done(h) PROVE Goal
    BY <1>13 DEF Done, UpdateState
  <1>14. ASSUME NEW h \in Handlers, CreateFails(h) PROVE Goal
    BY <1>14 DEF CreateFails
  <1>15. ASSUME NEW h \in Handlers, Fail(h) PROVE Goal
    BY <1>15 DEF Fail
  <1>16. ASSUME NEW h \in Handlers, NEW o \in Ops, Receive(h, o) PROVE Goal
    BY <1>16 DEF Receive
  <1>17. ASSUME NEW o \in Ops, Publish(o) PROVE Goal
    BY <1>17 DEF Publish
  <1>18. ASSUME NEW s \in Servers, Crash(s) PROVE Goal
    BY <1>18 DEF Crash
  <1>19. ASSUME NEW s \in Servers, NEW o \in Ops, Deliver(s, o) PROVE Goal
    BY <1>19 DEF Deliver
  <1>20. CASE UNCHANGED vars
    BY <1>20 DEF vars
  <1>21. QED
    BY <1>1, <1>2, <1>3, <1>4, <1>5, <1>6, <1>7, <1>8, <1>9, <1>10, <1>11, <1>12,
       <1>13, <1>14, <1>15, <1>16, <1>17, <1>18, <1>19, <1>20 DEF Next, Step

\* With one server a create operation runs at most once, for any number of
\* operations, redeliveries, crashes and failures.
THEOREM RunsOnce ==
  ASSUME \A s, t \in Servers : s = t
  PROVE  Spec => []CreateRunsOnce
  <1>1. Init => OnceInv
    <2>1. ASSUME Init PROVE ClaimInv /\ CreateRunsOnce
      BY <2>1 DEF Init, ClaimInv, CreateRunsOnce
    <2>2. QED
      BY <2>1, TypeInit DEF OnceInv
  <1>2. OnceInv /\ [Next]_vars => OnceInv'
    BY OnceStep, TypeStep DEF OnceInv
  <1>3. OnceInv => CreateRunsOnce
    BY DEF OnceInv
  <1>4. QED
    BY <1>1, <1>2, <1>3, PTL DEF Spec
===============================================================================
