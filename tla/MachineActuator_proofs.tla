------------------------ MODULE MachineActuator_proofs ------------------------
(***************************************************************************)
(* Proofs about MachineActuator, for any number of machines, errors and    *)
(* crashes.                                                                *)
(***************************************************************************)
EXTENDS MachineActuator, TLAPS

\* The controller works on a machine whose object its finalizer keeps; no droplet
\* is deleted that the look-up did not find.
Work ==
    /\ pc # "idle" => cur \in Machines /\ obj[cur] \in {"present", "deleting"}
    /\ pc \in {"delete", "destroy", "finalize"} => obj[cur] = "deleting"
    /\ pc = "destroy" => inst[cur] > 0

TypeInv == TypeOK /\ Work

\* Base of the induction for TypeInv.
LEMMA TypeInit == Init => TypeInv
  BY ActuatorAssumption DEF Init, TypeInv, TypeOK, Work, ActuatorAssumption, ObjStates, Steps

\* No step takes a variable out of its type.
LEMMA TypeStep == TypeInv /\ [Next]_vars => TypeInv'
  <1> SUFFICES ASSUME TypeInv, [Next]_vars PROVE TypeInv'
    OBVIOUS
  <1> USE ActuatorAssumption
  <1> USE DEF TypeInv, TypeOK, Work, ActuatorAssumption, ObjStates, Steps, Found, NotFound,
              Goto, Return
  <1>1. ASSUME NEW m \in Machines, AddMachine(m) PROVE TypeInv'
    BY <1>1 DEF AddMachine
  <1>2. ASSUME NEW m \in Machines, DeleteMachine(m) PROVE TypeInv'
    BY <1>2 DEF DeleteMachine
  <1>3. ASSUME NEW m \in Machines, AddFinalizer(m) PROVE TypeInv'
    BY <1>3 DEF AddFinalizer
  <1>4. ASSUME NEW m \in Machines, Reconcile(m) PROVE TypeInv'
    BY <1>4 DEF Reconcile
  <1>5. CASE Exists
    BY <1>5 DEF Exists
  <1>6. CASE Update
    BY <1>6 DEF Update
  <1>7. CASE Create
    BY <1>7 DEF Create
  <1>8. CASE CreateInstance
    BY <1>8 DEF CreateInstance
  <1>9. CASE UpdateMachineStatus
    BY <1>9 DEF UpdateMachineStatus
  <1>10. CASE Delete
    BY <1>10 DEF Delete
  <1>11. CASE DeleteInstanceByProviderID
    BY <1>11 DEF DeleteInstanceByProviderID
  <1>12. CASE RemoveFinalizer
    BY <1>12 DEF RemoveFinalizer
  <1>13. CASE Abort
    BY <1>13 DEF Abort
  <1>14. CASE UNCHANGED vars
    BY <1>14 DEF vars
  <1>15. QED
    BY <1>1, <1>2, <1>3, <1>4, <1>5, <1>6, <1>7, <1>8, <1>9, <1>10, <1>11,
       <1>12, <1>13, <1>14 DEF Next, Step

\* Every variable keeps its type.
THEOREM TypeCorrect == Spec => []TypeOK
  <1>1. Spec => []TypeInv
    BY TypeInit, TypeStep, PTL DEF Spec
  <1>2. TypeInv => TypeOK
    BY DEF TypeInv
  <1>3. QED
    BY <1>1, <1>2, PTL

-----------------------------------------------------------------------------

\* What the swallowed errors of the current reconciliation have paid for: a
\* droplet that Exists missed costs one, one that Create missed as well two; a
\* droplet that Delete leaves behind costs one, and a new object of the same name
\* may find it.
Paid ==
    /\ pc = "create" => 2 * inst[cur] <= 1 + lost
    /\ pc = "make" => 2 * inst[cur] <= lost
    /\ pc = "finalize" => inst[cur] <= lost
    /\ \A m \in Machines : obj[m] = "new" => inst[m] <= lost

CountInv == TypeInv /\ Paid /\ DuplicateNeedsTwoErrors /\ LeakExplained

\* Every step pays for the droplets it makes or leaves.
LEMMA CountStep ==
  ASSUME CountInv, [Next]_vars
  PROVE  Paid' /\ DuplicateNeedsTwoErrors' /\ LeakExplained'
  <1> DEFINE Goal == Paid' /\ DuplicateNeedsTwoErrors' /\ LeakExplained'
  <1> USE ActuatorAssumption
  <1> USE DEF CountInv, TypeInv, TypeOK, Work, ActuatorAssumption, Paid,
              DuplicateNeedsTwoErrors, LeakExplained, Found, NotFound, Goto, Return
  <1>1. ASSUME NEW m \in Machines, AddMachine(m) PROVE Goal
    BY <1>1 DEF AddMachine
  <1>2. ASSUME NEW m \in Machines, DeleteMachine(m) PROVE Goal
    BY <1>2 DEF DeleteMachine
  <1>3. ASSUME NEW m \in Machines, AddFinalizer(m) PROVE Goal
    BY <1>3 DEF AddFinalizer
  <1>4. ASSUME NEW m \in Machines, Reconcile(m) PROVE Goal
    BY <1>4 DEF Reconcile
  <1>5. CASE Exists
    BY <1>5 DEF Exists
  <1>6. CASE Update
    BY <1>6 DEF Update
  <1>7. CASE Create
    BY <1>7 DEF Create
  <1>8. CASE CreateInstance
    BY <1>8 DEF CreateInstance
  <1>9. CASE UpdateMachineStatus
    BY <1>9 DEF UpdateMachineStatus
  <1>10. CASE Delete
    BY <1>10 DEF Delete
  <1>11. CASE DeleteInstanceByProviderID
    BY <1>11 DEF DeleteInstanceByProviderID
  <1>12. CASE RemoveFinalizer
    BY <1>12 DEF RemoveFinalizer
  <1>13. CASE Abort
    BY <1>13 DEF Abort
  <1>14. CASE UNCHANGED vars
    BY <1>14 DEF vars
  <1>15. QED
    BY <1>1, <1>2, <1>3, <1>4, <1>5, <1>6, <1>7, <1>8, <1>9, <1>10, <1>11,
       <1>12, <1>13, <1>14 DEF Next, Step

\* Duplicates and leaks are bounded by the errors that were swallowed, for any
\* number of machines, interruptions and errors: without one there is at most one
\* droplet per machine, and none without a machine.
THEOREM DropletsCounted == Spec => []DuplicateNeedsTwoErrors /\ []LeakExplained
  <1>1. Init => CountInv
    <2>1. ASSUME Init PROVE Paid /\ DuplicateNeedsTwoErrors /\ LeakExplained
      BY <2>1 DEF Init, Paid, DuplicateNeedsTwoErrors, LeakExplained
    <2>2. QED
      BY <2>1, TypeInit DEF CountInv
  <1>2. CountInv /\ [Next]_vars => CountInv'
    BY CountStep, TypeStep DEF CountInv
  <1>3. CountInv => DuplicateNeedsTwoErrors /\ LeakExplained
    BY DEF CountInv
  <1>4. QED
    BY <1>1, <1>2, <1>3, PTL DEF Spec

\* A droplet outlives its Machine object only because an error was swallowed,
\* wherever Create was interrupted and whenever the object was deleted.
THEOREM LeaksExplained == Spec => []LeakExplained
  BY DropletsCounted, PTL
===============================================================================
