---------------------------- MODULE ObjectStore -----------------------------
(***************************************************************************)
(* What the interfaces of store/api.go promise for one object: every call  *)
(* happens at once or not at all.  This is how the other modules of the    *)
(* project use the store.                                                  *)
(*                                                                         *)
(* The promise ends with a fault: from then on nothing is said about the   *)
(* object.                                                                 *)
(***************************************************************************)
CONSTANTS
    Objects,  \* what may be stored
    None,     \* there is no object
    Lost      \* nothing is known about the object

VARIABLE object

Init == object = None

Create == object = None /\ object' \in Objects
Update == object \in Objects /\ object' \in Objects
Delete == object \in Objects /\ object' = None
Fault  == object' = Lost

Next == Create \/ Update \/ Delete \/ Fault

Spec == Init /\ [][Next]_object
=============================================================================
