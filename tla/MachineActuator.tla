--------------------------- MODULE MachineActuator ---------------------------
(***************************************************************************)
(* The DigitalOcean machine actuator inside a cluster: it gives every      *)
(* Machine object a droplet of the same name, and takes it away again.     *)
(*                                                                         *)
(* The cluster-api machine controller (external) reconciles one Machine    *)
(* at a time and reconciles it again after an error.  It calls Exists,     *)
(* and then Update or Create, or Delete for an object that is being        *)
(* deleted; a finalizer keeps the object until Delete returns nil.  Each   *)
(* of these looks the droplet up once more.                                *)
(*                                                                         *)
(* A look-up can miss a droplet: the list call fails, or the account has   *)
(* more droplets than the one page that is read.  Misses and failed        *)
(* deletions are only logged, and counted in `lost'.                       *)
(***************************************************************************)
EXTENDS Naturals

CONSTANTS
    Machines,   \* names of Machine objects
    MaxInst,    \* bound: droplets of one name
    MaxLost,    \* bound: errors that are only logged
    MaxAborts   \* bound: calls that return an error, or crashes

ASSUME ActuatorAssumption == MaxInst \in Nat /\ MaxLost \in Nat /\ MaxAborts \in Nat

VARIABLES
    obj,      \* each Machine object; "new" has no finalizer yet
    ready,    \* machines whose status holds the id of a droplet
    inst,     \* number of droplets with the name of each machine
    pc,       \* step of the controller
    cur,      \* the machine it reconciles
    lost,
    aborts

vars == <<obj, ready, inst, pc, cur, lost, aborts>>

NoMachine == "none"
ObjStates == {"absent", "new", "present", "deleting"}
Steps == {"idle", "exists", "update", "create", "make", "status", "delete",
          "destroy", "finalize"}

-----------------------------------------------------------------------------
(* Look-ups and control flow *)

\* instanceIfExists returns a droplet.
Found == inst[cur] > 0 /\ UNCHANGED lost

\* It returns none: there is none, or it misses the one there is.
NotFound == \/ inst[cur] = 0 /\ UNCHANGED lost
            \/ inst[cur] > 0 /\ lost < MaxLost /\ lost' = lost + 1

Goto(step) == pc' = step /\ UNCHANGED cur

\* The call of the actuator and the reconciliation are over.
Return == pc' = "idle" /\ cur' = NoMachine

-----------------------------------------------------------------------------
(* The machine sets and the controller (external) *)

AddMachine(m) ==
    /\ obj[m] = "absent"
    /\ obj' = [obj EXCEPT ![m] = "new"]
    /\ ready' = ready \ {m}
    /\ UNCHANGED <<inst, pc, cur, lost, aborts>>

\* An object without a finalizer is gone at once.
DeleteMachine(m) ==
    /\ \/ obj[m] = "new" /\ obj' = [obj EXCEPT ![m] = "absent"]
       \/ obj[m] = "present" /\ obj' = [obj EXCEPT ![m] = "deleting"]
    /\ UNCHANGED <<ready, inst, pc, cur, lost, aborts>>

AddFinalizer(m) ==
    /\ pc = "idle"
    /\ obj[m] = "new"
    /\ obj' = [obj EXCEPT ![m] = "present"]
    /\ UNCHANGED <<ready, inst, pc, cur, lost, aborts>>

Reconcile(m) ==
    /\ pc = "idle"
    /\ \/ obj[m] = "present" /\ pc' = "exists"
       \/ obj[m] = "deleting" /\ pc' = "delete"
    /\ cur' = m
    /\ UNCHANGED <<obj, ready, inst, lost, aborts>>

RemoveFinalizer ==
    /\ pc = "finalize"
    /\ obj' = [obj EXCEPT ![cur] = "absent"]
    /\ Return
    /\ UNCHANGED <<ready, inst, lost, aborts>>

-----------------------------------------------------------------------------
(* The actuator *)

\* An error of the look-up counts as "does not exist".
Exists ==
    /\ pc = "exists"
    /\ \/ Found /\ Goto("update")
       \/ NotFound /\ Goto("create")
    /\ UNCHANGED <<obj, ready, inst, aborts>>

\* Mutant of Update: there is nothing to do for a droplet that exists.
UpdateNothing ==
    /\ pc = "update"
    /\ \/ Found /\ Return
       \/ NotFound /\ Goto("create")
    /\ UNCHANGED <<obj, ready, inst, aborts>>

Update ==
    /\ pc = "update"
    /\ \/ Found /\ Goto("status")
       \/ NotFound /\ Goto("create")
    /\ UNCHANGED <<obj, ready, inst, aborts>>

\* Mutant of Create: the controller has asked Exists already.
CreateUnchecked ==
    /\ pc = "create"
    /\ Goto("make")
    /\ UNCHANGED <<obj, ready, inst, lost, aborts>>

Create ==
    /\ pc = "create"
    /\ \/ Found /\ Goto("status")
       \/ NotFound /\ Goto("make")
    /\ UNCHANGED <<obj, ready, inst, aborts>>

CreateInstance ==
    /\ pc = "make"
    /\ inst[cur] < MaxInst
    /\ inst' = [inst EXCEPT ![cur] = @ + 1]
    /\ Goto("status")
    /\ UNCHANGED <<obj, ready, lost, aborts>>

\* Here an error of the look-up is returned.  The object as it was read is
\* written back, which fails if it was marked for deletion meanwhile.
UpdateMachineStatus ==
    /\ pc = "status"
    /\ \/ Found /\ obj[cur] = "present" /\ ready' = ready \cup {cur}
       \/ Found /\ obj[cur] # "present" /\ UNCHANGED ready
       \/ NotFound /\ UNCHANGED ready
    /\ Return
    /\ UNCHANGED <<obj, inst, aborts>>

\* Mutants of Delete: a machine without an id in its status has no droplet; the
\* error that instanceIfExists returns for a droplet that is gone is returned.
DeleteRecorded ==
    /\ pc = "delete"
    /\ \/ cur \notin ready /\ Goto("finalize") /\ UNCHANGED lost
       \/ cur \in ready /\ Found /\ Goto("destroy")
       \/ cur \in ready /\ NotFound /\ Goto("finalize")
    /\ UNCHANGED <<obj, ready, inst, aborts>>

DeleteFound ==
    /\ pc = "delete"
    /\ \/ Found /\ Goto("destroy")
       \/ NotFound /\ Return
    /\ UNCHANGED <<obj, ready, inst, aborts>>

\* Nothing found, or nothing because of an error: Delete returns nil.
Delete ==
    /\ pc = "delete"
    /\ \/ Found /\ Goto("destroy")
       \/ NotFound /\ Goto("finalize")
    /\ UNCHANGED <<obj, ready, inst, aborts>>

\* One droplet is deleted by its id; an error is only logged.
DeleteInstanceByProviderID ==
    /\ pc = "destroy"
    /\ \/ /\ inst' = [inst EXCEPT ![cur] = @ - 1]
          /\ UNCHANGED lost
       \/ /\ lost < MaxLost
          /\ lost' = lost + 1
          /\ UNCHANGED inst
    /\ Goto("finalize")
    /\ UNCHANGED <<obj, ready, aborts>>

\* A call returns an error, or the controller is killed and started again.
Abort ==
    /\ pc # "idle"
    /\ aborts < MaxAborts
    /\ aborts' = aborts + 1
    /\ Return
    /\ UNCHANGED <<obj, ready, inst, lost>>

-----------------------------------------------------------------------------

Init ==
    /\ obj = [m \in Machines |-> "absent"]
    /\ ready = {}
    /\ inst = [m \in Machines |-> 0]
    /\ pc = "idle"
    /\ cur = NoMachine
    /\ lost = 0
    /\ aborts = 0

Step == \/ Exists \/ Update \/ Create \/ CreateInstance \/ UpdateMachineStatus
        \/ Delete \/ DeleteInstanceByProviderID \/ RemoveFinalizer

Next == \/ \E m \in Machines : \/ AddMachine(m) \/ DeleteMachine(m)
                               \/ AddFinalizer(m) \/ Reconcile(m)
        \/ Step
        \/ Abort

Spec == Init /\ [][Next]_vars

\* The controller goes on, and comes back to every machine.
FairSpec == /\ Spec
            /\ WF_vars(Step)
            /\ \A m \in Machines : SF_vars(Reconcile(m))

-----------------------------------------------------------------------------
(* Properties *)

\* Every variable holds a value of its type.
TypeOK ==
    /\ obj \in [Machines -> ObjStates]
    /\ ready \in SUBSET Machines
    /\ inst \in [Machines -> 0 .. MaxInst]
    /\ pc \in Steps
    /\ cur \in Machines \cup {NoMachine}
    /\ lost \in 0 .. MaxLost
    /\ aborts \in 0 .. MaxAborts

\* Exists and Create both look for the droplet, so that one swallowed error is
\* not enough to make a second one: every droplet beyond the first costs two.
DuplicateNeedsTwoErrors == \A m \in Machines : 2 * inst[m] <= 2 + lost

\* A droplet outlives its Machine object only because an error was swallowed,
\* wherever Create was interrupted and whenever the object was deleted.
LeakExplained == \A m \in Machines : obj[m] = "absent" => inst[m] <= lost

\* A machine that is not deleted gets a droplet and learns its id.
MachineProvisioned ==
    \A m \in Machines : obj[m] = "present" ~> (m \in ready \/ obj[m] # "present")

\* A machine that is deleted goes away, whether its droplet still exists or not.
DeletionFinishes == \A m \in Machines : obj[m] = "deleting" ~> obj[m] = "absent"
=============================================================================
