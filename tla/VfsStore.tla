------------------------------ MODULE VfsStore ------------------------------
(***************************************************************************)
(* The file store, used by commands that run at the same time and may be   *)
(* killed.  There is no lock: a call looks whether the file is there,      *)
(* truncates or creates it, and writes it, and anything may happen in      *)
(* between.  Clusters, credentials, machines and machine sets are one JSON *)
(* file each, certificates and SSH keys two files.                         *)
(*                                                                         *)
(* The commands work on one object of one kind; objects in different files *)
(* have nothing to do with each other.                                     *)
(***************************************************************************)
EXTENDS Naturals, FiniteSets

CONSTANTS
    Commands,  \* pharmer commands
    Values,    \* what they write: a spec, a status, a key
    MaxKills,  \* bound: commands that are killed inside a call
    None,      \* there is no file
    Cut,       \* a file that was truncated and not written yet
    Lost       \* see ObjectStore

ASSUME MaxKillsAssumption == MaxKills \in Nat

\* The content of a file is not mistaken for a missing or a truncated one.
ASSUME ContentAssumption ==
    /\ None # Cut
    /\ {None, Cut} \cap (Values \cup [spec : Values, status : Values]) = {}

VARIABLES
    kind,     \* of the object
    fst,      \* its file, or the one of the certificate or public key
    snd,      \* the file of the private key
    cmd,      \* call that each command is in
    misread,  \* history: a Get found the object but could not use it
    spoilt,   \* history: calls that overlapped, and calls that were killed
    kills

vars == <<kind, fst, snd, cmd, misread, spoilt, kills>>

Files == {"cluster", "credential", "machine", "machineset"}
Pairs == {"certificate", "ssh"}

Resources == [spec : Values, status : Values]
Objects   == IF kind \in Pairs THEN Values ELSE Resources

Call(op, pc, new, was) == [op |-> op, pc |-> pc, new |-> new, was |-> was]
NoCall == Call("none", "idle", None, None)

Broken == Cut

Content ==
    IF kind \in Files \/ fst = snd THEN fst ELSE Broken

-----------------------------------------------------------------------------
(* Steps of a call *)

Overlap(c, op) ==
    LET others == {cmd[d].op : d \in {d \in Commands \ {c} : cmd[d].pc # "idle"}}
    IN  IF others = {} THEN {}
        ELSE IF op = "Get" \/ others = {"Get"} THEN {"read"} ELSE {"overlap"}

\* A call begins by looking for the file; an error leaves everything as it is.
Item(c, op, ok, pc, new) ==
    /\ cmd[c].pc = "idle" /\ ok
    /\ cmd' = [cmd EXCEPT ![c] = Call(op, pc, new, Content)]
    /\ spoilt' = spoilt \cup Overlap(c, op)
    /\ UNCHANGED <<kind, fst, snd, misread, kills>>

At(c, op, pc) == cmd[c].op = op /\ cmd[c].pc = pc

\* The call goes on, or returns.
Goto(c, pc) == cmd' = [cmd EXCEPT ![c].pc = pc]
Return(c)   == cmd' = [cmd EXCEPT ![c] = NoCall]

Others == UNCHANGED <<kind, misread, spoilt, kills>>

\* External: Put creates or truncates the file and then writes it.
Put(c, op) ==
    \/ At(c, op, "put") /\ Goto(c, "write") /\ fst' = Cut /\ UNCHANGED snd /\ Others
    \/ /\ At(c, op, "write") /\ fst' = cmd[c].new /\ UNCHANGED snd /\ Others
       /\ IF kind \in Pairs THEN Goto(c, "item2") ELSE Return(c)

\* External: RemoveItem is os.Remove: it takes a path, not a name.
RemoveItem(c) ==
    /\ At(c, "Delete", "remove") /\ fst' = None /\ UNCHANGED snd /\ Others
    /\ IF kind \in Pairs THEN Goto(c, "item2") ELSE Return(c)

CreateFile(c, k) ==
    /\ kind = k
    /\ \/ \E v \in Objects : Item(c, "Create", fst = None, "put", v)
       \/ Put(c, "Create")

UpdateFile(c, k) ==
    /\ kind = k
    /\ \/ \E v \in Objects : Item(c, "Update", fst # None, "put", v)
       \/ Put(c, "Update")

\* Reads the object and writes it back with another status.
UpdateStatusOf(c, k) ==
    /\ kind = k
    /\ \/ /\ fst \in Objects
          /\ \E s \in Values : Item(c, "UpdateStatus", TRUE, "put", [fst EXCEPT !.status = s])
       \/ Put(c, "UpdateStatus")

DeleteFile(c, k) ==
    /\ kind = k
    /\ Item(c, "Delete", fst # None, "remove", None) \/ RemoveItem(c)

\* Opens the file and reads it.
ReadFile(c, k) ==
    /\ kind = k
    /\ \/ Item(c, "Get", fst # None, "read", None)
       \/ /\ At(c, "Get", "read") /\ Return(c)
          /\ misread' = (misread \/ fst = Cut)
          /\ UNCHANGED <<kind, fst, snd, spoilt, kills>>

-----------------------------------------------------------------------------
(* The stores of one file *)

clusterList(c)         == ReadFile(c, "cluster")
clusterGet(c)          == ReadFile(c, "cluster")
clusterCreate(c)       == CreateFile(c, "cluster")
clusterUpdate(c)       == UpdateFile(c, "cluster")
clusterDelete(c)       == DeleteFile(c, "cluster")
clusterUpdateStatus(c) == UpdateStatusOf(c, "cluster")

\* The uuid is not stored: only the file is looked for.
clusterUpdateUUID(c)   == kind = "cluster" /\ fst # None /\ UNCHANGED vars

credentialList(c)   == ReadFile(c, "credential")
credentialGet(c)    == ReadFile(c, "credential")
credentialCreate(c) == CreateFile(c, "credential")
credentialUpdate(c) == UpdateFile(c, "credential")
credentialDelete(c) == DeleteFile(c, "credential")

machineSetList(c)         == ReadFile(c, "machineset")
machineSetGet(c)          == ReadFile(c, "machineset")
machineSetCreate(c)       == CreateFile(c, "machineset")
machineSetUpdate(c)       == UpdateFile(c, "machineset")
machineSetDelete(c)       == DeleteFile(c, "machineset")
machineSetUpdateStatus(c) == UpdateStatusOf(c, "machineset")

machineList(c)         == ReadFile(c, "machine")
machineGet(c)          == ReadFile(c, "machine")
machineCreate(c)       == CreateFile(c, "machine")
machineUpdate(c)       == UpdateFile(c, "machine")
machineUpdateStatus(c) == UpdateStatusOf(c, "machine")

\* The name is taken for a path: there is no such file in the directory that
\* the command was started in, and the machine stays.
machineDelete(c) ==
    /\ kind = "machine"
    /\ \/ Item(c, "Delete", TRUE, "remove", None)
       \/ At(c, "Delete", "remove") /\ Return(c) /\ UNCHANGED <<fst, snd>> /\ Others

JsonStore(c) ==
    \/ clusterList(c) \/ clusterGet(c) \/ clusterCreate(c) \/ clusterUpdate(c)
    \/ clusterDelete(c) \/ clusterUpdateStatus(c) \/ clusterUpdateUUID(c)
    \/ credentialList(c) \/ credentialGet(c) \/ credentialCreate(c)
    \/ credentialUpdate(c) \/ credentialDelete(c)
    \/ machineSetList(c) \/ machineSetGet(c) \/ machineSetCreate(c)
    \/ machineSetUpdate(c) \/ machineSetDelete(c) \/ machineSetUpdateStatus(c)
    \/ machineList(c) \/ machineGet(c) \/ machineCreate(c) \/ machineUpdate(c)
    \/ machineUpdateStatus(c) \/ machineDelete(c)

-----------------------------------------------------------------------------
(* The stores of two files *)

\* Mutant: the first file is not looked for.
CreatePairBlind(c, k) ==
    /\ kind = k
    /\ \/ \E v \in Objects : Item(c, "Create", TRUE, "put", v)
       \/ Put(c, "Create")
       \/ /\ At(c, "Create", "item2") /\ UNCHANGED <<fst, snd>> /\ Others
          /\ IF snd = None THEN Goto(c, "put2") ELSE Return(c)
       \/ At(c, "Create", "put2") /\ Goto(c, "write2") /\ snd' = Cut /\ UNCHANGED fst /\ Others
       \/ At(c, "Create", "write2") /\ Return(c) /\ snd' = cmd[c].new /\ UNCHANGED fst /\ Others

\* Each file is looked for just before it is written.
CreatePair(c, k) ==
    /\ kind = k
    /\ \/ \E v \in Objects : Item(c, "Create", fst = None, "put", v)
       \/ Put(c, "Create")
       \/ /\ At(c, "Create", "item2") /\ UNCHANGED <<fst, snd>> /\ Others
          /\ IF snd = None THEN Goto(c, "put2") ELSE Return(c)
       \/ At(c, "Create", "put2") /\ Goto(c, "write2") /\ snd' = Cut /\ UNCHANGED fst /\ Others
       \/ At(c, "Create", "write2") /\ Return(c) /\ snd' = cmd[c].new /\ UNCHANGED fst /\ Others

\* Mutant: the second file is left.
DeletePairHalf(c, k) ==
    /\ kind = k
    /\ \/ Item(c, "Delete", fst # None, "remove", None)
       \/ RemoveItem(c)
       \/ At(c, "Delete", "item2") /\ Return(c) /\ UNCHANGED <<fst, snd>> /\ Others

DeletePair(c, k) ==
    /\ kind = k
    /\ \/ Item(c, "Delete", fst # None, "remove", None)
       \/ RemoveItem(c)
       \/ /\ At(c, "Delete", "item2") /\ UNCHANGED <<fst, snd>> /\ Others
          /\ IF snd = None THEN Return(c) ELSE Goto(c, "remove2")
       \/ At(c, "Delete", "remove2") /\ Return(c) /\ snd' = None /\ UNCHANGED fst /\ Others

\* The two files are read one after the other.
ReadPair(c, k) ==
    /\ kind = k
    /\ \/ Item(c, "Get", fst # None, "read", None)
       \/ /\ At(c, "Get", "read")
          /\ cmd' = [cmd EXCEPT ![c].pc = "read2", ![c].new = fst]
          /\ UNCHANGED <<fst, snd>> /\ Others
       \/ /\ At(c, "Get", "read2") /\ Return(c)
          /\ misread' = (misread \/ cmd[c].new \notin Values \/ cmd[c].new # snd)
          /\ UNCHANGED <<kind, fst, snd, spoilt, kills>>

certificateGet(c)    == ReadPair(c, "certificate")
certificateCreate(c) == CreatePair(c, "certificate")
certificateDelete(c) == DeletePair(c, "certificate")

sshGet(c)    == ReadPair(c, "ssh")
sshCreate(c) == CreatePair(c, "ssh")
sshDelete(c) == DeletePair(c, "ssh")

PairStore(c) ==
    \/ certificateGet(c) \/ certificateCreate(c) \/ certificateDelete(c)
    \/ sshGet(c) \/ sshCreate(c) \/ sshDelete(c)

-----------------------------------------------------------------------------

Init ==
    /\ kind \in Files \cup Pairs /\ fst = None /\ snd = None
    /\ cmd = [c \in Commands |-> NoCall]
    /\ misread = FALSE /\ spoilt = {} /\ kills = 0

\* Between the first and the last change that a call makes to the files.
Midway(c) == cmd[c].pc \in {"write", "item2", "put2", "write2", "remove2"}

Kill(c) ==
    /\ cmd[c].pc # "idle" /\ kills < MaxKills
    /\ kills' = kills + 1 /\ Return(c)
    /\ spoilt' = IF Midway(c) THEN spoilt \cup {cmd[c].op} ELSE spoilt
    /\ UNCHANGED <<kind, fst, snd, misread>>

Next == \E c \in Commands : JsonStore(c) \/ PairStore(c) \/ Kill(c)

Spec == Init /\ [][Next]_vars

-----------------------------------------------------------------------------
(* Properties *)

\* A certificate and a key that are both in the store belong together (the
\* order in certificate.go and ssh.go: the first file is looked for first).
\* Exceptions: two commands worked on the pair at once, or a Delete was killed
\* after the first file: then the next Create writes a new first file, finds
\* the old second one, returns an error and leaves both.
PairsMatch ==
    kind \in Pairs /\ {fst, snd} \subseteq Values /\ fst # snd =>
        \/ \E c \in Commands : Midway(c)
        \/ spoilt \cap {"overlap", "Delete"} # {}

\* A Get that finds an object gets all of it, unless it ran into another
\* command or into what a killed one has left.
ReadsWhole == misread => spoilt # {}

StoredObject ==
    IF spoilt \ {"read"} # {} THEN Lost
    ELSE IF \E c \in Commands : Midway(c)
         THEN cmd[CHOOSE c \in Commands : Midway(c)].was
         ELSE Content

Abstract == INSTANCE ObjectStore WITH
    Objects <- Values \cup Resources, object <- StoredObject

\* As long as no two calls overlap and none is killed half way, every call
\* happens at once or not at all, for every kind of object.
Atomic == Abstract!Spec
=============================================================================
