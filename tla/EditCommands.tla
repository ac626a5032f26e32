---------------------------- MODULE EditCommands ----------------------------
(***************************************************************************)
(* pharmer edit, for the three kinds of object that it knows, beside the   *)
(* commands that change the same object in the meantime.                   *)
(*                                                                         *)
(* An edit is a read, a long pause in an editor, a comparison with what    *)
(* was read, and a write of the whole object.  Only clusters are read once *)
(* more before the write, for their status.  The comparison refuses what   *)
(* the user must not change, and by accident also some stale copies: that  *)
(* is all the protection there is, since the store has no versions.        *)
(*                                                                         *)
(* A call of the store is one step here; VfsStore takes it apart.          *)
(***************************************************************************)
EXTENDS Naturals

CONSTANTS
    Sessions,   \* commands that run at the same time
    MaxClock,   \* bound: moments that time stamps are taken at
    NoObject,
    Syntax      \* text that yaml.Unmarshal rejects

ASSUME MaxClockAssumption == MaxClock \in Nat

VARIABLES
    kind,    \* of the object
    obj,     \* the stored object, or NoObject
    sess,    \* what each command is doing
    tmp,     \* texts that a session has read from the editor and left in files
    export,  \* file that a user has got the object into
    clock    \* the last time stamp that was taken

editVars == <<kind, obj, sess, tmp, export, clock>>

Kinds   == {"cluster", "nodegroup", "credential"}
Phases  == {"Pending", "Ready", "Deleting", "Deleted"}
Missing == "missing"   \* a specification without the version it must have
Specs   == {"s1", "s2"} \cup IF kind = "cluster" THEN {Missing} ELSE {}

Objects ==
    [name : {"it", "other"}, born : 0..MaxClock, generation : 0..MaxClock,
     deleted : 0..MaxClock, spec : Specs, status : Phases]

\* What the patch of two objects calls "metadata".
Metadata(o) == <<o.name, o.born, o.generation, o.deleted>>

Idle == [pc |-> "idle", way |-> "none", original |-> NoObject,
         updated |-> NoObject, edited |-> NoObject]

Tick       == clock < MaxClock /\ clock' = clock + 1
Ended(s)   == sess[s].pc \in {"idle", "done", "failed"}
Goto(s, r) == sess' = [sess EXCEPT ![s] = r]
Fail(s)    == Goto(s, [Idle EXCEPT !.pc = "failed", !.edited = sess[s].edited])
Done(s)    == Goto(s, [Idle EXCEPT !.pc = "done"])

-----------------------------------------------------------------------------
(* The comparison.  The keys "spec.cloud", "spec.api" and so on that it is   *)
(* given for clusters do not occur in a patch (the cloud is at               *)
(* spec.config.cloud), so of the specification nothing is protected.         *)

PreconditionFunc(original, updated) ==
    /\ original.name = updated.name
    /\ original.status = updated.status

\* Mutant: only the name is compared.
ConditionalPreconditionName(original, updated) ==
    original.name = updated.name

ConditionalPreconditionFunc(original, updated) ==
    Metadata(original) = Metadata(updated)

Accepted(original, updated) ==
    /\ original # updated
    /\ PreconditionFunc(original, updated)
    /\ ConditionalPreconditionFunc(original, updated)

\* The session r either goes on with the write or ends with the error.
Compare(s, r) ==
    IF Accepted(r.original, r.updated)
    THEN Goto(s, [r EXCEPT !.pc = IF kind = "cluster" THEN "generation" ELSE "store"])
    ELSE Goto(s, [Idle EXCEPT !.pc = "failed", !.edited = r.edited])

-----------------------------------------------------------------------------
(* Ways into an edit *)

\* With --file a cluster must have no argument, and must have one; the flags of
\* credentials are not bound to the options.
ClusterEditConfig    == {"editor", "flags"}
NodeGroupEditConfig  == {"editor", "flags", "file"}
CredentialEditConfig == {"editor"}

Ways == [cluster |-> ClusterEditConfig, nodegroup |-> NodeGroupEditConfig,
         credential |-> CredentialEditConfig]

Begin(s, way, pc) ==
    [Idle EXCEPT !.pc = pc, !.way = way, !.original = obj, !.updated = obj]

Start(s, k, way) ==
    /\ Ended(s) /\ kind = k /\ way \in Ways[k]
    /\ obj # NoObject
    /\ tmp' = [tmp EXCEPT ![s] = {}]
    /\ UNCHANGED <<kind, obj, export, clock>>

\* Without flags: the object is printed into a temporary file.
OpenEditor(s, k) ==
    /\ Start(s, k, "editor")
    /\ Goto(s, Begin(s, "editor", "editing"))

\* With a flag: the object is read a second time.
ReadTwice(s, k) ==
    Start(s, k, "flags") /\ Goto(s, Begin(s, "flags", "again"))

\* With a file: metadata and specification are those of the file.
ReadFile(s, k) ==
    /\ Start(s, k, "file") /\ export # NoObject
    /\ Goto(s, [Begin(s, "file", "again") EXCEPT
                  !.updated = [export EXCEPT !.status = obj.status]])

runUpdateCluster(s)    == OpenEditor(s, "cluster") \/ ReadTwice(s, "cluster")
RunUpdateNodeGroup(s)  ==
    \/ OpenEditor(s, "nodegroup") \/ ReadTwice(s, "nodegroup")
    \/ ReadFile(s, "nodegroup")
RunUpdateCredential(s) == OpenEditor(s, "credential")

\* The second read.  --kubernetes-version sets the version; --locked and
\* --do-not-delete set nothing.
FlagValues(o) ==
    {o} \cup IF kind = "cluster" THEN {[o EXCEPT !.spec = v] : v \in Specs \ {Missing}}
             ELSE {}

ReadAgain(s) ==
    /\ sess[s].pc = "again"
    /\ IF obj = NoObject THEN Fail(s)
       ELSE IF sess[s].way = "file"
       THEN Compare(s, [sess[s] EXCEPT !.original = obj])
       ELSE \E u \in FlagValues(obj) :
              Compare(s, [sess[s] EXCEPT !.updated = u])
    /\ UNCHANGED <<kind, obj, tmp, export, clock>>
-----------------------------------------------------------------------------
(* The editor *)

\* What a user may make of the object, one thing at a time.
Texts(o) ==
    {Syntax, o} \cup
    {[o EXCEPT !.spec = v] : v \in Specs} \cup
    {[o EXCEPT !.name = "other"], [o EXCEPT !.deleted = IF @ = 0 THEN MaxClock ELSE 0],
     [o EXCEPT !.status = "Deleted"]}

Leave(s, t) == tmp' = [tmp EXCEPT ![s] = @ \cup {t}]

\* The editor ends with an error, or there is none: the file is left unread.
LaunchFails(s) ==
    /\ sess[s].pc = "editing"
    /\ Fail(s) /\ UNCHANGED tmp

\* Nothing was changed, or a syntax error was left as it is.
EditCancelled(s) ==
    /\ sess[s].pc = "editing"
    /\ \/ UNCHANGED tmp /\ Done(s)
       \/ sess[s].edited = Syntax /\ UNCHANGED tmp /\ Fail(s)

\* The file is opened again, with its text; no file of an earlier round is removed.
EditAgain(s) ==
    /\ sess[s].pc = "editing"
    /\ Leave(s, Syntax)
    /\ Goto(s, [sess[s] EXCEPT !.edited = Syntax])

\* Mutant: the file is removed as soon as it is read.
EditSavedNoFile(s) ==
    /\ sess[s].pc = "editing"
    /\ \E t \in Texts(sess[s].original) \ {Syntax, sess[s].original} :
         /\ UNCHANGED tmp
         /\ Compare(s, [sess[s] EXCEPT !.updated = t, !.edited = t])

EditSaved(s) ==
    /\ sess[s].pc = "editing"
    /\ \E t \in Texts(sess[s].original) \ {Syntax, sess[s].original} :
         /\ Leave(s, t)
         /\ Compare(s, [sess[s] EXCEPT !.updated = t, !.edited = t])

Edit(s, k) ==
    /\ kind = k
    /\ LaunchFails(s) \/ EditCancelled(s) \/ EditAgain(s) \/ EditSaved(s)
    /\ UNCHANGED <<kind, obj, export, clock>>

editCluster(s)    == Edit(s, "cluster")
editNodeGroup(s)  == Edit(s, "nodegroup")
editCredential(s) == Edit(s, "credential")

-----------------------------------------------------------------------------
(* The write *)

\* The status is taken from a fresh read, everything else is as it was read.
updateGeneration(s) ==
    /\ sess[s].pc = "generation"
    /\ IF obj = NoObject \/ sess[s].updated.spec = Missing
       THEN Fail(s) /\ UNCHANGED clock
       ELSE /\ Tick
            /\ Goto(s, [sess[s] EXCEPT !.pc = "store",
                          !.updated.status = obj.status,
                          !.updated.generation = clock'])
    /\ UNCHANGED <<kind, obj, tmp, export>>

\* Update of the store, and the temporary file is removed.
Store(s, k) ==
    /\ sess[s].pc = "store" /\ kind = k
    /\ IF obj = NoObject
       THEN Fail(s) /\ UNCHANGED <<obj, tmp>>
       ELSE /\ obj' = sess[s].updated
            /\ tmp' = [tmp EXCEPT ![s] = @ \ {sess[s].edited}]
            /\ Done(s)
    /\ UNCHANGED <<kind, export, clock>>

UpdateCluster(s)    == Store(s, "cluster")
UpdateNodeGroup(s)  == Store(s, "nodegroup")
updateCredential(s) == Store(s, "credential")

\* The command is killed; the files stay.
Kill(s) ==
    /\ ~Ended(s) /\ Fail(s)
    /\ UNCHANGED <<kind, obj, tmp, export, clock>>

-----------------------------------------------------------------------------
(* The other commands *)

\* delete cluster and delete nodegroup read the object and store it with a
\* DeletionTimestamp.
Mark(s, k, phase) ==
    /\ Ended(s) /\ kind = k /\ obj # NoObject
    /\ Tick
    /\ Goto(s, [Begin(s, "delete", "store") EXCEPT !.updated.deleted = clock',
                                                   !.updated.status = phase])
    /\ tmp' = [tmp EXCEPT ![s] = {}]
    /\ UNCHANGED <<kind, obj, export>>

DeleteCluster(s)    == Mark(s, "cluster", "Deleting")
DeleteMachineSet(s) == Mark(s, "nodegroup", obj.status)

runDeleteCredentialCmd ==
    /\ kind = "credential" /\ obj # NoObject
    /\ obj' = NoObject
    /\ UNCHANGED <<kind, sess, tmp, export, clock>>

New(time) == [name |-> "it", born |-> time, generation |-> 0, deleted |-> 0,
              spec |-> "s1", status |-> "Pending"]

\* CreationTimestamp tells an object from an earlier one of its name.
Create(k) ==
    /\ kind = k /\ obj = NoObject
    /\ Tick
    /\ obj' = New(clock')
    /\ UNCHANGED <<kind, sess, tmp, export>>

runCreateCredential == Create("credential")
CreateMachineSets   == Create("nodegroup")

\* Apply stores the phase of a cluster, and removes a node group that is marked.
UpdateStatus ==
    /\ kind = "cluster" /\ obj # NoObject
    /\ \/ obj.status = "Pending" /\ obj' = [obj EXCEPT !.status = "Ready"]
       \/ obj.status = "Deleting" /\ obj' = [obj EXCEPT !.status = "Deleted"]
    /\ UNCHANGED <<kind, sess, tmp, export, clock>>

RemoveMachineSet ==
    /\ kind = "nodegroup" /\ obj # NoObject /\ obj.deleted > 0
    /\ obj' = NoObject
    /\ UNCHANGED <<kind, sess, tmp, export, clock>>

\* get nodegroup -o yaml, into a file whose specification is then changed.
Export ==
    /\ kind = "nodegroup" /\ obj # NoObject
    /\ export' = [obj EXCEPT !.spec = "s2"]
    /\ UNCHANGED <<kind, obj, sess, tmp, clock>>
-----------------------------------------------------------------------------

EditInit ==
    /\ kind \in Kinds
    /\ obj = New(0) /\ clock = 0
    /\ sess = [s \in Sessions |-> Idle]
    /\ tmp = [s \in Sessions |-> {}]
    /\ export = NoObject

EditNext ==
    \/ \E s \in Sessions :
         \/ runUpdateCluster(s) \/ RunUpdateNodeGroup(s) \/ RunUpdateCredential(s)
         \/ ReadAgain(s)
         \/ editCluster(s) \/ editNodeGroup(s) \/ editCredential(s)
         \/ updateGeneration(s)
         \/ UpdateCluster(s) \/ UpdateNodeGroup(s) \/ updateCredential(s)
         \/ Kill(s)
         \/ DeleteCluster(s) \/ DeleteMachineSet(s)
    \/ runDeleteCredentialCmd \/ runCreateCredential \/ CreateMachineSets
    \/ UpdateStatus \/ RemoveMachineSet \/ Export

-----------------------------------------------------------------------------
(* Properties *)

\* A session holds a copy without the mark that it may still store.  (One that
\* reads the object again is not behind: the comparison is with the second read.)
Behind(s) ==
    \/ sess[s].pc = "editing" /\ sess[s].original.deleted = 0
    \/ sess[s].pc \in {"generation", "store"} /\ sess[s].updated.deleted = 0

DeletionMarked ==
    obj # NoObject /\ obj.deleted > 0 /\ \A s \in Sessions : ~Behind(s)

\* Once an object is marked as deleted and no session holds an older copy of it,
\* the mark stays until the object is removed: nothing that users write in the
\* editor, no old file and no session that read the object twice, once before the
\* mark and once after it, takes it away.
DeletionSurvives ==
    [][DeletionMarked => DeletionMarked' \/ obj' = NoObject]_editVars

\* What a user has saved in the editor is not lost when the command refuses it,
\* fails or is killed: it is still in a temporary file.
WorkKept ==
    \A s \in Sessions :
        sess[s].pc = "failed" /\ sess[s].edited # NoObject
            => sess[s].edited \in tmp[s]

=============================================================================
