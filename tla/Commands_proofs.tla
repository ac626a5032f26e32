--------------------------- MODULE Commands_proofs --------------------------
(***************************************************************************)
(* What the commands beside the life cycle promise, for any number of      *)
(* commands at work, of clusters, minutes, versions and nodes.             *)
(***************************************************************************)
EXTENDS Commands, FiniteSetTheorems, NaturalsInduction, WellFoundedInduction, TLAPS

-----------------------------------------------------------------------------
(* Edit commands *)

Objs == [name : {"it", "other"}, born : Nat, generation : Nat, deleted : Nat,
         spec : {"s1", "s2", Missing}, status : Phases]

Steps == {"idle", "done", "failed", "editing", "again", "generation", "store"}
Contents == Objs \cup {NoObject, Syntax}

SessionRecords ==
    [pc : Steps, way : {"none", "editor", "flags", "file", "delete"},
     original : Contents, updated : Contents, edited : Contents]

EditTypes ==
    /\ kind \in Kinds
    /\ obj \in Objs \cup {NoObject}
    /\ export \in Objs \cup {NoObject}
    /\ clock \in Nat
    /\ sess \in [Sessions -> SessionRecords]
    /\ tmp \in [Sessions -> SUBSET Contents]

\* What a session holds: whole objects while it works on one, and the text it has
\* read from the editor, in a file.
SessionInv(s) ==
    /\ sess[s].pc \in {"editing", "again", "generation", "store"} =>
           sess[s].original \in Objs /\ sess[s].updated \in Objs
    /\ sess[s].edited = NoObject \/ sess[s].edited \in tmp[s]

EditInv == EditTypes /\ \A s \in Sessions : SessionInv(s)

\* The step of DeletionSurvives, and its two parts: the object keeps its mark, and
\* a session that turns to r has the mark in the copy that it may store.
KeepsMark == DeletionMarked => DeletionMarked' \/ obj' = NoObject

ObjectMarked == DeletionMarked => obj' = NoObject \/ (obj' # NoObject /\ obj'.deleted > 0)

Carries(r) ==
    /\ r.pc = "editing" => r.original.deleted # 0
    /\ r.pc \in {"generation", "store"} => r.updated.deleted # 0

\* The object is left alone.
LEMMA SameObject ==
    ASSUME obj' = obj
    PROVE  ObjectMarked /\ (DeletionMarked => obj.deleted # 0)
  BY DEF ObjectMarked, DeletionMarked

\* A session that is replaced by the record r.
LEMMA SessionStep ==
    ASSUME EditInv, NEW s \in Sessions, NEW r \in SessionRecords, Goto(s, r),
           kind' \in Kinds, obj' \in Objs \cup {NoObject}, export' \in Objs \cup {NoObject},
           clock' \in Nat, tmp' \in [Sessions -> SUBSET Contents],
           \A t \in Sessions : t # s => tmp'[t] = tmp[t],
           r.pc \in {"editing", "again", "generation", "store"} =>
               r.original \in Objs /\ r.updated \in Objs,
           r.edited = NoObject \/ r.edited \in tmp'[s],
           ObjectMarked, DeletionMarked => Carries(r)
    PROVE  EditInv' /\ KeepsMark
<1>1. sess' \in [Sessions -> SessionRecords] /\ sess'[s] = r
      /\ \A t \in Sessions : t # s => sess'[t] = sess[t]
  BY DEF EditInv, EditTypes, Goto
<1>2. \A t \in Sessions : SessionInv(t)'
  BY <1>1 DEF EditInv, SessionInv
<1>3. KeepsMark
  BY <1>1 DEF KeepsMark, ObjectMarked, DeletionMarked, Behind, Carries
<1> QED
  BY <1>1, <1>2, <1>3 DEF EditInv, EditTypes

\* No session is touched.
LEMMA NoSessionStep ==
    ASSUME EditInv, UNCHANGED <<kind, sess, tmp>>, obj' \in Objs \cup {NoObject},
           export' \in Objs \cup {NoObject}, clock' \in Nat, ObjectMarked
    PROVE  EditInv' /\ KeepsMark
<1>1. EditInv'
  BY DEF EditInv, EditTypes, SessionInv
<1>2. KeepsMark
  BY DEF KeepsMark, ObjectMarked, DeletionMarked, Behind
<1> QED
  BY <1>1, <1>2

\* A session that ends keeps the text that it has read, if it fails.
LEMMA EndStep ==
    ASSUME EditInv, NEW s \in Sessions, Fail(s) \/ Done(s),
           UNCHANGED <<kind, export, clock>>, obj' \in Objs \cup {NoObject},
           tmp' \in [Sessions -> SUBSET Contents],
           \A t \in Sessions : t # s => tmp'[t] = tmp[t],
           Fail(s) => tmp' = tmp, ObjectMarked
    PROVE  EditInv' /\ KeepsMark
<1> DEFINE f == [Idle EXCEPT !.pc = "failed", !.edited = sess[s].edited]
           d == [Idle EXCEPT !.pc = "done"]
<1>1. sess[s].edited \in Contents /\ (sess[s].edited = NoObject \/ sess[s].edited \in tmp[s])
  BY DEF EditInv, EditTypes, SessionRecords, SessionInv
<1>2. f \in SessionRecords /\ f.pc = "failed" /\ f.edited = sess[s].edited
  BY <1>1 DEF Idle, SessionRecords, Steps, Contents
<1>3. d \in SessionRecords /\ d.pc = "done" /\ d.edited = NoObject
  BY DEF Idle, SessionRecords, Steps, Contents
<1>4. EditTypes
  BY DEF EditInv
<1>5. CASE Fail(s)
  <2>1. Goto(s, f) /\ tmp' = tmp
    BY <1>5 DEF Fail
  <2> HIDE DEF f, d
  <2> QED
    BY <1>1, <1>2, <1>4, <2>1, SessionStep DEF EditTypes, Carries
<1>6. CASE Done(s)
  <2>1. Goto(s, d)
    BY <1>6 DEF Done
  <2> HIDE DEF f, d
  <2> QED
    BY <1>3, <1>4, <2>1, SessionStep DEF EditTypes, Carries
<1> QED
  BY <1>5, <1>6

\* The comparison lets a session go on only with the metadata it was given.
LEMMA CompareStep ==
    ASSUME EditInv, NEW s \in Sessions, NEW r \in SessionRecords, Compare(s, r),
           r.original \in Objs, r.updated \in Objs, r.edited = NoObject \/ r.edited \in tmp'[s],
           UNCHANGED <<kind, obj, export, clock>>, tmp' \in [Sessions -> SUBSET Contents],
           \A t \in Sessions : t # s => tmp'[t] = tmp[t],
           DeletionMarked => r.original.deleted # 0 \/ r.updated.deleted # 0
    PROVE  EditInv' /\ KeepsMark
<1> DEFINE g == [r EXCEPT !.pc = IF kind = "cluster" THEN "generation" ELSE "store"]
           f == [Idle EXCEPT !.pc = "failed", !.edited = r.edited]
<1>1. EditTypes
  BY DEF EditInv
<1>2. CASE Accepted(r.original, r.updated)
  <2>1. Goto(s, g)
    BY <1>2 DEF Compare
  <2>2. r.updated.deleted = r.original.deleted
    BY <1>2 DEF Accepted, ConditionalPreconditionFunc, Metadata
  <2>3. /\ g \in SessionRecords /\ g.original = r.original /\ g.updated = r.updated
        /\ g.edited = r.edited /\ g.pc \in {"generation", "store"}
    BY DEF SessionRecords, Steps
  <2> HIDE DEF g
  <2>4. DeletionMarked => Carries(g)
    BY <2>2, <2>3 DEF Carries
  <2> QED
    BY <1>1, <2>1, <2>3, <2>4, SessionStep, SameObject DEF EditTypes
<1>3. CASE ~Accepted(r.original, r.updated)
  <2>1. Goto(s, f)
    BY <1>3 DEF Compare
  <2>2. f \in SessionRecords /\ f.pc = "failed" /\ f.edited = r.edited
    BY DEF Idle, SessionRecords, Steps, Contents
  <2> HIDE DEF f
  <2> QED
    BY <1>1, <2>1, <2>2, SessionStep, SameObject DEF EditTypes, Carries
<1> QED
  BY <1>2, <1>3

\* A session that has begun with the stored object.
LEMMA BeginRecord ==
    ASSUME obj \in Objs, NEW s, NEW pc \in Steps,
           NEW way \in {"none", "editor", "flags", "file", "delete"}
    PROVE  LET b == Begin(s, way, pc)
           IN  /\ b \in SessionRecords /\ b.pc = pc /\ b.original = obj /\ b.updated = obj
               /\ b.edited = NoObject
  BY DEF Begin, Idle, SessionRecords, Steps, Contents

\* The ways into an edit.
LEMMA StartStep ==
    ASSUME EditInv, NEW s \in Sessions, NEW k,
           OpenEditor(s, k) \/ ReadTwice(s, k) \/ ReadFile(s, k)
    PROVE  EditInv' /\ KeepsMark
<1>1. EditTypes
  BY DEF EditInv
<1>2. /\ obj \in Objs /\ UNCHANGED <<kind, obj, export, clock>>
      /\ tmp' \in [Sessions -> SUBSET Contents]
      /\ \A t \in Sessions : t # s => tmp'[t] = tmp[t]
  BY <1>1 DEF OpenEditor, ReadTwice, ReadFile, Start, EditTypes
<1>3. CASE OpenEditor(s, k)
  <2> DEFINE b == Begin(s, "editor", "editing")
  <2>1. Goto(s, b)
    BY <1>3 DEF OpenEditor
  <2>2. /\ b \in SessionRecords /\ b.pc = "editing" /\ b.original = obj /\ b.updated = obj
        /\ b.edited = NoObject
    BY <1>2, BeginRecord DEF Steps
  <2> HIDE DEF b
  <2> QED
    BY <1>1, <1>2, <2>1, <2>2, SessionStep, SameObject DEF EditTypes, Carries
<1>4. CASE ReadTwice(s, k)
  <2> DEFINE b == Begin(s, "flags", "again")
  <2>1. Goto(s, b)
    BY <1>4 DEF ReadTwice
  <2>2. /\ b \in SessionRecords /\ b.pc = "again" /\ b.original = obj /\ b.updated = obj
        /\ b.edited = NoObject
    BY <1>2, BeginRecord DEF Steps
  <2> HIDE DEF b
  <2> QED
    BY <1>1, <1>2, <2>1, <2>2, SessionStep, SameObject DEF EditTypes, Carries
<1>5. CASE ReadFile(s, k)
  <2> DEFINE b == Begin(s, "file", "again")
             u == [export EXCEPT !.status = obj.status]
             r == [b EXCEPT !.updated = u]
  <2>1. Goto(s, r)
    BY <1>5 DEF ReadFile
  <2>2. /\ b \in SessionRecords /\ b.pc = "again" /\ b.original = obj /\ b.edited = NoObject
    BY <1>2, BeginRecord DEF Steps
  <2>3. u \in Objs
    BY <1>1, <1>2, <1>5 DEF ReadFile, EditTypes, Objs
  <2> HIDE DEF b, u
  <2>4. /\ r \in SessionRecords /\ r.pc = "again" /\ r.original = obj /\ r.updated = u
        /\ r.edited = NoObject
    BY <2>2, <2>3 DEF SessionRecords, Contents
  <2> HIDE DEF r
  <2> QED
    BY <1>1, <1>2, <2>1, <2>3, <2>4, SessionStep, SameObject DEF EditTypes, Carries
<1> QED
  BY <1>3, <1>4, <1>5

\* The second read.
LEMMA AgainStep ==
    ASSUME EditInv, NEW s \in Sessions, ReadAgain(s)
    PROVE  EditInv' /\ KeepsMark
<1>1. EditTypes /\ SessionInv(s) /\ sess[s] \in SessionRecords
  BY DEF EditInv, EditTypes
<1>2. sess[s].pc = "again" /\ UNCHANGED <<kind, obj, tmp, export, clock>>
  BY DEF ReadAgain
<1>3. CASE Fail(s)
  BY <1>1, <1>2, <1>3, EndStep, SameObject DEF EditTypes
<1>4. CASE obj # NoObject /\ Compare(s, [sess[s] EXCEPT !.original = obj])
  <2> DEFINE r == [sess[s] EXCEPT !.original = obj]
  <2>1. /\ r \in SessionRecords /\ r.original = obj /\ r.updated = sess[s].updated
        /\ r.edited = sess[s].edited
    BY <1>1, <1>4 DEF SessionRecords, EditTypes, Contents
  <2>2. Compare(s, r)
    BY <1>4
  <2> HIDE DEF r
  <2> QED
    BY <1>1, <1>2, <1>4, <2>1, <2>2, CompareStep, SameObject DEF EditTypes, SessionInv
<1>5. ASSUME obj # NoObject, NEW u \in FlagValues(obj),
             Compare(s, [sess[s] EXCEPT !.updated = u])
      PROVE  EditInv' /\ KeepsMark
  <2> DEFINE r == [sess[s] EXCEPT !.updated = u]
  <2>1. u \in Objs /\ u.deleted = obj.deleted
    BY <1>1, <1>5 DEF FlagValues, Specs, EditTypes, Objs, Missing
  <2>2. /\ r \in SessionRecords /\ r.original = sess[s].original /\ r.updated = u
        /\ r.edited = sess[s].edited
    BY <1>1, <2>1 DEF SessionRecords, Contents
  <2>3. Compare(s, r)
    BY <1>5
  <2> HIDE DEF r
  <2> QED
    BY <1>1, <1>2, <2>1, <2>2, <2>3, CompareStep, SameObject DEF EditTypes, SessionInv
<1> QED
  BY <1>3, <1>4, <1>5 DEF ReadAgain

\* The editor: what it leaves is in a file before it is compared.
LEMMA EditorStep ==
    ASSUME EditInv, NEW s \in Sessions, NEW k, Edit(s, k)
    PROVE  EditInv' /\ KeepsMark
<1>1. EditTypes /\ SessionInv(s) /\ sess[s] \in SessionRecords
  BY DEF EditInv, EditTypes
<1>2. UNCHANGED <<kind, obj, export, clock>>
  BY DEF Edit
<1>3. CASE LaunchFails(s) \/ EditCancelled(s)
  <2>1. tmp' = tmp /\ (Fail(s) \/ Done(s))
    BY <1>3 DEF LaunchFails, EditCancelled
  <2> QED
    BY <1>1, <1>2, <2>1, EndStep, SameObject DEF EditTypes
<1>4. ASSUME NEW t, Leave(s, t), t \in Contents
      PROVE  /\ tmp' \in [Sessions -> SUBSET Contents] /\ t \in tmp'[s]
             /\ \A q \in Sessions : q # s => tmp'[q] = tmp[q]
  BY <1>1, <1>4 DEF Leave, EditTypes
<1>5. DeletionMarked /\ sess[s].pc = "editing" => sess[s].original.deleted # 0
  BY DEF DeletionMarked, Behind
<1>6. CASE EditAgain(s)
  <2> DEFINE r == [sess[s] EXCEPT !.edited = Syntax]
  <2>1. /\ r \in SessionRecords /\ r.edited = Syntax /\ r.pc = "editing"
        /\ r.original = sess[s].original /\ r.updated = sess[s].updated
    BY <1>1, <1>6 DEF EditAgain, SessionRecords, Contents
  <2>2. Goto(s, r) /\ Leave(s, Syntax) /\ sess[s].pc = "editing" /\ Syntax \in Contents
    BY <1>6 DEF EditAgain, Contents
  <2> HIDE DEF r
  <2> QED
    BY <1>1, <1>2, <1>4, <1>5, <2>1, <2>2, SessionStep, SameObject
       DEF EditTypes, SessionInv, Carries
<1>7. CASE EditSaved(s)
  <2>1. PICK t \in Texts(sess[s].original) \ {Syntax, sess[s].original} :
          Leave(s, t) /\ Compare(s, [sess[s] EXCEPT !.updated = t, !.edited = t])
    BY <1>7 DEF EditSaved
  <2>2. sess[s].original \in Objs /\ sess[s].pc = "editing"
    BY <1>1, <1>7 DEF SessionInv, EditSaved
  <2>3. t \in Objs
    <3>1. PICK o \in Objs : o = sess[s].original
      BY <2>2
    <3>2. /\ \A v \in Specs : [o EXCEPT !.spec = v] \in Objs
          /\ [o EXCEPT !.name = "other"] \in Objs
          /\ [o EXCEPT !.status = "Deleted"] \in Objs
      BY DEF Objs, Specs, Missing, Phases
    <3>3. [o EXCEPT !.deleted = IF @ = 0 THEN MaxClock ELSE 0] \in Objs
      BY MaxClockAssumption DEF Objs
    <3>4. t \in Texts(o) \ {Syntax, o}
      BY <3>1
    <3> QED
      BY <3>2, <3>3, <3>4 DEF Texts
  <2> DEFINE r == [sess[s] EXCEPT !.updated = t, !.edited = t]
  <2>4. /\ r \in SessionRecords /\ r.original = sess[s].original /\ r.updated = t
        /\ r.edited = t
    BY <1>1, <2>3 DEF SessionRecords, Contents
  <2>5. Compare(s, r) /\ t \in Contents
    BY <2>1, <2>3 DEF Contents
  <2> HIDE DEF r
  <2> QED
    BY <1>1, <1>2, <1>4, <1>5, <2>1, <2>2, <2>3, <2>4, <2>5, CompareStep
<1> QED
  BY <1>3, <1>6, <1>7 DEF Edit

\* The read before a cluster is written.
LEMMA GenerationStep ==
    ASSUME EditInv, NEW s \in Sessions, updateGeneration(s)
    PROVE  EditInv' /\ KeepsMark
<1>1. EditTypes /\ SessionInv(s) /\ sess[s] \in SessionRecords
  BY DEF EditInv, EditTypes
<1>2. sess[s].pc = "generation" /\ UNCHANGED <<kind, obj, tmp, export>>
  BY DEF updateGeneration
<1>3. CASE Fail(s) /\ UNCHANGED clock
  BY <1>1, <1>2, <1>3, EndStep, SameObject DEF EditTypes
<1> DEFINE r == [sess[s] EXCEPT !.pc = "store", !.updated.status = obj.status,
                                !.updated.generation = clock']
<1>4. CASE obj # NoObject /\ Tick /\ Goto(s, r)
  <2>1. clock' \in Nat /\ obj \in Objs
    BY <1>1, <1>4 DEF Tick, EditTypes
  <2>2. PICK q \in SessionRecords, u \in Objs, st \in Phases, n \in Nat :
          q = sess[s] /\ u = sess[s].updated /\ st = obj.status /\ n = clock'
    BY <1>1, <1>2, <2>1 DEF SessionInv, Objs
  <2> DEFINE w == [u EXCEPT !.status = st, !.generation = n]
             p == [q EXCEPT !.pc = "store", !.updated = w]
  <2>3. w \in Objs /\ w.deleted = u.deleted
    BY DEF Objs
  <2>4. r = p
    BY <2>2 DEF SessionRecords
  <2> HIDE DEF w
  <2>5. /\ p \in SessionRecords /\ p.original = q.original /\ p.updated = w
        /\ p.edited = q.edited /\ p.pc = "store"
    BY <2>3 DEF SessionRecords, Contents, Steps
  <2> HIDE DEF p, r
  <2>6. DeletionMarked => Carries(p)
    BY <1>2, <2>2, <2>3, <2>5 DEF DeletionMarked, Behind, Carries
  <2> QED
    BY <1>1, <1>2, <1>4, <2>1, <2>2, <2>3, <2>4, <2>5, <2>6, SessionStep, SameObject
       DEF EditTypes, SessionInv
<1> QED
  BY <1>3, <1>4 DEF updateGeneration

\* The write.
LEMMA WriteStep ==
    ASSUME EditInv, NEW s \in Sessions, NEW k, Store(s, k)
    PROVE  EditInv' /\ KeepsMark
<1>1. EditTypes /\ SessionInv(s) /\ sess[s].pc = "store"
  BY DEF EditInv, Store
<1>2. CASE obj = NoObject /\ Fail(s) /\ UNCHANGED <<obj, tmp>>
  BY <1>1, <1>2, EndStep, SameObject DEF Store, EditTypes
<1>3. CASE /\ obj # NoObject /\ obj' = sess[s].updated /\ Done(s)
           /\ tmp' = [tmp EXCEPT ![s] = @ \ {sess[s].edited}]
  <2>1. /\ tmp' \in [Sessions -> SUBSET Contents]
        /\ \A t \in Sessions : t # s => tmp'[t] = tmp[t]
    BY <1>1, <1>3 DEF EditTypes
  <2>2. ~Fail(s)
    BY <1>1, <1>3 DEF Fail, Done, Goto, Idle, EditTypes
  <2>3. obj' \in Objs /\ (DeletionMarked => obj'.deleted # 0)
    BY <1>1, <1>3 DEF SessionInv, DeletionMarked, Behind
  <2>4. ObjectMarked
    <3>1. obj'.deleted \in Nat /\ (obj'.deleted # 0 => obj'.deleted > 0)
      BY <2>3 DEF Objs
    <3> QED
      BY <2>3, <3>1 DEF ObjectMarked
  <2> QED
    BY <1>1, <2>1, <2>2, <2>3, <2>4, <1>3, EndStep DEF Store, EditTypes
<1> QED
  BY <1>2, <1>3 DEF Store

\* delete cluster and delete nodegroup.
LEMMA MarkStep ==
    ASSUME EditInv, NEW s \in Sessions, NEW k, NEW phase, Mark(s, k, phase),
           obj \in Objs => phase \in Phases
    PROVE  EditInv' /\ KeepsMark
<1>1. EditTypes
  BY DEF EditInv
<1>2. /\ obj \in Objs /\ UNCHANGED <<kind, obj, export>> /\ clock' \in Nat /\ clock' > 0
      /\ tmp' \in [Sessions -> SUBSET Contents]
      /\ \A t \in Sessions : t # s => tmp'[t] = tmp[t]
  BY <1>1 DEF Mark, Tick, EditTypes
<1> DEFINE b == Begin(s, "delete", "store")
           r == [b EXCEPT !.updated.deleted = clock', !.updated.status = phase]
<1>3. Goto(s, r)
  BY DEF Mark
<1>4. /\ b \in SessionRecords /\ b.pc = "store" /\ b.original = obj /\ b.updated = obj
      /\ b.edited = NoObject
  BY <1>2, BeginRecord DEF Steps
<1> HIDE DEF b
<1>5. PICK q \in SessionRecords, u \in Objs, n \in Nat, st \in Phases :
        q = b /\ u = obj /\ n = clock' /\ st = phase
  BY <1>2, <1>4
<1> DEFINE w == [u EXCEPT !.deleted = n, !.status = st]
           p == [q EXCEPT !.updated = w]
<1>6. w \in Objs /\ w.deleted = n
  BY DEF Objs
<1>7. r = p
  BY <1>4, <1>5 DEF SessionRecords
<1> HIDE DEF w
<1>8. /\ p \in SessionRecords /\ p.original = q.original /\ p.updated = w
      /\ p.edited = q.edited /\ p.pc = q.pc
  BY <1>6 DEF SessionRecords, Contents
<1> HIDE DEF p, r
<1>9. Carries(p)
  BY <1>2, <1>4, <1>5, <1>6, <1>8 DEF Carries
<1> QED
  BY <1>1, <1>2, <1>3, <1>4, <1>5, <1>6, <1>7, <1>8, <1>9, SessionStep, SameObject
     DEF EditTypes

\* The commands that do not hold an object across steps.
LEMMA OtherCommandStep ==
    ASSUME EditInv,
           \/ runDeleteCredentialCmd \/ runCreateCredential \/ CreateMachineSets
           \/ UpdateStatus \/ RemoveMachineSet \/ Export
    PROVE  EditInv' /\ KeepsMark
<1>1. EditTypes
  BY DEF EditInv
<1>2. ASSUME NEW k, Create(k) PROVE EditInv' /\ KeepsMark
  <2>1. clock' \in Nat
    BY <1>1, <1>2 DEF Create, Tick, EditTypes
  <2>2. New(clock') \in Objs
    BY <2>1 DEF New, Objs, Phases
  <2>3. ObjectMarked
    BY <1>2 DEF Create, ObjectMarked, DeletionMarked
  <2> QED
    BY <1>1, <1>2, <2>1, <2>2, <2>3, NoSessionStep DEF Create, EditTypes
<1>3. CASE UpdateStatus
  <2>1. obj' \in Objs /\ obj'.deleted = obj.deleted
    BY <1>1, <1>3 DEF UpdateStatus, EditTypes, Objs, Phases
  <2>2. ObjectMarked
    BY <2>1 DEF ObjectMarked, DeletionMarked
  <2> QED
    BY <1>1, <1>3, <2>1, <2>2, NoSessionStep DEF UpdateStatus, EditTypes
<1>4. CASE runDeleteCredentialCmd \/ RemoveMachineSet
  BY <1>1, <1>4, NoSessionStep
     DEF runDeleteCredentialCmd, RemoveMachineSet, EditTypes, ObjectMarked
<1>5. CASE Export
  <2>1. export' \in Objs
    BY <1>1, <1>5 DEF Export, EditTypes, Objs
  <2> QED
    BY <1>1, <1>5, <2>1, NoSessionStep, SameObject DEF Export, EditTypes
<1> QED
  BY <1>2, <1>3, <1>4, <1>5 DEF runCreateCredential, CreateMachineSets

\* Every step of the edit commands keeps what sessions hold, and the mark.
LEMMA EditStep ==
    ASSUME EditInv, EditNext
    PROVE  EditInv' /\ KeepsMark
<1>1. ASSUME NEW s \in Sessions,
             \/ runUpdateCluster(s) \/ RunUpdateNodeGroup(s) \/ RunUpdateCredential(s)
      PROVE  EditInv' /\ KeepsMark
  BY <1>1, StartStep DEF runUpdateCluster, RunUpdateNodeGroup, RunUpdateCredential
<1>2. ASSUME NEW s \in Sessions, editCluster(s) \/ editNodeGroup(s) \/ editCredential(s)
      PROVE  EditInv' /\ KeepsMark
  BY <1>2, EditorStep DEF editCluster, editNodeGroup, editCredential
<1>3. ASSUME NEW s \in Sessions, UpdateCluster(s) \/ UpdateNodeGroup(s) \/ updateCredential(s)
      PROVE  EditInv' /\ KeepsMark
  BY <1>3, WriteStep DEF UpdateCluster, UpdateNodeGroup, updateCredential
<1>4. ASSUME NEW s \in Sessions, Kill(s) PROVE EditInv' /\ KeepsMark
  BY <1>4, EndStep, SameObject DEF Kill, EditInv, EditTypes
<1>5. ASSUME NEW s \in Sessions, DeleteCluster(s) \/ DeleteMachineSet(s)
      PROVE  EditInv' /\ KeepsMark
  <2>1. "Deleting" \in Phases /\ (obj \in Objs => obj.status \in Phases)
    BY DEF Phases, Objs
  <2> QED
    BY <1>5, <2>1, MarkStep DEF DeleteCluster, DeleteMachineSet
<1> QED
  BY <1>1, <1>2, <1>3, <1>4, <1>5, AgainStep, GenerationStep, OtherCommandStep DEF EditNext

\* The same in the composition, where the other commands leave the store alone.
LEMMA EditInvariant == Spec => []EditInv
<1>1. Init => EditInv
  <2> SUFFICES ASSUME Init PROVE EditInv
    OBVIOUS
  <2>1. Idle \in SessionRecords /\ Idle.pc = "idle" /\ Idle.edited = NoObject
    BY DEF Idle, SessionRecords, Steps, Contents
  <2>2. New(0) \in Objs
    BY DEF New, Objs, Phases
  <2>3. EditTypes
    BY <2>1, <2>2 DEF Init, EditInit, EditTypes
  <2>4. \A s \in Sessions : SessionInv(s)
    BY <2>1 DEF Init, EditInit, SessionInv
  <2> QED
    BY <2>3, <2>4 DEF EditInv
<1>2. EditInv /\ [Next]_commandVars => EditInv'
  <2> SUFFICES ASSUME EditInv, EditNext \/ UNCHANGED editVars PROVE EditInv'
    BY DEF Next, commandVars
  <2>1. CASE UNCHANGED editVars
    BY <2>1 DEF editVars, EditInv, EditTypes, SessionInv
  <2> QED
    BY <2>1, EditStep
<1> QED
  BY <1>1, <1>2, PTL DEF Spec

\* What a user has saved in the editor is still in a file when the command
\* refuses it, fails or is killed, for any number of commands.
THEOREM EditWorkKept == Spec => []WorkKept
<1>1. EditInv => WorkKept
  BY DEF EditInv, SessionInv, WorkKept
<1> QED
  BY <1>1, EditInvariant, PTL

\* The mark of a deleted object stays until the object is removed, once no session
\* holds an older copy of it, for any number of edits and deletions.
THEOREM EditDeletionSurvives == Spec => DeletionSurvives
<1>1. ASSUME EditInv, [Next]_commandVars
      PROVE  [DeletionMarked => DeletionMarked' \/ obj' = NoObject]_editVars
  <2>1. CASE UNCHANGED editVars
    BY <2>1
  <2>2. CASE EditNext
    BY <1>1, <2>2, EditStep DEF KeepsMark
  <2> QED
    BY <1>1, <2>1, <2>2 DEF Next, commandVars
<1> QED
  BY <1>1, EditInvariant, PTL DEF Spec, DeletionSurvives

-----------------------------------------------------------------------------
(* pharmer use cluster *)

Names   == Clusters \cup {"none", "no file", Other}
Configs == [current : Names, contexts : SUBSET Names]

Uses == [pc : {"idle", "load", "create", "copy", "set", "write"},
         name : Names, overwrite : BOOLEAN, konfig : Configs,
         minute : 0..MaxMinutes]

UseTypes ==
    /\ kubeconfig \in Configs /\ minute \in 0..MaxMinutes
    /\ bak \in [0..MaxMinutes -> Configs]
    /\ use \in [Users -> Uses]
    /\ had \in BOOLEAN /\ accident \in BOOLEAN

Holds(config) == Other \in config.contexts

\* What a command has got, once another tool has written while no command was at
\* work on an older file, and as long as no truncated file was met: a kubeconfig
\* with the other context, and a backup that has it, or that is being written.
UseInvOf(u) ==
    /\ use[u].pc \in {"create", "copy", "set", "write"} => Holds(use[u].konfig)
    /\ use[u].pc \in {"copy", "set"} => LET b == bak[use[u].minute] IN b = Empty \/ Holds(b)

\* The kubeconfig has the other context, or is truncated; in that case some
\* backup has it.
KeptInv ==
    /\ kubeconfig = Empty \/ Holds(kubeconfig)
    /\ Holds(kubeconfig) \/ \E m \in 0..MaxMinutes : Holds(bak[m])
    /\ \A u \in Users : UseInvOf(u)

UseInv == UseTypes /\ (had /\ ~accident => KeptInv)

\* Constants of the model.
LEMMA UseConstants ==
    /\ Empty \in Configs /\ ~Holds(Empty) /\ ~Holds(Absent) /\ Absent \in Configs
    /\ NotRunning \in Uses /\ NotRunning.pc = "idle"
  BY MaxMinutesAssumption DEF Empty, Absent, Config, Configs, Names, Holds, NotRunning, Uses

\* A command that turns to r.
LEMMA BecomeStep ==
    ASSUME UseTypes, NEW u \in Users, NEW r \in Uses, Become(u, r)
    PROVE  /\ use' \in [Users -> Uses] /\ use'[u] = r
           /\ \A v \in Users : v # u => use'[v] = use[v]
  BY DEF UseTypes, Become

\* The kubeconfig is read, or was not there before the other tool wrote it.
LEMMA LoadStep ==
    ASSUME UseInv, NEW u \in Users, LoadFromFile(u)
    PROVE  UseInv'
<1>1. UseTypes /\ use[u] \in Uses /\ use[u].pc = "load"
  BY DEF UseInv, UseTypes, LoadFromFile, At
<1>2. /\ UNCHANGED <<kubeconfig, bak, minute, had>> /\ accident' \in BOOLEAN
      /\ ~accident' => ~accident /\ kubeconfig # Empty
  BY <1>1 DEF LoadFromFile, Meets, UseTypes
<1>3. CASE kubeconfig = Absent /\ Become(u, [use[u] EXCEPT !.pc = "set"])
  <2> DEFINE r == [use[u] EXCEPT !.pc = "set"]
  <2>1. r \in Uses /\ Become(u, r)
    BY <1>1, <1>3 DEF Uses
  <2> HIDE DEF r
  <2>2. use' \in [Users -> Uses]
    BY <1>1, <2>1, BecomeStep
  <2>3. ~(had /\ ~accident')
    BY <1>2, <1>3, UseConstants DEF UseInv, KeptInv
  <2> QED
    BY <1>1, <1>2, <2>2, <2>3 DEF UseInv, UseTypes
<1>4. CASE Become(u, [use[u] EXCEPT !.pc = "create", !.konfig = kubeconfig, !.minute = minute])
  <2> DEFINE r == [use[u] EXCEPT !.pc = "create", !.konfig = kubeconfig, !.minute = minute]
  <2>1. r \in Uses /\ r.pc = "create" /\ r.konfig = kubeconfig /\ Become(u, r)
    BY <1>1, <1>4 DEF Uses, UseTypes
  <2> HIDE DEF r
  <2>2. /\ use' \in [Users -> Uses] /\ use'[u] = r
        /\ \A v \in Users : v # u => use'[v] = use[v]
    BY <1>1, <2>1, BecomeStep
  <2>3. ASSUME had, ~accident' PROVE KeptInv'
    BY <1>2, <2>1, <2>2, <2>3 DEF UseInv, KeptInv, UseInvOf
  <2> QED
    BY <1>1, <1>2, <2>2, <2>3 DEF UseInv, UseTypes
<1> QED
  BY <1>3, <1>4 DEF LoadFromFile

\* The backup is created, over one of the same minute.
LEMMA CreateBackupStep ==
    ASSUME UseInv, NEW u \in Users, CreateBackup(u)
    PROVE  UseInv'
<1>1. UseTypes /\ use[u] \in Uses /\ use[u].pc = "create"
  BY DEF UseInv, UseTypes, CreateBackup, At
<1>2. /\ UNCHANGED <<kubeconfig, minute, had>> /\ accident' \in BOOLEAN
      /\ ~accident' => ~accident /\ kubeconfig # Empty
  BY <1>1 DEF CreateBackup, Meets, UseTypes
<1> DEFINE r == [use[u] EXCEPT !.pc = "copy"]
           m == use[u].minute
<1>3. r \in Uses /\ r.pc = "copy" /\ r.konfig = use[u].konfig /\ r.minute = m /\ Become(u, r)
  BY <1>1 DEF Uses, CreateBackup
<1>4. /\ bak' \in [0..MaxMinutes -> Configs] /\ bak'[m] = Empty
      /\ \A n \in 0..MaxMinutes : n # m => bak'[n] = bak[n]
  BY <1>1, UseConstants DEF CreateBackup, UseTypes, Uses
<1>5. m \in 0..MaxMinutes /\ \A v \in Users : use[v].minute \in 0..MaxMinutes
  BY <1>1 DEF UseTypes, Uses
<1> HIDE DEF r, m
<1>6. /\ use' \in [Users -> Uses] /\ use'[u] = r
      /\ \A v \in Users : v # u => use'[v] = use[v]
  BY <1>1, <1>3, BecomeStep
<1>7. ASSUME had, ~accident' PROVE KeptInv'
  <2>1. KeptInv /\ Holds(kubeconfig)
    BY <1>2, <1>7 DEF UseInv, KeptInv
  <2>2. \A v \in Users : UseInvOf(v)'
    BY <1>1, <1>3, <1>4, <1>5, <1>6, <2>1 DEF KeptInv, UseInvOf
  <2> QED
    BY <1>2, <2>1, <2>2 DEF KeptInv
<1> QED
  BY <1>1, <1>2, <1>4, <1>6, <1>7 DEF UseInv, UseTypes

\* The backup is filled.
LEMMA CopyStep ==
    ASSUME UseInv, NEW u \in Users, CopyFile(u)
    PROVE  UseInv'
<1>1. UseTypes /\ use[u] \in Uses /\ use[u].pc = "copy"
  BY DEF UseInv, UseTypes, CopyFile, At
<1>2. /\ UNCHANGED <<kubeconfig, minute, had>> /\ accident' \in BOOLEAN
      /\ ~accident' => ~accident /\ kubeconfig # Empty
  BY <1>1 DEF CopyFile, Meets, UseTypes
<1> DEFINE r == [use[u] EXCEPT !.pc = "set"]
           m == use[u].minute
<1>3. r \in Uses /\ r.pc = "set" /\ r.konfig = use[u].konfig /\ r.minute = m /\ Become(u, r)
  BY <1>1 DEF Uses, CopyFile
<1>4. /\ bak' \in [0..MaxMinutes -> Configs] /\ bak'[m] = kubeconfig
      /\ \A n \in 0..MaxMinutes : n # m => bak'[n] = bak[n]
  BY <1>1, UseConstants DEF CopyFile, UseTypes, Uses
<1>5. m \in 0..MaxMinutes /\ \A v \in Users : use[v].minute \in 0..MaxMinutes
  BY <1>1 DEF UseTypes, Uses
<1> HIDE DEF r, m
<1>6. /\ use' \in [Users -> Uses] /\ use'[u] = r
      /\ \A v \in Users : v # u => use'[v] = use[v]
  BY <1>1, <1>3, BecomeStep
<1>7. ASSUME had, ~accident' PROVE KeptInv'
  <2>1. KeptInv /\ Holds(kubeconfig)
    BY <1>2, <1>7 DEF UseInv, KeptInv
  <2>2. \A v \in Users : UseInvOf(v)'
    BY <1>1, <1>3, <1>4, <1>5, <1>6, <2>1 DEF KeptInv, UseInvOf
  <2> QED
    BY <1>2, <2>1, <2>2 DEF KeptInv
<1> QED
  BY <1>1, <1>2, <1>4, <1>6, <1>7 DEF UseInv, UseTypes

\* The kubeconfig is truncated: the backup has what it had.
LEMMA TruncateStep ==
    ASSUME UseInv, NEW u \in Users, Truncate(u)
    PROVE  UseInv'
<1>1. UseTypes /\ use[u] \in Uses /\ use[u].pc = "set"
  BY DEF UseInv, UseTypes, Truncate, At
<1>2. /\ UNCHANGED <<bak, minute, had>> /\ accident' \in BOOLEAN
      /\ ~accident' => ~accident /\ bak[use[u].minute] # Empty
  BY <1>1 DEF Truncate, Meets, UseTypes
<1>3. CASE Become(u, NotRunning) /\ UNCHANGED kubeconfig
  <2>1. /\ use' \in [Users -> Uses] /\ use'[u] = NotRunning
        /\ \A v \in Users : v # u => use'[v] = use[v]
    BY <1>1, <1>3, BecomeStep, UseConstants
  <2>2. ASSUME had, ~accident' PROVE KeptInv'
    BY <1>2, <1>3, <2>1, <2>2, UseConstants DEF UseInv, KeptInv, UseInvOf
  <2> QED
    BY <1>1, <1>2, <1>3, <2>1, <2>2 DEF UseInv, UseTypes
<1> DEFINE r == [use[u] EXCEPT !.pc = "write", !.konfig = UseCluster(use[u])]
<1>4. CASE Become(u, r) /\ kubeconfig' = Empty
  <2>1. PICK q \in Uses : q = use[u]
    BY <1>1
  <2> DEFINE k == UseCluster(q)
             p == [q EXCEPT !.pc = "write", !.konfig = k]
  <2>2. k \in Configs /\ (Holds(q.konfig) => Holds(k))
    BY DEF UseCluster, Config, Configs, Uses, Holds
  <2> HIDE DEF k
  <2>3. p \in Uses /\ p.pc = "write" /\ p.konfig = k
    BY <2>2 DEF Uses
  <2>4. Become(u, p)
    BY <1>4, <2>1 DEF k
  <2> HIDE DEF p, r
  <2>5. /\ use' \in [Users -> Uses] /\ use'[u] = p
        /\ \A v \in Users : v # u => use'[v] = use[v]
    BY <1>1, <2>3, <2>4, BecomeStep
  <2>6. use[u].minute \in 0..MaxMinutes
    BY <1>1 DEF Uses
  <2>7. ASSUME had, ~accident' PROVE KeptInv'
    <3>1. KeptInv /\ Holds(use[u].konfig) /\ Holds(bak[use[u].minute])
      BY <1>1, <1>2, <2>7 DEF UseInv, KeptInv, UseInvOf
    <3>2. \A v \in Users : UseInvOf(v)'
      BY <1>2, <2>1, <2>2, <2>3, <2>5, <3>1 DEF KeptInv, UseInvOf
    <3> QED
      BY <1>2, <1>4, <2>6, <3>1, <3>2 DEF KeptInv
  <2> QED
    BY <1>1, <1>2, <1>4, <2>5, <2>7, UseConstants DEF UseInv, UseTypes
<1> QED
  BY <1>3, <1>4 DEF Truncate

\* A command that ends, or begins: it has nothing to keep.
LEMMA IdleStep ==
    ASSUME UseInv, NEW u \in Users, NEW r \in Uses, r.pc \in {"idle", "load"}, Become(u, r),
           UNCHANGED <<bak, minute, had, accident>>, kubeconfig' \in Configs,
           kubeconfig' = kubeconfig \/ (had /\ ~accident => Holds(kubeconfig'))
    PROVE  UseInv'
<1>1. UseTypes
  BY DEF UseInv
<1>2. /\ use' \in [Users -> Uses] /\ use'[u] = r
      /\ \A v \in Users : v # u => use'[v] = use[v]
  BY <1>1, BecomeStep
<1>3. ASSUME had, ~accident PROVE KeptInv'
  BY <1>2, <1>3 DEF UseInv, KeptInv, UseInvOf
<1> QED
  BY <1>1, <1>2, <1>3 DEF UseInv, UseTypes

\* Every step of the commands, of the other tool and of time.
LEMMA UseStep ==
    ASSUME UseInv, UseNext
    PROVE  UseInv'
<1>1. UseTypes
  BY DEF UseInv
<1>2. ASSUME NEW u \in Users, GetKubeConfig(u) PROVE UseInv'
  <2>1. PICK c \in Clusters, o \in BOOLEAN :
          Become(u, [NotRunning EXCEPT !.pc = "load", !.name = c, !.overwrite = o])
    BY <1>2 DEF GetKubeConfig
  <2> DEFINE r == [NotRunning EXCEPT !.pc = "load", !.name = c, !.overwrite = o]
  <2>2. r \in Uses /\ r.pc = "load"
    BY UseConstants DEF Uses, Names
  <2>3. Become(u, r)
    BY <2>1
  <2> HIDE DEF r
  <2> QED
    BY <1>1, <1>2, <2>2, <2>3, IdleStep DEF GetKubeConfig, UseTypes
<1>3. ASSUME NEW u \in Users, WriteToFile(u) PROVE UseInv'
  <2>1. use[u] \in Uses /\ use[u].konfig \in Configs
    BY <1>1 DEF UseTypes, Uses
  <2>2. had /\ ~accident => Holds(use[u].konfig)
    BY <1>3 DEF UseInv, KeptInv, UseInvOf, WriteToFile, At
  <2> QED
    BY <1>3, <2>1, <2>2, IdleStep, UseConstants DEF WriteToFile
<1>4. ASSUME NEW u \in Users, KillUse(u) PROVE UseInv'
  BY <1>1, <1>4, IdleStep, UseConstants DEF KillUse, UseTypes
<1>5. CASE OtherTool
  <2> DEFINE k == Config(IF kubeconfig = Absent THEN Other ELSE kubeconfig.current,
                         kubeconfig.contexts \cup {Other})
  <2>1. k \in Configs /\ Holds(k)
    BY <1>1 DEF Config, Configs, Names, Holds, UseTypes
  <2>2. /\ kubeconfig' = k /\ had' = TRUE /\ UNCHANGED <<bak, use, minute>>
        /\ accident' \in BOOLEAN /\ (~accident' => Loaded = {})
    BY <1>5 DEF OtherTool
  <2> HIDE DEF k
  <2>3. ASSUME ~accident'
        PROVE  \A u \in Users : use[u].pc \notin {"create", "copy", "set", "write"}
    BY <2>2, <2>3 DEF Loaded
  <2>4. ASSUME ~accident' PROVE KeptInv'
    BY <2>1, <2>2, <2>3, <2>4 DEF KeptInv, UseInvOf
  <2> QED
    BY <1>1, <2>1, <2>2, <2>4 DEF UseInv, UseTypes
<1>6. CASE TimePasses
  <2>1. minute' \in 0..MaxMinutes /\ UNCHANGED <<kubeconfig, bak, use, had, accident>>
    BY <1>1, <1>6, MaxMinutesAssumption DEF TimePasses, UseTypes
  <2> QED
    BY <1>1, <2>1 DEF UseInv, UseTypes, KeptInv, UseInvOf
<1> QED
  BY <1>2, <1>3, <1>4, <1>5, <1>6, LoadStep, CreateBackupStep, CopyStep, TruncateStep
     DEF UseNext

\* The context of another tool is lost from the kubeconfig and from every backup
\* only after a command met a truncated file, or if it was added after a command had
\* loaded the file that it then replaces, for any number of commands.
THEOREM UseBackedUp == Spec => []BackedUp
<1>1. Init => UseInv
  <2> SUFFICES ASSUME Init PROVE UseInv
    OBVIOUS
  <2>1. 0 \in 0..MaxMinutes
    BY MaxMinutesAssumption
  <2>2. UseTypes
    BY <2>1, UseConstants DEF Init, UseInit, UseTypes
  <2> QED
    BY <2>2 DEF Init, UseInit, UseInv
<1>2. UseInv /\ [Next]_commandVars => UseInv'
  <2> SUFFICES ASSUME UseInv, UseNext \/ UNCHANGED useVars PROVE UseInv'
    BY DEF Next, commandVars
  <2>1. CASE UNCHANGED useVars
    BY <2>1 DEF useVars, UseInv, UseTypes, KeptInv, UseInvOf
  <2> QED
    BY <2>1, UseStep
<1>3. UseInv => BackedUp
  <2> SUFFICES ASSUME UseInv, had, ~accident
               PROVE  \E f \in {kubeconfig} \cup {bak[m] : m \in 0..MaxMinutes} :
                        Other \in f.contexts
    BY DEF BackedUp
  <2> QED
    BY DEF UseInv, KeptInv, Holds
<1> QED
  BY <1>1, <1>2, <1>3, PTL DEF Spec

-----------------------------------------------------------------------------
(* Available upgrades *)

\* A set of versions that is empty or has a newest one.
Topped(S) == S = {} \/ \E x \in S : \A y \in S : x >= y

InBranch(S, b) == {v \in S : Branch(v) = b}

\* The release server has a newest version, overall and in every branch.
ServerInv ==
    /\ released \subseteq Releases /\ released # {}
    /\ Topped(released)
    /\ \A b \in Nat : Topped(InBranch(released, b))

\* The newest version is the one that no other exceeds.
LEMMA NewestIs ==
    ASSUME NEW S \in SUBSET Nat, NEW x \in S, \A y \in S : x >= y
    PROVE  Newest(S) = x
<1>1. Max(S) \in S /\ \A y \in S : Max(S) >= y
  BY DEF Max
<1>2. PICK m \in Nat : m = Max(S)
  BY <1>1
<1>3. x \in Nat /\ m >= x /\ x >= m
  BY <1>1, <1>2
<1>4. m = x
  BY <1>3
<1> QED
  BY <1>2, <1>4 DEF Newest

\* The branch is all but the last digit.
LEMMA LastDigit ==
    ASSUME NEW m \in Nat, NEW d \in Nat, NEW b \in Nat, d < 10,
           10 * b <= 10 * m + d, 10 * m + d < 10 * b + 10
    PROVE  b = m
  OBVIOUS

\* Versions are numbers, in the order of their branches.
LEMMA VersionsAre ==
    /\ Releases \subseteq Nat /\ Prereleases \subseteq Nat
    /\ \A v \in Nat : Branch(v) \in Nat /\ 10 * Branch(v) <= v /\ v < 10 * Branch(v) + 10
    /\ \A v \in Releases : v > 10 * Branch(v)
    /\ \A v \in Prereleases : v = 10 * Branch(v)
<1>1. Minors \subseteq Nat /\ MaxPatch \in 0..8
  BY VersionsAssumption
<1>2. \A v \in Nat : Branch(v) \in Nat /\ 10 * Branch(v) <= v /\ v < 10 * Branch(v) + 10
  BY DEF Branch
<1>3. ASSUME NEW v \in Releases PROVE v \in Nat /\ v > 10 * Branch(v)
  <2>1. PICK m \in Minors, p \in 0..MaxPatch : v = 10 * m + p + 1
    BY DEF Releases, V
  <2>2. m \in Nat /\ p \in Nat /\ p <= 8
    BY <1>1
  <2>3. v \in Nat
    BY <2>1, <2>2
  <2>4. PICK b \in Nat : b = Branch(v) /\ 10 * b <= v /\ v < 10 * b + 10
    BY <1>2, <2>3
  <2>5. p + 1 \in Nat /\ p + 1 < 10 /\ v = 10 * m + (p + 1)
    BY <2>1, <2>2
  <2>6. b = m
    BY <2>2, <2>4, <2>5, LastDigit
  <2> QED
    BY <2>2, <2>3, <2>4, <2>5, <2>6
<1>4. ASSUME NEW v \in Prereleases PROVE v \in Nat /\ v = 10 * Branch(v)
  <2>1. PICK m \in Minors : v = 10 * m
    BY DEF Prereleases, Prerelease
  <2>2. m \in Nat /\ v \in Nat
    BY <1>1, <2>1
  <2>3. PICK b \in Nat : b = Branch(v) /\ 10 * b <= v /\ v < 10 * b + 10
    BY <1>2, <2>2
  <2>4. b = m
    BY <2>1, <2>2, <2>3
  <2> QED
    BY <2>1, <2>2, <2>3, <2>4
<1> QED
  BY <1>2, <1>3, <1>4

\* The first minor version.
LEMMA FirstMinor == Min(Minors) \in Minors
<1>1. Minors \subseteq Nat /\ Minors # {}
  BY VersionsAssumption
<1>2. \E x \in Minors : \A y \in Minors : ~(<<y, x>> \in OpToRel(<, Nat))
  BY <1>1, WFMin, NatLessThanWellFounded
<1>3. \A x, y \in Nat : <<y, x>> \in OpToRel(<, Nat) <=> y < x
  BY DEF OpToRel
<1>4. PICK x \in Minors : \A y \in Minors : ~(<<y, x>> \in OpToRel(<, Nat))
  BY <1>2
<1>5. ASSUME NEW y \in Minors PROVE x =< y
  <2>1. x \in Nat /\ y \in Nat /\ ~(y < x)
    BY <1>1, <1>3, <1>4
  <2> QED
    BY <2>1
<1> QED
  BY <1>5 DEF Min

\* Whether kubelets have to follow, from the number of their versions.
LEMMA KubeletsFollow ==
    ASSUME NEW kubelets \in [Nodes -> Nat], NEW to
    PROVE  CanUpgradeKubelets(kubelets, to) <=> \E n \in Nodes : kubelets[n] # to
<1> DEFINE versions == {kubelets[n] : n \in Nodes}
<1>1. kubelets \in Surjection(Nodes, versions)
  BY DEF Surjection
<1>2. IsFiniteSet(versions)
  BY <1>1, NodesAssumption, FS_Surjection
<1>3. computeKubeletVersions(kubelets) = versions
  BY DEF computeKubeletVersions
<1> HIDE DEF versions
<1>4. Cardinality(versions) \in Nat
  BY <1>2, FS_CardinalityType
<1>5. Cardinality(versions) = 0 <=> versions = {}
  BY <1>2, FS_EmptySet
<1>6. Cardinality(versions) = 1 <=> \E x : versions = {x}
  BY <1>2, FS_Singleton
<1>7. CanUpgradeKubelets(kubelets, to) <=> \E v \in versions : v # to
  <2>1. CASE Cardinality(versions) = 0
    BY <1>3, <1>5, <2>1 DEF CanUpgradeKubelets
  <2>2. CASE Cardinality(versions) = 1
    <3>1. PICK x : versions = {x}
      BY <1>6, <2>2
    <3> QED
      BY <1>3, <2>2, <3>1 DEF CanUpgradeKubelets
  <2>3. CASE Cardinality(versions) > 1
    <3>1. versions # {} /\ \A x : versions # {x}
      BY <1>4, <1>5, <1>6, <2>3
    <3>2. \E v \in versions : v # to
      BY <3>1
    <3> QED
      BY <1>3, <2>3, <3>2 DEF CanUpgradeKubelets
  <2> QED
    BY <1>4, <2>1, <2>2, <2>3
<1> QED
  BY <1>7 DEF versions

\* Another version on the server.
LEMMA ToppedMore ==
    ASSUME NEW S \in SUBSET Nat, Topped(S), NEW v \in Nat
    PROVE  Topped(S \cup {v})
<1>1. CASE S = {}
  BY <1>1 DEF Topped
<1>2. ASSUME NEW x \in S, \A y \in S : x >= y PROVE Topped(S \cup {v})
  <2>1. CASE x >= v
    BY <1>2, <2>1 DEF Topped
  <2>2. CASE v > x
    <3>1. \A y \in S \cup {v} : v >= y
      BY <1>2, <2>2
    <3> QED
      BY <3>1 DEF Topped
  <2> QED
    BY <2>1, <2>2
<1> QED
  BY <1>1, <1>2 DEF Topped

\* A release.
LEMMA ServerStep ==
    ASSUME ServerInv, Release
    PROVE  ServerInv' /\ released \subseteq released'
<1>1. PICK v \in Releases : released' = released \cup {v}
  BY DEF Release
<1>2. v \in Nat /\ released \subseteq Nat
  BY VersionsAre DEF ServerInv
<1>3. Topped(released')
  BY <1>1, <1>2, ToppedMore DEF ServerInv
<1>4. ASSUME NEW b \in Nat PROVE Topped(InBranch(released', b))
  <2>1. Topped(InBranch(released, b)) /\ InBranch(released, b) \in SUBSET Nat
    BY <1>2 DEF ServerInv, InBranch
  <2>2. \/ InBranch(released', b) = InBranch(released, b)
        \/ InBranch(released', b) = InBranch(released, b) \cup {v}
    BY <1>1 DEF InBranch
  <2> QED
    BY <1>2, <2>1, <2>2, ToppedMore
<1> QED
  BY <1>1, <1>3, <1>4 DEF ServerInv

Numbers == Nat \cup {NoVersion}
Plans ==
    [pc : {"idle", "stable", "patch", "done"}, cluster : Numbers, kubeadm : Numbers,
     kubelets : [Nodes -> Nat] \cup {<<>>}, stable : Numbers, seen : SUBSET Nat,
     later : SUBSET Nat, upgrades : SUBSET [to : Numbers, kubeadm : Numbers, kubelets : BOOLEAN]]

\* The stable version is the newest of those that the first file was made from, or
\* that of kubeadm.
StableInv ==
    /\ plan.seen \subseteq released
    /\ plan.stable \in Known
    /\ \/ plan.stable = plan.kubeadm
       \/ plan.stable \in plan.seen /\ \A v \in plan.seen : plan.stable >= v

\* The upgrades that are offered with this newest patch.
OfferedWith(patch) ==
    /\ patch \in plan.later /\ Branch(patch) = Branch(plan.cluster)
    /\ \A v \in InBranch(plan.later, Branch(plan.cluster)) : patch >= v
    /\ \A u \in plan.upgrades :
         /\ \/ u.to = patch /\ plan.cluster < patch
            \/ u.to = plan.stable /\ patch < plan.stable
         /\ u.kubeadm >= u.to
         /\ u.kubelets <=> \E n \in Nodes : plan.kubelets[n] # u.to
    /\ plan.cluster < patch => \E u \in plan.upgrades : u.to = patch
    /\ patch < plan.stable => \E u \in plan.upgrades : u.to = plan.stable

\* No patches are looked for when the cluster is ahead of the stable version.
\* Otherwise the second file was made from no fewer versions than the first.
DoneInv ==
    \/ plan.stable < plan.cluster /\ plan.later = {} /\ plan.upgrades = {}
    \/ /\ plan.stable >= plan.cluster
       /\ plan.later \subseteq released /\ plan.seen \subseteq plan.later
       /\ plan.kubeadm \in plan.later \cup Prereleases
       /\ \E patch \in Nat : OfferedWith(patch)

PlanInv ==
    /\ plan \in Plans
    /\ plan.pc # "idle" =>
         plan.cluster \in Known /\ plan.kubeadm \in Known /\ plan.kubelets \in [Nodes -> Nat]
    /\ plan.pc \in {"patch", "done"} => StableInv
    /\ plan.pc \in {"stable", "patch"} => plan.later = {}
    /\ plan.pc = "patch" => plan.stable >= plan.cluster
    /\ plan.pc = "done" => DoneInv

\* What is offered is right: a stable version that is newer than the newest patch
\* is of a later branch.
LEMMA OffersRight ==
    ASSUME ServerInv, PlanInv
    PROVE  UpgradesOffered
<1> SUFFICES ASSUME plan.pc = "done" PROVE UpgradesOffered
  BY DEF UpgradesOffered
<1> DEFINE c == plan.cluster
           inBranch == {v \in plan.later : Branch(v) = Branch(c)}
           fetched  == {Newest(plan.seen), plan.kubeadm}
           targets  == {u.to : u \in plan.upgrades}
           ours     == {v \in Known : Branch(v) = Branch(c)}
<1>1. Known \subseteq Nat /\ released \subseteq Known /\ released \subseteq Nat
  BY VersionsAre DEF Known, ServerInv
<1>2. c \in Nat /\ plan.kubeadm \in Nat /\ plan.stable \in Nat /\ plan.seen \subseteq Nat
      /\ plan.stable \in Known
  BY <1>1 DEF PlanInv, StableInv
<1>3. plan.stable \in fetched
  <2>1. CASE plan.stable \in plan.seen /\ \A v \in plan.seen : plan.stable >= v
    BY <1>2, <2>1, NewestIs
  <2> QED
    BY <2>1 DEF PlanInv, StableInv
<1>4. \A v, w \in Nat : v <= w => Branch(v) <= Branch(w)
  <2> SUFFICES ASSUME NEW v \in Nat, NEW w \in Nat, v <= w PROVE Branch(v) <= Branch(w)
    OBVIOUS
  <2>1. PICK a \in Nat, b \in Nat : /\ a = Branch(v) /\ b = Branch(w)
                                    /\ 10 * a <= v /\ w < 10 * b + 10
    BY VersionsAre
  <2>2. a <= b
    BY <2>1
  <2> QED
    BY <2>1, <2>2
<1>5. Branch(c) \in Nat /\ Branch(plan.stable) \in Nat
  BY <1>2, VersionsAre
<1> SUFFICES /\ targets \cap ours = {v \in {Newest(inBranch)} : v > c}
             /\ targets \ ours = {v \in {plan.stable} \cap fetched : Branch(v) > Branch(c)}
             /\ \A u \in plan.upgrades :
                  /\ u.kubeadm >= u.to
                  /\ u.kubelets <=> \E n \in Nodes : plan.kubelets[n] # u.to
  BY DEF UpgradesOffered
<1>6. CASE plan.stable < c /\ plan.later = {} /\ plan.upgrades = {}
  <2>1. inBranch = {} /\ targets = {}
    BY <1>6
  <2>2. Newest(inBranch) = -1
    BY <2>1 DEF Newest, NoVersion
  <2>3. {v \in {Newest(inBranch)} : v > c} = {}
    BY <1>2, <2>2
  <2>4. Branch(plan.stable) <= Branch(c)
    BY <1>2, <1>4, <1>6
  <2>5. {v \in {plan.stable} \cap fetched : Branch(v) > Branch(c)} = {}
    BY <1>5, <2>4
  <2> HIDE DEF inBranch, targets, fetched, ours
  <2> QED
    BY <1>6, <2>1, <2>3, <2>5
<1>7. ASSUME NEW patch \in Nat, OfferedWith(patch), plan.stable >= c,
             plan.later \subseteq released, plan.seen \subseteq plan.later,
             plan.kubeadm \in plan.later \cup Prereleases
      PROVE  /\ targets \cap ours = {v \in {Newest(inBranch)} : v > c}
             /\ targets \ ours = {v \in {plan.stable} \cap fetched : Branch(v) > Branch(c)}
  <2>1. patch \in inBranch /\ \A v \in inBranch : patch >= v
    BY <1>7 DEF OfferedWith, InBranch
  <2>2. Newest(inBranch) = patch
    BY <1>1, <1>7, <2>1, NewestIs
  <2>3. patch \in ours
    BY <1>1, <1>7 DEF OfferedWith
  <2>4. patch > 10 * Branch(c)
    BY <1>7, VersionsAre DEF OfferedWith, ServerInv
  <2>5. patch < plan.stable <=> Branch(plan.stable) > Branch(c)
    <3>1. ASSUME Branch(plan.stable) > Branch(c) PROVE patch < plan.stable
      <4>1. Branch(patch) = Branch(c)
        BY <1>7 DEF OfferedWith
      <4>2. ~(plan.stable <= patch)
        BY <1>2, <1>4, <1>5, <3>1, <4>1
      <4> QED
        BY <1>2, <4>2
    <3>2. ASSUME patch < plan.stable PROVE Branch(plan.stable) # Branch(c)
      <4>1. SUFFICES ASSUME Branch(plan.stable) = Branch(c) PROVE FALSE
        OBVIOUS
      <4>2. plan.stable \in plan.later \cup Prereleases
        BY <1>7 DEF PlanInv, StableInv
      <4>3. CASE plan.stable \in plan.later
        <5>1. patch >= plan.stable
          BY <2>1, <4>1, <4>3
        <5> QED
          BY <1>2, <3>2, <5>1
      <4>4. CASE plan.stable \in Prereleases
        <5>1. plan.stable = 10 * Branch(c)
          BY <4>1, <4>4, VersionsAre
        <5> QED
          BY <1>5, <2>4, <3>2, <5>1
      <4> QED
        BY <4>2, <4>3, <4>4
    <3>3. Branch(c) <= Branch(plan.stable)
      BY <1>2, <1>4, <1>7
    <3> QED
      BY <1>5, <3>1, <3>2, <3>3
  <2>6. plan.stable \in ours <=> Branch(plan.stable) = Branch(c)
    BY <1>2
  <2>7. patch < plan.stable => plan.stable \notin ours
    BY <1>5, <2>5, <2>6
  <2>8. \A t : t \in targets <=> \/ t = patch /\ c < patch
                                 \/ t = plan.stable /\ patch < plan.stable
    BY <1>7 DEF OfferedWith
  <2> HIDE DEF inBranch, targets, fetched, ours, c
  <2>9. targets \cap ours = {v \in {Newest(inBranch)} : v > c}
    BY <1>2, <2>2, <2>3, <2>7, <2>8
  <2>10. targets \ ours = {v \in {plan.stable} \cap fetched : Branch(v) > Branch(c)}
    BY <1>3, <2>3, <2>5, <2>7, <2>8
  <2> QED
    BY <2>9, <2>10
<1> QED
  BY <1>6, <1>7 DEF PlanInv, DoneInv, OfferedWith

\* Without a plan there is nothing to keep.
LEMMA NoPlan ==
    /\ NotPlanning \in Plans /\ NotPlanning.pc = "idle"
    /\ \A c, k \in Known, l \in [Nodes -> Known] : Known \subseteq Nat =>
         LET p == Plan("stable", c, k, l)
         IN  /\ p \in Plans /\ p.pc = "stable" /\ p.cluster = c /\ p.kubeadm = k
             /\ p.kubelets = l /\ p.later = {}
<1>1. NoVersion \in Numbers
  BY DEF Numbers
<1>2. NotPlanning \in Plans /\ NotPlanning.pc = "idle"
  BY <1>1 DEF NotPlanning, Plan, Plans
<1>3. ASSUME Known \subseteq Nat, NEW c \in Known, NEW k \in Known, NEW l \in [Nodes -> Known]
      PROVE  LET p == Plan("stable", c, k, l)
             IN  /\ p \in Plans /\ p.pc = "stable" /\ p.cluster = c /\ p.kubeadm = k
                 /\ p.kubelets = l /\ p.later = {}
  <2>1. c \in Numbers /\ k \in Numbers /\ l \in [Nodes -> Nat]
    BY <1>3 DEF Numbers
  <2> QED
    BY <1>1, <2>1 DEF Plan, Plans
<1> QED
  BY <1>2, <1>3

\* Releases take nothing away from a plan.
LEMMA PlanRelease ==
    ASSUME PlanInv, ServerInv, released \subseteq released', plan' = plan
    PROVE  PlanInv'
<1>1. Known \subseteq Known'
  BY DEF Known
<1>2. StableInv => StableInv'
  BY <1>1 DEF StableInv
<1>3. DoneInv => DoneInv'
  BY DEF DoneInv, OfferedWith, InBranch
<1> QED
  BY <1>1, <1>2, <1>3 DEF PlanInv

\* The cluster is read.
LEMMA ReadStep ==
    ASSUME PlanInv, ServerInv, ReadCluster
    PROVE  PlanInv'
<1>1. Known \subseteq Nat /\ NoVersion \notin Nat /\ Known' = Known
  BY VersionsAre DEF Known, ServerInv, NoVersion, ReadCluster
<1>2. PICK c \in Known, k \in Known \cup {NoVersion}, l \in [Nodes -> Known] :
        plan' = IF k = NoVersion THEN NotPlanning ELSE Plan("stable", c, k, l)
  BY DEF ReadCluster, ClusterVersion, KubeadmVersion, KubeletVersions
<1>3. CASE plan' = NotPlanning
  BY <1>3, NoPlan DEF PlanInv
<1>4. CASE k \in Known /\ plan' = Plan("stable", c, k, l)
  <2>1. /\ plan' \in Plans /\ plan'.pc = "stable" /\ plan'.cluster = c /\ plan'.kubeadm = k
        /\ plan'.kubelets = l /\ plan'.later = {}
    BY <1>1, <1>4, NoPlan
  <2>2. l \in [Nodes -> Nat]
    BY <1>1
  <2> QED
    BY <1>1, <1>4, <2>1, <2>2 DEF PlanInv
<1> QED
  BY <1>2, <1>3, <1>4

\* The first file.
LEMMA StableStep ==
    ASSUME PlanInv, ServerInv, VersionFromCILabel
    PROVE  PlanInv'
<1>1. /\ Known \subseteq Nat /\ Known' = Known /\ released' = released
      /\ released \subseteq Known /\ released \subseteq Nat
  BY VersionsAre DEF Known, ServerInv, VersionFromCILabel
<1>2. /\ plan \in Plans /\ plan.pc = "stable"
      /\ plan.cluster \in Known /\ plan.kubeadm \in Known /\ plan.kubelets \in [Nodes -> Nat]
  BY DEF PlanInv, VersionFromCILabel
<1>3. StableVersion \in released /\ \A v \in released : StableVersion >= v
  <2>1. PICK x \in released : \A y \in released : x >= y
    BY DEF ServerInv, Topped
  <2> QED
    BY <1>1, <2>1, NewestIs DEF StableVersion
<1>4. PICK stable \in {StableVersion, plan.kubeadm} :
        LET p == [plan EXCEPT !.stable = stable, !.seen = released] IN
        plan' = IF patchVersionBranchExists(p.cluster, stable)
                THEN [p EXCEPT !.pc = "patch"]
                ELSE [p EXCEPT !.pc = "done",
                               !.upgrades = IF p.cluster < stable THEN {MinorUpgrade(p)} ELSE {}]
  BY DEF VersionFromCILabel
<1> DEFINE p == [plan EXCEPT !.stable = stable, !.seen = released]
<1>5. stable \in Known /\ stable \in Nat
  BY <1>1, <1>2, <1>3
<1>6. /\ p \in Plans /\ p.stable = stable /\ p.seen = released /\ p.cluster = plan.cluster
      /\ p.kubeadm = plan.kubeadm /\ p.kubelets = plan.kubelets /\ p.later = plan.later
  BY <1>1, <1>2, <1>5 DEF Plans, Numbers
<1>7. plan' = IF patchVersionBranchExists(p.cluster, stable)
              THEN [p EXCEPT !.pc = "patch"]
              ELSE [p EXCEPT !.pc = "done",
                             !.upgrades = IF p.cluster < stable THEN {MinorUpgrade(p)} ELSE {}]
  BY <1>4
<1> HIDE DEF p
<1>8. ASSUME plan'.stable = stable, plan'.seen = released, plan'.kubeadm = plan.kubeadm
      PROVE  StableInv'
  BY <1>1, <1>3, <1>5, <1>8 DEF StableInv
<1>9. CASE stable >= plan.cluster
  <2>1. plan' = [p EXCEPT !.pc = "patch"]
    BY <1>6, <1>7, <1>9 DEF patchVersionBranchExists
  <2>2. /\ plan' \in Plans /\ plan'.pc = "patch" /\ plan'.stable = stable
        /\ plan'.seen = released /\ plan'.cluster = plan.cluster
        /\ plan'.kubeadm = plan.kubeadm /\ plan'.kubelets = plan.kubelets
        /\ plan'.later = plan.later
    BY <1>6, <2>1 DEF Plans
  <2> QED
    BY <1>1, <1>2, <1>8, <1>9, <2>2 DEF PlanInv
<1>10. CASE ~(stable >= plan.cluster)
  <2>1. stable < plan.cluster /\ ~(p.cluster < stable)
    <3>1. PICK a \in Nat, b \in Nat : a = stable /\ b = plan.cluster /\ ~(a >= b)
      BY <1>1, <1>2, <1>5, <1>10
    <3>2. a < b /\ ~(b < a)
      BY <3>1
    <3> QED
      BY <1>6, <3>1, <3>2
  <2>2. plan' = [p EXCEPT !.pc = "done", !.upgrades = {}]
    BY <1>6, <1>7, <1>10, <2>1 DEF patchVersionBranchExists
  <2>3. /\ plan' \in Plans /\ plan'.pc = "done" /\ plan'.stable = stable
        /\ plan'.seen = released /\ plan'.cluster = plan.cluster /\ plan'.upgrades = {}
        /\ plan'.kubeadm = plan.kubeadm /\ plan'.kubelets = plan.kubelets
        /\ plan'.later = p.later
    BY <1>6, <2>2 DEF Plans
  <2>4. p.later = {}
    BY <1>2, <1>6 DEF PlanInv
  <2> QED
    BY <1>1, <1>2, <1>8, <2>1, <2>3, <2>4 DEF PlanInv, DoneInv
<1> QED
  BY <1>9, <1>10

\* The second file.
LEMMA PatchStep ==
    ASSUME PlanInv, ServerInv, GetAvailableUpgrades
    PROVE  PlanInv'
<1>1. /\ Known \subseteq Nat /\ Known' = Known /\ released' = released
      /\ released \subseteq Known /\ released \subseteq Nat
  BY VersionsAre DEF Known, ServerInv, GetAvailableUpgrades
<1>2. /\ plan \in Plans /\ plan.pc = "patch" /\ StableInv /\ plan.stable >= plan.cluster
      /\ plan.cluster \in Known /\ plan.kubeadm \in Known /\ plan.kubelets \in [Nodes -> Nat]
  BY DEF PlanInv, GetAvailableUpgrades
<1>3. plan.cluster \in Nat /\ plan.kubeadm \in Nat /\ plan.stable \in Nat
  BY <1>1, <1>2 DEF StableInv
<1> DEFINE patch == StableOf(getBranchFromVersion(plan.cluster))
           b == Branch(plan.cluster)
           offers == {PatchUpgrade(plan, v) : v \in
                         {v \in {patch} : patchUpgradePossible(plan.cluster, v)}}
                     \cup {MinorUpgrade(plan) : v \in
                         {v \in {patch} : minorUpgradePossibleWithPatchRelease(plan.stable, v)}}
<1>4. plan' = IF patch = NoVersion THEN NotPlanning
              ELSE [plan EXCEPT !.pc = "done", !.later = released, !.upgrades = offers]
  BY DEF GetAvailableUpgrades
<1>5. CASE InBranch(released, b) = {}
  <2>1. patch = NoVersion
    BY <1>5 DEF StableOf, getBranchFromVersion, InBranch, Newest
  <2>2. plan' = NotPlanning
    BY <1>4, <2>1
  <2> QED
    BY <2>2, NoPlan DEF PlanInv
<1>6. CASE InBranch(released, b) # {}
  <2>1. b \in Nat
    BY <1>3, VersionsAre
  <2>2. PICK x \in InBranch(released, b) : \A y \in InBranch(released, b) : x >= y
    BY <1>6, <2>1 DEF ServerInv, Topped
  <2>3. patch = x
    BY <1>1, <2>2, NewestIs DEF StableOf, getBranchFromVersion, InBranch
  <2>4. x \in Nat /\ x \in released /\ Branch(x) = b /\ x # NoVersion
    BY <1>1, <2>2 DEF InBranch, NoVersion
  <2> HIDE DEF patch
  <2> DEFINE patched == PatchUpgrade(plan, x)
             minor   == MinorUpgrade(plan)
  <2>5. \A u : u \in offers <=> \/ u = patched /\ plan.cluster < x
                                \/ u = minor /\ x < plan.stable
    BY <2>3 DEF patchUpgradePossible, minorUpgradePossibleWithPatchRelease
  <2>6. /\ patched.to = x /\ patched.kubeadm \in Nat /\ patched.kubeadm >= x
        /\ patched.kubelets = CanUpgradeKubelets(plan.kubelets, x)
        /\ patched \in [to : Numbers, kubeadm : Numbers, kubelets : BOOLEAN]
    <3>1. PICK k \in Nat : /\ k = IF plan.kubeadm >= x THEN plan.kubeadm ELSE x
                           /\ k >= x
      BY <1>3, <2>4
    <3>2. CanUpgradeKubelets(plan.kubelets, x) \in BOOLEAN
      BY DEF CanUpgradeKubelets
    <3>3. patched = [to |-> x, kubeadm |-> k, kubelets |-> CanUpgradeKubelets(plan.kubelets, x)]
      BY <3>1 DEF PatchUpgrade, Upgrade
    <3> QED
      BY <2>4, <3>1, <3>2, <3>3 DEF Numbers
  <2>7. /\ minor.to = plan.stable /\ minor.kubeadm = plan.stable
        /\ minor.kubelets = CanUpgradeKubelets(plan.kubelets, plan.stable)
        /\ minor \in [to : Numbers, kubeadm : Numbers, kubelets : BOOLEAN]
    <3>1. CanUpgradeKubelets(plan.kubelets, plan.stable) \in BOOLEAN
      BY DEF CanUpgradeKubelets
    <3>2. minor = [to |-> plan.stable, kubeadm |-> plan.stable,
                   kubelets |-> CanUpgradeKubelets(plan.kubelets, plan.stable)]
      BY DEF MinorUpgrade, Upgrade
    <3> QED
      BY <1>3, <3>1, <3>2 DEF Numbers
  <2>8. /\ patched.kubelets <=> \E n \in Nodes : plan.kubelets[n] # patched.to
        /\ minor.kubelets <=> \E n \in Nodes : plan.kubelets[n] # minor.to
    BY <1>2, <2>6, <2>7, KubeletsFollow, Zenon
  <2>9. plan' = [plan EXCEPT !.pc = "done", !.later = released, !.upgrades = offers]
    BY <1>4, <2>3, <2>4
  <2> HIDE DEF patched, minor, offers, b
  <2>10. /\ plan' \in Plans /\ plan'.pc = "done" /\ plan'.stable = plan.stable
         /\ plan'.seen = plan.seen /\ plan'.cluster = plan.cluster /\ plan'.upgrades = offers
         /\ plan'.kubeadm = plan.kubeadm /\ plan'.kubelets = plan.kubelets
         /\ plan'.later = released
    <3>1. offers \in SUBSET [to : Numbers, kubeadm : Numbers, kubelets : BOOLEAN]
      BY <2>5, <2>6, <2>7
    <3> QED
      BY <1>1, <1>2, <2>9, <3>1 DEF Plans
  <2>11. minor.kubeadm >= minor.to
    BY <1>3, <2>7
  <2>12. OfferedWith(x)'
    <3>1. \A u \in plan'.upgrades :
            /\ \/ u.to = x /\ plan'.cluster < x
               \/ u.to = plan'.stable /\ x < plan'.stable
            /\ u.kubeadm >= u.to
            /\ u.kubelets <=> \E n \in Nodes : plan'.kubelets[n] # u.to
      BY <2>5, <2>6, <2>7, <2>8, <2>10, <2>11
    <3>2. /\ plan'.cluster < x => \E u \in plan'.upgrades : u.to = x
          /\ x < plan'.stable => \E u \in plan'.upgrades : u.to = plan'.stable
      BY <2>5, <2>6, <2>7, <2>10
    <3>3. /\ x \in plan'.later /\ Branch(x) = Branch(plan'.cluster)
          /\ \A v \in InBranch(plan'.later, Branch(plan'.cluster)) : x >= v
      BY <2>2, <2>4, <2>10 DEF b
    <3> QED
      BY <3>1, <3>2, <3>3 DEF OfferedWith
  <2>13. StableInv'
    BY <1>1, <1>2, <2>10 DEF StableInv
  <2>14. DoneInv'
    <3>1. plan'.kubeadm \in plan'.later \cup Prereleases /\ plan'.seen \subseteq plan'.later
      BY <1>2, <2>10 DEF Known, StableInv
    <3> QED
      BY <1>1, <1>2, <2>4, <2>10, <2>12, <3>1 DEF DoneInv
  <2> QED
    BY <1>1, <1>2, <2>10, <2>13, <2>14 DEF PlanInv
<1> QED
  BY <1>5, <1>6

\* Every step of the release server and of GetAvailableUpgrades.
LEMMA VersionStep ==
    ASSUME ServerInv, PlanInv, VersionNext
    PROVE  ServerInv' /\ PlanInv'
<1>1. CASE Release
  BY <1>1, ServerStep, PlanRelease DEF Release
<1>2. ASSUME UNCHANGED released PROVE ServerInv'
  BY <1>2 DEF ServerInv
<1>3. CASE FetchFails \/ PrintAvailableUpgrades
  <2>1. plan' = NotPlanning /\ UNCHANGED released
    BY <1>3 DEF FetchFails, PrintAvailableUpgrades
  <2>2. PlanInv'
    BY <2>1, NoPlan DEF PlanInv
  <2> QED
    BY <1>2, <2>1, <2>2
<1>4. CASE ReadCluster \/ VersionFromCILabel \/ GetAvailableUpgrades
  <2>1. UNCHANGED released
    BY <1>4 DEF ReadCluster, VersionFromCILabel, GetAvailableUpgrades
  <2> QED
    BY <1>2, <1>4, <2>1, ReadStep, StableStep, PatchStep
<1> QED
  BY <1>1, <1>3, <1>4 DEF VersionNext

\* The upgrades that GetAvailableUpgrades offers are the right ones, whatever is
\* released between the two files, for any versions, releases and nodes.
THEOREM VersionsUpgradesOffered == Spec => []UpgradesOffered
<1>1. Init => ServerInv /\ PlanInv
  <2> SUFFICES ASSUME Init PROVE ServerInv /\ PlanInv
    OBVIOUS
  <2>1. PICK m \in Minors : m = Min(Minors) /\ released = {V(m, 0)} /\ plan = NotPlanning
    BY FirstMinor DEF Init, VersionInit
  <2>2. 0 \in 0..MaxPatch
    BY VersionsAssumption
  <2>3. V(m, 0) \in Releases
    BY <2>2 DEF Releases
  <2>4. V(m, 0) \in Nat
    BY <2>3, VersionsAre
  <2>5. \A S : S \subseteq released => Topped(S)
    BY <2>1, <2>4 DEF Topped
  <2>6. ServerInv
    BY <2>1, <2>3, <2>5 DEF ServerInv, InBranch
  <2>7. PlanInv
    BY <2>1, NoPlan DEF PlanInv
  <2> QED
    BY <2>6, <2>7
<1>2. ServerInv /\ PlanInv /\ [Next]_commandVars => ServerInv' /\ PlanInv'
  <2> SUFFICES ASSUME ServerInv, PlanInv, VersionNext \/ UNCHANGED versionVars
               PROVE  ServerInv' /\ PlanInv'
    BY DEF Next, commandVars
  <2>1. CASE UNCHANGED versionVars
    <3>1. plan' = plan /\ released' = released
      BY <2>1 DEF versionVars
    <3> QED
      BY <3>1, PlanRelease DEF ServerInv
  <2> QED
    BY <2>1, VersionStep
<1> QED
  BY <1>1, <1>2, OffersRight, PTL DEF Spec
=============================================================================
