-------------------------- MODULE VfsStore_proofs ---------------------------
(***************************************************************************)
(* The file store implements ObjectStore, for any number of commands,      *)
(* values and kills.                                                       *)
(*                                                                         *)
(* As long as nothing has gone wrong there is one writer at a time, and    *)
(* the invariant says what the files hold at each step of its call,        *)
(* compared with what it has found at the beginning.                       *)
(***************************************************************************)
EXTENDS VfsStore, TLAPS

Ops   == {"none", "Create", "Update", "UpdateStatus", "Delete", "Get"}
Puts  == {"Create", "Update", "UpdateStatus"}
PCs   == {"idle", "put", "write", "item2", "put2", "write2", "remove", "remove2",
          "read", "read2"}
Any   == Values \cup Resources \cup {None, Cut}

TypeInv ==
    /\ kind \in Files \cup Pairs
    /\ fst \in Any /\ snd \in Any
    /\ cmd \in [Commands -> [op : Ops, pc : PCs, new : Any, was : Any]]
    /\ spoilt \subseteq Ops \cup {"read", "overlap"}

Clean     == spoilt \subseteq {"read"}
Writer(c) == cmd[c].pc # "idle" /\ cmd[c].op # "Get"
OneWriter ==
    "overlap" \notin spoilt =>
        \A c, d \in Commands : Writer(c) /\ Writer(d) => c = d

\* What a call has found, and means to write.
Found(c) ==
    /\ cmd[c].op = "Create" => cmd[c].was = None
    /\ cmd[c].op \in {"Update", "UpdateStatus"} => kind \in Files /\ cmd[c].was \in Objects
    /\ cmd[c].op = "Delete" => kind = "machine" \/ cmd[c].was \in Objects
    /\ cmd[c].op \in Puts => cmd[c].new \in Objects

\* What the files hold at each step.
Progress(c) ==
    /\ cmd[c].pc \in {"put", "remove"} => cmd[c].was = fst
    /\ cmd[c].pc \in {"put", "write", "put2", "write2"} => cmd[c].op \in Puts
    /\ cmd[c].pc \in {"remove", "remove2"} => cmd[c].op = "Delete"
    /\ cmd[c].pc = "write" => fst = Cut
    /\ cmd[c].pc = "write" /\ kind \in Pairs => snd = None
    /\ cmd[c].pc \in {"item2", "put2", "write2", "remove2"} => kind \in Pairs
    /\ cmd[c].pc = "item2" => cmd[c].op \in {"Create", "Delete"}
    /\ cmd[c].pc = "item2" /\ cmd[c].op = "Create" => fst = cmd[c].new /\ snd = None
    /\ cmd[c].pc = "item2" /\ cmd[c].op = "Delete" => fst = None /\ snd = cmd[c].was
    /\ cmd[c].pc \in {"put2", "write2"} => cmd[c].op = "Create" /\ fst = cmd[c].new
    /\ cmd[c].pc = "put2" => snd = None
    /\ cmd[c].pc = "write2" => snd = Cut
    /\ cmd[c].pc = "remove2" => fst = None /\ snd = cmd[c].was

\* Nobody is in the middle of a change.
AtRest == \A c \in Commands : ~Midway(c)

WholeInv ==
    Clean =>
        /\ AtRest => fst \in Objects \cup {None} /\ (kind \in Pairs => snd = fst)
        /\ \A c \in Commands : Writer(c) => Found(c) /\ Progress(c)

GetsRead == \A c \in Commands :
    /\ cmd[c].op = "Get" => cmd[c].pc \in {"idle", "read", "read2"}
    /\ cmd[c].op = "none" => cmd[c].pc = "idle"
    /\ cmd[c].pc \in {"read", "read2"} => cmd[c].op = "Get"

Inv == TypeInv /\ GetsRead /\ OneWriter /\ WholeInv

-----------------------------------------------------------------------------
(* The steps that calls are made of *)

Begin(c) ==
    \/ \E v \in Objects : Item(c, "Create", fst = None, "put", v)
    \/ kind \in Files /\ \E v \in Objects : Item(c, "Update", fst # None, "put", v)
    \/ /\ kind \in Files /\ fst \in Objects
       /\ \E s \in Values : Item(c, "UpdateStatus", TRUE, "put", [fst EXCEPT !.status = s])
    \/ Item(c, "Delete", fst # None, "remove", None)
    \/ kind = "machine" /\ Item(c, "Delete", TRUE, "remove", None)
    \/ Item(c, "Get", fst # None, "read", None)

Write(c) == \E op \in Puts : Put(c, op)

Skip(c) ==
    /\ kind = "machine"
    /\ At(c, "Delete", "remove") /\ Return(c) /\ UNCHANGED <<fst, snd>> /\ Others

Read(c) ==
    \/ /\ kind \in Files
       /\ At(c, "Get", "read") /\ Return(c)
       /\ misread' = (misread \/ fst = Cut)
       /\ UNCHANGED <<kind, fst, snd, spoilt, kills>>
    \/ /\ kind \in Pairs
       /\ At(c, "Get", "read")
       /\ cmd' = [cmd EXCEPT ![c].pc = "read2", ![c].new = fst]
       /\ UNCHANGED <<fst, snd>> /\ Others
    \/ /\ kind \in Pairs
       /\ At(c, "Get", "read2") /\ Return(c)
       /\ misread' = (misread \/ cmd[c].new \notin Values \/ cmd[c].new # snd)
       /\ UNCHANGED <<kind, fst, snd, spoilt, kills>>

SecondFile(c) ==
    /\ kind \in Pairs
    /\ \/ /\ At(c, "Create", "item2") /\ UNCHANGED <<fst, snd>> /\ Others
          /\ IF snd = None THEN Goto(c, "put2") ELSE Return(c)
       \/ At(c, "Create", "put2") /\ Goto(c, "write2") /\ snd' = Cut /\ UNCHANGED fst /\ Others
       \/ At(c, "Create", "write2") /\ Return(c) /\ snd' = cmd[c].new /\ UNCHANGED fst /\ Others
       \/ /\ At(c, "Delete", "item2") /\ UNCHANGED <<fst, snd>> /\ Others
          /\ IF snd = None THEN Return(c) ELSE Goto(c, "remove2")
       \/ At(c, "Delete", "remove2") /\ Return(c) /\ snd' = None /\ UNCHANGED fst /\ Others

Elementary(c) ==
    \/ Begin(c) \/ Write(c) \/ (kind # "machine" /\ RemoveItem(c)) \/ Skip(c)
    \/ Read(c) \/ SecondFile(c) \/ Kill(c)

\* Every action of the store is one of them.
LEMMA Steps ==
    ASSUME NEW c \in Commands, JsonStore(c) \/ PairStore(c) \/ Kill(c)
    PROVE  Elementary(c) \/ UNCHANGED vars
<1>1. ASSUME NEW k \in Files, CreateFile(c, k) PROVE Begin(c) \/ Write(c)
  BY <1>1 DEF CreateFile, Begin, Write, Puts
<1>2. ASSUME NEW k \in Files, UpdateFile(c, k) PROVE Begin(c) \/ Write(c)
  BY <1>2 DEF UpdateFile, Begin, Write, Puts
<1>3. ASSUME NEW k \in Files, UpdateStatusOf(c, k) PROVE Begin(c) \/ Write(c)
  BY <1>3 DEF UpdateStatusOf, Begin, Write, Puts
<1>4. ASSUME NEW k \in Files \ {"machine"}, DeleteFile(c, k)
      PROVE Begin(c) \/ (kind # "machine" /\ RemoveItem(c))
  BY <1>4 DEF DeleteFile, Begin
<1>5. ASSUME NEW k \in Files, ReadFile(c, k) PROVE Begin(c) \/ Read(c)
  BY <1>5 DEF ReadFile, Begin, Read
<1>6. ASSUME NEW k \in Pairs, CreatePair(c, k) PROVE Begin(c) \/ Write(c) \/ SecondFile(c)
  BY <1>6 DEF CreatePair, Begin, Write, SecondFile, Puts
<1>7. ASSUME NEW k \in Pairs, DeletePair(c, k)
      PROVE Begin(c) \/ (kind # "machine" /\ RemoveItem(c)) \/ SecondFile(c)
  BY <1>7 DEF DeletePair, Begin, SecondFile, Pairs
<1>8. ASSUME NEW k \in Pairs, ReadPair(c, k) PROVE Begin(c) \/ Read(c)
  BY <1>8 DEF ReadPair, Begin, Read
<1>9. ASSUME machineDelete(c) PROVE Begin(c) \/ Skip(c)
  BY <1>9 DEF machineDelete, Begin, Skip
<1>10. {"cluster", "credential", "machineset", "machine"} \subseteq Files
       /\ {"cluster", "credential", "machineset"} \subseteq Files \ {"machine"}
       /\ {"certificate", "ssh"} \subseteq Pairs
  BY DEF Files, Pairs
<1>11. CASE JsonStore(c)
  BY <1>11, <1>1, <1>2, <1>3, <1>4, <1>5, <1>9, <1>10
  DEF JsonStore, Elementary, clusterList, clusterGet, clusterCreate, clusterUpdate,
      clusterDelete, clusterUpdateStatus, clusterUpdateUUID, credentialList,
      credentialGet, credentialCreate, credentialUpdate, credentialDelete,
      machineSetList, machineSetGet, machineSetCreate, machineSetUpdate,
      machineSetDelete, machineSetUpdateStatus, machineList, machineGet,
      machineCreate, machineUpdate, machineUpdateStatus
<1>12. CASE PairStore(c)
  BY <1>12, <1>6, <1>7, <1>8, <1>10
  DEF PairStore, Elementary, certificateGet, certificateCreate, certificateDelete,
      sshGet, sshCreate, sshDelete
<1>13. CASE Kill(c)
  BY <1>13 DEF Elementary
<1> QED
  BY <1>11, <1>12, <1>13

-----------------------------------------------------------------------------
(* The invariant *)

\* Files are not pairs, and what is written is neither None nor Cut.
LEMMA Kinds ==
    /\ Files \cap Pairs = {} /\ "machine" \in Files
    /\ None \notin Objects /\ Cut \notin Objects /\ None # Cut
    /\ Objects \subseteq Any /\ (kind \in Pairs => Objects = Values)
    /\ (kind \notin Pairs => Objects = Resources)
  BY ContentAssumption DEF Files, Pairs, Objects, Resources, Any

\* A step leaves every value in its type.
LEMMA TypeStep ==
    ASSUME TypeInv, NEW c \in Commands, Elementary(c)
    PROVE  TypeInv'
<1> USE Kinds
<1>1. Content \in Any /\ NoCall \in [op : Ops, pc : PCs, new : Any, was : Any]
  BY DEF TypeInv, Content, Broken, NoCall, Call, Ops, PCs, Any
<1>2. Overlap(c, "Get") \subseteq {"read", "overlap"}
      /\ \A op \in Ops : Overlap(c, op) \subseteq {"read", "overlap"}
  BY DEF Overlap
<1>3. CASE Begin(c)
  <2>1. ASSUME NEW op \in Ops, NEW ok, NEW pc \in PCs, NEW new \in Any, Item(c, op, ok, pc, new)
        PROVE TypeInv'
    BY <1>1, <1>2, <2>1 DEF Item, TypeInv, Call
  <2>2. \A v \in Objects : v \in Any
    OBVIOUS
  <2>3. kind \in Files /\ fst \in Objects =>
            \A s \in Values : [fst EXCEPT !.status = s] \in Any
    BY DEF Objects, Resources, Any
  <2>4. None \in Any /\ {"put", "remove", "read"} \subseteq PCs
        /\ {"Create", "Update", "UpdateStatus", "Delete", "Get"} \subseteq Ops
    BY DEF Any, PCs, Ops
  <2> QED
    BY <1>3, <2>1, <2>2, <2>3, <2>4 DEF Begin
<1>4. CASE Write(c)
  BY <1>1, <1>4 DEF Write, Put, At, Goto, Return, Others, TypeInv, PCs, Any
<1>5. CASE RemoveItem(c) \/ Skip(c)
  BY <1>1, <1>5 DEF RemoveItem, Skip, At, Goto, Return, Others, TypeInv, PCs, Any
<1>6. CASE Read(c)
  BY <1>1, <1>6 DEF Read, At, Return, Others, TypeInv, PCs
<1>7. CASE SecondFile(c)
  BY <1>1, <1>7 DEF SecondFile, At, Goto, Return, Others, TypeInv, PCs, Any
<1>8. CASE Kill(c)
  BY <1>1, <1>8 DEF Kill, Return, TypeInv
<1> QED
  BY <1>3, <1>4, <1>5, <1>6, <1>7, <1>8 DEF Elementary

\* A call is either a Get, which only reads, or one that writes.
LEMMA GetsReadStep ==
    ASSUME TypeInv, GetsRead, NEW c \in Commands, Elementary(c)
    PROVE  GetsRead'
<1>1. CASE Begin(c)
  BY <1>1 DEF Begin, Item, Call, TypeInv, GetsRead
<1>2. CASE Write(c) \/ RemoveItem(c) \/ Skip(c)
  BY <1>2 DEF Write, Puts, Put, RemoveItem, Skip, At, Goto, Return, NoCall, Call, TypeInv, GetsRead
<1>3. CASE Read(c) \/ SecondFile(c) \/ Kill(c)
  BY <1>3 DEF Read, SecondFile, Kill, At, Goto, Return, Others, NoCall, Call, TypeInv, GetsRead
<1> QED
  BY <1>1, <1>2, <1>3 DEF Elementary

\* A step that does not begin a call makes no writer, and none forgets that
\* calls have overlapped.
LEMMA WriterStep ==
    ASSUME TypeInv, GetsRead, NEW c \in Commands, Elementary(c)
    PROVE  /\ spoilt \subseteq spoilt'
           /\ \A d \in Commands : d # c => cmd'[d] = cmd[d]
           /\ kind' = kind
           /\ ~Begin(c) => (Writer(c)' => Writer(c))
<1>1. CASE Begin(c)
  BY <1>1 DEF Begin, Item, TypeInv
<1>2. CASE Write(c)
  BY <1>2 DEF Write, Puts, Put, At, Goto, Return, Others, NoCall, Call, TypeInv, Writer
<1>3. CASE RemoveItem(c) \/ Skip(c)
  BY <1>3 DEF RemoveItem, Skip, At, Goto, Return, Others, NoCall, Call, TypeInv, Writer
<1>4. CASE Read(c) \/ SecondFile(c) \/ Kill(c)
  BY <1>4 DEF Read, SecondFile, Kill, At, Goto, Return, Others, NoCall, Call, TypeInv, Writer
<1> QED
  BY <1>1, <1>2, <1>3, <1>4 DEF Elementary

\* Whoever begins to write while another command writes leaves a trace.
LEMMA BeginAlone ==
    ASSUME TypeInv, GetsRead, NEW c \in Commands, Begin(c),
           Writer(c)', "overlap" \notin spoilt'
    PROVE  \A d \in Commands : Writer(d) => FALSE
<1> SUFFICES ASSUME NEW d \in Commands, Writer(d) PROVE FALSE
  OBVIOUS
<1>1. PICK op \in Ops : op = cmd'[c].op /\ op # "Get" /\ cmd[c].pc = "idle"
                        /\ spoilt' = spoilt \cup Overlap(c, op)
  BY DEF Begin, Item, Call, TypeInv, Writer, Ops
<1>2. d # c /\ cmd[d].pc # "idle" /\ cmd[d].op # "Get"
  BY <1>1 DEF Writer
<1>3. Overlap(c, op) = {"overlap"}
  BY <1>1, <1>2 DEF Overlap
<1> QED
  BY <1>1, <1>3

\* There is one writer at a time.
LEMMA OneWriterStep ==
    ASSUME TypeInv, GetsRead, OneWriter, NEW c \in Commands, Elementary(c)
    PROVE  OneWriter'
<1> SUFFICES ASSUME "overlap" \notin spoilt', NEW a \in Commands, NEW b \in Commands,
                    Writer(a)', Writer(b)', a # b
             PROVE  FALSE
  BY DEF OneWriter
<1>1. \A d \in Commands : d # c => (Writer(d)' => Writer(d))
  BY WriterStep DEF Writer
<1>2. CASE Begin(c) /\ Writer(c)'
  BY <1>1, <1>2, BeginAlone
<1>3. CASE ~Begin(c) \/ ~Writer(c)'
  <2>1. Writer(c)' => Writer(c)
    BY <1>3, WriterStep
  <2>2. "overlap" \notin spoilt
    BY WriterStep
  <2> QED
    BY <1>1, <2>1, <2>2 DEF OneWriter
<1> QED
  BY <1>2, <1>3

\* Only a writer touches the files.
LEMMA ReadersLeaveFiles ==
    ASSUME TypeInv, GetsRead, NEW c \in Commands, Elementary(c), fst' # fst \/ snd' # snd
    PROVE  Writer(c) /\ ~Begin(c) /\ ~Kill(c)
  BY DEF Elementary, Begin, Item, Write, Puts, Put, RemoveItem, Skip, Read, SecondFile, Kill,
         At, Others, Writer, GetsRead

\* What is known of a call stays true while another command works.
LEMMA OtherCalls ==
    ASSUME Inv, NEW c \in Commands, Elementary(c), Clean',
           NEW d \in Commands, d # c, Writer(d)'
    PROVE  (Found(d) /\ Progress(d))' /\ Writer(d) /\ UNCHANGED <<kind, fst, snd>>
<1>1. Clean /\ "overlap" \notin spoilt /\ cmd'[d] = cmd[d] /\ kind' = kind
  BY WriterStep DEF Inv, Clean
<1>2. Writer(d)
  BY <1>1 DEF Writer
<1>3. ~Writer(c)
  BY <1>1, <1>2 DEF Inv, OneWriter
<1>4. UNCHANGED <<kind, fst, snd>>
  BY <1>1, <1>3, ReadersLeaveFiles DEF Inv
<1>5. Found(d) /\ Progress(d)
  BY <1>1, <1>2 DEF Inv, WholeInv
<1> QED
  BY <1>1, <1>2, <1>4, <1>5 DEF Found, Progress, Objects

\* Whoever is in the middle of a change is a writer; whoever is not has not
\* begun it.
LEMMA MidwayWrites ==
    ASSUME TypeInv, GetsRead, NEW d \in Commands, Midway(d)
    PROVE  Writer(d)
  BY DEF GetsRead, Midway, Writer

\* A call begins with the file as it is.
LEMMA BeginWhole ==
    ASSUME Inv, NEW c \in Commands, Begin(c), Clean', Writer(c)'
    PROVE  (Found(c) /\ Progress(c))' /\ AtRest /\ ~Midway(c)'
<1> USE Kinds
<1>1. Clean /\ "overlap" \notin spoilt' /\ kind' = kind
  BY WriterStep DEF Inv, Clean, Elementary
<1>2. \A d \in Commands : ~Writer(d)
  BY <1>1, BeginAlone DEF Inv
<1>3. AtRest
  BY <1>2, MidwayWrites DEF Inv, AtRest
<1>4. Content = fst /\ fst \in Objects \cup {None} /\ (kind \in Pairs => snd = fst)
  BY <1>1, <1>3 DEF Inv, WholeInv, Content, TypeInv
<1>5. cmd[c].pc = "idle" /\ UNCHANGED <<kind, fst, snd>> /\ Objects' = Objects
  BY DEF Begin, Item, Objects
<1>6. ASSUME NEW v \in Objects, Item(c, "Create", fst = None, "put", v)
      PROVE  (Found(c) /\ Progress(c))' /\ ~Midway(c)'
  BY <1>4, <1>5, <1>6 DEF Item, Call, Found, Progress, Midway, Inv, TypeInv, Puts
<1>7. ASSUME NEW v \in Objects, kind \in Files, Item(c, "Update", fst # None, "put", v)
      PROVE  (Found(c) /\ Progress(c))' /\ ~Midway(c)'
  BY <1>4, <1>5, <1>7 DEF Item, Call, Found, Progress, Midway, Inv, TypeInv, Puts
<1>8. ASSUME NEW s \in Values, kind \in Files, fst \in Objects,
             Item(c, "UpdateStatus", TRUE, "put", [fst EXCEPT !.status = s])
      PROVE  (Found(c) /\ Progress(c))' /\ ~Midway(c)'
  <2>1. [fst EXCEPT !.status = s] \in Objects
    <3>1. Objects = Resources
      BY <1>8
    <3>2. fst \in [spec : Values, status : Values]
      BY <1>8, <3>1 DEF Resources
    <3>3. [fst EXCEPT !.status = s] \in [spec : Values, status : Values]
      BY <1>8, <3>2
    <3> QED
      BY <3>1, <3>3 DEF Resources
  <2>2. PICK v \in Objects : Item(c, "UpdateStatus", TRUE, "put", v)
    BY <1>8, <2>1
  <2> QED
    BY <1>4, <1>5, <1>8, <2>2 DEF Item, Call, Found, Progress, Midway, Inv, TypeInv, Puts
<1>9. ASSUME \/ Item(c, "Delete", fst # None, "remove", None)
             \/ kind = "machine" /\ Item(c, "Delete", TRUE, "remove", None)
      PROVE  (Found(c) /\ Progress(c))' /\ ~Midway(c)'
  BY <1>4, <1>5, <1>9 DEF Item, Call, Found, Progress, Midway, Inv, TypeInv, Puts
<1>10. ~Item(c, "Get", fst # None, "read", None)
  BY DEF Item, Call, Writer, Inv, TypeInv
<1> QED
  BY <1>3, <1>6, <1>7, <1>8, <1>9, <1>10 DEF Begin

\* A call goes on from what it has found, and ends with all of its change.
LEMMA WriterWhole ==
    ASSUME Inv, NEW c \in Commands, Elementary(c), Clean', Writer(c), ~Kill(c)
    PROVE  /\ Writer(c)' => (Found(c) /\ Progress(c))'
           /\ ~Midway(c)' => fst' \in Objects' \cup {None} /\ (kind' \in Pairs => snd' = fst')
           /\ kind' = kind
<1> USE Kinds
<1>1. Clean /\ "overlap" \notin spoilt /\ kind' = kind /\ Objects' = Objects
  BY WriterStep DEF Inv, Clean, Objects
<1>2. Found(c) /\ Progress(c)
  BY <1>1 DEF Inv, WholeInv
<1>3. ~Midway(c) => fst \in Objects \cup {None} /\ (kind \in Pairs => snd = fst)
  <2>1. \A d \in Commands : Midway(d) => d = c
    BY <1>1, MidwayWrites DEF Inv, OneWriter
  <2> QED
    BY <1>1, <2>1 DEF Inv, WholeInv, AtRest
<1>4. CASE Write(c)
  BY <1>1, <1>2, <1>3, <1>4
  DEF Write, Put, At, Goto, Return, Others, NoCall, Call, Inv, TypeInv, Found, Progress,
      Midway, Writer, Puts
<1>5. CASE kind # "machine" /\ RemoveItem(c)
  BY <1>1, <1>2, <1>3, <1>5
  DEF RemoveItem, At, Goto, Return, Others, NoCall, Call, Inv, TypeInv, Found, Progress,
      Midway, Writer, Puts
<1>6. CASE Skip(c)
  BY <1>1, <1>2, <1>3, <1>6
  DEF Skip, At, Return, Others, NoCall, Call, Inv, TypeInv, Found, Progress,
      Midway, Writer, Puts
<1>7. CASE SecondFile(c)
  BY <1>1, <1>2, <1>3, <1>7
  DEF SecondFile, At, Goto, Return, Others, NoCall, Call, Inv, TypeInv, Found, Progress,
      Midway, Writer, Puts
<1>8. ~Begin(c) /\ ~Read(c)
  BY DEF Begin, Item, Read, At, Writer
<1> QED
  BY <1>1, <1>4, <1>5, <1>6, <1>7, <1>8 DEF Elementary

\* A command that is killed in a call that did not change anything yet, and a
\* Get, leave the files whole.
LEMMA WholeStep ==
    ASSUME Inv, NEW c \in Commands, Elementary(c)
    PROVE  WholeInv'
<1> SUFFICES ASSUME Clean' PROVE WholeInv'
  BY DEF WholeInv
<1>1. Clean /\ kind' = kind /\ Objects' = Objects
      /\ \A d \in Commands : d # c => cmd'[d] = cmd[d]
  BY WriterStep DEF Inv, Clean, Objects
<1>2. Writer(c)' => (Found(c) /\ Progress(c))'
  <2>1. CASE Begin(c)
    BY <2>1, BeginWhole
  <2>2. CASE Kill(c)
    BY <2>2 DEF Kill, Return, NoCall, Call, Writer, Inv, TypeInv
  <2>3. CASE ~Begin(c) /\ ~Kill(c)
    BY <2>3, WriterStep, WriterWhole DEF Inv
  <2> QED
    BY <2>1, <2>2, <2>3
<1>3. \A d \in Commands : Writer(d)' => (Found(d) /\ Progress(d))'
  BY <1>2, OtherCalls
<1>4. ASSUME AtRest'
      PROVE  fst' \in Objects' \cup {None} /\ (kind' \in Pairs => snd' = fst')
  <2>1. CASE Writer(c) /\ ~Kill(c)
    BY <1>4, <2>1, WriterWhole DEF AtRest
  <2>2. CASE ~Writer(c) \/ Kill(c)
    <3>1. UNCHANGED <<fst, snd>>
      BY <2>2, ReadersLeaveFiles DEF Inv
    <3>2. ~Midway(c)
      <4>1. CASE Kill(c)
        BY <4>1 DEF Kill, Midway, Clean, Inv, TypeInv, Ops
      <4>2. CASE ~Writer(c)
        BY <4>2, MidwayWrites DEF Inv
      <4> QED
        BY <2>2, <4>1, <4>2
    <3>3. AtRest
      BY <1>1, <1>4, <3>2 DEF AtRest, Midway
    <3> QED
      BY <1>1, <3>1, <3>3 DEF Inv, WholeInv
  <2> QED
    BY <2>1, <2>2
<1> QED
  BY <1>3, <1>4 DEF WholeInv

\* Nothing has been called.
LEMMA InitInv == Init => Inv
<1> SUFFICES ASSUME Init PROVE Inv
  OBVIOUS
<1>1. \A c \in Commands : cmd[c] = NoCall
  BY DEF Init
<1>2. TypeInv
  BY DEF Init, TypeInv, NoCall, Call, Ops, PCs, Any
<1> QED
  BY <1>1, <1>2 DEF Init, Inv, NoCall, Call, GetsRead, OneWriter, Writer, WholeInv, Midway

\* Every step of the store preserves the invariant.
LEMMA NextInv == Inv /\ [Next]_vars => Inv'
<1> SUFFICES ASSUME Inv, [Next]_vars PROVE Inv'
  OBVIOUS
<1>1. CASE UNCHANGED vars
  BY <1>1 DEF vars, Inv, TypeInv, GetsRead, OneWriter, WholeInv, Clean, Writer, Found,
              Progress, AtRest, Midway, Objects
<1>2. ASSUME NEW c \in Commands, Elementary(c) PROVE Inv'
  BY <1>2, TypeStep, GetsReadStep, OneWriterStep, WholeStep DEF Inv
<1> QED
  BY <1>1, <1>2, Steps DEF Next

\* While no two calls have overlapped and none was killed half way, one
\* command writes at a time, the files hold what its call has found or is
\* writing, and between calls every object is whole (store/providers/vfs).
THEOREM VfsWhole == Spec => []Inv
<1>1. Init => Inv
  BY InitInv
<1>2. Inv /\ [Next]_vars => Inv'
  BY NextInv
<1> QED
  BY <1>1, <1>2, PTL DEF Spec

-----------------------------------------------------------------------------
(* Refinement *)

\* The object is what the writer has found until its change is complete, and
\* otherwise what the files hold.
Stored ==
    /\ \A c \in Commands : Midway(c) => StoredObject = cmd[c].was
    /\ AtRest => StoredObject = fst /\ Content = fst

\* So it does in every state of the invariant.
LEMMA StoredValue == Inv /\ Clean => Stored
<1> SUFFICES ASSUME Inv, Clean PROVE Stored
  OBVIOUS
<1>1. spoilt \ {"read"} = {} /\ "overlap" \notin spoilt
  BY DEF Clean
<1>2. ASSUME NEW c \in Commands, Midway(c) PROVE StoredObject = cmd[c].was
  <2> DEFINE w == CHOOSE d \in Commands : Midway(d)
  <2>1. w \in Commands /\ Midway(w)
    BY <1>2
  <2>2. w = c
    BY <1>1, <1>2, <2>1, MidwayWrites DEF Inv, OneWriter
  <2>3. StoredObject = cmd[w].was
    BY <1>1, <1>2 DEF StoredObject
  <2> QED
    BY <2>2, <2>3
<1>3. ASSUME AtRest PROVE StoredObject = fst /\ Content = fst
  BY <1>1, <1>3 DEF StoredObject, AtRest, Content, Inv, WholeInv, TypeInv
<1> QED
  BY <1>2, <1>3 DEF Stored

\* In particular after a step.
LEMMA StoredValueNext == (Inv /\ Clean => Stored)'
  BY StoredValue, PTL

\* A step of a writer keeps what it has found; the step that completes the
\* change makes it at once.
LEMMA WriterMoves ==
    ASSUME Inv, NEW c \in Commands, Elementary(c), Clean', Writer(c), ~Kill(c)
    PROVE  /\ Midway(c)' => cmd'[c].was = cmd[c].was /\ (~Midway(c) => cmd[c].was = fst)
           /\ Midway(c) /\ ~Midway(c)' =>
                  \/ cmd[c].was = None /\ fst' \in Objects
                  \/ cmd[c].was \in Objects /\ fst' \in Objects
                  \/ cmd[c].was \in Objects /\ fst' = None
           /\ ~Midway(c) /\ ~Midway(c)' =>
                  fst' = fst \/ (fst \in Objects /\ fst' = None)
<1> USE Kinds
<1>1. Clean
  BY WriterStep DEF Inv, Clean
<1>2. Found(c) /\ Progress(c)
  BY <1>1 DEF Inv, WholeInv
<1>3. CASE Write(c)
  BY <1>2, <1>3
  DEF Write, Put, At, Goto, Return, Others, NoCall, Call, Inv, TypeInv, Found, Progress,
      Midway, Puts
<1>4. CASE kind # "machine" /\ RemoveItem(c)
  BY <1>2, <1>4
  DEF RemoveItem, At, Goto, Return, Others, NoCall, Call, Inv, TypeInv, Found, Progress, Midway
<1>5. CASE Skip(c)
  BY <1>2, <1>5 DEF Skip, At, Return, Others, NoCall, Call, Inv, TypeInv, Midway
<1>6. CASE SecondFile(c)
  BY <1>2, <1>6
  DEF SecondFile, At, Goto, Return, Others, NoCall, Call, Inv, TypeInv, Found, Progress,
      Midway, Puts
<1>7. ~Begin(c) /\ ~Read(c)
  BY DEF Begin, Item, Read, At, Writer
<1> QED
  BY <1>3, <1>4, <1>5, <1>6, <1>7 DEF Elementary

\* Every step is one of the interface, a fault, or invisible.
LEMMA Refines ==
    ASSUME Inv, Inv', NEW c \in Commands, Elementary(c)
    PROVE  [Abstract!Next]_StoredObject
<1> USE Kinds
<1>1. CASE ~Clean'
  <2>1. spoilt' \ {"read"} # {}
    BY <1>1 DEF Clean
  <2>2. StoredObject' = Lost
    BY <2>1 DEF StoredObject
  <2> QED
    BY <2>2 DEF Abstract!Next, Abstract!Fault
<1>2. CASE Clean'
  <2>1. Clean /\ "overlap" \notin spoilt /\ kind' = kind
        /\ \A d \in Commands : d # c => cmd'[d] = cmd[d]
    BY <1>2, WriterStep DEF Inv, Clean
  <2>2. Stored /\ Stored'
    BY <1>2, <2>1, StoredValue, StoredValueNext
  <2>3. \A v : v \in Objects => v \in Values \cup Resources
    BY DEF Objects
  <2>4. CASE \E d \in Commands : d # c /\ Midway(d)
    <3>1. PICK d \in Commands : d # c /\ Midway(d)
      BY <2>4
    <3>2. Midway(d)' /\ cmd'[d].was = cmd[d].was
      BY <2>1, <3>1 DEF Midway
    <3> QED
      BY <2>2, <3>1, <3>2 DEF Stored
  <2>5. CASE ~\E d \in Commands : d # c /\ Midway(d)
    <3>1. /\ ~Midway(c) => AtRest
          /\ ~Midway(c)' => AtRest'
      BY <2>1, <2>5 DEF AtRest, Midway
    <3>2. CASE Writer(c) /\ ~Kill(c)
      <4>1. CASE Midway(c)'
        BY <1>2, <2>2, <3>1, <3>2, <4>1, WriterMoves DEF Stored
      <4>2. CASE ~Midway(c)' /\ Midway(c)
        <5>1. StoredObject = cmd[c].was /\ StoredObject' = fst'
          BY <2>2, <3>1, <4>2 DEF Stored
        <5> QED
          BY <1>2, <2>3, <3>2, <4>2, <5>1, WriterMoves
          DEF Abstract!Next, Abstract!Create, Abstract!Update, Abstract!Delete
      <4>3. CASE ~Midway(c)' /\ ~Midway(c)
        <5>1. StoredObject = fst /\ StoredObject' = fst'
          BY <2>2, <3>1, <4>3 DEF Stored
        <5> QED
          BY <1>2, <2>3, <3>2, <4>3, <5>1, WriterMoves DEF Abstract!Next, Abstract!Delete
      <4> QED
        BY <4>1, <4>2, <4>3
    <3>3. CASE ~Writer(c) \/ Kill(c)
      <4>1. fst' = fst
        BY <3>3, ReadersLeaveFiles DEF Inv
      <4>2. ~Midway(c)
        <5>1. CASE Kill(c)
          BY <1>2, <5>1 DEF Kill, Midway, Clean, Inv, TypeInv, Ops
        <5>2. CASE ~Writer(c)
          BY <5>2, MidwayWrites DEF Inv
        <5> QED
          BY <3>3, <5>1, <5>2
      <4>3. ~Midway(c)'
        <5>1. CASE Kill(c)
          BY <5>1 DEF Kill, Return, NoCall, Call, Midway, Inv, TypeInv
        <5>2. CASE Begin(c)
          BY <5>2 DEF Begin, Item, Call, Midway, Inv, TypeInv
        <5>3. CASE ~Begin(c) /\ ~Kill(c)
          <6>1. ~Writer(c)'
            BY <3>3, <5>3, WriterStep DEF Inv
          <6> QED
            BY <6>1 DEF Inv, GetsRead, Midway, Writer
        <5> QED
          BY <5>1, <5>2, <5>3
      <4> QED
        BY <2>2, <3>1, <4>1, <4>2, <4>3 DEF Stored
    <3> QED
      BY <3>2, <3>3
  <2> QED
    BY <2>4, <2>5
<1> QED
  BY <1>1, <1>2

\* The file store implements the interface of store/api.go: as long as no two
\* calls overlap and none is killed half way, a call of store/providers/vfs
\* happens at once or not at all.
THEOREM VfsAtomic == Spec => Atomic
<1>1. Init => Abstract!Init
  <2> SUFFICES ASSUME Init PROVE Abstract!Init
    OBVIOUS
  <2>1. \A c \in Commands : ~Midway(c)
    BY DEF Init, NoCall, Call, Midway
  <2>2. spoilt \ {"read"} = {} /\ Content = None
    BY DEF Init, Content
  <2> QED
    BY <2>1, <2>2 DEF Abstract!Init, StoredObject
<1>2. Inv /\ Inv' /\ [Next]_vars => [Abstract!Next]_StoredObject
  <2> SUFFICES ASSUME Inv, Inv', [Next]_vars PROVE [Abstract!Next]_StoredObject
    OBVIOUS
  <2>1. CASE UNCHANGED vars
    <3>1. StoredObject' = StoredObject
      BY <2>1 DEF vars, StoredObject, Midway, Content
    <3> QED
      BY <3>1
  <2> QED
    BY <2>1, Steps, Refines DEF Next
<1> QED
  BY <1>1, <1>2, VfsWhole, PTL DEF Spec, Atomic, Abstract!Spec

-----------------------------------------------------------------------------
(* The two files of a pair *)

\* What the call on a pair has done; unlike Progress, this also holds after a
\* Create was killed.
PairProgress(c) ==
    /\ cmd[c].op \in {"Create", "Delete"}
    /\ cmd[c].op = "Create" => cmd[c].new \in Values
    /\ cmd[c].pc = "put" => cmd[c].op = "Create" /\ fst = None
    /\ cmd[c].pc = "write" => cmd[c].op = "Create" /\ fst = Cut /\ snd = None
    /\ cmd[c].pc = "item2" /\ cmd[c].op = "Create" => fst = cmd[c].new /\ snd = None
    /\ cmd[c].pc = "item2" /\ cmd[c].op = "Delete" => fst = None
    /\ cmd[c].pc \in {"put2", "write2"} => cmd[c].op = "Create" /\ fst = cmd[c].new
    /\ cmd[c].pc = "put2" => snd = None
    /\ cmd[c].pc = "write2" => snd = Cut
    /\ cmd[c].pc \in {"remove", "remove2"} => cmd[c].op = "Delete"
    /\ cmd[c].pc = "remove2" => fst = None

\* The second file is never there without the first, and never holds another
\* key.
Matched == (fst = None => snd = None) /\ (snd \in Values => snd = fst)

PairInv ==
    kind \in Pairs /\ spoilt \cap {"overlap", "Delete"} = {} =>
        /\ AtRest => Matched
        /\ \A c \in Commands : Writer(c) => PairProgress(c)

\* What is known of the pair stays true while another command works, and when
\* a call begins.
LEMMA PairCalls ==
    ASSUME Inv, PairInv, NEW c \in Commands, Elementary(c), kind \in Pairs,
           spoilt' \cap {"overlap", "Delete"} = {}
    PROVE  \A d \in Commands : Writer(d)' => PairProgress(d)'
<1> USE Kinds
<1>1. "overlap" \notin spoilt /\ spoilt \cap {"overlap", "Delete"} = {} /\ kind' = kind
      /\ \A d \in Commands : d # c => cmd'[d] = cmd[d]
  BY WriterStep DEF Inv
<1>2. ASSUME NEW d \in Commands, d # c, Writer(d)' PROVE PairProgress(d)'
  <2>1. Writer(d) /\ ~Writer(c)
    BY <1>1, <1>2 DEF Writer, Inv, OneWriter
  <2>2. UNCHANGED <<fst, snd>>
    BY <2>1, ReadersLeaveFiles DEF Inv
  <2> QED
    BY <1>1, <1>2, <2>1, <2>2 DEF PairInv, PairProgress
<1>3. ASSUME Writer(c)' PROVE PairProgress(c)'
  <2>1. CASE Begin(c)
    BY <1>3, <2>1 DEF Begin, Item, Call, PairProgress, Inv, TypeInv, Writer
  <2>2. CASE Kill(c)
    BY <1>3, <2>2 DEF Kill, Return, NoCall, Call, Writer, Inv, TypeInv
  <2>3. CASE ~Begin(c) /\ ~Kill(c)
    <3>1. Writer(c) /\ PairProgress(c)
      BY <1>1, <1>3, <2>3, WriterStep DEF Inv, PairInv
    <3>2. ~Midway(c) => Matched
      <4>1. \A d \in Commands : Midway(d) => d = c
        BY <1>1, <3>1, MidwayWrites DEF Inv, OneWriter
      <4> QED
        BY <1>1, <4>1 DEF PairInv, AtRest
    <3>3. CASE Write(c)
      BY <3>1, <3>2, <3>3
      DEF Write, Put, At, Goto, Return, Others, NoCall, Call, Inv, TypeInv, PairProgress,
          Matched, Midway, Puts
    <3>4. CASE kind # "machine" /\ RemoveItem(c)
      BY <3>1, <3>4 DEF RemoveItem, At, Goto, Others, Inv, TypeInv, PairProgress
    <3>5. CASE SecondFile(c)
      BY <1>3, <3>1, <3>5
      DEF SecondFile, At, Goto, Return, Others, NoCall, Call, Inv, TypeInv, PairProgress, Writer
    <3>6. ~Read(c) /\ ~Skip(c)
      BY <3>1 DEF Read, Skip, At, Writer
    <3> QED
      BY <2>3, <3>3, <3>4, <3>5, <3>6 DEF Elementary
  <2> QED
    BY <2>1, <2>2, <2>3
<1> QED
  BY <1>2, <1>3

\* A call that ends, or is killed, leaves files that match.
LEMMA PairAtRest ==
    ASSUME Inv, PairInv, NEW c \in Commands, Elementary(c), kind \in Pairs,
           spoilt' \cap {"overlap", "Delete"} = {}, AtRest'
    PROVE  Matched'
<1> USE Kinds
<1>1. "overlap" \notin spoilt /\ spoilt \cap {"overlap", "Delete"} = {} /\ kind' = kind
      /\ \A d \in Commands : d # c => cmd'[d] = cmd[d]
  BY WriterStep DEF Inv
<1>2. ~Midway(c)' /\ \A d \in Commands : d # c => ~Midway(d)
  BY <1>1 DEF AtRest, Midway
<1>3. ~Midway(c) => Matched
  BY <1>1, <1>2 DEF AtRest, PairInv
<1>4. CASE Midway(c)
  <2>1. Writer(c) /\ PairProgress(c)
    BY <1>1, <1>4, MidwayWrites DEF Inv, PairInv
  <2>2. CASE Write(c)
    BY <1>2, <2>1, <2>2
    DEF Write, Put, At, Goto, Return, Others, NoCall, Call, Inv, TypeInv, Midway
  <2>3. CASE SecondFile(c)
    BY <1>2, <2>1, <2>3
    DEF SecondFile, At, Goto, Return, Others, NoCall, Call, Inv, TypeInv, PairProgress,
        Midway, Matched
  <2>4. CASE Kill(c)
    BY <1>4, <2>1, <2>4 DEF Kill, Midway, PairProgress, Matched, Inv, TypeInv
  <2>5. ~Begin(c) /\ ~Read(c) /\ ~Skip(c) /\ ~RemoveItem(c)
    BY <1>4 DEF Begin, Item, Read, Skip, RemoveItem, At, Midway, GetsRead, Inv
  <2> QED
    BY <2>2, <2>3, <2>4, <2>5 DEF Elementary
<1>5. CASE ~Midway(c)
  <2>1. UNCHANGED <<fst, snd>>
    <3>1. CASE Write(c)
      BY <1>2, <1>5, <3>1 DEF Write, Put, At, Goto, Midway, Inv, TypeInv
    <3>2. CASE RemoveItem(c)
      BY <1>2, <3>2 DEF RemoveItem, At, Goto, Midway, Inv, TypeInv
    <3>3. CASE SecondFile(c)
      BY <1>5, <3>3 DEF SecondFile, At, Midway
    <3>4. CASE Begin(c) \/ Skip(c) \/ Read(c) \/ Kill(c)
      BY <3>4 DEF Begin, Item, Skip, Read, Kill, Others
    <3> QED
      BY <3>1, <3>2, <3>3, <3>4 DEF Elementary
  <2> QED
    BY <1>3, <1>5, <2>1 DEF Matched
<1> QED
  BY <1>4, <1>5

\* Two commands that do not overlap, and a Create that is killed at any point,
\* never leave a certificate and a key that do not belong together.
THEOREM VfsPairsMatch == Spec => []PairsMatch
<1>1. Init => PairInv
  BY DEF Init, PairInv, Matched, Writer, NoCall, Call
<1>2. Inv /\ PairInv /\ [Next]_vars => PairInv'
  <2> SUFFICES ASSUME Inv, PairInv, [Next]_vars PROVE PairInv'
    OBVIOUS
  <2>1. CASE UNCHANGED vars
    BY <2>1 DEF vars, PairInv, AtRest, Midway, Matched, Writer, PairProgress
  <2>2. ASSUME NEW c \in Commands, Elementary(c) PROVE PairInv'
    BY <2>2, PairCalls, PairAtRest, WriterStep DEF PairInv, Inv
  <2> QED
    BY <2>1, <2>2, Steps DEF Next
<1>3. PairInv => PairsMatch
  BY DEF PairInv, PairsMatch, AtRest, Matched
<1> QED
  BY <1>1, <1>2, <1>3, VfsWhole, PTL DEF Spec

-----------------------------------------------------------------------------
(* Reads *)

Active(c) == cmd[c].pc # "idle"

\* Until something happens, the commands take turns, and a Get sees one object.
ReadInv ==
    spoilt = {} =>
        /\ misread = FALSE
        /\ \A c, d \in Commands : Active(c) /\ Active(d) => c = d
        /\ \A c \in Commands : cmd[c].pc \in {"read", "read2"} => fst # None
        /\ \A c \in Commands : cmd[c].pc = "read2" => kind \in Pairs /\ cmd[c].new = fst

\* A call that begins while another runs leaves a trace.
LEMMA BeginsFirst ==
    ASSUME TypeInv, NEW c \in Commands, Begin(c), spoilt' = {}
    PROVE  \A d \in Commands : ~Active(d)
<1> SUFFICES ASSUME NEW d \in Commands, Active(d) PROVE FALSE
  OBVIOUS
<1>1. PICK op \in Ops : cmd[c].pc = "idle" /\ spoilt' = spoilt \cup Overlap(c, op)
  BY DEF Begin, Item, Ops
<1>2. Overlap(c, op) # {}
  BY <1>1 DEF Overlap, Active
<1> QED
  BY <1>1, <1>2

\* Every step lets a Get that is alone read the object it has found.
LEMMA ReadStep ==
    ASSUME Inv, ReadInv, NEW c \in Commands, Elementary(c)
    PROVE  ReadInv'
<1> USE Kinds
<1> SUFFICES ASSUME spoilt' = {} PROVE ReadInv'
  BY DEF ReadInv
<1>1. spoilt = {} /\ kind' = kind /\ \A d \in Commands : d # c => cmd'[d] = cmd[d]
  BY WriterStep DEF Inv
<1>2. CASE Begin(c)
  <2>1. \A d \in Commands : d # c => cmd'[d].pc = "idle"
    BY <1>1, <1>2, BeginsFirst DEF Active, Inv
  <2>2. misread' = FALSE
    BY <1>1, <1>2 DEF Begin, Item, ReadInv
  <2>3. cmd'[c].pc # "read2" /\ (cmd'[c].pc = "read" => fst' # None)
    BY <1>2 DEF Begin, Item, Call, Inv, TypeInv
  <2> QED
    BY <2>1, <2>2, <2>3 DEF ReadInv, Active
<1>3. CASE ~Begin(c)
  <2>1. Active(c)
    BY <1>3 DEF Active, Elementary, Write, Puts, Put, RemoveItem, Skip, Read, SecondFile, Kill, At
  <2>2. \A d \in Commands : d # c => cmd'[d].pc = "idle"
    BY <1>1, <2>1 DEF ReadInv, Active
  <2>3. AtRest /\ Clean => fst \in Objects \cup {None} /\ (kind \in Pairs => snd = fst)
    BY DEF Inv, WholeInv
  <2>4. cmd[c].op = "Get" => AtRest /\ Clean
    BY <1>1, <2>1 DEF AtRest, Clean, Midway, ReadInv, Active, Inv, GetsRead
  <2>5. misread' = FALSE
    <3>1. CASE Read(c)
      <4>1. cmd[c].op = "Get" /\ fst \in Objects /\ fst # Cut
        BY <1>1, <2>3, <2>4, <3>1 DEF Read, At, ReadInv
      <4>2. cmd[c].pc = "read2" => cmd[c].new \in Values /\ cmd[c].new = snd
        BY <1>1, <2>3, <2>4, <4>1 DEF ReadInv
      <4>3. misread = FALSE
        BY <1>1 DEF ReadInv
      <4> QED
        BY <3>1, <4>1, <4>2, <4>3 DEF Read, At, Others
    <3>2. CASE ~Read(c)
      BY <1>1, <1>3, <3>2
      DEF Elementary, Write, Put, RemoveItem, Skip, SecondFile, Kill, Others, ReadInv
    <3> QED
      BY <3>1, <3>2
  <2>6. cmd'[c].pc # "read" /\ (cmd'[c].pc = "read2" => kind \in Pairs /\ cmd'[c].new = fst'
                                                        /\ fst' # None)
    <3>1. CASE Read(c)
      BY <1>1, <3>1 DEF Read, At, Return, Others, NoCall, Call, ReadInv, Inv, TypeInv
    <3>2. CASE Write(c) \/ RemoveItem(c) \/ Skip(c)
      BY <3>2 DEF Write, Put, RemoveItem, Skip, At, Goto, Return, NoCall, Call, Inv, TypeInv
    <3>3. CASE SecondFile(c) \/ Kill(c)
      BY <3>3 DEF SecondFile, Kill, At, Goto, Return, NoCall, Call, Inv, TypeInv
    <3> QED
      BY <1>3, <3>1, <3>2, <3>3 DEF Elementary
  <2> QED
    BY <1>1, <2>2, <2>5, <2>6 DEF ReadInv, Active
<1> QED
  BY <1>2, <1>3

\* A Get of the file store never hands out a truncated file, or a certificate
\* with another key, before calls have overlapped or one was killed half way.
THEOREM VfsReadsWhole == Spec => []ReadsWhole
<1>1. Init => ReadInv
  BY DEF Init, ReadInv, Active, NoCall, Call
<1>2. Inv /\ ReadInv /\ [Next]_vars => ReadInv'
  <2> SUFFICES ASSUME Inv, ReadInv, [Next]_vars PROVE ReadInv'
    OBVIOUS
  <2>1. CASE UNCHANGED vars
    BY <2>1 DEF vars, ReadInv, Active
  <2> QED
    BY <2>1, ReadStep, Steps DEF Next
<1>3. ReadInv => ReadsWhole
  BY DEF ReadInv, ReadsWhole
<1> QED
  BY <1>1, <1>2, <1>3, VfsWhole, PTL DEF Spec
=============================================================================
