-------------------------- MODULE XormStore_proofs --------------------------
(***************************************************************************)
(* The Postgres store keeps the owners of clusters apart, for any number   *)
(* of commands, owners and rows.                                           *)
(*                                                                         *)
(* The argument is about the rows that an UPDATE selects.  It gives all of *)
(* them the owner and the uuid of the row that was read, unless those are  *)
(* zero; the constraints of the table refuse that for two rows; so it goes *)
(* through only if the row that was read is the only one selected.         *)
(***************************************************************************)
EXTENDS XormStore, TLAPS

Rows  == [id : Nat, owner : Nat, uuid : Nat, made : Commands, by : Commands]
Beans == {"update", "status", "uuid", "part"}
Calls == [op : Beans \cup {"none", "insert"}, bean : Rows \cup {NoBean}]

TypeInv ==
    /\ clusters \subseteq Rows
    /\ parts \subseteq [id : Nat, cluster : Nat, by : Commands]
    /\ call \in [Commands -> Calls]
    /\ rows \in [clusters : Nat, parts : Nat]
    /\ kind \in Kinds

\* An id is given once, and a uuid is made from it.
Keys ==
    /\ \A r \in clusters : r.id <= rows.clusters /\ r.uuid \in {0, r.id}
    /\ \A r, q \in clusters : r.id = q.id => r = q
    /\ Unique(clusters)

\* A bean is a row as it was: the row is still there, with the same owner.
\* Commands of an owner have read a row of his, except for machines.
BeanInv(c) ==
    call[c].op \in Beans =>
        /\ call[c].bean \in Rows
        /\ call[c].bean.uuid \in {0, call[c].bean.id}
        /\ \E r \in clusters : r.id = call[c].bean.id /\ r.owner = call[c].bean.owner
        /\ call[c].op # "part" \/ kind # "machine" =>
               Owner[c] = 0 \/ call[c].bean.owner = Owner[c]

StoreInv == TypeInv /\ Keys /\ OwnersApart /\ \A c \in Commands : BeanInv(c)

-----------------------------------------------------------------------------
(* Owners *)

\* Owner ids are natural numbers.
LEMMA Owners == \A c \in Commands : Owner[c] \in Nat
  BY OwnerAssumption DEF Commands

\* What a step may do to the table: rows are added and rewritten, and keep
\* their id and their owner.
Kept ==
    /\ clusters' \subseteq Rows
    /\ \A r \in clusters : \E q \in clusters' : q.id = r.id /\ q.owner = r.owner

\* An UPDATE from a bean leaves every row with its owner.
LEMMA SetKeeps ==
    ASSUME StoreInv, NEW c \in Commands, Owner[c] \in Nat,
           NEW bean \in Rows, bean.uuid \in {0, bean.id},
           NEW old \in clusters, old.id = bean.id, old.owner = bean.owner,
           Owner[c] = 0 \/ bean.owner = Owner[c],
           NEW S \in SUBSET clusters, bean.owner = 0 => old \in S,
           NEW new, \A r \in S : /\ new[r] \in Rows /\ new[r].id = r.id
                                 /\ new[r].made = r.made /\ new[r].by \in {r.by, c},
           Set(S, bean, new), UNCHANGED rows
    PROVE  Keys' /\ OwnersApart' /\ Kept
<1> DEFINE owner(r) == IF bean.owner = 0 THEN r.owner ELSE bean.owner
           uuid(r)  == IF bean.uuid = 0 THEN r.uuid ELSE bean.uuid
           row(r)   == [new[r] EXCEPT !.owner = owner(r), !.uuid = uuid(r)]
           done     == (clusters \ S) \cup {row(r) : r \in S}
<1>1. ASSUME NEW r \in S
      PROVE  /\ row(r) \in Rows /\ row(r).id = r.id /\ row(r).made = r.made
             /\ row(r).by \in {r.by, c}
             /\ row(r).owner = owner(r) /\ row(r).uuid = uuid(r)
  <2>1. owner(r) \in Nat /\ uuid(r) \in Nat
    BY DEF StoreInv, TypeInv, Rows
  <2> HIDE DEF owner, uuid
  <2>2. PICK n \in Rows, o \in Nat, u \in Nat : n = new[r] /\ o = owner(r) /\ u = uuid(r)
    BY <2>1
  <2> DEFINE q == [n EXCEPT !.owner = o, !.uuid = u]
  <2>3. row(r) = q
    BY <2>2
  <2>4. /\ q \in Rows /\ q.id = n.id /\ q.made = n.made /\ q.by = n.by
        /\ q.owner = o /\ q.uuid = u
    BY DEF Rows
  <2> HIDE DEF row, q
  <2> QED
    BY <2>2, <2>3, <2>4
<1>2. clusters \subseteq Rows /\ S \subseteq clusters
      /\ \A r, q \in clusters : r.id = q.id => r = q
  BY DEF StoreInv, TypeInv, Keys
<1>3. clusters' = clusters \/ (clusters' = done /\ Unique(done))
  BY DEF Set
<1>4. CASE clusters' = clusters
  BY <1>2, <1>4 DEF StoreInv, Keys, OwnersApart, Kept, Unique
<1>5. CASE clusters' = done /\ Unique(done)
  <2> HIDE DEF row
  <2>1. ASSUME bean.owner # 0, NEW r \in S PROVE r = old
    <3>1. row(r).owner = bean.owner /\ row(r) \in done
      BY <1>1, <2>1
    <3>2. CASE old \in S
      <4>1. row(old).owner = bean.owner /\ row(old) \in done
        BY <1>1, <2>1, <3>2
      <4>2. row(r) = row(old)
        BY <1>5, <3>1, <4>1 DEF Unique
      <4> QED
        BY <1>1, <1>2, <3>2, <4>2
    <3>3. CASE old \notin S
      <4>1. old \in done /\ row(r) = old
        BY <1>5, <3>1, <3>3 DEF Unique
      <4> QED
        BY <1>1, <1>2, <4>1
    <3> QED
      BY <3>2, <3>3
  <2>2. ASSUME bean.uuid # 0, NEW r \in S PROVE r = old
    <3>1. CASE bean.owner # 0
      BY <2>1, <3>1
    <3>2. CASE bean.owner = 0
      <4>1. row(r) \in done /\ row(old) \in done /\ row(r).uuid = row(old).uuid
        BY <1>1, <2>2, <3>2
      <4>2. row(r) = row(old)
        BY <1>5, <4>1 DEF Unique
      <4> QED
        BY <1>1, <1>2, <3>2, <4>2
    <3> QED
      BY <3>1, <3>2
  <2>3. ASSUME NEW r \in S
        PROVE  row(r).owner = r.owner /\ row(r).uuid \in {0, r.id}
    BY <1>1, <2>1, <2>2, <2>3 DEF StoreInv, Keys
  <2>4. ASSUME NEW r \in S, row(r).by = c PROVE Owner[c] \in {r.owner, 0}
    BY <2>1, <2>4
  <2>5. Kept
    BY <1>1, <1>2, <1>5, <2>3 DEF Kept
  <2>6. Keys'
    <3>1. \A r \in done : r.id <= rows.clusters /\ r.uuid \in {0, r.id}
      BY <1>1, <1>2, <2>3 DEF StoreInv, Keys
    <3>2. \A r, q \in done : r.id = q.id => r = q
      BY <1>1, <1>2
    <3> QED
      BY <1>5, <3>1, <3>2 DEF Keys, Unique
  <2>7. OwnersApart'
    <3>1. ASSUME NEW r \in S
          PROVE  row(r).owner = Owner[row(r).made] /\ Owner[row(r).by] \in {row(r).owner, 0}
      BY <1>1, <1>2, <2>3, <2>4 DEF StoreInv, OwnersApart
    <3> QED
      BY <1>5, <3>1 DEF StoreInv, OwnersApart
  <2> QED
    BY <2>5, <2>6, <2>7
<1> QED
  BY <1>3, <1>4, <1>5

\* The beans of the other commands, and the command that ends its call.
LEMMA BeansKept ==
    ASSUME StoreInv, Kept, kind' = kind, NEW d \in Commands,
           call'[d] = call[d] \/ call'[d] = NoCall
    PROVE  BeanInv(d)'
  BY DEF StoreInv, BeanInv, Kept, NoCall, Beans

\* A command that ends its call.
LEMMA EndCall ==
    ASSUME StoreInv, NEW c \in Commands, call' = [call EXCEPT ![c] = NoCall]
    PROVE  /\ call' \in [Commands -> Calls]
           /\ \A d \in Commands : call'[d] = call[d] \/ call'[d] = NoCall
           /\ \A d \in Commands : call'[d].op # "none" => call'[d] = call[d]
  BY DEF StoreInv, TypeInv, Calls, NoCall

\* A command that has read a row, and is going to send a statement.
LEMMA Reads ==
    ASSUME StoreInv, NEW c \in Commands, NEW op \in Beans, NEW r \in clusters,
           Send(c, op, r), UNCHANGED <<clusters, rows, kind>>,
           op # "part" \/ kind # "machine" => Owner[c] = 0 \/ r.owner = Owner[c]
    PROVE  call' \in [Commands -> Calls] /\ \A d \in Commands : BeanInv(d)'
<1>1. r \in Rows /\ r.uuid \in {0, r.id}
  BY DEF StoreInv, TypeInv, Keys
<1>2. call' \in [Commands -> Calls]
  BY <1>1 DEF StoreInv, TypeInv, Calls, Send
<1>3. \A d \in Commands : d # c => call'[d] = call[d]
  BY DEF StoreInv, TypeInv, Send
<1>4. call'[c].op = op /\ call'[c].bean = r
  BY DEF StoreInv, TypeInv, Send
<1>5. Kept
  BY DEF Kept, StoreInv, TypeInv
<1>6. BeanInv(c)'
  BY <1>1, <1>4 DEF BeanInv
<1> QED
  BY <1>2, <1>3, <1>5, <1>6, BeansKept

\* Looking for a cluster by its name and the command's owner.
LEMMA FindStep ==
    ASSUME StoreInv, NEW c \in Commands, NEW op \in Beans, op # "part", Find(c, op)
    PROVE  StoreInv'
<1>1. PICK r \in clusters : (Owner[c] = 0 \/ r.owner = Owner[c]) /\ Send(c, op, r)
  BY DEF Find, Selected
<1>2. UNCHANGED <<clusters, parts, rows, kind>>
  BY DEF Find
<1>3. call' \in [Commands -> Calls] /\ \A d \in Commands : BeanInv(d)'
  BY <1>1, <1>2, Reads
<1> QED
  BY <1>2, <1>3 DEF StoreInv, TypeInv, Keys, OwnersApart, Unique

\* The second statement of a call that updates clusters.
LEMMA SetStep ==
    ASSUME StoreInv, NEW c \in Commands, NEW op \in Beans, op # "part", Ready(c, op),
           NEW bean \in Rows, bean.uuid \in {0, bean.id},
           bean.id = call[c].bean.id, bean.owner = call[c].bean.owner,
           NEW S \in SUBSET clusters,
           bean.owner = 0 => \A r \in clusters : r.id = bean.id => r \in S,
           NEW new, \A r \in S : /\ new[r] \in Rows /\ new[r].id = r.id
                                 /\ new[r].made = r.made /\ new[r].by \in {r.by, c},
           Set(S, bean, new), UNCHANGED <<parts, rows, kind>>
    PROVE  StoreInv' /\ Kept
<1>1. BeanInv(c) /\ call[c].op \in Beans /\ call[c].op = op
  BY DEF StoreInv, Ready
<1>2. PICK old \in clusters : old.id = bean.id /\ old.owner = bean.owner
  BY <1>1 DEF BeanInv
<1>3. Owner[c] = 0 \/ bean.owner = Owner[c]
  BY <1>1 DEF BeanInv
<1>4. Keys' /\ OwnersApart' /\ Kept
  BY <1>2, <1>3, Owners, SetKeeps
<1>5. /\ call' \in [Commands -> Calls]
      /\ \A d \in Commands : call'[d] = call[d] \/ call'[d] = NoCall
  BY EndCall DEF Ready
<1>6. \A d \in Commands : BeanInv(d)'
  BY <1>4, <1>5, BeansKept
<1> QED
  BY <1>4, <1>5, <1>6 DEF StoreInv, TypeInv, Kept

\* clusterXormStore.Create.
LEMMA CreateStep ==
    ASSUME StoreInv, NEW c \in Commands, clusterCreate(c)
    PROVE  StoreInv' /\ Kept
<1>1. CASE Send(c, "insert", NoBean) /\ UNCHANGED <<clusters, parts, rows, kind, overlap>>
  <2>1. call' \in [Commands -> Calls]
    BY <1>1 DEF StoreInv, TypeInv, Calls, Send
  <2>2. Kept
    BY <1>1 DEF Kept, StoreInv, TypeInv
  <2>3. \A d \in Commands : call'[d] = call[d] \/ call'[d].op = "insert"
    BY <1>1 DEF Send, StoreInv, TypeInv
  <2>4. \A d \in Commands : BeanInv(d)'
    BY <1>1, <2>3 DEF StoreInv, BeanInv, Beans
  <2> QED
    BY <1>1, <2>1, <2>2, <2>4 DEF StoreInv, TypeInv, Keys, OwnersApart, Unique
<1>2. CASE Ready(c, "insert") /\ UNCHANGED <<parts, kind, overlap>>
           /\ clusters' = clusters /\ rows' = rows
  <2>1. /\ call' \in [Commands -> Calls]
        /\ \A d \in Commands : call'[d] = call[d] \/ call'[d] = NoCall
    BY <1>2, EndCall DEF Ready
  <2>2. Kept
    BY <1>2 DEF Kept, StoreInv, TypeInv
  <2>3. \A d \in Commands : BeanInv(d)'
    BY <1>2, <2>1, <2>2, BeansKept
  <2> QED
    BY <1>2, <2>1, <2>2, <2>3 DEF StoreInv, TypeInv, Keys, OwnersApart, Unique
<1>3. CASE /\ Ready(c, "insert") /\ UNCHANGED <<parts, kind, overlap>>
           /\ clusters' = clusters \cup {Cluster(rows.clusters + 1, Owner[c], 0, c, c)}
           /\ Unique(clusters')
           /\ rows' = [rows EXCEPT !.clusters = @ + 1]
  <2> DEFINE row == Cluster(rows.clusters + 1, Owner[c], 0, c, c)
  <2>1. /\ call' \in [Commands -> Calls]
        /\ \A d \in Commands : call'[d] = call[d] \/ call'[d] = NoCall
    BY <1>3, EndCall DEF Ready
  <2>2. row \in Rows /\ row.id = rows.clusters + 1 /\ row.owner = Owner[c] /\ row.uuid = 0
        /\ row.made = c /\ row.by = c
    BY Owners DEF Cluster, Rows, StoreInv, TypeInv
  <2>3. rows' \in [clusters : Nat, parts : Nat] /\ rows'.clusters = rows.clusters + 1
    BY <1>3 DEF StoreInv, TypeInv
  <2>4. Kept
    BY <1>3, <2>2 DEF Kept, StoreInv, TypeInv
  <2>5. \A d \in Commands : BeanInv(d)'
    BY <1>3, <2>1, <2>4, BeansKept
  <2> HIDE DEF row
  <2>6. Keys'
    <3>1. \A r \in clusters : r.id \in Nat /\ r.id <= rows.clusters
      BY DEF StoreInv, Keys, TypeInv, Rows
    <3>2. clusters' = clusters \cup {row} /\ Unique(clusters')
      BY <1>3 DEF row
    <3>3. rows.clusters \in Nat
      BY DEF StoreInv, TypeInv
    <3>4. \A r \in clusters' : r.id <= rows'.clusters /\ r.uuid \in {0, r.id}
      BY <2>2, <2>3, <3>1, <3>2, <3>3 DEF StoreInv, Keys
    <3>5. \A r, q \in clusters' : r.id = q.id => r = q
      BY <2>2, <3>1, <3>2, <3>3 DEF StoreInv, Keys
    <3> QED
      BY <3>2, <3>4, <3>5 DEF Keys, Unique
  <2>7. OwnersApart'
    BY <1>3, <2>2 DEF StoreInv, OwnersApart, row
  <2> QED
    BY <1>3, <2>1, <2>2, <2>3, <2>4, <2>5, <2>6, <2>7 DEF StoreInv, TypeInv, row
<1> QED
  BY <1>1, <1>2, <1>3 DEF clusterCreate

\* clusterXormStore.Update.
LEMMA UpdateStep ==
    ASSUME StoreInv, NEW c \in Commands, clusterUpdate(c)
    PROVE  StoreInv' /\ Kept
<1>1. CASE Find(c, "update")
  BY <1>1, FindStep DEF Beans, Find, Kept, StoreInv, TypeInv
<1>2. CASE /\ Ready(c, "update") /\ Set(clusters, call[c].bean, WrittenBy(c, clusters))
           /\ UNCHANGED <<parts, rows, kind, overlap>>
  <2>1. call[c].bean \in Rows /\ call[c].bean.uuid \in {0, call[c].bean.id}
    BY <1>2 DEF StoreInv, BeanInv, Ready, Beans
  <2>2. \A r \in clusters : LET n == WrittenBy(c, clusters)[r]
                            IN  n \in Rows /\ n.id = r.id /\ n.made = r.made /\ n.by \in {r.by, c}
    BY DEF WrittenBy, StoreInv, TypeInv, Rows
  <2> QED
    BY <1>2, <2>1, <2>2, SetStep DEF Beans
<1> QED
  BY <1>1, <1>2 DEF clusterUpdate

\* clusterXormStore.UpdateStatus.
LEMMA StatusStep ==
    ASSUME StoreInv, NEW c \in Commands, clusterUpdateStatus(c)
    PROVE  StoreInv' /\ Kept
<1>1. CASE Find(c, "status")
  BY <1>1, FindStep DEF Beans, Find, Kept, StoreInv, TypeInv
<1> DEFINE own == {r \in clusters : r.owner = Owner[c]}
<1>2. CASE /\ Ready(c, "status") /\ Set(own, call[c].bean, WrittenBy(c, own))
           /\ UNCHANGED <<parts, rows, kind, overlap>>
  <2>1. /\ call[c].bean \in Rows /\ call[c].bean.uuid \in {0, call[c].bean.id}
        /\ \E r \in clusters : r.id = call[c].bean.id /\ r.owner = call[c].bean.owner
        /\ Owner[c] = 0 \/ call[c].bean.owner = Owner[c]
    BY <1>2 DEF StoreInv, BeanInv, Ready, Beans
  <2>2. \A r \in own : LET n == WrittenBy(c, own)[r]
                       IN  n \in Rows /\ n.id = r.id /\ n.made = r.made /\ n.by \in {r.by, c}
    BY DEF WrittenBy, StoreInv, TypeInv, Rows
  <2>3. call[c].bean.owner = 0 => \A r \in clusters : r.id = call[c].bean.id => r \in own
    BY <2>1 DEF StoreInv, Keys
  <2>4. own \in SUBSET clusters
    OBVIOUS
  <2> HIDE DEF own
  <2> QED
    BY <1>2, <2>1, <2>2, <2>3, <2>4, SetStep DEF Beans
<1> QED
  BY <1>1, <1>2 DEF clusterUpdateStatus

\* clusterXormStore.UpdateUUID.
LEMMA UuidStep ==
    ASSUME StoreInv, NEW c \in Commands, clusterUpdateUUID(c)
    PROVE  StoreInv' /\ Kept
<1>1. CASE Find(c, "uuid")
  BY <1>1, FindStep DEF Beans, Find, Kept, StoreInv, TypeInv
<1> DEFINE bean == [call[c].bean EXCEPT !.uuid = @ + IF @ = 0 THEN call[c].bean.id ELSE 0]
           same == [r \in clusters |-> r]
<1>2. CASE /\ Ready(c, "uuid") /\ Set(clusters, bean, same)
           /\ UNCHANGED <<parts, rows, kind, overlap>>
  <2>1. call[c].bean \in Rows /\ call[c].bean.uuid \in {0, call[c].bean.id}
    BY <1>2 DEF StoreInv, BeanInv, Ready, Beans
  <2>2. PICK b \in Rows : b = call[c].bean /\ b.uuid \in {0, b.id}
    BY <2>1
  <2>3. /\ bean \in Rows /\ bean.id = b.id /\ bean.owner = b.owner
        /\ bean.uuid \in {0, bean.id}
    BY <2>2 DEF Rows
  <2>4. \A r \in clusters : /\ same[r] \in Rows /\ same[r].id = r.id /\ same[r].made = r.made
                            /\ same[r].by \in {r.by, c}
    BY DEF StoreInv, TypeInv
  <2> HIDE DEF bean, same
  <2> QED
    BY <1>2, <2>2, <2>3, <2>4, SetStep DEF Beans
<1> QED
  BY <1>1, <1>2 DEF clusterUpdateUUID

-----------------------------------------------------------------------------
(* Parts *)

\* A part is looked for under a cluster of the command's owner, except for a
\* machine.
LEMMA LookForStep ==
    ASSUME StoreInv, NEW c \in Commands, NEW owner, NEW checked \in BOOLEAN,
           LookFor(c, owner, checked), kind # "machine" => owner = Owner[c]
    PROVE  StoreInv' /\ Kept
<1>1. PICK r \in clusters : (owner = 0 \/ r.owner = owner) /\ Send(c, "part", r)
  BY DEF LookFor, Selected
<1>2. UNCHANGED <<clusters, parts, rows, kind>>
  BY DEF LookFor
<1>3. call' \in [Commands -> Calls] /\ \A d \in Commands : BeanInv(d)'
  BY <1>1, <1>2, Reads DEF Beans
<1> QED
  BY <1>2, <1>3 DEF StoreInv, TypeInv, Keys, OwnersApart, Unique, Kept

\* A part is inserted with the id of the cluster that was read.
LEMMA InsertPartStep ==
    ASSUME StoreInv, NEW c \in Commands, InsertPart(c)
    PROVE  StoreInv' /\ Kept
<1>1. /\ call' \in [Commands -> Calls]
      /\ \A d \in Commands : call'[d] = call[d] \/ call'[d] = NoCall
  BY EndCall DEF InsertPart, Ready
<1>2. clusters' = clusters /\ kind' = kind /\ Kept
  BY DEF InsertPart, Kept, StoreInv, TypeInv
<1>3. \A d \in Commands : BeanInv(d)'
  BY <1>1, <1>2, BeansKept
<1>4. rows' \in [clusters : Nat, parts : Nat] /\ rows'.clusters = rows.clusters
  BY DEF InsertPart, StoreInv, TypeInv
<1>5. call[c].bean.id \in Nat
  BY DEF InsertPart, Ready, StoreInv, BeanInv, Beans, Rows
<1>6. parts' \subseteq [id : Nat, cluster : Nat, by : Commands]
  BY <1>5 DEF InsertPart, StoreInv, TypeInv, Part
<1> QED
  BY <1>1, <1>2, <1>3, <1>4, <1>6 DEF StoreInv, TypeInv, Keys, OwnersApart, Unique

\* Parts of a cluster are deleted or updated.
LEMMA RewriteStep ==
    ASSUME StoreInv, NEW c \in Commands, NEW k, NEW owner,
           Remove(c, k, owner) \/ Change(c, k, owner)
    PROVE  StoreInv' /\ Kept
<1>1. UNCHANGED <<clusters, call, rows, kind>>
  BY DEF Remove, Change
<1>2. ASSUME NEW r \in clusters, NEW p \in Under(r.id)
      PROVE  [p EXCEPT !.by = c] \in [id : Nat, cluster : Nat, by : Commands]
  BY <1>2 DEF Under, StoreInv, TypeInv
<1>3. parts' \subseteq [id : Nat, cluster : Nat, by : Commands]
  BY <1>2 DEF Remove, Change, Selected, StoreInv, TypeInv
<1> QED
  BY <1>1, <1>3 DEF StoreInv, TypeInv, Keys, OwnersApart, Unique, Kept, BeanInv

\* A step of the store leaves every cluster with its id and its owner.
LEMMA StoreStep ==
    ASSUME StoreInv, [Next]_vars
    PROVE  StoreInv' /\ Kept
<1>1. CASE UNCHANGED vars
  BY <1>1 DEF vars, StoreInv, TypeInv, Keys, OwnersApart, Unique, Kept, BeanInv
<1>2. ASSUME NEW c \in Commands, ClusterStore(c) PROVE StoreInv' /\ Kept
  BY <1>2, CreateStep, UpdateStep, StatusStep, UuidStep DEF ClusterStore
<1>3. ASSUME NEW c \in Commands, PartStore(c) PROVE StoreInv' /\ Kept
  <2>1. ASSUME NEW k, NEW owner, Create(c, k, owner), k # "machine" => owner = Owner[c]
        PROVE  StoreInv' /\ Kept
    BY <2>1, LookForStep, InsertPartStep DEF Create
  <2> QED
    BY <1>3, <2>1, RewriteStep
       DEF PartStore, certificateCreate, certificateDelete, sshCreate, sshDelete,
           machineCreate, machineUpdate, machineUpdateStatus, machineDelete
<1>4. ASSUME NEW c \in Commands, Kill(c) PROVE StoreInv' /\ Kept
  <2>1. UNCHANGED <<clusters, parts, rows, kind>> /\ Kept
    BY <1>4 DEF Kill, Kept, StoreInv, TypeInv
  <2>2. /\ call' \in [Commands -> Calls]
        /\ \A d \in Commands : call'[d] = call[d] \/ call'[d] = NoCall
    BY <1>4, EndCall DEF Kill
  <2>3. \A d \in Commands : BeanInv(d)'
    BY <2>1, <2>2, BeansKept
  <2> QED
    BY <2>1, <2>2, <2>3 DEF StoreInv, TypeInv, Keys, OwnersApart, Unique
<1> QED
  BY <1>1, <1>2, <1>3, <1>4 DEF Next

\* The empty database.
LEMMA StoreInit ==
    ASSUME Init
    PROVE  StoreInv
<1>1. TypeInv
  BY DEF Init, TypeInv, Calls, NoCall
<1>2. \A c \in Commands : call[c].op \notin Beans
  BY DEF Init, NoCall, Beans
<1> QED
  BY <1>1, <1>2 DEF Init, StoreInv, Keys, OwnersApart, Unique, BeanInv

\* A cluster stays with the owner that created it and holds what he or a
\* command without an owner wrote, although clusterXormStore.Update and
\* UpdateUUID select by the name alone.
THEOREM XormOwnersApart == Spec => []OwnersApart
<1>1. StoreInv => OwnersApart
  BY DEF StoreInv
<1>2. StoreInv /\ [Next]_vars => StoreInv'
  BY StoreStep
<1> QED
  BY <1>1, <1>2, StoreInit, PTL DEF Spec

-----------------------------------------------------------------------------
(* Where parts are *)

\* The cluster of a part is still there, and with the owner it had.
HomeInv ==
    \A p \in parts : \E r \in clusters :
        r.id = p.cluster /\ (kind # "machine" /\ Owner[p.by] # 0 => r.owner = Owner[p.by])

\* What a step may do to the table of parts: a part is inserted by its command,
\* or is there already; only machines change hands.
LEMMA PartsStep ==
    ASSUME StoreInv, [Next]_vars
    PROVE  /\ kind' = kind
           /\ \A p \in parts' :
                \/ \E q \in parts : q.cluster = p.cluster /\ (q.by = p.by \/ kind = "machine")
                \/ call[p.by].op = "part" /\ p.by \in Commands /\ p.cluster = call[p.by].bean.id
<1> DEFINE Goal == /\ kind' = kind
                   /\ \A p \in parts' :
                        \/ \E q \in parts : q.cluster = p.cluster /\ (q.by = p.by \/ kind = "machine")
                        \/ /\ call[p.by].op = "part" /\ p.by \in Commands
                           /\ p.cluster = call[p.by].bean.id
<1>1. ASSUME kind' = kind, parts' \subseteq parts PROVE Goal
  BY <1>1
<1> HIDE DEF Goal
<1>2. CASE UNCHANGED vars
  BY <1>1, <1>2 DEF vars
<1>3. ASSUME NEW c \in Commands, ClusterStore(c) \/ Kill(c) PROVE Goal
  BY <1>1, <1>3 DEF ClusterStore, clusterCreate, clusterUpdate, clusterUpdateStatus,
                    clusterUpdateUUID, Find, Kill
<1>4. ASSUME NEW c \in Commands, NEW k, NEW owner, Create(c, k, owner) PROVE Goal
  <2>1. CASE LookFor(c, owner, TRUE)
    BY <1>1, <2>1 DEF LookFor
  <2>2. CASE InsertPart(c)
    <3>1. kind' = kind /\ call[c].op = "part"
      BY <2>2 DEF InsertPart, Ready
    <3>2. parts' = parts \/ parts' = parts \cup {Part(rows.parts + 1, call[c].bean.id, c)}
      BY <2>2 DEF InsertPart
    <3>3. \A p \in parts' : p \in parts \/ (p.by = c /\ p.cluster = call[c].bean.id)
      BY <3>2 DEF Part
    <3> QED
      BY <3>1, <3>3 DEF Goal
  <2> QED
    BY <1>4, <2>1, <2>2 DEF Create
<1>5. ASSUME NEW c \in Commands, NEW k, NEW owner, Remove(c, k, owner) PROVE Goal
  BY <1>1, <1>5 DEF Remove
<1>6. ASSUME NEW c \in Commands, NEW owner, Change(c, "machine", owner) PROVE Goal
  <2>1. PICK r \in Selected(owner) :
          parts' = (parts \ Under(r.id)) \cup {[p EXCEPT !.by = c] : p \in Under(r.id)}
    BY <1>6 DEF Change
  <2>2. \A p \in Under(r.id) : p \in parts /\ [p EXCEPT !.by = c].cluster = p.cluster
    BY DEF Under, StoreInv, TypeInv
  <2>3. \A p \in parts' : \E q \in parts : q.cluster = p.cluster
    BY <2>1, <2>2
  <2> QED
    BY <1>6, <2>3 DEF Change, Goal
<1>7. ASSUME NEW c \in Commands, PartStore(c) PROVE Goal
  BY <1>4, <1>5, <1>6, <1>7
     DEF PartStore, certificateCreate, certificateDelete, sshCreate, sshDelete,
         machineCreate, machineUpdate, machineUpdateStatus, machineDelete
<1> USE DEF Goal
<1> QED
  BY <1>2, <1>3, <1>7 DEF Next

\* Parts stay under a cluster of their owner, because the cluster keeps its
\* owner between the two statements of a call and after them.
LEMMA HomeStep ==
    ASSUME StoreInv, HomeInv, [Next]_vars
    PROVE  HomeInv'
<1>1. StoreInv' /\ Kept /\ kind' = kind
  BY StoreStep, PartsStep
<1> SUFFICES ASSUME NEW p \in parts'
             PROVE  \E r \in clusters' :
                      r.id = p.cluster /\ (kind # "machine" /\ Owner[p.by] # 0 => r.owner = Owner[p.by])
  BY <1>1 DEF HomeInv
<1>2. \E r \in clusters :
        r.id = p.cluster /\ (kind # "machine" /\ Owner[p.by] # 0 => r.owner = Owner[p.by])
  <2>1. CASE \E q \in parts : q.cluster = p.cluster /\ (q.by = p.by \/ kind = "machine")
    BY <2>1 DEF HomeInv
  <2>2. CASE call[p.by].op = "part" /\ p.by \in Commands /\ p.cluster = call[p.by].bean.id
    BY <2>2 DEF StoreInv, BeanInv, Beans
  <2> QED
    BY <2>1, <2>2, PartsStep
<1> QED
  BY <1>1, <1>2 DEF Kept

\* Ids are given once, so that a cluster is known by its id.
LEMMA HomeOwner ==
    ASSUME StoreInv, HomeInv
    PROVE  PartsAtHome
<1>1. ASSUME NEW r \in clusters PROVE OwnerOf(r.id) = r.owner
  <2>1. \A q \in clusters : q.id = r.id => q = r
    BY DEF StoreInv, Keys
  <2>2. (CHOOSE q \in clusters : q.id = r.id) = r
    BY <2>1
  <2> QED
    BY <2>2 DEF OwnerOf
<1> QED
  BY <1>1 DEF PartsAtHome, HomeInv

\* Certificates and SSH keys are stored under a cluster of their owner, however
\* the two statements of the calls of other commands come between.
THEOREM XormPartsAtHome == Spec => []PartsAtHome
<1>1. Init => StoreInv /\ HomeInv
  BY StoreInit DEF Init, HomeInv
<1>2. StoreInv /\ HomeInv /\ [Next]_vars => StoreInv' /\ HomeInv'
  BY StoreStep, HomeStep
<1> QED
  BY <1>1, <1>2, HomeOwner, PTL DEF Spec

-----------------------------------------------------------------------------
(* Duplicates *)

\* The commands that are about to insert a part do so for different clusters,
\* which have none.
DupInv ==
    ~overlap =>
        /\ \A p, q \in parts : p.cluster = q.cluster => p = q
        /\ \A c \in Commands : call[c].op = "part" => \A p \in parts : p.cluster # call[c].bean.id
        /\ \A c, d \in Commands :
             call[c].op = "part" /\ call[d].op = "part" /\ call[c].bean.id = call[d].bean.id => c = d

\* Fewer commands at work and fewer parts.
LEMMA DupFewer ==
    ASSUME DupInv, overlap' = overlap, parts' \subseteq parts,
           \A d \in Commands : call'[d].op = "part" => call'[d] = call[d]
    PROVE  DupInv'
  BY DEF DupInv

\* A command looks for a part: there is none, or two commands overlap.
LEMMA DupLook ==
    ASSUME StoreInv, DupInv, NEW c \in Commands, NEW owner, LookFor(c, owner, TRUE)
    PROVE  DupInv'
<1>1. PICK r \in clusters :
        Under(r.id) = {} /\ Send(c, "part", r) /\ overlap' = (overlap \/ Inserting(r.id) # {})
  BY DEF LookFor, Selected
<1>2. parts' = parts /\ \A p \in parts : p.cluster # r.id
  BY <1>1 DEF LookFor, Under
<1>3. call'[c].bean.id = r.id /\ \A d \in Commands : d # c => call'[d] = call[d]
  BY <1>1 DEF Send, StoreInv, TypeInv
<1>4. ~overlap' => ~overlap /\ \A d \in Commands : call[d].op = "part" => call[d].bean.id # r.id
  BY <1>1 DEF Inserting
<1> QED
  BY <1>2, <1>3, <1>4 DEF DupInv

\* A command inserts the part that it looked for.
LEMMA DupInsert ==
    ASSUME StoreInv, DupInv, NEW c \in Commands, InsertPart(c)
    PROVE  DupInv'
<1>1. call[c].op = "part" /\ overlap' = overlap
  BY DEF InsertPart, Ready
<1>2. \A d \in Commands : call'[d].op = "part" => d # c /\ call'[d] = call[d]
  BY DEF InsertPart, Ready, NoCall, StoreInv, TypeInv
<1>3. CASE parts' = parts
  BY <1>1, <1>2, <1>3, DupFewer
<1>4. CASE parts' = parts \cup {Part(rows.parts + 1, call[c].bean.id, c)}
  <2> DEFINE part == Part(rows.parts + 1, call[c].bean.id, c)
  <2>1. part.cluster = call[c].bean.id /\ parts' = parts \cup {part}
    BY <1>4 DEF Part
  <2> HIDE DEF part
  <2> QED
    BY <1>1, <1>2, <2>1 DEF DupInv
<1> QED
  BY <1>3, <1>4 DEF InsertPart

\* A command updates the machines of a cluster.
LEMMA DupChange ==
    ASSUME StoreInv, DupInv, NEW c \in Commands, NEW k, NEW owner, Change(c, k, owner)
    PROVE  DupInv'
<1>1. PICK r \in Selected(owner) :
        parts' = (parts \ Under(r.id)) \cup {[p EXCEPT !.by = c] : p \in Under(r.id)}
  BY DEF Change
<1>2. call' = call /\ overlap' = overlap
  BY DEF Change
<1> DEFINE new(p) == [p EXCEPT !.by = c]
<1>3. \A p \in Under(r.id) : p \in parts /\ p.cluster = r.id /\ new(p).cluster = r.id
  BY DEF Under, StoreInv, TypeInv
<1>4. \A p \in parts \ Under(r.id) : p.cluster # r.id
  BY DEF Under
<1>5. parts' = (parts \ Under(r.id)) \cup {new(p) : p \in Under(r.id)}
  BY <1>1
<1> HIDE DEF new
<1>6. ASSUME ~overlap PROVE \A p, q \in parts' : p.cluster = q.cluster => p = q
  BY <1>3, <1>4, <1>5, <1>6 DEF DupInv
<1>7. ASSUME ~overlap, NEW d \in Commands, call[d].op = "part"
      PROVE  \A p \in parts' : p.cluster # call[d].bean.id
  BY <1>3, <1>5, <1>7 DEF DupInv
<1> QED
  BY <1>2, <1>6, <1>7 DEF DupInv

\* Every step.
LEMMA DupStep ==
    ASSUME StoreInv, DupInv, [Next]_vars
    PROVE  DupInv'
<1>1. CASE UNCHANGED vars
  BY <1>1, DupFewer DEF vars
<1>2. ASSUME NEW c \in Commands, ClusterStore(c) \/ Kill(c) PROVE DupInv'
  <2>1. overlap' = overlap /\ parts' = parts
    BY <1>2 DEF ClusterStore, clusterCreate, clusterUpdate, clusterUpdateStatus,
                clusterUpdateUUID, Find, Kill
  <2>2. \/ \E op \in {"insert", "update", "status", "uuid"} : \E bean : Send(c, op, bean)
        \/ call' = [call EXCEPT ![c] = NoCall]
    BY <1>2 DEF ClusterStore, clusterCreate, clusterUpdate, clusterUpdateStatus,
                clusterUpdateUUID, Find, Kill, Ready
  <2>3. \A d \in Commands : call'[d].op = "part" => call'[d] = call[d]
    BY <2>2 DEF Send, NoCall, StoreInv, TypeInv
  <2> QED
    BY <2>1, <2>3, DupFewer
<1>3. ASSUME NEW c \in Commands, NEW k, NEW owner, Create(c, k, owner) PROVE DupInv'
  BY <1>3, DupLook, DupInsert DEF Create
<1>4. ASSUME NEW c \in Commands, NEW k, NEW owner, Remove(c, k, owner) PROVE DupInv'
  BY <1>4, DupFewer DEF Remove
<1> QED
  BY <1>1, <1>2, <1>3, <1>4, DupChange
     DEF Next, PartStore, certificateCreate, certificateDelete, sshCreate, sshDelete,
         machineCreate, machineUpdate, machineUpdateStatus, machineDelete

\* A cluster has one certificate of a name, one key and one machine, unless two
\* commands looked for it before either had inserted it.
THEOREM XormNoDuplicates == Spec => []NoDuplicates
<1>1. Init => StoreInv /\ DupInv
  <2>1. ASSUME Init PROVE DupInv
    BY <2>1 DEF Init, DupInv, NoCall
  <2> QED
    BY <2>1, StoreInit
<1>2. StoreInv /\ DupInv /\ [Next]_vars => StoreInv' /\ DupInv'
  BY StoreStep, DupStep
<1>3. DupInv => NoDuplicates
  BY DEF DupInv, NoDuplicates
<1> QED
  BY <1>1, <1>2, <1>3, PTL DEF Spec
=============================================================================
