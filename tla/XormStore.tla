----------------------------- MODULE XormStore ------------------------------
(***************************************************************************)
(* The Postgres store, shared by the owners of clusters.  A call is two    *)
(* statements without a transaction: a SELECT that fills a bean, and an    *)
(* INSERT or an UPDATE made from the bean.                                 *)
(*                                                                         *)
(* Xorm turns the fields of a bean that are not zero into conditions (Get, *)
(* Delete) and into new column values (Update).  So an owner 0, which is   *)
(* what commands outside the API server have, is no condition at all, and  *)
(* an UPDATE sets the owner and the uuid of every row it selects to those  *)
(* of the row that was read.                                               *)
(*                                                                         *)
(* All clusters here have one and the same name; those with other names    *)
(* are never selected.                                                     *)
(***************************************************************************)
EXTENDS Naturals, FiniteSets

CONSTANTS
    Owner,    \* owner id of every command
    MaxRows   \* bound: rows that are inserted into each table

ASSUME OwnerAssumption == \A c \in DOMAIN Owner : Owner[c] \in Nat
ASSUME MaxRowsAssumption == MaxRows \in Nat

VARIABLES
    clusters,  \* ac_cluster: id, owner, uuid (0: empty), who made it, whose data
    parts,     \* certificates, SSH keys and machines: id, cluster, whose
    call,      \* statement that a command is to send, and the bean it has read
    rows,      \* rows inserted so far, by table
    kind,      \* the kind of part that the commands work on
    overlap    \* history: a part was looked for while another command was about to insert it

vars == <<clusters, parts, call, rows, kind, overlap>>

Commands == DOMAIN Owner
Kinds    == {"certificate", "ssh", "machine"}

NoBean == [id |-> 0]
NoCall == [op |-> "none", bean |-> NoBean]

Cluster(id, owner, uuid, made, by) ==
    [id |-> id, owner |-> owner, uuid |-> uuid, made |-> made, by |-> by]

Part(id, cluster, by) == [id |-> id, cluster |-> cluster, by |-> by]

\* External: SELECT ... WHERE name = ? [AND owner_id = ?] LIMIT 1: any such row.
Selected(owner) == {r \in clusters : owner = 0 \/ r.owner = owner}

\* External: UNIQUE (owner_id, name) and UNIQUE (uuid); an empty uuid is a value.
Unique(S) == \A r, q \in S : r # q => r.owner # q.owner /\ r.uuid # q.uuid

Send(c, op, bean) == call[c] = NoCall /\ call' = [call EXCEPT ![c] = [op |-> op, bean |-> bean]]
Ready(c, op)      == call[c].op = op /\ call' = [call EXCEPT ![c] = NoCall]

-----------------------------------------------------------------------------
(* Clusters.  No command deletes one from the store. *)

clusterCreate(c) ==
    \/ /\ Selected(Owner[c]) = {} /\ rows.clusters < MaxRows
       /\ Send(c, "insert", NoBean) /\ UNCHANGED <<clusters, parts, rows, kind, overlap>>
    \/ /\ Ready(c, "insert")
       /\ LET made == clusters \cup {Cluster(rows.clusters + 1, Owner[c], 0, c, c)}
          IN  clusters' = IF rows.clusters < MaxRows /\ Unique(made) THEN made ELSE clusters
       /\ rows' = IF clusters' = clusters THEN rows ELSE [rows EXCEPT !.clusters = @ + 1]
       /\ UNCHANGED <<parts, kind, overlap>>

\* Get of the bean: the row as it is now.
Find(c, op) ==
    /\ \E r \in Selected(Owner[c]) : Send(c, op, r)
    /\ UNCHANGED <<clusters, parts, rows, kind, overlap>>

\* External: UPDATE of the rows S, refused as a whole if a constraint is broken.
Set(S, bean, new) ==
    LET owner(r) == IF bean.owner = 0 THEN r.owner ELSE bean.owner
        uuid(r)  == IF bean.uuid = 0 THEN r.uuid ELSE bean.uuid
        done     == (clusters \ S) \cup {[new[r] EXCEPT !.owner = owner(r), !.uuid = uuid(r)] : r \in S}
    IN  clusters' = IF Cardinality(done) = Cardinality(clusters) /\ Unique(done) THEN done ELSE clusters

WrittenBy(c, S) == [r \in S |-> [r EXCEPT !.by = c]]

\* Mutant: only the new data is set.
clusterUpdateData(c) ==
    \/ Find(c, "update")
    \/ /\ Ready(c, "update")
       /\ clusters' = {[r EXCEPT !.by = c] : r \in clusters}
       /\ UNCHANGED <<parts, rows, kind, overlap>>

\* Selects by the name alone.
clusterUpdate(c) ==
    \/ Find(c, "update")
    \/ /\ Ready(c, "update")
       /\ Set(clusters, call[c].bean, WrittenBy(c, clusters))
       /\ UNCHANGED <<parts, rows, kind, overlap>>

\* Selects by name and owner id, 0 included: then nothing may be selected, and
\* the call still succeeds.
clusterUpdateStatus(c) ==
    \/ Find(c, "status")
    \/ /\ Ready(c, "status")
       /\ LET own == {r \in clusters : r.owner = Owner[c]}
          IN  Set(own, call[c].bean, WrittenBy(c, own))
       /\ UNCHANGED <<parts, rows, kind, overlap>>

\* The uuid of the running cluster, different for each.
clusterUpdateUUID(c) ==
    \/ Find(c, "uuid")
    \/ /\ Ready(c, "uuid")
       /\ Set(clusters, [call[c].bean EXCEPT !.uuid = @ + IF @ = 0 THEN call[c].bean.id ELSE 0],
              [r \in clusters |-> r])
       /\ UNCHANGED <<parts, rows, kind, overlap>>

ClusterStore(c) ==
    clusterCreate(c) \/ clusterUpdate(c) \/ clusterUpdateStatus(c) \/ clusterUpdateUUID(c)

-----------------------------------------------------------------------------
(* Certificates, SSH keys and machines belong to a cluster id *)

Under(id) == {p \in parts : p.cluster = id}

Inserting(id) ==
    {c \in Commands : call[c].op = "part" /\ call[c].bean.id = id}

\* Looks for the cluster, and for a row of the name, which must not be there.
LookFor(c, owner, checked) ==
    /\ \E r \in Selected(owner) :
         /\ checked => Under(r.id) = {}
         /\ Send(c, "part", r)
         /\ overlap' = (overlap \/ Inserting(r.id) # {})
    /\ UNCHANGED <<clusters, parts, rows, kind>>

\* The table has no constraint.
InsertPart(c) ==
    /\ Ready(c, "part")
    /\ IF rows.parts < MaxRows
       THEN /\ parts' = parts \cup {Part(rows.parts + 1, call[c].bean.id, c)}
            /\ rows' = [rows EXCEPT !.parts = @ + 1]
       ELSE UNCHANGED <<parts, rows>>
    /\ UNCHANGED <<clusters, kind, overlap>>

Create(c, k, owner) ==
    kind = k /\ (LookFor(c, owner, TRUE) \/ InsertPart(c))

\* DELETE of all rows of the name.
Remove(c, k, owner) ==
    /\ kind = k
    /\ call[c] = NoCall
    /\ \E r \in Selected(owner) : parts' = parts \ Under(r.id)
    /\ UNCHANGED <<clusters, call, rows, kind, overlap>>

\* UPDATE of all rows of the name.
Change(c, k, owner) ==
    /\ kind = k
    /\ call[c] = NoCall
    /\ \E r \in Selected(owner) :
         parts' = (parts \ Under(r.id)) \cup {[p EXCEPT !.by = c] : p \in Under(r.id)}
    /\ UNCHANGED <<clusters, call, rows, kind, overlap>>

certificateCreate(c) == Create(c, "certificate", Owner[c])
certificateDelete(c) == Remove(c, "certificate", Owner[c])

\* Mutant: the store is made without the owner.
sshCreateAnywhere(c) == Create(c, "ssh", 0)

\* Mutant: the key is inserted whatever is there.
sshCreateAgain(c) ==
    kind = "ssh" /\ (LookFor(c, Owner[c], FALSE) \/ InsertPart(c))

sshCreate(c) == Create(c, "ssh", Owner[c])
sshDelete(c) == Remove(c, "ssh", Owner[c])

\* The machine store is made without an owner: any cluster of the name will do.
machineCreate(c)       == Create(c, "machine", 0)
machineUpdate(c)       == Change(c, "machine", 0)
machineUpdateStatus(c) == Change(c, "machine", 0)
machineDelete(c)       == Remove(c, "machine", 0)

PartStore(c) ==
    \/ certificateCreate(c) \/ certificateDelete(c) \/ sshCreate(c) \/ sshDelete(c)
    \/ machineCreate(c) \/ machineUpdate(c) \/ machineUpdateStatus(c) \/ machineDelete(c)

-----------------------------------------------------------------------------

Init ==
    /\ clusters = {} /\ parts = {} /\ kind \in Kinds /\ overlap = FALSE
    /\ call = [c \in Commands |-> NoCall]
    /\ rows = [clusters |-> 0, parts |-> 0]

\* The command ends between the two statements.
Kill(c) ==
    /\ call[c] # NoCall /\ call' = [call EXCEPT ![c] = NoCall]
    /\ UNCHANGED <<clusters, parts, rows, kind, overlap>>

Next == \E c \in Commands : ClusterStore(c) \/ PartStore(c) \/ Kill(c)

Spec == Init /\ [][Next]_vars

-----------------------------------------------------------------------------
(* Properties *)

OwnerOf(id) == (CHOOSE r \in clusters : r.id = id).owner

\* A cluster stays with the owner that created it, and holds what he or a
\* command without an owner has written: although clusterXormStore.Update and
\* UpdateUUID select by the name alone, they do not reach the cluster of another
\* owner, because they would give both rows the same owner.
OwnersApart ==
    \A r \in clusters : r.owner = Owner[r.made] /\ Owner[r.by] \in {r.owner, 0}

\* Certificates and SSH keys are stored under a cluster of their owner.
PartsAtHome ==
    \A p \in parts :
        kind # "machine" /\ Owner[p.by] # 0 => OwnerOf(p.cluster) = Owner[p.by]

\* A cluster has one certificate of a name, one key and one machine, unless two
\* commands looked for it before either had inserted it.
NoDuplicates ==
    ~overlap => \A p, q \in parts : p.cluster = q.cluster => p = q
=============================================================================
