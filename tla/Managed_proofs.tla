--------------------------- MODULE Managed_proofs ---------------------------
(***************************************************************************)
(* Safety of the managed providers, for any bounds on failures, lost       *)
(* errors and ids.  Apart from DigitalOcean, a provider has at most one    *)
(* resource of a kind, so that a cloud is known by the kinds that exist    *)
(* and by the marks on each.  The invariants say, in these terms, what a   *)
(* command has established when it is at a step.                           *)
(***************************************************************************)
EXTENDS Managed, FiniteSetTheorems, NaturalsInduction, WellFoundedInduction, TLAPS

Phases    == {"Pending", "Ready", "Deleting", "Deleted"}
AllKinds  == {"role", "vpc", "nodes", "key", "plane", "network", "cluster", "pool",
              "rg", "aks", "tag", "doks"}
AllMarks  == {"done", "failed", "deleting", "auth", "nopool"}
Resources == [kind : AllKinds, id : Nat, in : Nat, has : SUBSET AllMarks]
Clusters(ids) == [phase : Phases, del : BOOLEAN, endp : BOOLEAN, ids : SUBSET ids]

\* In a cloud c: some resource of kind k, one with the mark m, one of each kind.
There(c, k)  == \E r \in c : r.kind = k
Has(c, k, m) == \E r \in c : r.kind = k /\ m \in r.has
Unique(c)    == \A r, q \in c : r.kind = q.kind => r = q
Sound(c)     == Unique(c) /\ c \subseteq Resources
Within(c, kinds) == \A r \in c : r.kind \in kinds

\* The command's copy of the cluster, and what is stored, agree on what the
\* command is for, and a deletion that was requested stays so.
StoreTypes(ids) ==
    /\ db \in Clusters(ids) /\ mem \in Clusters(ids)
    /\ ng \in {"wanted", "marked", "none"} /\ pki \subseteq {"ca", "cloud", "admin"}
    /\ torn \in BOOLEAN /\ sets \in BOOLEAN
    /\ aborts \in Nat /\ lost \in Nat
    /\ db.del <=> db.phase \in {"Deleting", "Deleted"}
    /\ torn => db.del
    /\ pc # "idle" => mem.phase = db.phase /\ mem.del = db.del

-----------------------------------------------------------------------------
(* EKS *)

EksPrepare == {"image", "role", "roleMake", "roleWait", "roleGet", "key", "keyMake",
               "vpc", "vpcMake", "vpcWait", "vpcGet", "plane", "planeMake", "planeWait",
               "save", "client", "ready"}
EksScale   == {"scale", "ng", "ngFound", "ngMake", "ngWait", "ngAuth", "ngDelete",
               "ngForget", "ngStatus", "scaled"}
EksVpc     == {"dvpc", "dvpcFound", "dkey", "dend"}
EksRole    == {"drole", "droleFound"} \cup EksVpc
EksDelete  == {"dsets", "dstatus", "dplane", "dplaneFound"} \cup EksRole

EksSteps ==
    /\ pc \in {"idle", "connect", "end"} \cup EksPrepare \cup EksScale \cup EksDelete
    /\ pc = "connect" => db.phase \in {"Pending", "Deleting"}
    /\ pc \in EksPrepare => db.phase = "Pending"
    /\ pc \in EksScale => db.phase \in {"Ready", "Deleting"}
    /\ pc \in EksDelete => db.phase = "Deleting"
    /\ pc = "end" => db.phase = "Ready"

\* What has gone so far, unless an error was logged.
EksGone ==
    lost = 0 =>
        /\ torn \/ pc \in EksRole => (There(cloud, "plane") => Has(cloud, "plane", "deleting"))
        /\ torn \/ pc \in EksVpc => (There(cloud, "role") => Has(cloud, "role", "deleting"))
        /\ torn \/ pc = "dend" => ~There(cloud, "key")

\* What a cluster that is not being deleted has.
EksAlive ==
    /\ db.phase \in {"Pending", "Ready"} =>
         ng # "none" /\ ~Has(cloud, "plane", "deleting") /\ ~Has(cloud, "nodes", "deleting")
    /\ db.phase = "Pending" => ~There(cloud, "nodes")
    /\ There(cloud, "plane") => MaxTwins > 0
    /\ db.phase = "Ready" =>
         /\ Has(cloud, "plane", "done") /\ db.ids # {} /\ (pc # "idle" => mem.ids # {})
         /\ pc \notin {"ngFound", "ngDelete", "ngForget"}
         /\ pc \in {"scale", "ng", "ngMake"} => ~There(cloud, "nodes")
    /\ pc \in {"client", "ready"} => mem.ids # {} /\ db.ids # {}

\* The node group on its way, before anything has failed.
EksNodes ==
    aborts = 0 /\ lost = 0 =>
        /\ ~Has(cloud, "nodes", "failed")
        /\ db.phase = "Ready" =>
             /\ pc = "ngWait" => There(cloud, "nodes")
             /\ pc = "ngAuth" => Has(cloud, "nodes", "done")
             /\ pc \in {"ngStatus", "scaled", "end", "idle"} =>
                  Has(cloud, "nodes", "done") /\ Has(cloud, "plane", "auth")

EksInv ==
    /\ StoreTypes({"vpc"}) /\ Sound(cloud)
    /\ Within(cloud, {"role", "vpc", "nodes", "key", "plane"})
    /\ EksSteps /\ EksGone /\ EksAlive /\ EksNodes

-----------------------------------------------------------------------------
(* GKE *)

GkePrepare == {"net", "netMake", "get", "make", "wait", "created", "caDelete", "caPut",
               "adminPut", "endpoint", "client", "ready"}
GkeGroup   == {"ng", "ngFound", "ngMake", "ngWait", "ngAdjust", "ngDelete", "ngForget",
               "ngStatus"}
GkeScale   == {"scale", "scaled", "end"} \cup GkeGroup
GkeDelete  == {"dsets", "dstatus", "dcluster", "dwait"}

GkeSteps ==
    /\ pc \in {"idle", "connect"} \cup GkePrepare \cup GkeScale \cup GkeDelete
    /\ pc = "connect" => db.phase \in {"Pending", "Deleting"}
    /\ pc \in GkePrepare => db.phase = "Pending"
    /\ pc \in GkeScale => db.phase = "Ready"
    /\ pc \in GkeDelete => db.phase = "Deleting"

\* Pools go with their cluster.
GkeGone ==
    /\ There(cloud, "pool") => There(cloud, "cluster")
    /\ lost = 0 => /\ torn => ~There(cloud, "cluster")
                   /\ pc = "dwait" => (There(cloud, "cluster") => Has(cloud, "cluster", "deleting"))

GkeAlive ==
    /\ db.phase \in {"Pending", "Ready"} => ~Has(cloud, "cluster", "deleting")
    /\ pc \in {"get", "make"} => There(cloud, "network")
    /\ There(cloud, "cluster") => There(cloud, "network")
    /\ There(cloud, "network") => MaxTwins > 0
    /\ db.phase = "Ready" => Has(cloud, "cluster", "done") /\ {"cloud", "admin"} \subseteq pki
    /\ pc \in GkeScale \cup {"ready"} => mem.endp

\* The pool that is wanted, before anything has failed.
GkePool ==
    /\ pc \in GkeGroup => ng # "none"
    /\ pc \in {"ngDelete", "ngForget"} => ng = "marked"
    /\ pc \in {"ngFound", "ngWait", "ngAdjust", "ngStatus"} => There(cloud, "pool")
    /\ aborts = 0 /\ lost = 0 /\ db.phase = "Ready" =>
         /\ pc = "ngMake" => ~There(cloud, "pool")
         /\ pc \in {"end", "idle"} => db.endp
         /\ pc \in {"scaled", "end", "idle"} => (ng = "wanted" => There(cloud, "pool"))

GkeInv ==
    /\ StoreTypes({}) /\ Sound(cloud)
    /\ Within(cloud, {"network", "cluster", "pool"})
    /\ GkeSteps /\ GkeGone /\ GkeAlive /\ GkePool

-----------------------------------------------------------------------------
(* AKS *)

AksPrepare == {"rg", "rgMake", "upsert", "wait", "client", "ready"}
AksDelete  == {"dsets", "dstatus", "daks", "drg", "dend"}

AksSteps ==
    /\ pc \in {"idle", "connect", "scale"} \cup AksPrepare \cup AksDelete
    /\ pc = "connect" => db.phase \in {"Pending", "Deleting"}
    /\ pc \in AksPrepare => db.phase = "Pending"
    /\ pc = "scale" => db.phase = "Ready"
    /\ pc \in AksDelete => db.phase = "Deleting"

AksInv ==
    /\ StoreTypes({}) /\ Sound(cloud)
    /\ Within(cloud, {"rg", "aks"})
    /\ AksSteps
    /\ torn \/ pc = "dend" =>
         (There(cloud, "rg") \/ There(cloud, "aks") => Has(cloud, "rg", "deleting"))
    /\ db.phase \in {"Pending", "Ready"} =>
         ~Has(cloud, "rg", "deleting") /\ ~Has(cloud, "aks", "deleting")
    /\ db.phase = "Ready" => Has(cloud, "aks", "done")

-----------------------------------------------------------------------------
(* DigitalOcean Kubernetes *)

DokubeMade    == {"wait", "get", "kubeconfig", "caDelete", "caPut", "adminPut"}
DokubePrepare == {"known", "make", "save", "client", "ready"} \cup DokubeMade
DokubeScale   == {"scale", "ng", "ngAdjust", "ngDelete", "ngForget", "ngStatus", "scaled", "end"}
DokubeDelete  == {"dsets", "dstatus", "ddoks", "dend"}

DokubeSteps ==
    /\ pc \in {"idle", "connect", "untag", "connected"} \cup DokubePrepare
               \cup DokubeScale \cup DokubeDelete
    /\ pc \in {"connect", "untag", "connected"} => db.phase \in {"Pending", "Deleting"}
    /\ pc \in DokubePrepare => db.phase = "Pending"
    /\ pc \in DokubeScale => db.phase = "Ready"
    /\ pc \in DokubeDelete => db.phase = "Deleting"

\* In a cloud c: a cluster with the id i, one with the mark m, and how many.
\* No two clusters have the same id.
Doks(c, i)       == \E r \in c : r.kind = "doks" /\ r.id = i
DoksHas(c, i, m) == \E r \in c : r.kind = "doks" /\ r.id = i /\ m \in r.has
DoksIds(c)       == {i \in 1..MaxTwins : Doks(c, i)}
DoksCount(c)     == Cardinality(DoksIds(c))
DoksSound(c)     ==
    /\ c \subseteq Resources
    /\ \A r \in c : r.kind \in {"tag", "doks"} /\ r.id \in 1..MaxTwins
    /\ \A r, q \in c : r.kind = "doks" /\ q.kind = "doks" /\ r.id = q.id => r = q

\* The command knows the cluster it has made, or the one that is stored.
DokubeKnown ==
    /\ pc \in {"make"} \cup DokubeMade => db.ids = {}
    /\ pc \in {"make", "wait", "get"} => mem.ids = {}
    /\ pc \in {"kubeconfig", "caDelete", "caPut", "adminPut", "save"} => mem.ids # {}
    /\ pc \in {"wait", "get"} => Doks(cloud, cur)
    /\ pc = "get" => DoksHas(cloud, cur, "done") \/ DoksHas(cloud, cur, "failed")
    /\ pc \in {"connect", "untag", "connected", "known", "client", "ready"}
               \cup DokubeScale \cup DokubeDelete => mem.ids = db.ids /\ mem.endp = db.endp

\* Every cluster that is not stored was paid for with a failure.
DokubePaid ==
    /\ db.ids = {} /\ "admin" \notin pki /\ pc \notin DokubeMade => DoksCount(cloud) <= aborts
    /\ "admin" \notin pki /\ pc \in DokubeMade => DoksCount(cloud) <= 1 + aborts
    /\ "admin" \notin pki /\ pc \in {"wait", "get"} /\ DoksHas(cloud, cur, "failed") =>
         DoksCount(cloud) <= aborts
    /\ "admin" \notin pki /\ pc = "kubeconfig" /\ ~mem.endp => DoksCount(cloud) <= aborts
    /\ pc = "save" \/ db.ids # {} => DoksCount(cloud) <= 1 + aborts

DokubeGone ==
    torn \/ pc = "dend" =>
        \A i \in db.ids : Doks(cloud, i) => DoksHas(cloud, i, "deleting")

DokubeAlive ==
    /\ db.phase \in {"Pending", "Ready"} => \A i : ~DoksHas(cloud, i, "deleting")
    /\ \A i : DoksHas(cloud, i, "done") => ~DoksHas(cloud, i, "failed")
    /\ pc = "ready" => mem.endp
    /\ db.phase = "Ready" =>
         /\ db.endp /\ {"cloud", "admin"} \subseteq pki
         /\ \E i \in db.ids : DoksHas(cloud, i, "done")

DokubeInv ==
    /\ StoreTypes(1..MaxTwins) /\ DoksSound(cloud)
    /\ DokubeSteps /\ DokubeKnown /\ DokubePaid /\ DokubeGone /\ DokubeAlive

ManagedInv ==
    /\ provider \in {"eks", "gke", "aks", "dokube"}
    /\ provider = "eks" => EksInv
    /\ provider = "gke" => GkeInv
    /\ provider = "aks" => AksInv
    /\ provider = "dokube" => DokubeInv
-----------------------------------------------------------------------------
(* What the calls do to a cloud, in terms of kinds and marks *)

\* A set of numbers has a least one.
LEMMA Least ==
    ASSUME NEW S, S \subseteq Nat, S # {}
    PROVE  \E i \in S : \A j \in S : i <= j
<1>1. \E i \in S : \A j \in S : ~(<<j, i>> \in OpToRel(<, Nat))
  BY WFMin, NatLessThanWellFounded
<1>2. \A i, j \in Nat : <<j, i>> \in OpToRel(<, Nat) <=> j < i
  BY DEF OpToRel
<1>3. PICK i \in S : \A j \in S : ~(<<j, i>> \in OpToRel(<, Nat))
  BY <1>1
<1>4. ASSUME NEW j \in S PROVE i <= j
  <2>1. i \in Nat /\ j \in Nat /\ ~(j < i)
    BY <1>2, <1>3
  <2> QED
    BY <2>1
<1> QED
  BY <1>4

\* The resources of a kind, and what a call may do to them.
Of(c, k) == {r \in c : r.kind = k}

Making(c, kind, id)    == c \cup {[kind |-> kind, id |-> id, in |-> 0, has |-> {}]}
Replacing(c, kind, id) == (c \ Of(c, kind)) \cup {[kind |-> kind, id |-> id, in |-> 0, has |-> {}]}
Marking(c, kind, mark) ==
    (c \ Of(c, kind)) \cup {[r EXCEPT !.has = @ \cup {mark}] : r \in Of(c, kind)}
Unmarking(c, kind, mark) ==
    (c \ Of(c, kind)) \cup {[r EXCEPT !.has = @ \ {mark}] : r \in Of(c, kind)}
Dropping(c, gone) == c \ {r \in c : r.kind \in gone}

\* The same, as seen by look-ups.
Makes(c, d, kind) ==
    /\ \A k : There(d, k) <=> There(c, k) \/ k = kind
    /\ \A k, m : Has(d, k, m) <=> Has(c, k, m)
    /\ \A kinds : Within(c, kinds) /\ kind \in kinds => Within(d, kinds)
    /\ Sound(d)

Replaces(c, d, kind) ==
    /\ \A k : There(d, k) <=> There(c, k) \/ k = kind
    /\ \A k, m : Has(d, k, m) <=> Has(c, k, m) /\ k # kind
    /\ \A kinds : Within(c, kinds) /\ kind \in kinds => Within(d, kinds)
    /\ Sound(d)

Marks(c, d, kind, mark) ==
    /\ \A k : There(d, k) <=> There(c, k)
    /\ \A k, m : Has(d, k, m) <=> Has(c, k, m) \/ (k = kind /\ m = mark /\ There(c, k))
    /\ \A kinds : Within(c, kinds) => Within(d, kinds)
    /\ Sound(d)

Unmarks(c, d, kind, mark) ==
    /\ \A k : There(d, k) <=> There(c, k)
    /\ \A k, m : Has(d, k, m) <=> Has(c, k, m) /\ ~(k = kind /\ m = mark)
    /\ \A kinds : Within(c, kinds) => Within(d, kinds)
    /\ Sound(d)

Drops(c, d, gone) ==
    /\ \A k : There(d, k) <=> There(c, k) /\ k \notin gone
    /\ \A k, m : Has(d, k, m) <=> Has(c, k, m) /\ k \notin gone
    /\ \A kinds : Within(c, kinds) => Within(d, kinds)
    /\ Sound(d)

\* A resource is made where there was none of its kind.
LEMMA CloudMake ==
    ASSUME NEW c, Sound(c), NEW kind \in AllKinds, NEW id \in Nat,
           ~There(c, kind)
    PROVE  Makes(c, Making(c, kind, id), kind)
<1> DEFINE n == [kind |-> kind, id |-> id, in |-> 0, has |-> {}]
           d == Making(c, kind, id)
<1>1. n \in Resources /\ n.kind = kind /\ n.has = {}
  BY DEF Sound, Resources
<1>2. d = c \cup {n}
  BY DEF Making
<1> HIDE DEF n, d
<1>3. Unique(d)
  BY <1>1, <1>2 DEF Sound, Unique, There, Of
<1>4. /\ \A k : There(d, k) <=> There(c, k) \/ k = kind
      /\ \A k, m : Has(d, k, m) <=> Has(c, k, m)
      /\ \A kinds : Within(c, kinds) /\ kind \in kinds => Within(d, kinds)
      /\ d \subseteq Resources
  BY <1>1, <1>2 DEF Sound, There, Has, Within, Of
<1> QED
  BY <1>3, <1>4 DEF Makes, Sound, d

\* The resources of a kind are replaced by one.
LEMMA CloudReplace ==
    ASSUME NEW c, Sound(c), NEW kind \in AllKinds, NEW id \in Nat
    PROVE  Replaces(c, Replacing(c, kind, id), kind)
<1> DEFINE n == [kind |-> kind, id |-> id, in |-> 0, has |-> {}]
           d == Replacing(c, kind, id)
<1>1. n \in Resources /\ n.kind = kind /\ n.has = {}
  BY DEF Sound, Resources
<1>2. d = (c \ Of(c, kind)) \cup {n}
  BY DEF Replacing
<1> HIDE DEF n, d
<1>3. Unique(d)
  BY <1>1, <1>2 DEF Sound, Unique, There, Of
<1>4. /\ \A k : There(d, k) <=> There(c, k) \/ k = kind
      /\ \A k, m : Has(d, k, m) <=> Has(c, k, m) /\ k # kind
      /\ \A kinds : Within(c, kinds) /\ kind \in kinds => Within(d, kinds)
      /\ d \subseteq Resources
  BY <1>1, <1>2 DEF Sound, There, Has, Within, Of
<1> QED
  BY <1>3, <1>4 DEF Replaces, Sound, d

\* The resources of a kind are marked.
LEMMA CloudMark ==
    ASSUME NEW c, Sound(c), NEW kind, NEW mark \in AllMarks
    PROVE  Marks(c, Marking(c, kind, mark), kind, mark)
<1> DEFINE f(r) == [r EXCEPT !.has = @ \cup {mark}]
           d == Marking(c, kind, mark)
<1>1. \A r \in c : f(r) \in Resources /\ f(r).kind = r.kind /\ f(r).has = r.has \cup {mark}
  BY DEF Sound, Resources
<1>2. d = (c \ Of(c, kind)) \cup {f(r) : r \in Of(c, kind)}
  BY DEF Marking
<1> HIDE DEF f, d
<1>3. \A r \in d : \/ r \in c /\ r.kind # kind
                   \/ \E q \in c : q.kind = kind /\ r = f(q)
  BY <1>2 DEF Of
<1>4. \A q \in c : IF q.kind = kind THEN f(q) \in d ELSE q \in d
  BY <1>2 DEF Of
<1>5. \A k : There(d, k) <=> There(c, k)
  BY <1>1, <1>3, <1>4 DEF There
<1>6. \A k, m : Has(d, k, m) <=> Has(c, k, m) \/ (k = kind /\ m = mark /\ There(c, k))
  BY <1>1, <1>3, <1>4 DEF Has, There
<1>7. Unique(d) /\ d \subseteq Resources
  BY <1>1, <1>3 DEF Sound, Unique
<1>8. \A kinds : Within(c, kinds) => Within(d, kinds)
  BY <1>1, <1>3 DEF Within
<1> QED
  BY <1>5, <1>6, <1>7, <1>8 DEF Marks, Sound, d

\* A mark is taken off the resources of a kind.
LEMMA CloudUnmark ==
    ASSUME NEW c, Sound(c), NEW kind, NEW mark \in AllMarks
    PROVE  Unmarks(c, Unmarking(c, kind, mark), kind, mark)
<1> DEFINE f(r) == [r EXCEPT !.has = @ \ {mark}]
           d == Unmarking(c, kind, mark)
<1>1. \A r \in c : f(r) \in Resources /\ f(r).kind = r.kind /\ f(r).has = r.has \ {mark}
  BY DEF Sound, Resources
<1>2. d = (c \ Of(c, kind)) \cup {f(r) : r \in Of(c, kind)}
  BY DEF Unmarking
<1> HIDE DEF f, d
<1>3. \A r \in d : \/ r \in c /\ r.kind # kind
                   \/ \E q \in c : q.kind = kind /\ r = f(q)
  BY <1>2 DEF Of
<1>4. \A q \in c : IF q.kind = kind THEN f(q) \in d ELSE q \in d
  BY <1>2 DEF Of
<1>5. \A k : There(d, k) <=> There(c, k)
  BY <1>1, <1>3, <1>4 DEF There
<1>6. \A k, m : Has(d, k, m) <=> Has(c, k, m) /\ ~(k = kind /\ m = mark)
  BY <1>1, <1>3, <1>4 DEF Has, There
<1>7. Unique(d) /\ d \subseteq Resources
  BY <1>1, <1>3 DEF Sound, Unique
<1>8. \A kinds : Within(c, kinds) => Within(d, kinds)
  BY <1>1, <1>3 DEF Within
<1> QED
  BY <1>5, <1>6, <1>7, <1>8 DEF Unmarks, Sound, d

\* The resources of some kinds are gone.
LEMMA CloudDrop ==
    ASSUME NEW c, Sound(c), NEW gone
    PROVE  Drops(c, Dropping(c, gone), gone)
BY DEF Sound, Drops, Dropping, There, Has, Unique, Within

-----------------------------------------------------------------------------
(* EKS *)

\* The command's copy when it has returned.
LEMMA EksNew == \A ids : Eks!NewCluster \in Clusters(ids)
<1>1. \A ids : {} \in SUBSET ids /\ FALSE \in BOOLEAN /\ "Pending" \in Phases
  BY DEF Phases
<1> QED
  BY <1>1 DEF Eks!NewCluster, Eks!Cluster, Clusters

\* What the command sees of the cloud.
LEMMA EksReads ==
    \A k : /\ Eks!Only(k) = {} <=> ~There(cloud, k)
           /\ Eks!Up(k) = {} <=> ~Has(cloud, k, "done")
           /\ Eks!Going(k) = {} <=> ~Has(cloud, k, "deleting")
BY DEF Eks!Only, Eks!Up, Eks!Going, Eks!With, Eks!All, There, Has

\* A creating call finds an id, or fails.
LEMMA EksFresh ==
    ASSUME NEW k, Eks!FreshIds(k) # {}
    PROVE  Eks!FreshId(k) \in Eks!FreshIds(k) /\ Eks!FreshId(k) \in 1..MaxTwins
<1>0. Eks!FreshIds(k) \subseteq Nat
  BY ProviderBounds DEF Eks!FreshIds
<1>1. \E i \in Eks!FreshIds(k) : \A j \in Eks!FreshIds(k) : i <= j
  BY <1>0, Least
<1>2. Eks!FreshId(k) \in Eks!FreshIds(k)
  BY <1>1 DEF Eks!FreshId
<1> QED
  BY <1>2 DEF Eks!FreshIds

\* A creating call has succeeded.
LEMMA EksMade ==
    ASSUME Sound(cloud), NEW k \in AllKinds, ~There(cloud, k), Eks!FreshIds(k) # {},
           cloud' = cloud \cup {Eks!Resource(k, Eks!FreshId(k), 0, {})}
    PROVE  Makes(cloud, cloud', k) /\ MaxTwins > 0
<1>1. Eks!FreshId(k) \in 1..MaxTwins
  BY EksFresh
<1>2. Eks!FreshId(k) \in Nat /\ MaxTwins > 0
  BY <1>1, ProviderBounds
<1>3. cloud' = Making(cloud, k, Eks!FreshId(k))
  BY DEF Making, Eks!Resource
<1> QED
  BY <1>2, <1>3, CloudMake

\* The cloud completes a resource, or fails to.
LEMMA EksProvision ==
    ASSUME Sound(cloud), NEW kinds, Eks!Provision(kinds)
    PROVE  \E k \in kinds, m \in {"done", "failed"} :
               /\ Marks(cloud, cloud', k, m)
               /\ m = "failed" => aborts' = aborts + 1
<1>1. PICK r \in cloud, m \in {"done", "failed"} :
          /\ r.kind \in kinds /\ cloud' = Eks!Marked({r}, {m})
          /\ m = "failed" => aborts' = aborts + 1
  BY DEF Eks!Provision, Eks!All
<1>2. {r} = Of(cloud, r.kind)
  BY DEF Sound, Unique, Of
<1>3. cloud' = Marking(cloud, r.kind, m)
  BY <1>1, <1>2 DEF Eks!Marked, Marking
<1> QED
  BY <1>1, <1>3, CloudMark DEF AllMarks

\* What the cloud was asked to delete is gone.
LEMMA EksWithdraw ==
    ASSUME Sound(cloud), NEW k, Eks!Withdraw(Eks!Going(k))
    PROVE  Drops(cloud, cloud', {k}) /\ Has(cloud, k, "deleting")
<1>1. Eks!Going(k) # {} /\ cloud' = cloud \ Eks!Going(k)
  BY DEF Eks!Withdraw
<1>2. Eks!Going(k) = {r \in cloud : r.kind \in {k}}
  BY <1>1 DEF Eks!Going, Eks!With, Eks!Only, Eks!All, Sound, Unique
<1>3. cloud' = Dropping(cloud, {k})
  BY <1>1, <1>2 DEF Dropping
<1> QED
  BY <1>1, <1>3, CloudDrop, EksReads

\* Every step keeps the invariant.
LEMMA EksStep ==
    ASSUME EksInv, Eks!Next
    PROVE  EksInv'
<1> USE EksReads, EksNew
    DEF EksInv, StoreTypes, EksSteps, EksPrepare, EksScale, EksVpc, EksRole, EksDelete, EksGone,
        EksAlive, EksNodes, Phases,
        Eks!Check, Eks!Decide, Eks!Continue, Eks!Return, Eks!store, Eks!vars
<1>0. Sound(cloud)
  OBVIOUS
<1>1. CASE Eks!runApplyCmd
  BY <1>1 DEF Eks!runApplyCmd, Eks!Apply
<1>2. CASE Eks!deleteCluster
  <2>1. StoreTypes({"vpc"})'
    BY <1>2 DEF Clusters, Eks!deleteCluster, Eks!DeleteCluster
  <2>2. EksSteps'
    BY <1>2 DEF Clusters, Eks!deleteCluster, Eks!DeleteCluster
  <2>3. Sound(cloud)' /\ Within(cloud, {"role", "vpc", "nodes", "key", "plane"})'
    BY <1>2 DEF Clusters, Eks!deleteCluster, Eks!DeleteCluster
  <2>4. EksGone'
    BY <1>2 DEF Clusters, Eks!deleteCluster, Eks!DeleteCluster
  <2>5. EksAlive'
    BY <1>2 DEF Clusters, Eks!deleteCluster, Eks!DeleteCluster
  <2>6. EksNodes'
    BY <1>2 DEF Clusters, Eks!deleteCluster, Eks!DeleteCluster
  <2> QED
    BY <2>1, <2>2, <2>3, <2>4, <2>5, <2>6
<1>3. CASE Eks!DeleteMachineSet
  BY <1>3 DEF Eks!DeleteMachineSet
<1>4. CASE Eks!Kill
  BY <1>4 DEF Eks!Kill, Eks!Abort
<1>5. CASE Eks!newconnector
  BY <1>5 DEF Eks!newconnector, Eks!Connect
<1>6. CASE Eks!DetectInstanceImage
  BY <1>6 DEF Eks!DetectInstanceImage
<1>7. CASE Eks!isStackExists("role", "role", "roleGet", "roleMake")
  BY <1>7 DEF Eks!isStackExists, Eks!Find
<1>8. CASE Eks!createStack("role", TRUE, "roleMake", "roleWait")
  <2>1. CASE cloud' = cloud
    BY <1>8, <2>1 DEF Eks!createStack, Eks!Make
  <2>2. CASE cloud' # cloud
    <3>1. Makes(cloud, cloud', "role") /\ MaxTwins > 0
      BY <1>0, <1>8, <2>2, EksMade DEF AllKinds, Eks!createStack, Eks!Make
    <3> QED
      BY <1>8, <2>2, <3>1 DEF Makes, Eks!createStack, Eks!Make
  <2> QED
    BY <2>1, <2>2
<1>9. CASE Eks!WaitForStackOperation("role", "roleWait", "roleGet")
  BY <1>9 DEF Eks!WaitForStackOperation, Eks!WaitFor
<1>10. CASE Eks!getOutput("role", "roleGet", "key")
  BY <1>10 DEF Eks!getOutput
<1>11. CASE Eks!isStackExists("vpc", "vpc", "vpcGet", "vpcMake")
  BY <1>11 DEF Eks!isStackExists, Eks!Find
<1>12. CASE Eks!createStack("vpc", TRUE, "vpcMake", "vpcWait")
  <2>1. CASE cloud' = cloud
    BY <1>12, <2>1 DEF Eks!createStack, Eks!Make
  <2>2. CASE cloud' # cloud
    <3>1. Makes(cloud, cloud', "vpc") /\ MaxTwins > 0
      BY <1>0, <1>12, <2>2, EksMade DEF AllKinds, Eks!createStack, Eks!Make
    <3> QED
      BY <1>12, <2>2, <3>1 DEF Makes, Eks!createStack, Eks!Make
  <2> QED
    BY <2>1, <2>2
<1>13. CASE Eks!WaitForStackOperation("vpc", "vpcWait", "vpcGet")
  BY <1>13 DEF Eks!WaitForStackOperation, Eks!WaitFor
<1>14. CASE Eks!getOutput("vpc", "vpcGet", "plane")
  BY <1>14 DEF Eks!getOutput
<1>15. CASE Eks!getPublicKey
  BY <1>15 DEF Eks!getPublicKey, Eks!Find
<1>16. CASE Eks!importPublicKey
  <2>1. CASE cloud' = cloud
    BY <1>16, <2>1 DEF Eks!importPublicKey, Eks!Make
  <2>2. CASE cloud' # cloud
    <3>1. Makes(cloud, cloud', "key") /\ MaxTwins > 0
      BY <1>0, <1>16, <2>2, EksMade DEF AllKinds, Eks!importPublicKey, Eks!Make
    <3> QED
      BY <1>16, <2>2, <3>1 DEF Makes, Eks!importPublicKey, Eks!Make
  <2> QED
    BY <2>1, <2>2
<1>17. CASE Eks!isControlPlaneExists("plane", "save", "planeMake")
  BY <1>17 DEF Eks!isControlPlaneExists, Eks!Find
<1>18. CASE Eks!createControlPlane
  <2>1. CASE cloud' = cloud
    BY <1>18, <2>1 DEF Eks!createControlPlane, Eks!Make
  <2>2. CASE cloud' # cloud
    <3>1. Makes(cloud, cloud', "plane") /\ MaxTwins > 0
      BY <1>0, <1>18, <2>2, EksMade DEF AllKinds, Eks!createControlPlane, Eks!Make
    <3> QED
      BY <1>18, <2>2, <3>1 DEF Makes, Eks!createControlPlane, Eks!Make
  <2> QED
    BY <2>1, <2>2
<1>19. CASE Eks!WaitForControlPlaneOperation
  BY <1>19 DEF Eks!WaitForControlPlaneOperation, Eks!WaitFor
<1>20. CASE Eks!PrepareCloud
  BY <1>20 DEF Clusters, Eks!PrepareCloud, Eks!Save
<1>21. CASE Eks!GetEKSAdminClient
  BY <1>21 DEF Eks!GetEKSAdminClient
<1>22. CASE Eks!ApplyCreate("ready", Eks!Up("plane") # {}, "scale")
  BY <1>22 DEF Clusters, Eks!ApplyCreate
<1>23. CASE Eks!ApplyScale
  <2>1. CASE Eks!Scale("scale", Eks!Up("plane") # {}, IF ng # "none" THEN "ng" ELSE "scaled")
    BY <2>1 DEF Eks!Scale, Eks!Deleting
  <2>2. CASE Eks!Update("scaled", IF Eks!Deleting THEN "dplane" ELSE "end")
    <3>1. StoreTypes({"vpc"})'
      BY <2>2 DEF Clusters, Eks!Update, Eks!Save, Eks!Deleting
    <3>2. EksSteps'
      BY <2>2 DEF Clusters, Eks!Update, Eks!Save, Eks!Deleting
    <3>3. Sound(cloud)' /\ Within(cloud, {"role", "vpc", "nodes", "key", "plane"})'
      BY <2>2 DEF Clusters, Eks!Update, Eks!Save, Eks!Deleting
    <3>4. EksGone'
      BY <2>2 DEF Clusters, Eks!Update, Eks!Save, Eks!Deleting
    <3>5. EksAlive'
      BY <2>2 DEF Clusters, Eks!Update, Eks!Save, Eks!Deleting
    <3>6. EksNodes'
      BY <2>2 DEF Clusters, Eks!Update, Eks!Save, Eks!Deleting
    <3> QED
      BY <3>1, <3>2, <3>3, <3>4, <3>5, <3>6
  <2>3. CASE Eks!Done("end")
    BY <2>3 DEF Eks!Done
  <2> QED
    BY <1>23, <2>1, <2>2, <2>3 DEF Eks!ApplyScale
<1>24. CASE Eks!scaleFails
  BY <1>24 DEF Eks!scaleFails, Eks!ScaleSteps, Eks!Deleting
<1>25. CASE Eks!nodeGroupExists
  BY <1>25 DEF Eks!nodeGroupExists, Eks!isStackExists, Eks!Find
<1>26. CASE Eks!createNodeGroup
  <2>1. CASE Eks!Scale("ngMake", FALSE, "ngWait") /\ (There(cloud, "nodes") \/ mem.ids = {})
    BY <2>1 DEF Eks!Scale, Eks!Deleting
  <2>2. CASE Eks!createStack("nodes", TRUE, "ngMake", "ngWait")
             /\ ~There(cloud, "nodes") /\ cloud' = cloud
    <3>1. MaxTwins > 0 => Eks!FreshIds("nodes") # {}
      <4>1. \A r \in Eks!Only("nodes") : FALSE
        BY <2>2
      <4>2. MaxTwins > 0 => 1 \in Eks!FreshIds("nodes")
        BY <4>1, ProviderBounds DEF Eks!FreshIds
      <4> QED
        BY <4>2
    <3>2. Eks!FreshIds("nodes") = {}
      <4>1. cloud \cup {Eks!Resource("nodes", Eks!FreshId("nodes"), 0, {})} # cloud
        BY <2>2 DEF There, Eks!Resource
      <4> QED
        BY <2>2, <4>1 DEF Eks!createStack, Eks!Make
    <3>3. db.phase # "Ready"
      BY <3>1, <3>2 DEF Has, There
    <3>4. StoreTypes({"vpc"})'
      BY <2>2, <3>2, <3>3 DEF Eks!createStack, Eks!Make
    <3>5. EksSteps'
      BY <2>2, <3>2, <3>3 DEF Eks!createStack, Eks!Make
    <3>6. Sound(cloud)' /\ Within(cloud, {"role", "vpc", "nodes", "key", "plane"})'
      BY <2>2, <3>2, <3>3 DEF Eks!createStack, Eks!Make
    <3>7. EksGone'
      BY <2>2, <3>2, <3>3 DEF Eks!createStack, Eks!Make
    <3>8. EksAlive'
      BY <2>2, <3>2, <3>3 DEF Eks!createStack, Eks!Make
    <3>9. EksNodes'
      BY <2>2, <3>2, <3>3 DEF Eks!createStack, Eks!Make
    <3> QED
      BY <3>4, <3>5, <3>6, <3>7, <3>8, <3>9
  <2>3. CASE Eks!createStack("nodes", TRUE, "ngMake", "ngWait")
             /\ ~There(cloud, "nodes") /\ cloud' # cloud
    <3>1. Makes(cloud, cloud', "nodes")
      BY <1>0, <2>3, EksMade DEF AllKinds, Eks!createStack, Eks!Make
    <3>2. StoreTypes({"vpc"})'
      BY <2>3, <3>1 DEF Makes, Eks!createStack, Eks!Make
    <3>3. EksSteps'
      BY <2>3, <3>1 DEF Makes, Eks!createStack, Eks!Make
    <3>4. Sound(cloud)' /\ Within(cloud, {"role", "vpc", "nodes", "key", "plane"})'
      BY <2>3, <3>1 DEF Makes, Eks!createStack, Eks!Make
    <3>5. EksGone'
      BY <2>3, <3>1 DEF Makes, Eks!createStack, Eks!Make
    <3>6. EksAlive'
      BY <2>3, <3>1 DEF Makes, Eks!createStack, Eks!Make
    <3>7. EksNodes'
      BY <2>3, <3>1 DEF Makes, Eks!createStack, Eks!Make
    <3> QED
      BY <3>2, <3>3, <3>4, <3>5, <3>6, <3>7
  <2> QED
    BY <1>26, <2>1, <2>2, <2>3 DEF Eks!createNodeGroup
<1>27. CASE Eks!WaitForNodeGroup
  <2>1. There(cloud, "nodes") =>
           Has(cloud, "nodes", "done") \/ Has(cloud, "nodes", "failed") \/ Has(cloud, "nodes", "deleting")
    BY <1>27 DEF Eks!WaitForNodeGroup, Eks!Only, Eks!All, There, Has
  <2>2. StoreTypes({"vpc"})'
    BY <1>27, <2>1 DEF Eks!WaitForNodeGroup, Eks!Scale, Eks!Deleting
  <2>3. EksSteps'
    BY <1>27, <2>1 DEF Eks!WaitForNodeGroup, Eks!Scale, Eks!Deleting
  <2>4. Sound(cloud)' /\ Within(cloud, {"role", "vpc", "nodes", "key", "plane"})'
    BY <1>27, <2>1 DEF Eks!WaitForNodeGroup, Eks!Scale, Eks!Deleting
  <2>5. EksGone'
    BY <1>27, <2>1 DEF Eks!WaitForNodeGroup, Eks!Scale, Eks!Deleting
  <2>6. EksAlive'
    BY <1>27, <2>1 DEF Eks!WaitForNodeGroup, Eks!Scale, Eks!Deleting
  <2>7. EksNodes'
    BY <1>27, <2>1 DEF Eks!WaitForNodeGroup, Eks!Scale, Eks!Deleting
  <2> QED
    BY <2>2, <2>3, <2>4, <2>5, <2>6, <2>7
<1>28. CASE Eks!newNodeAuthConfigMap
  <2>1. CASE ~Has(cloud, "plane", "done")
    BY <1>28, <2>1 DEF Eks!newNodeAuthConfigMap, Eks!Scale, Eks!Deleting
  <2>2. CASE Has(cloud, "plane", "done")
    <3>1. There(cloud, "plane")
      BY <2>2 DEF There, Has
    <3>2. cloud' = Marking(cloud, "plane", "auth")
      BY <1>28, <2>2 DEF Eks!newNodeAuthConfigMap, Eks!Mark, Eks!Marked, Eks!Only, Eks!All, Of,
         Marking
    <3>3. Marks(cloud, cloud', "plane", "auth")
      BY <1>0, <3>2, CloudMark DEF AllMarks
    <3>4. StoreTypes({"vpc"})'
      BY <1>28, <2>2, <3>1, <3>3 DEF Marks, Eks!newNodeAuthConfigMap, Eks!Mark
    <3>5. EksSteps'
      BY <1>28, <2>2, <3>1, <3>3 DEF Marks, Eks!newNodeAuthConfigMap, Eks!Mark
    <3>6. Sound(cloud)' /\ Within(cloud, {"role", "vpc", "nodes", "key", "plane"})'
      BY <1>28, <2>2, <3>1, <3>3 DEF Marks, Eks!newNodeAuthConfigMap, Eks!Mark
    <3>7. EksGone'
      BY <1>28, <2>2, <3>1, <3>3 DEF Marks, Eks!newNodeAuthConfigMap, Eks!Mark
    <3>8. EksAlive'
      BY <1>28, <2>2, <3>1, <3>3 DEF Marks, Eks!newNodeAuthConfigMap, Eks!Mark
    <3>9. EksNodes'
      BY <1>28, <2>2, <3>1, <3>3 DEF Marks, Eks!newNodeAuthConfigMap, Eks!Mark
    <3> QED
      BY <3>4, <3>5, <3>6, <3>7, <3>8, <3>9
  <2> QED
    BY <2>1, <2>2
<1>29. CASE Eks!NodeGroupApply
  BY <1>29 DEF Eks!NodeGroupApply
<1>30. CASE Eks!deleteStack("nodes", "ngDelete", "ngForget")
  <2>1. CASE cloud' = cloud /\ lost' = lost + 1
    BY <1>30, <2>1 DEF Eks!deleteStack
  <2>2. CASE cloud' = Eks!Marked(Eks!Only("nodes"), {"deleting"}) /\ lost' = lost
    <3>1. cloud' = Marking(cloud, "nodes", "deleting")
      BY <2>2 DEF Eks!Marked, Eks!Only, Eks!All, Of, Marking
    <3>2. Marks(cloud, cloud', "nodes", "deleting")
      BY <1>0, <3>1, CloudMark DEF AllMarks
    <3>3. StoreTypes({"vpc"})'
      BY <1>30, <2>2, <3>2 DEF Marks, Eks!deleteStack
    <3>4. EksSteps'
      BY <1>30, <2>2, <3>2 DEF Marks, Eks!deleteStack
    <3>5. Sound(cloud)' /\ Within(cloud, {"role", "vpc", "nodes", "key", "plane"})'
      BY <1>30, <2>2, <3>2 DEF Marks, Eks!deleteStack
    <3>6. EksGone'
      BY <1>30, <2>2, <3>2 DEF Marks, Eks!deleteStack
    <3>7. EksAlive'
      BY <1>30, <2>2, <3>2 DEF Marks, Eks!deleteStack
    <3>8. EksNodes'
      BY <1>30, <2>2, <3>2 DEF Marks, Eks!deleteStack
    <3> QED
      BY <3>3, <3>4, <3>5, <3>6, <3>7, <3>8
  <2> QED
    BY <1>30, <2>1, <2>2 DEF Eks!deleteStack
<1>31. CASE Eks!Forget("ngForget", "scaled")
  <2>1. StoreTypes({"vpc"})'
    BY <1>31 DEF Eks!Forget
  <2>2. EksSteps'
    BY <1>31 DEF Eks!Forget
  <2>3. Sound(cloud)' /\ Within(cloud, {"role", "vpc", "nodes", "key", "plane"})'
    BY <1>31 DEF Eks!Forget
  <2>4. EksGone'
    BY <1>31 DEF Eks!Forget
  <2>5. EksAlive'
    BY <1>31 DEF Eks!Forget
  <2>6. EksNodes'
    BY <1>31 DEF Eks!Forget
  <2> QED
    BY <2>1, <2>2, <2>3, <2>4, <2>5, <2>6
<1>32. CASE Eks!UpdateStatus("ngStatus", "scaled")
  BY <1>32 DEF Eks!UpdateStatus
<1>33. CASE Eks!ApplyDelete("scale")
  BY <1>33 DEF Clusters, Eks!ApplyDelete, Eks!StartDelete
<1>34. CASE Eks!isControlPlaneExists("dplane", "dplaneFound", "drole")
  BY <1>34 DEF Eks!isControlPlaneExists, Eks!Find
<1>35. CASE Eks!deleteStack("plane", "dplaneFound", "drole")
  <2>1. CASE cloud' = cloud /\ lost' = lost + 1
    BY <1>35, <2>1 DEF Eks!deleteStack
  <2>2. CASE cloud' = Eks!Marked(Eks!Only("plane"), {"deleting"}) /\ lost' = lost
    <3>1. cloud' = Marking(cloud, "plane", "deleting")
      BY <2>2 DEF Eks!Marked, Eks!Only, Eks!All, Of, Marking
    <3>2. Marks(cloud, cloud', "plane", "deleting")
      BY <1>0, <3>1, CloudMark DEF AllMarks
    <3>3. StoreTypes({"vpc"})'
      BY <1>35, <2>2, <3>2 DEF Marks, Eks!deleteStack
    <3>4. EksSteps'
      BY <1>35, <2>2, <3>2 DEF Marks, Eks!deleteStack
    <3>5. Sound(cloud)' /\ Within(cloud, {"role", "vpc", "nodes", "key", "plane"})'
      BY <1>35, <2>2, <3>2 DEF Marks, Eks!deleteStack
    <3>6. EksGone'
      BY <1>35, <2>2, <3>2 DEF Marks, Eks!deleteStack
    <3>7. EksAlive'
      BY <1>35, <2>2, <3>2 DEF Marks, Eks!deleteStack
    <3>8. EksNodes'
      BY <1>35, <2>2, <3>2 DEF Marks, Eks!deleteStack
    <3> QED
      BY <3>3, <3>4, <3>5, <3>6, <3>7, <3>8
  <2> QED
    BY <1>35, <2>1, <2>2 DEF Eks!deleteStack
<1>36. CASE Eks!isStackExists("role", "drole", "droleFound", "dvpc")
  BY <1>36 DEF Eks!isStackExists, Eks!Find
<1>37. CASE Eks!deleteStack("role", "droleFound", "dvpc")
  <2>1. CASE cloud' = cloud /\ lost' = lost + 1
    BY <1>37, <2>1 DEF Eks!deleteStack
  <2>2. CASE cloud' = Eks!Marked(Eks!Only("role"), {"deleting"}) /\ lost' = lost
    <3>1. cloud' = Marking(cloud, "role", "deleting")
      BY <2>2 DEF Eks!Marked, Eks!Only, Eks!All, Of, Marking
    <3>2. Marks(cloud, cloud', "role", "deleting")
      BY <1>0, <3>1, CloudMark DEF AllMarks
    <3>3. StoreTypes({"vpc"})'
      BY <1>37, <2>2, <3>2 DEF Marks, Eks!deleteStack
    <3>4. EksSteps'
      BY <1>37, <2>2, <3>2 DEF Marks, Eks!deleteStack
    <3>5. Sound(cloud)' /\ Within(cloud, {"role", "vpc", "nodes", "key", "plane"})'
      BY <1>37, <2>2, <3>2 DEF Marks, Eks!deleteStack
    <3>6. EksGone'
      BY <1>37, <2>2, <3>2 DEF Marks, Eks!deleteStack
    <3>7. EksAlive'
      BY <1>37, <2>2, <3>2 DEF Marks, Eks!deleteStack
    <3>8. EksNodes'
      BY <1>37, <2>2, <3>2 DEF Marks, Eks!deleteStack
    <3> QED
      BY <3>3, <3>4, <3>5, <3>6, <3>7, <3>8
  <2> QED
    BY <1>37, <2>1, <2>2 DEF Eks!deleteStack
<1>38. CASE Eks!isStackExists("vpc", "dvpc", "dvpcFound", "dkey")
  BY <1>38 DEF Eks!isStackExists, Eks!Find
<1>39. CASE Eks!deleteStack("vpc", "dvpcFound", "dkey")
  <2>1. CASE cloud' = cloud /\ lost' = lost + 1
    BY <1>39, <2>1 DEF Eks!deleteStack
  <2>2. CASE cloud' = Eks!Marked(Eks!Only("vpc"), {"deleting"}) /\ lost' = lost
    <3>1. cloud' = Marking(cloud, "vpc", "deleting")
      BY <2>2 DEF Eks!Marked, Eks!Only, Eks!All, Of, Marking
    <3>2. Marks(cloud, cloud', "vpc", "deleting")
      BY <1>0, <3>1, CloudMark DEF AllMarks
    <3>3. StoreTypes({"vpc"})'
      BY <1>39, <2>2, <3>2 DEF Marks, Eks!deleteStack
    <3>4. EksSteps'
      BY <1>39, <2>2, <3>2 DEF Marks, Eks!deleteStack
    <3>5. Sound(cloud)' /\ Within(cloud, {"role", "vpc", "nodes", "key", "plane"})'
      BY <1>39, <2>2, <3>2 DEF Marks, Eks!deleteStack
    <3>6. EksGone'
      BY <1>39, <2>2, <3>2 DEF Marks, Eks!deleteStack
    <3>7. EksAlive'
      BY <1>39, <2>2, <3>2 DEF Marks, Eks!deleteStack
    <3>8. EksNodes'
      BY <1>39, <2>2, <3>2 DEF Marks, Eks!deleteStack
    <3> QED
      BY <3>3, <3>4, <3>5, <3>6, <3>7, <3>8
  <2> QED
    BY <1>39, <2>1, <2>2 DEF Eks!deleteStack
<1>40. CASE Eks!deleteSSHKey
  <2>1. CASE cloud' = cloud /\ lost' = lost + 1
    BY <1>40, <2>1 DEF Eks!deleteSSHKey, Eks!RemoveLogged
  <2>2. CASE cloud' = cloud \ Eks!Only("key") /\ lost' = lost
    <3>1. cloud' = Dropping(cloud, {"key"})
      BY <2>2 DEF Eks!Only, Eks!All, Dropping
    <3>2. Drops(cloud, cloud', {"key"})
      BY <1>0, <3>1, CloudDrop
    <3> QED
      BY <1>40, <2>2, <3>2 DEF Drops, Eks!deleteSSHKey, Eks!RemoveLogged
  <2> QED
    BY <1>40, <2>1, <2>2 DEF Eks!deleteSSHKey, Eks!RemoveLogged
<1>41. CASE Eks!MarkDeleted
  BY <1>41 DEF Clusters, Eks!MarkDeleted, Eks!Finish
<1>42. CASE Eks!Provision(Eks!Stacks \cup {"plane"})
  <2>1. PICK k \in Eks!Stacks \cup {"plane"}, m \in {"done", "failed"} :
            Marks(cloud, cloud', k, m) /\ (m = "failed" => aborts' = aborts + 1)
    BY <1>0, <1>42, EksProvision
  <2> QED
    BY <1>42, <2>1 DEF Marks, Eks!Provision, Eks!Stacks
<1>43. CASE Eks!Withdraw(Eks!Going("plane"))
  <2>1. Drops(cloud, cloud', {"plane"}) /\ Has(cloud, "plane", "deleting")
    BY <1>0, <1>43, EksWithdraw
  <2>2. StoreTypes({"vpc"})'
    BY <1>43, <2>1 DEF Drops, Eks!Withdraw
  <2>3. EksSteps'
    BY <1>43, <2>1 DEF Drops, Eks!Withdraw
  <2>4. Sound(cloud)' /\ Within(cloud, {"role", "vpc", "nodes", "key", "plane"})'
    BY <1>43, <2>1 DEF Drops, Eks!Withdraw
  <2>5. EksGone'
    BY <1>43, <2>1 DEF Drops, Eks!Withdraw
  <2>6. EksAlive'
    BY <1>43, <2>1 DEF Drops, Eks!Withdraw
  <2>7. EksNodes'
    BY <1>43, <2>1 DEF Drops, Eks!Withdraw
  <2> QED
    BY <2>2, <2>3, <2>4, <2>5, <2>6, <2>7
<1>44. CASE Eks!Withdraw(Eks!Going("role"))
  <2>1. Drops(cloud, cloud', {"role"}) /\ Has(cloud, "role", "deleting")
    BY <1>0, <1>44, EksWithdraw
  <2>2. StoreTypes({"vpc"})'
    BY <1>44, <2>1 DEF Drops, Eks!Withdraw
  <2>3. EksSteps'
    BY <1>44, <2>1 DEF Drops, Eks!Withdraw
  <2>4. Sound(cloud)' /\ Within(cloud, {"role", "vpc", "nodes", "key", "plane"})'
    BY <1>44, <2>1 DEF Drops, Eks!Withdraw
  <2>5. EksGone'
    BY <1>44, <2>1 DEF Drops, Eks!Withdraw
  <2>6. EksAlive'
    BY <1>44, <2>1 DEF Drops, Eks!Withdraw
  <2>7. EksNodes'
    BY <1>44, <2>1 DEF Drops, Eks!Withdraw
  <2> QED
    BY <2>2, <2>3, <2>4, <2>5, <2>6, <2>7
<1>45. CASE Eks!Withdraw(Eks!Going("nodes"))
  <2>1. Drops(cloud, cloud', {"nodes"}) /\ Has(cloud, "nodes", "deleting")
    BY <1>0, <1>45, EksWithdraw
  <2>2. StoreTypes({"vpc"})'
    BY <1>45, <2>1 DEF Drops, Eks!Withdraw
  <2>3. EksSteps'
    BY <1>45, <2>1 DEF Drops, Eks!Withdraw
  <2>4. Sound(cloud)' /\ Within(cloud, {"role", "vpc", "nodes", "key", "plane"})'
    BY <1>45, <2>1 DEF Drops, Eks!Withdraw
  <2>5. EksGone'
    BY <1>45, <2>1 DEF Drops, Eks!Withdraw
  <2>6. EksAlive'
    BY <1>45, <2>1 DEF Drops, Eks!Withdraw
  <2>7. EksNodes'
    BY <1>45, <2>1 DEF Drops, Eks!Withdraw
  <2> QED
    BY <2>2, <2>3, <2>4, <2>5, <2>6, <2>7
<1>46. CASE Eks!Withdraw(IF Eks!All({"plane", "nodes"}) = {} THEN Eks!Going("vpc") ELSE {})
  <2>1. Eks!Withdraw(Eks!Going("vpc"))
    BY <1>46 DEF Eks!Withdraw
  <2>2. Drops(cloud, cloud', {"vpc"})
    BY <1>0, <2>1, EksWithdraw
  <2>3. StoreTypes({"vpc"})'
    BY <2>1, <2>2 DEF Drops, Eks!Withdraw
  <2>4. EksSteps'
    BY <2>1, <2>2 DEF Drops, Eks!Withdraw
  <2>5. Sound(cloud)' /\ Within(cloud, {"role", "vpc", "nodes", "key", "plane"})'
    BY <2>1, <2>2 DEF Drops, Eks!Withdraw
  <2>6. EksGone'
    BY <2>1, <2>2 DEF Drops, Eks!Withdraw
  <2>7. EksAlive'
    BY <2>1, <2>2 DEF Drops, Eks!Withdraw
  <2>8. EksNodes'
    BY <2>1, <2>2 DEF Drops, Eks!Withdraw
  <2> QED
    BY <2>3, <2>4, <2>5, <2>6, <2>7, <2>8
<1>47. CASE Eks!vpcKept
  <2>1. cloud' = Unmarking(cloud, "vpc", "deleting")
    BY <1>47 DEF Eks!vpcKept, Eks!Only, Eks!All, Of, Unmarking
  <2>2. Unmarks(cloud, cloud', "vpc", "deleting")
    BY <1>0, <2>1, CloudUnmark DEF AllMarks
  <2>3. StoreTypes({"vpc"})'
    BY <1>47, <2>2 DEF Unmarks, Eks!vpcKept
  <2>4. EksSteps'
    BY <1>47, <2>2 DEF Unmarks, Eks!vpcKept
  <2>5. Sound(cloud)' /\ Within(cloud, {"role", "vpc", "nodes", "key", "plane"})'
    BY <1>47, <2>2 DEF Unmarks, Eks!vpcKept
  <2>6. EksGone'
    BY <1>47, <2>2 DEF Unmarks, Eks!vpcKept
  <2>7. EksAlive'
    BY <1>47, <2>2 DEF Unmarks, Eks!vpcKept
  <2>8. EksNodes'
    BY <1>47, <2>2 DEF Unmarks, Eks!vpcKept
  <2> QED
    BY <2>3, <2>4, <2>5, <2>6, <2>7, <2>8
<1> QED
  BY <1>1, <1>2, <1>3, <1>4, <1>5, <1>6, <1>7, <1>8, <1>9, <1>10, <1>11, <1>12, <1>13, <1>14, <1>15,
     <1>16, <1>17, <1>18, <1>19, <1>20, <1>21, <1>22, <1>23, <1>24, <1>25, <1>26, <1>27, <1>28,
     <1>29, <1>30, <1>31, <1>32, <1>33, <1>34, <1>35, <1>36, <1>37, <1>38, <1>39, <1>40, <1>41,
     <1>42, <1>43, <1>44, <1>45, <1>46, <1>47
  DEF Eks!Next, Eks!Step, Eks!Prepare, Eks!ensureStackServiceRole, Eks!ensureClusterVPC,
      Eks!NodeGroup, Eks!Teardown, Eks!deleteControlPlane, Eks!deleteStacks, Eks!Environment

-----------------------------------------------------------------------------
(* GKE *)

\* The command's copy when it has returned.
LEMMA GkeNew == \A ids : Gke!NewCluster \in Clusters(ids)
<1>1. \A ids : {} \in SUBSET ids /\ FALSE \in BOOLEAN /\ "Pending" \in Phases
  BY DEF Phases
<1> QED
  BY <1>1 DEF Gke!NewCluster, Gke!Cluster, Clusters

\* What the command sees of the cloud.
LEMMA GkeReads ==
    \A k : /\ Gke!Only(k) = {} <=> ~There(cloud, k)
           /\ Gke!Up(k) = {} <=> ~Has(cloud, k, "done")
           /\ Gke!Going(k) = {} <=> ~Has(cloud, k, "deleting")
BY DEF Gke!Only, Gke!Up, Gke!Going, Gke!With, Gke!All, There, Has

\* A creating call finds an id, or fails.
LEMMA GkeFresh ==
    ASSUME NEW k, Gke!FreshIds(k) # {}
    PROVE  Gke!FreshId(k) \in Gke!FreshIds(k) /\ Gke!FreshId(k) \in 1..MaxTwins
<1>0. Gke!FreshIds(k) \subseteq Nat
  BY ProviderBounds DEF Gke!FreshIds
<1>1. \E i \in Gke!FreshIds(k) : \A j \in Gke!FreshIds(k) : i <= j
  BY <1>0, Least
<1>2. Gke!FreshId(k) \in Gke!FreshIds(k)
  BY <1>1 DEF Gke!FreshId
<1> QED
  BY <1>2 DEF Gke!FreshIds

\* A creating call has succeeded.
LEMMA GkeMade ==
    ASSUME Sound(cloud), NEW k \in AllKinds, ~There(cloud, k), Gke!FreshIds(k) # {},
           cloud' = cloud \cup {Gke!Resource(k, Gke!FreshId(k), 0, {})}
    PROVE  Makes(cloud, cloud', k) /\ MaxTwins > 0
<1>1. Gke!FreshId(k) \in 1..MaxTwins
  BY GkeFresh
<1>2. Gke!FreshId(k) \in Nat /\ MaxTwins > 0
  BY <1>1, ProviderBounds
<1>3. cloud' = Making(cloud, k, Gke!FreshId(k))
  BY DEF Making, Gke!Resource
<1> QED
  BY <1>2, <1>3, CloudMake

\* The cloud completes a resource, or fails to.
LEMMA GkeProvision ==
    ASSUME Sound(cloud), NEW kinds, Gke!Provision(kinds)
    PROVE  \E k \in kinds, m \in {"done", "failed"} :
               /\ Marks(cloud, cloud', k, m)
               /\ m = "failed" => aborts' = aborts + 1
<1>1. PICK r \in cloud, m \in {"done", "failed"} :
          /\ r.kind \in kinds /\ cloud' = Gke!Marked({r}, {m})
          /\ m = "failed" => aborts' = aborts + 1
  BY DEF Gke!Provision, Gke!All
<1>2. {r} = Of(cloud, r.kind)
  BY DEF Sound, Unique, Of
<1>3. cloud' = Marking(cloud, r.kind, m)
  BY <1>1, <1>2 DEF Gke!Marked, Marking
<1> QED
  BY <1>1, <1>3, CloudMark DEF AllMarks

\* Every step keeps the invariant.
LEMMA GkeStep ==
    ASSUME GkeInv, Gke!Next
    PROVE  GkeInv'
<1> USE GkeReads, GkeNew
    DEF GkeInv, StoreTypes, GkeSteps, GkePrepare, GkeGroup, GkeScale, GkeDelete, GkeGone,
        GkeAlive, GkePool, Phases,
        Gke!Check, Gke!Decide, Gke!Continue, Gke!Return, Gke!store, Gke!vars
<1>0. Sound(cloud)
  OBVIOUS
<1>1. CASE Gke!runApplyCmd
  BY <1>1 DEF Gke!runApplyCmd, Gke!Apply
<1>2. CASE Gke!deleteCluster
  <2>1. StoreTypes({})'
    BY <1>2 DEF Clusters, Gke!deleteCluster, Gke!DeleteCluster
  <2>2. GkeSteps'
    BY <1>2 DEF Clusters, Gke!deleteCluster, Gke!DeleteCluster
  <2>3. Sound(cloud)' /\ Within(cloud, {"network", "cluster", "pool"})'
    BY <1>2 DEF Clusters, Gke!deleteCluster, Gke!DeleteCluster
  <2>4. GkeGone'
    BY <1>2 DEF Clusters, Gke!deleteCluster, Gke!DeleteCluster
  <2>5. GkeAlive'
    BY <1>2 DEF Clusters, Gke!deleteCluster, Gke!DeleteCluster
  <2>6. GkePool'
    BY <1>2 DEF Clusters, Gke!deleteCluster, Gke!DeleteCluster
  <2> QED
    BY <2>1, <2>2, <2>3, <2>4, <2>5, <2>6
<1>3. CASE Gke!DeleteMachineSet
  BY <1>3 DEF Gke!DeleteMachineSet
<1>4. CASE Gke!Kill
  BY <1>4 DEF Gke!Kill, Gke!Abort
<1>5. CASE Gke!newconnector
  BY <1>5 DEF Gke!newconnector, Gke!Connect
<1>6. CASE Gke!getNetworks
  BY <1>6 DEF Gke!getNetworks, Gke!Find
<1>7. CASE Gke!ensureNetworks
  <2>1. CASE cloud' = cloud
    <3>1. \A r : cloud \cup {r} # cloud \/ r \in cloud
      OBVIOUS
    <3>2. ~There(cloud, "network") =>
             Gke!Resource("network", Gke!FreshId("network"), 0, {}) \notin cloud
      BY DEF There, Gke!Resource
    <3> QED
      BY <1>7, <2>1, <3>1, <3>2 DEF Gke!ensureNetworks, Gke!Make
  <2>2. CASE cloud' # cloud
    <3>1. Makes(cloud, cloud', "network") /\ MaxTwins > 0
      BY <1>0, <1>7, <2>2, GkeMade DEF AllKinds, Gke!ensureNetworks, Gke!Make
    <3>2. StoreTypes({})'
      BY <1>7, <2>2, <3>1 DEF Makes, Gke!ensureNetworks, Gke!Make
    <3>3. GkeSteps'
      BY <1>7, <2>2, <3>1 DEF Makes, Gke!ensureNetworks, Gke!Make
    <3>4. Sound(cloud)' /\ Within(cloud, {"network", "cluster", "pool"})'
      BY <1>7, <2>2, <3>1 DEF Makes, Gke!ensureNetworks, Gke!Make
    <3>5. GkeGone'
      BY <1>7, <2>2, <3>1 DEF Makes, Gke!ensureNetworks, Gke!Make
    <3>6. GkeAlive'
      BY <1>7, <2>2, <3>1 DEF Makes, Gke!ensureNetworks, Gke!Make
    <3>7. GkePool'
      BY <1>7, <2>2, <3>1 DEF Makes, Gke!ensureNetworks, Gke!Make
    <3> QED
      BY <3>2, <3>3, <3>4, <3>5, <3>6, <3>7
  <2> QED
    BY <2>1, <2>2
<1>8. CASE Gke!getCluster
  BY <1>8 DEF Gke!getCluster, Gke!Find
<1>9. CASE Gke!createCluster
  <2>1. CASE There(cloud, "cluster")
    BY <1>9, <2>1 DEF Gke!createCluster
  <2>2. CASE ~There(cloud, "cluster")
    <3> DEFINE c == Making(cloud, "cluster", 1)
               d == Making(c, "pool", 1)
    <3>1. cloud' = IF ng = "none" THEN c ELSE d
      BY <1>9, <2>2 DEF Gke!createCluster, Gke!encodeCluster, Gke!Resource, Making
    <3> HIDE DEF c, d
    <3>2. Makes(cloud, c, "cluster")
      BY <1>0, <2>2, CloudMake DEF AllKinds, c
    <3>3. Sound(c) /\ ~There(c, "pool")
      BY <2>2, <3>2 DEF Makes
    <3>4. Makes(c, d, "pool")
      BY <3>3, CloudMake DEF AllKinds, d
    <3>5. CASE ng = "none"
      <4>1. StoreTypes({})'
        BY <1>9, <2>2, <3>1, <3>2, <3>5 DEF Makes, Gke!createCluster
      <4>2. GkeSteps'
        BY <1>9, <2>2, <3>1, <3>2, <3>5 DEF Makes, Gke!createCluster
      <4>3. Sound(cloud)' /\ Within(cloud, {"network", "cluster", "pool"})'
        BY <1>9, <2>2, <3>1, <3>2, <3>5 DEF Makes, Gke!createCluster
      <4>4. GkeGone'
        BY <1>9, <2>2, <3>1, <3>2, <3>5 DEF Makes, Gke!createCluster
      <4>5. GkeAlive'
        BY <1>9, <2>2, <3>1, <3>2, <3>5 DEF Makes, Gke!createCluster
      <4>6. GkePool'
        BY <1>9, <2>2, <3>1, <3>2, <3>5 DEF Makes, Gke!createCluster
      <4> QED
        BY <4>1, <4>2, <4>3, <4>4, <4>5, <4>6
    <3>6. CASE ng # "none"
      <4>1. StoreTypes({})'
        BY <1>9, <2>2, <3>1, <3>2, <3>4, <3>6 DEF Makes, Gke!createCluster
      <4>2. GkeSteps'
        BY <1>9, <2>2, <3>1, <3>2, <3>4, <3>6 DEF Makes, Gke!createCluster
      <4>3. Sound(cloud)' /\ Within(cloud, {"network", "cluster", "pool"})'
        BY <1>9, <2>2, <3>1, <3>2, <3>4, <3>6 DEF Makes, Gke!createCluster
      <4>4. GkeGone'
        BY <1>9, <2>2, <3>1, <3>2, <3>4, <3>6 DEF Makes, Gke!createCluster
      <4>5. GkeAlive'
        BY <1>9, <2>2, <3>1, <3>2, <3>4, <3>6 DEF Makes, Gke!createCluster
      <4>6. GkePool'
        BY <1>9, <2>2, <3>1, <3>2, <3>4, <3>6 DEF Makes, Gke!createCluster
      <4> QED
        BY <4>1, <4>2, <4>3, <4>4, <4>5, <4>6
    <3> QED
      BY <3>5, <3>6
  <2> QED
    BY <2>1, <2>2
<1>10. CASE Gke!waitForZoneOperation("cluster", "wait", "created")
  BY <1>10 DEF Gke!waitForZoneOperation
<1>11. CASE Gke!getCreated
  BY <1>11 DEF Gke!getCreated
<1>12. CASE Gke!StoreCertificate("endpoint")
  <2>1. pki' \subseteq {"ca", "cloud", "admin"} /\ mem' \in Clusters({})
           /\ UNCHANGED <<ng, db, torn, sets, aborts, lost>>
    BY <1>12 DEF Gke!StoreCertificate
  <2>2. StoreTypes({})'
    BY <1>12, <2>1 DEF Gke!StoreCertificate
  <2>3. GkeSteps'
    BY <1>12, <2>1 DEF Gke!StoreCertificate
  <2>4. Sound(cloud)' /\ Within(cloud, {"network", "cluster", "pool"})'
    BY <1>12, <2>1 DEF Gke!StoreCertificate
  <2>5. GkeGone'
    BY <1>12, <2>1 DEF Gke!StoreCertificate
  <2>6. GkeAlive'
    BY <1>12, <2>1 DEF Gke!StoreCertificate
  <2>7. GkePool'
    BY <1>12, <2>1 DEF Gke!StoreCertificate
  <2> QED
    BY <2>2, <2>3, <2>4, <2>5, <2>6, <2>7
<1>13. CASE Gke!retrieveClusterStatus
  <2>1. (mem.endp \/ Gke!Up("cluster") # {}) \in BOOLEAN
    OBVIOUS
  <2>2. mem' \in Clusters({}) /\ mem'.phase = mem.phase /\ mem'.del = mem.del
    BY <1>13, <2>1 DEF Clusters, Gke!retrieveClusterStatus
  <2> QED
    BY <1>13, <2>2 DEF Gke!retrieveClusterStatus
<1>14. CASE Gke!NewGKEAdminClient
  BY <1>14 DEF Gke!NewGKEAdminClient
<1>15. CASE Gke!ApplyCreate("ready", Gke!Reachable, "scale")
  <2>1. StoreTypes({})'
    BY <1>15 DEF Clusters, Gke!ApplyCreate, Gke!Reachable
  <2>2. GkeSteps'
    BY <1>15 DEF Clusters, Gke!ApplyCreate, Gke!Reachable
  <2>3. Sound(cloud)' /\ Within(cloud, {"network", "cluster", "pool"})'
    BY <1>15 DEF Clusters, Gke!ApplyCreate, Gke!Reachable
  <2>4. GkeGone'
    BY <1>15 DEF Clusters, Gke!ApplyCreate, Gke!Reachable
  <2>5. GkeAlive'
    BY <1>15 DEF Clusters, Gke!ApplyCreate, Gke!Reachable
  <2>6. GkePool'
    BY <1>15 DEF Clusters, Gke!ApplyCreate, Gke!Reachable
  <2> QED
    BY <2>1, <2>2, <2>3, <2>4, <2>5, <2>6
<1>16. CASE Gke!Check("scale", TRUE, IF ng = "none" THEN "scaled" ELSE "ng") /\ UNCHANGED Gke!store
  BY <1>16
<1>17. CASE Gke!Update("scaled", "end")
  <2>1. StoreTypes({})'
    BY <1>17 DEF Clusters, Gke!Update, Gke!Save
  <2>2. GkeSteps'
    BY <1>17 DEF Clusters, Gke!Update, Gke!Save
  <2>3. Sound(cloud)' /\ Within(cloud, {"network", "cluster", "pool"})'
    BY <1>17 DEF Clusters, Gke!Update, Gke!Save
  <2>4. GkeGone'
    BY <1>17 DEF Clusters, Gke!Update, Gke!Save
  <2>5. GkeAlive'
    BY <1>17 DEF Clusters, Gke!Update, Gke!Save
  <2>6. GkePool'
    BY <1>17 DEF Clusters, Gke!Update, Gke!Save
  <2> QED
    BY <2>1, <2>2, <2>3, <2>4, <2>5, <2>6
<1>18. CASE Gke!Done("end")
  BY <1>18 DEF Gke!Done
<1>19. CASE Gke!getNodePool
  BY <1>19 DEF Gke!getNodePool, Gke!Find
<1>20. CASE Gke!addNodePool
  <2>1. CASE cloud' = cloud
    <3>1. MaxTwins > 0
      BY <1>20 DEF Has, There, Gke!addNodePool, Gke!Make
    <3>2. CASE ~There(cloud, "pool")
      <4>1. \A r \in Gke!Only("pool") : FALSE
        BY <3>2
      <4>2. 1 \in Gke!FreshIds("pool")
        BY <3>1, <4>1, ProviderBounds DEF Gke!FreshIds
      <4>3. Gke!Resource("pool", Gke!FreshId("pool"), 0, {}) \notin cloud
        BY <3>2 DEF There, Gke!Resource
      <4> QED
        BY <1>20, <2>1, <3>2, <4>2, <4>3 DEF Gke!addNodePool, Gke!Make
    <3>3. CASE There(cloud, "pool")
      BY <1>20, <3>3 DEF Gke!addNodePool, Gke!Make
    <3> QED
      BY <3>2, <3>3
  <2>2. CASE cloud' # cloud
    <3>1. Makes(cloud, cloud', "pool")
      BY <1>0, <1>20, <2>2, GkeMade DEF AllKinds, Gke!addNodePool, Gke!Make
    <3>2. StoreTypes({})'
      BY <1>20, <2>2, <3>1 DEF Makes, Has, There, Gke!addNodePool, Gke!Make
    <3>3. GkeSteps'
      BY <1>20, <2>2, <3>1 DEF Makes, Has, There, Gke!addNodePool, Gke!Make
    <3>4. Sound(cloud)' /\ Within(cloud, {"network", "cluster", "pool"})'
      BY <1>20, <2>2, <3>1 DEF Makes, Has, There, Gke!addNodePool, Gke!Make
    <3>5. GkeGone'
      BY <1>20, <2>2, <3>1 DEF Makes, Has, There, Gke!addNodePool, Gke!Make
    <3>6. GkeAlive'
      BY <1>20, <2>2, <3>1 DEF Makes, Has, There, Gke!addNodePool, Gke!Make
    <3>7. GkePool'
      BY <1>20, <2>2, <3>1 DEF Makes, Has, There, Gke!addNodePool, Gke!Make
    <3> QED
      BY <3>2, <3>3, <3>4, <3>5, <3>6, <3>7
  <2> QED
    BY <2>1, <2>2
<1>21. CASE Gke!waitForZoneOperation("pool", "ngWait", "ngStatus")
  BY <1>21 DEF Gke!waitForZoneOperation
<1>22. CASE Gke!Check("ngFound", TRUE, IF ng = "marked" THEN "ngDelete" ELSE "ngAdjust")
             /\ UNCHANGED Gke!store
  BY <1>22
<1>23. CASE Gke!deleteNoodPool
  <2>1. cloud' = Dropping(cloud, {"pool"})
    BY <1>23 DEF Gke!deleteNoodPool, Gke!Remove, Gke!Only, Gke!All, Dropping
  <2>2. Drops(cloud, cloud', {"pool"})
    BY <1>0, <2>1, CloudDrop
  <2>3. StoreTypes({})'
    BY <1>23, <2>2 DEF Drops, Gke!deleteNoodPool, Gke!Remove
  <2>4. GkeSteps'
    BY <1>23, <2>2 DEF Drops, Gke!deleteNoodPool, Gke!Remove
  <2>5. Sound(cloud)' /\ Within(cloud, {"network", "cluster", "pool"})'
    BY <1>23, <2>2 DEF Drops, Gke!deleteNoodPool, Gke!Remove
  <2>6. GkeGone'
    BY <1>23, <2>2 DEF Drops, Gke!deleteNoodPool, Gke!Remove
  <2>7. GkeAlive'
    BY <1>23, <2>2 DEF Drops, Gke!deleteNoodPool, Gke!Remove
  <2>8. GkePool'
    BY <1>23, <2>2 DEF Drops, Gke!deleteNoodPool, Gke!Remove
  <2> QED
    BY <2>3, <2>4, <2>5, <2>6, <2>7, <2>8
<1>24. CASE Gke!Forget("ngForget", "scaled")
  BY <1>24 DEF Gke!Forget
<1>25. CASE Gke!adjustNodePool
  BY <1>25 DEF Gke!adjustNodePool
<1>26. CASE Gke!UpdateStatus("ngStatus", "scaled")
  BY <1>26 DEF Gke!UpdateStatus
<1>27. CASE Gke!ApplyDelete("dcluster")
  <2>1. StoreTypes({})'
    BY <1>27 DEF Clusters, Gke!ApplyDelete, Gke!StartDelete
  <2>2. GkeSteps'
    BY <1>27 DEF Clusters, Gke!ApplyDelete, Gke!StartDelete
  <2>3. Sound(cloud)' /\ Within(cloud, {"network", "cluster", "pool"})'
    BY <1>27 DEF Clusters, Gke!ApplyDelete, Gke!StartDelete
  <2>4. GkeGone'
    BY <1>27 DEF Clusters, Gke!ApplyDelete, Gke!StartDelete
  <2>5. GkeAlive'
    BY <1>27 DEF Clusters, Gke!ApplyDelete, Gke!StartDelete
  <2>6. GkePool'
    BY <1>27 DEF Clusters, Gke!ApplyDelete, Gke!StartDelete
  <2> QED
    BY <2>1, <2>2, <2>3, <2>4, <2>5, <2>6
<1>28. CASE Gke!requestDelete
  <2>1. CASE cloud' = cloud /\ pc' = "idle"
    BY <1>28, <2>1 DEF Gke!requestDelete, Gke!Mark
  <2>2. CASE cloud' = Gke!Marked(Gke!Only("cluster"), {"deleting"}) /\ pc' = "dwait"
    <3>1. cloud' = Marking(cloud, "cluster", "deleting")
      BY <2>2 DEF Gke!Marked, Gke!Only, Gke!All, Of, Marking
    <3>2. Marks(cloud, cloud', "cluster", "deleting")
      BY <1>0, <3>1, CloudMark DEF AllMarks
    <3>3. StoreTypes({})'
      BY <1>28, <2>2, <3>2 DEF Marks, Gke!requestDelete, Gke!Mark
    <3>4. GkeSteps'
      BY <1>28, <2>2, <3>2 DEF Marks, Gke!requestDelete, Gke!Mark
    <3>5. Sound(cloud)' /\ Within(cloud, {"network", "cluster", "pool"})'
      BY <1>28, <2>2, <3>2 DEF Marks, Gke!requestDelete, Gke!Mark
    <3>6. GkeGone'
      BY <1>28, <2>2, <3>2 DEF Marks, Gke!requestDelete, Gke!Mark
    <3>7. GkeAlive'
      BY <1>28, <2>2, <3>2 DEF Marks, Gke!requestDelete, Gke!Mark
    <3>8. GkePool'
      BY <1>28, <2>2, <3>2 DEF Marks, Gke!requestDelete, Gke!Mark
    <3> QED
      BY <3>3, <3>4, <3>5, <3>6, <3>7, <3>8
  <2> QED
    BY <1>28, <2>1, <2>2 DEF Gke!requestDelete, Gke!Mark
<1>29. CASE Gke!waitForDelete
  <2>1. StoreTypes({})'
    BY <1>29 DEF Clusters, Gke!waitForDelete, Gke!Finish
  <2>2. GkeSteps'
    BY <1>29 DEF Clusters, Gke!waitForDelete, Gke!Finish
  <2>3. Sound(cloud)' /\ Within(cloud, {"network", "cluster", "pool"})'
    BY <1>29 DEF Clusters, Gke!waitForDelete, Gke!Finish
  <2>4. GkeGone'
    BY <1>29 DEF Clusters, Gke!waitForDelete, Gke!Finish
  <2>5. GkeAlive'
    BY <1>29 DEF Clusters, Gke!waitForDelete, Gke!Finish
  <2>6. GkePool'
    BY <1>29 DEF Clusters, Gke!waitForDelete, Gke!Finish
  <2> QED
    BY <2>1, <2>2, <2>3, <2>4, <2>5, <2>6
<1>30. CASE Gke!Provision({"cluster", "pool"})
  <2>1. PICK k \in {"cluster", "pool"}, m \in {"done", "failed"} :
            Marks(cloud, cloud', k, m) /\ (m = "failed" => aborts' = aborts + 1)
    BY <1>0, <1>30, GkeProvision
  <2>2. StoreTypes({})'
    BY <1>30, <2>1 DEF Marks, Gke!Provision
  <2>3. GkeSteps'
    BY <1>30, <2>1 DEF Marks, Gke!Provision
  <2>4. Sound(cloud)' /\ Within(cloud, {"network", "cluster", "pool"})'
    BY <1>30, <2>1 DEF Marks, Gke!Provision
  <2>5. GkeGone'
    BY <1>30, <2>1 DEF Marks, Gke!Provision
  <2>6. GkeAlive'
    BY <1>30, <2>1 DEF Marks, Gke!Provision
  <2>7. GkePool'
    BY <1>30, <2>1 DEF Marks, Gke!Provision
  <2> QED
    BY <2>2, <2>3, <2>4, <2>5, <2>6, <2>7
<1>31. CASE Gke!Withdraw(IF Gke!Going("cluster") = {} THEN {} ELSE Gke!All({"cluster", "pool"}))
  <2>1. Has(cloud, "cluster", "deleting") /\ cloud' = Dropping(cloud, {"cluster", "pool"})
    BY <1>31 DEF Gke!Withdraw, Gke!All, Dropping
  <2>2. Drops(cloud, cloud', {"cluster", "pool"})
    BY <1>0, <2>1, CloudDrop
  <2>3. StoreTypes({})'
    BY <1>31, <2>1, <2>2 DEF Drops, Gke!Withdraw
  <2>4. GkeSteps'
    BY <1>31, <2>1, <2>2 DEF Drops, Gke!Withdraw
  <2>5. Sound(cloud)' /\ Within(cloud, {"network", "cluster", "pool"})'
    BY <1>31, <2>1, <2>2 DEF Drops, Gke!Withdraw
  <2>6. GkeGone'
    BY <1>31, <2>1, <2>2 DEF Drops, Gke!Withdraw
  <2>7. GkeAlive'
    BY <1>31, <2>1, <2>2 DEF Drops, Gke!Withdraw
  <2>8. GkePool'
    BY <1>31, <2>1, <2>2 DEF Drops, Gke!Withdraw
  <2> QED
    BY <2>3, <2>4, <2>5, <2>6, <2>7, <2>8
<1>32. CASE Gke!deleteFails
  <2>1. cloud' = Unmarking(cloud, "cluster", "deleting")
    BY <1>32 DEF Gke!deleteFails, Gke!Only, Gke!All, Of, Unmarking
  <2>2. Unmarks(cloud, cloud', "cluster", "deleting")
    BY <1>0, <2>1, CloudUnmark DEF AllMarks
  <2>3. lost' # 0
    BY <1>32 DEF Gke!deleteFails
  <2>4. StoreTypes({})'
    BY <1>32, <2>2, <2>3 DEF Unmarks, Gke!deleteFails
  <2>5. GkeSteps'
    BY <1>32, <2>2, <2>3 DEF Unmarks, Gke!deleteFails
  <2>6. Sound(cloud)' /\ Within(cloud, {"network", "cluster", "pool"})'
    BY <1>32, <2>2, <2>3 DEF Unmarks, Gke!deleteFails
  <2>7. GkeGone'
    BY <1>32, <2>2, <2>3 DEF Unmarks, Gke!deleteFails
  <2>8. GkeAlive'
    BY <1>32, <2>2, <2>3 DEF Unmarks, Gke!deleteFails
  <2>9. GkePool'
    BY <1>32, <2>2, <2>3 DEF Unmarks, Gke!deleteFails
  <2> QED
    BY <2>4, <2>5, <2>6, <2>7, <2>8, <2>9
<1> QED
  BY <1>1, <1>2, <1>3, <1>4, <1>5, <1>6, <1>7, <1>8, <1>9, <1>10, <1>11, <1>12, <1>13, <1>14, <1>15,
     <1>16, <1>17, <1>18, <1>19, <1>20, <1>21, <1>22, <1>23, <1>24, <1>25, <1>26, <1>27, <1>28,
     <1>29, <1>30, <1>31, <1>32
  DEF Gke!Next, Gke!Step, Gke!Prepare, Gke!ApplyScale, Gke!NodeGroup, Gke!Environment

-----------------------------------------------------------------------------
(* AKS *)

\* The command's copy when it has returned.
LEMMA AksNew == \A ids : Aks!NewCluster \in Clusters(ids)
<1>1. \A ids : {} \in SUBSET ids /\ FALSE \in BOOLEAN /\ "Pending" \in Phases
  BY DEF Phases
<1> QED
  BY <1>1 DEF Aks!NewCluster, Aks!Cluster, Clusters

\* What the command sees of the cloud.
LEMMA AksReads ==
    \A k : /\ Aks!Only(k) = {} <=> ~There(cloud, k)
           /\ Aks!Up(k) = {} <=> ~Has(cloud, k, "done")
           /\ Aks!Going(k) = {} <=> ~Has(cloud, k, "deleting")
BY DEF Aks!Only, Aks!Up, Aks!Going, Aks!With, Aks!All, There, Has

\* A creating call finds an id, or fails.
LEMMA AksFresh ==
    ASSUME NEW k, Aks!FreshIds(k) # {}
    PROVE  Aks!FreshId(k) \in 1..MaxTwins
<1>0. Aks!FreshIds(k) \subseteq Nat
  BY ProviderBounds DEF Aks!FreshIds
<1>1. \E i \in Aks!FreshIds(k) : \A j \in Aks!FreshIds(k) : i <= j
  BY <1>0, Least
<1>2. Aks!FreshId(k) \in Aks!FreshIds(k)
  BY <1>1 DEF Aks!FreshId
<1> QED
  BY <1>2 DEF Aks!FreshIds

\* The cloud completes a resource, or fails to.
LEMMA AksProvision ==
    ASSUME Sound(cloud), NEW kinds, Aks!Provision(kinds)
    PROVE  \E k \in kinds, m \in {"done", "failed"} :
               /\ Marks(cloud, cloud', k, m)
               /\ m = "failed" => aborts' = aborts + 1
<1>1. PICK r \in cloud, m \in {"done", "failed"} :
          /\ r.kind \in kinds /\ cloud' = Aks!Marked({r}, {m})
          /\ m = "failed" => aborts' = aborts + 1
  BY DEF Aks!Provision, Aks!All
<1>2. {r} = Of(cloud, r.kind)
  BY DEF Sound, Unique, Of
<1>3. cloud' = Marking(cloud, r.kind, m)
  BY <1>1, <1>2 DEF Aks!Marked, Marking
<1> QED
  BY <1>1, <1>3, CloudMark DEF AllMarks

\* What the cloud was asked to delete is gone.
LEMMA AksWithdraw ==
    ASSUME Sound(cloud), NEW k, Aks!Withdraw(Aks!Going(k))
    PROVE  Drops(cloud, cloud', {k}) /\ Has(cloud, k, "deleting")
<1>1. Aks!Going(k) # {} /\ cloud' = cloud \ Aks!Going(k)
  BY DEF Aks!Withdraw
<1>2. Aks!Going(k) = {r \in cloud : r.kind \in {k}}
  BY <1>1 DEF Aks!Going, Aks!With, Aks!Only, Aks!All, Sound, Unique
<1>3. cloud' = Dropping(cloud, {k})
  BY <1>1, <1>2 DEF Dropping
<1> QED
  BY <1>1, <1>3, CloudDrop, AksReads

\* Every step keeps the invariant.
LEMMA AksStep ==
    ASSUME AksInv, Aks!Next
    PROVE  AksInv'
<1> USE AksReads, AksNew
    DEF AksInv, StoreTypes, AksSteps, AksPrepare, AksDelete, Phases,
        Aks!Check, Aks!Decide, Aks!Continue, Aks!Return, Aks!store, Aks!vars
<1>0. Sound(cloud)
  OBVIOUS
<1>1. CASE Aks!runApplyCmd
  BY <1>1 DEF Aks!runApplyCmd, Aks!Apply
<1>2. CASE Aks!deleteCluster
  BY <1>2 DEF Clusters, Aks!deleteCluster, Aks!DeleteCluster
<1>3. CASE Aks!DeleteMachineSet
  BY <1>3 DEF Aks!DeleteMachineSet
<1>4. CASE Aks!Kill
  BY <1>4 DEF Aks!Kill, Aks!Abort
<1>5. CASE Aks!newconnector
  BY <1>5 DEF Aks!newconnector, Aks!Connect
<1>6. CASE Aks!getResourceGroup
  BY <1>6 DEF Aks!getResourceGroup, Aks!Find
<1>7. CASE Aks!ensureResourceGroup
  <2>1. CASE cloud' = cloud
    BY <1>7, <2>1 DEF Aks!ensureResourceGroup, Aks!Make
  <2>2. CASE cloud' # cloud
    <3>1. /\ ~There(cloud, "rg") /\ Aks!FreshIds("rg") # {}
          /\ cloud' = Making(cloud, "rg", Aks!FreshId("rg"))
      BY <1>7, <2>2 DEF Aks!ensureResourceGroup, Aks!Make, Aks!Resource, Making
    <3>2. Aks!FreshId("rg") \in Nat
      BY <3>1, AksFresh
    <3>3. Makes(cloud, cloud', "rg")
      BY <1>0, <3>1, <3>2, CloudMake DEF AllKinds
    <3> QED
      BY <1>7, <2>2, <3>3 DEF Makes, Aks!ensureResourceGroup, Aks!Make
  <2> QED
    BY <2>1, <2>2
<1>8. CASE Aks!upsertAKS("upsert", "wait")
  <2>1. cloud' = Replacing(cloud, "aks", 1)
    BY <1>8 DEF Aks!upsertAKS, Aks!Only, Aks!All, Aks!Resource, Replacing, Of
  <2>2. Replaces(cloud, cloud', "aks")
    BY <1>0, <2>1, CloudReplace DEF AllKinds
  <2> QED
    BY <1>8, <2>2 DEF Replaces, Aks!upsertAKS
<1>9. CASE Aks!WaitForClusterOperation("wait", "client")
  BY <1>9 DEF Aks!WaitForClusterOperation, Aks!WaitFor
<1>10. CASE Aks!GetAKSAdminClient
  BY <1>10 DEF Aks!GetAKSAdminClient
<1>11. CASE Aks!ApplyCreate("ready", Aks!Up("aks") # {}, "scale")
  BY <1>11 DEF Clusters, Aks!ApplyCreate
<1>12. CASE Aks!ApplyScale
  BY <1>12 DEF Aks!ApplyScale, Aks!Done
<1>13. CASE Aks!ApplyDelete("daks")
  BY <1>13 DEF Clusters, Aks!ApplyDelete, Aks!StartDelete
<1>14. CASE Aks!deleteAKS
  <2>1. CASE ~There(cloud, "rg")
    BY <1>14, <2>1 DEF Aks!deleteAKS, Aks!Mark
  <2>2. CASE There(cloud, "rg")
    <3>1. cloud' = Marking(cloud, "aks", "deleting")
      BY <1>14, <2>2 DEF Aks!deleteAKS, Aks!Mark, Aks!Marked, Aks!Only, Aks!All, Of, Marking
    <3>2. Marks(cloud, cloud', "aks", "deleting")
      BY <1>0, <3>1, CloudMark DEF AllMarks
    <3> QED
      BY <1>14, <2>2, <3>2 DEF Marks, Aks!deleteAKS, Aks!Mark
  <2> QED
    BY <2>1, <2>2
<1>15. CASE Aks!deleteResourceGroup
  <2>1. CASE ~There(cloud, "rg")
    BY <1>15, <2>1 DEF Aks!deleteResourceGroup, Aks!Mark
  <2>2. CASE There(cloud, "rg")
    <3>1. cloud' = Marking(cloud, "rg", "deleting")
      BY <1>15, <2>2 DEF Aks!deleteResourceGroup, Aks!Mark, Aks!Marked, Aks!Only, Aks!All, Of,
         Marking
    <3>2. Marks(cloud, cloud', "rg", "deleting")
      BY <1>0, <3>1, CloudMark DEF AllMarks
    <3> QED
      BY <1>15, <2>2, <3>2 DEF Marks, Aks!deleteResourceGroup, Aks!Mark
  <2> QED
    BY <2>1, <2>2
<1>16. CASE Aks!Deleted
  BY <1>16 DEF Clusters, Aks!Deleted, Aks!Finish
<1>17. CASE Aks!Provision({"aks"})
  <2>1. PICK k \in {"aks"}, m \in {"done", "failed"} : Marks(cloud, cloud', k, m)
    BY <1>0, <1>17, AksProvision
  <2> QED
    BY <1>17, <2>1 DEF Marks, Aks!Provision
<1>18. CASE Aks!Withdraw(Aks!Going("aks"))
  <2>1. Drops(cloud, cloud', {"aks"})
    BY <1>0, <1>18, AksWithdraw
  <2> QED
    BY <1>18, <2>1 DEF Drops, Aks!Withdraw
<1>19. CASE Aks!Withdraw(IF Aks!Going("rg") = {} THEN {} ELSE cloud)
  <2>1. cloud' = Dropping(cloud, {"rg", "aks"})
    BY <1>19 DEF Aks!Withdraw, Dropping, Within
  <2>2. Drops(cloud, cloud', {"rg", "aks"})
    BY <1>0, <2>1, CloudDrop
  <2> QED
    BY <1>19, <2>2 DEF Drops, Aks!Withdraw
<1> QED
  BY <1>1, <1>2, <1>3, <1>4, <1>5, <1>6, <1>7, <1>8, <1>9, <1>10, <1>11, <1>12, <1>13,
     <1>14, <1>15, <1>16, <1>17, <1>18, <1>19
  DEF Aks!Next, Aks!Step, Aks!Prepare, Aks!PrepareCloud, Aks!Environment

-----------------------------------------------------------------------------
(* DigitalOcean Kubernetes *)

\* What the calls do to a cloud of DigitalOcean.
TagMade(c, i)  == c \cup {[kind |-> "tag", id |-> i, in |-> 0, has |-> {}]}
TagGone(c, i)  == c \ {r \in {q \in c : q.kind \in {"tag"}} : r.id = i}
DoksMade(c, i) == c \cup {[kind |-> "doks", id |-> i, in |-> 0, has |-> {}]}
DoksMarked(c, ids, mark) ==
    LET S == {r \in c : r.kind = "doks" /\ r.id \in ids}
    IN (c \ S) \cup {[r EXCEPT !.has = @ \cup {mark}] : r \in S}
DoksGone(c) == c \ {r \in c : r.kind = "doks" /\ "deleting" \in r.has}

\* The same, as seen by look-ups.
DoksSame(c, d) ==
    /\ \A j : Doks(d, j) <=> Doks(c, j)
    /\ \A j, m : DoksHas(d, j, m) <=> DoksHas(c, j, m)
    /\ DoksCount(d) = DoksCount(c) /\ DoksSound(d)
DoksMakes(c, d, i) ==
    /\ \A j : Doks(d, j) <=> Doks(c, j) \/ j = i
    /\ \A j, m : DoksHas(d, j, m) <=> DoksHas(c, j, m)
    /\ DoksCount(c) \in Nat /\ DoksCount(d) = DoksCount(c) + 1 /\ DoksSound(d)
DoksMarks(c, d, ids, mark) ==
    /\ \A j : Doks(d, j) <=> Doks(c, j)
    /\ \A j, m : DoksHas(d, j, m) <=> DoksHas(c, j, m) \/ (m = mark /\ j \in ids /\ Doks(c, j))
    /\ DoksCount(c) \in Nat /\ DoksCount(d) = DoksCount(c) /\ DoksSound(d)
DoksDrops(c, d) ==
    /\ \A j : Doks(d, j) <=> Doks(c, j) /\ ~DoksHas(c, j, "deleting")
    /\ \A j, m : DoksHas(d, j, m) <=> DoksHas(c, j, m) /\ ~DoksHas(c, j, "deleting")
    /\ DoksCount(c) \in Nat /\ DoksCount(d) \in Nat /\ DoksCount(d) <= DoksCount(c)
    /\ DoksSound(d)

\* The ids are finitely many: the count is a number.
LEMMA DoksFinite == \A c : IsFiniteSet(DoksIds(c)) /\ DoksCount(c) \in Nat
<1>1. IsFiniteSet(1..MaxTwins)
  BY FS_Interval, ProviderBounds
<1> QED
  BY <1>1, FS_Subset, FS_CardinalityType DEF DoksIds, DoksCount

\* A mark is on a cluster that is there.
LEMMA DoksSeen == \A c, i, m : DoksHas(c, i, m) => Doks(c, i)
BY DEF Doks, DoksHas

\* The same ids are as many.
LEMMA DoksEqual ==
    ASSUME NEW c, NEW d, \A j : Doks(d, j) <=> Doks(c, j)
    PROVE  DoksCount(d) = DoksCount(c)
<1>1. DoksIds(d) = DoksIds(c)
  BY DEF DoksIds
<1> QED
  BY <1>1 DEF DoksCount

\* The tag of the credential check leaves the clusters alone.
LEMMA DoksTag ==
    ASSUME NEW c, DoksSound(c), NEW i \in 1..MaxTwins
    PROVE  DoksSame(c, TagMade(c, i))
<1> DEFINE t == [kind |-> "tag", id |-> i, in |-> 0, has |-> {}]
           d == TagMade(c, i)
<1>1. t \in Resources /\ t.kind = "tag" /\ t.id = i
  BY DEF Resources, AllKinds
<1>2. d = c \cup {t}
  BY DEF TagMade
<1> HIDE DEF t, d
<1>3. /\ \A j : Doks(d, j) <=> Doks(c, j)
      /\ \A j, m : DoksHas(d, j, m) <=> DoksHas(c, j, m)
  BY <1>1, <1>2 DEF Doks, DoksHas
<1>4. DoksSound(d)
  BY <1>1, <1>2 DEF DoksSound
<1>5. DoksSame(c, d)
  BY <1>3, <1>4, DoksEqual DEF DoksSame
<1> QED
  BY <1>5 DEF d

\* The tag goes again.
LEMMA DoksUntag ==
    ASSUME NEW c, DoksSound(c), NEW i
    PROVE  DoksSame(c, TagGone(c, i))
<1> DEFINE d == TagGone(c, i)
<1>1. d \subseteq c /\ \A r \in c : r \notin d => r.kind = "tag"
  BY DEF TagGone
<1> HIDE DEF d
<1>2. /\ \A j : Doks(d, j) <=> Doks(c, j)
      /\ \A j, m : DoksHas(d, j, m) <=> DoksHas(c, j, m)
  BY <1>1 DEF Doks, DoksHas
<1>3. DoksSound(d)
  BY <1>1 DEF DoksSound
<1>4. DoksSame(c, d)
  BY <1>2, <1>3, DoksEqual DEF DoksSame
<1> QED
  BY <1>4 DEF d

\* One more cluster.
LEMMA DoksMake ==
    ASSUME NEW c, DoksSound(c), NEW i \in 1..MaxTwins, ~Doks(c, i)
    PROVE  DoksMakes(c, DoksMade(c, i), i)
<1> DEFINE t == [kind |-> "doks", id |-> i, in |-> 0, has |-> {}]
           d == DoksMade(c, i)
<1>1. t \in Resources /\ t.kind = "doks" /\ t.id = i /\ t.has = {}
  BY DEF Resources, AllKinds
<1>2. d = c \cup {t}
  BY DEF DoksMade
<1> HIDE DEF t, d
<1>3. /\ \A j : Doks(d, j) <=> Doks(c, j) \/ j = i
      /\ \A j, m : DoksHas(d, j, m) <=> DoksHas(c, j, m)
  BY <1>1, <1>2 DEF Doks, DoksHas
<1>4. DoksSound(d)
  BY <1>1, <1>2 DEF DoksSound, Doks
<1>5. DoksIds(d) = DoksIds(c) \cup {i} /\ i \notin DoksIds(c)
  BY <1>3 DEF DoksIds
<1>6. DoksCount(c) \in Nat /\ DoksCount(d) = DoksCount(c) + 1
  BY <1>5, DoksFinite, FS_AddElement DEF DoksCount
<1>7. DoksMakes(c, d, i)
  BY <1>3, <1>4, <1>6 DEF DoksMakes
<1> QED
  BY <1>7 DEF d

\* Clusters are marked.
LEMMA DoksMark ==
    ASSUME NEW c, DoksSound(c), NEW ids, NEW mark \in AllMarks
    PROVE  DoksMarks(c, DoksMarked(c, ids, mark), ids, mark)
<1> DEFINE f(r) == [r EXCEPT !.has = @ \cup {mark}]
           S == {r \in c : r.kind = "doks" /\ r.id \in ids}
           d == DoksMarked(c, ids, mark)
<1>1. \A r \in c : /\ f(r) \in Resources /\ f(r).kind = r.kind /\ f(r).id = r.id
                   /\ f(r).has = r.has \cup {mark}
  BY DEF DoksSound, Resources
<1>2. d = (c \ S) \cup {f(r) : r \in S}
  BY DEF DoksMarked
<1>3. \A r : r \in S <=> r \in c /\ r.kind = "doks" /\ r.id \in ids
  OBVIOUS
<1> HIDE DEF f, S, d
<1>4. \A r \in d : \/ r \in c /\ r \notin S
                   \/ \E q \in S : r = f(q)
  BY <1>2
<1>5. \A q \in c : IF q \in S THEN f(q) \in d ELSE q \in d
  BY <1>2
<1>6. \A j : Doks(d, j) <=> Doks(c, j)
  BY <1>1, <1>3, <1>4, <1>5 DEF Doks
<1>7. \A j, m : DoksHas(d, j, m) <=> DoksHas(c, j, m) \/ (m = mark /\ j \in ids /\ Doks(c, j))
  <2>1. ASSUME NEW j, NEW m, DoksHas(d, j, m)
        PROVE  DoksHas(c, j, m) \/ (m = mark /\ j \in ids /\ Doks(c, j))
    BY <1>1, <1>3, <1>4, <2>1 DEF Doks, DoksHas
  <2>2. ASSUME NEW j, NEW m, DoksHas(c, j, m) PROVE DoksHas(d, j, m)
    BY <1>1, <1>3, <1>5, <2>2 DEF DoksHas
  <2>3. ASSUME NEW j, j \in ids, Doks(c, j) PROVE DoksHas(d, j, mark)
    BY <1>1, <1>3, <1>5, <2>3 DEF Doks, DoksHas
  <2> QED
    BY <2>1, <2>2, <2>3
<1>8. DoksSound(d)
  <2>1. d \subseteq Resources /\ \A r \in d : r.kind \in {"tag", "doks"} /\ r.id \in 1..MaxTwins
    BY <1>1, <1>3, <1>4 DEF DoksSound
  <2>2. ASSUME NEW r \in d, NEW q \in d, r.kind = "doks", q.kind = "doks", r.id = q.id
        PROVE  r = q
    <3>1. PICK x \in c : x.kind = "doks" /\ x.id = r.id /\ r = (IF x \in S THEN f(x) ELSE x)
      BY <1>1, <1>3, <1>4, <2>2
    <3>2. PICK y \in c : y.kind = "doks" /\ y.id = q.id /\ q = (IF y \in S THEN f(y) ELSE y)
      BY <1>1, <1>3, <1>4, <2>2
    <3>3. x = y
      BY <2>2, <3>1, <3>2 DEF DoksSound
    <3> QED
      BY <3>1, <3>2, <3>3
  <2> QED
    BY <2>1, <2>2 DEF DoksSound
<1>9. DoksMarks(c, d, ids, mark)
  BY <1>6, <1>7, <1>8, DoksEqual, DoksFinite DEF DoksMarks
<1> QED
  BY <1>9 DEF d

\* The clusters that were being deleted are gone.
LEMMA DoksDrop ==
    ASSUME NEW c, DoksSound(c)
    PROVE  DoksDrops(c, DoksGone(c))
<1> DEFINE d == DoksGone(c)
<1>1. \A r : r \in d <=> r \in c /\ ~(r.kind = "doks" /\ "deleting" \in r.has)
  BY DEF DoksGone
<1> HIDE DEF d
<1>2. \A j : Doks(d, j) <=> Doks(c, j) /\ ~DoksHas(c, j, "deleting")
  BY <1>1 DEF DoksSound, Doks, DoksHas
<1>3. \A j, m : DoksHas(d, j, m) <=> DoksHas(c, j, m) /\ ~DoksHas(c, j, "deleting")
  BY <1>1 DEF DoksSound, DoksHas
<1>4. DoksSound(d)
  BY <1>1 DEF DoksSound
<1>5. DoksIds(d) \subseteq DoksIds(c)
  BY <1>2 DEF DoksIds
<1>6. DoksCount(d) <= DoksCount(c)
  BY <1>5, DoksFinite, FS_Subset DEF DoksCount
<1>7. DoksDrops(c, d)
  BY <1>2, <1>3, <1>4, <1>6, DoksFinite DEF DoksDrops
<1> QED
  BY <1>7 DEF d

\* The command's copy when it has returned.
LEMMA DokubeNew == \A ids : Dokube!NewCluster \in Clusters(ids)
<1>1. \A ids : {} \in SUBSET ids /\ FALSE \in BOOLEAN /\ "Pending" \in Phases
  BY DEF Phases
<1> QED
  BY <1>1 DEF Dokube!NewCluster, Dokube!Cluster, Clusters

\* What the command sees of the cloud.
LEMMA DokubeReads ==
    \A k : /\ Dokube!Only(k) = {} <=> ~There(cloud, k)
           /\ Dokube!Up(k) = {} <=> ~Has(cloud, k, "done")
           /\ Dokube!Going(k) = {} <=> ~Has(cloud, k, "deleting")
BY DEF Dokube!Only, Dokube!Up, Dokube!Going, Dokube!With, Dokube!All, There, Has

\* A creating call finds an id, or fails.
LEMMA DokubeFresh ==
    ASSUME NEW k, Dokube!FreshIds(k) # {}
    PROVE  Dokube!FreshId(k) \in Dokube!FreshIds(k) /\ Dokube!FreshId(k) \in 1..MaxTwins
<1>0. Dokube!FreshIds(k) \subseteq Nat
  BY ProviderBounds DEF Dokube!FreshIds
<1>1. \E i \in Dokube!FreshIds(k) : \A j \in Dokube!FreshIds(k) : i <= j
  BY <1>0, Least
<1>2. Dokube!FreshId(k) \in Dokube!FreshIds(k)
  BY <1>1 DEF Dokube!FreshId
<1> QED
  BY <1>2 DEF Dokube!FreshIds

\* Every step keeps the invariant.
LEMMA DokubeStep ==
    ASSUME DokubeInv, Dokube!Next
    PROVE  DokubeInv'
<1> USE DokubeNew
    DEF DokubeInv, StoreTypes, DokubeSteps, DokubeMade, DokubePrepare, DokubeScale, DokubeDelete,
        DokubeKnown, DokubePaid, DokubeGone, DokubeAlive, Phases,
        Dokube!Check, Dokube!Decide, Dokube!Continue, Dokube!Return, Dokube!store, Dokube!vars
<1>0. DoksSound(cloud)
  OBVIOUS
<1>a. DoksCount(cloud) \in Nat
  BY DoksFinite
<1>1. CASE Dokube!runApplyCmd
  BY <1>1 DEF Dokube!runApplyCmd, Dokube!Apply
<1>2. CASE Dokube!deleteCluster
  <2>1. StoreTypes(1..MaxTwins)'
    BY <1>a, <1>2 DEF Clusters, Dokube!deleteCluster, Dokube!DeleteCluster
  <2>2. DokubeSteps' /\ DoksSound(cloud)'
    BY <1>a, <1>2 DEF Clusters, Dokube!deleteCluster, Dokube!DeleteCluster
  <2>3. DokubeKnown'
    BY <1>a, <1>2 DEF Clusters, Dokube!deleteCluster, Dokube!DeleteCluster
  <2>4. DokubePaid'
    BY <1>a, <1>2 DEF Clusters, Dokube!deleteCluster, Dokube!DeleteCluster
  <2>5. DokubeGone'
    BY <1>a, <1>2 DEF Clusters, Dokube!deleteCluster, Dokube!DeleteCluster
  <2>6. DokubeAlive'
    BY <1>a, <1>2 DEF Clusters, Dokube!deleteCluster, Dokube!DeleteCluster
  <2> QED
    BY <2>1, <2>2, <2>3, <2>4, <2>5, <2>6
<1>3. CASE Dokube!DeleteMachineSet
  BY <1>3 DEF Dokube!DeleteMachineSet
<1>4. CASE Dokube!Kill
  <2>1. StoreTypes(1..MaxTwins)'
    BY <1>a, <1>4 DEF Dokube!Kill, Dokube!Abort
  <2>2. DokubeSteps' /\ DoksSound(cloud)'
    BY <1>a, <1>4 DEF Dokube!Kill, Dokube!Abort
  <2>3. DokubeKnown'
    BY <1>a, <1>4 DEF Dokube!Kill, Dokube!Abort
  <2>4. DokubePaid'
    BY <1>a, <1>4 DEF Dokube!Kill, Dokube!Abort
  <2>5. DokubeGone'
    BY <1>a, <1>4 DEF Dokube!Kill, Dokube!Abort
  <2>6. DokubeAlive'
    BY <1>a, <1>4 DEF Dokube!Kill, Dokube!Abort
  <2> QED
    BY <2>1, <2>2, <2>3, <2>4, <2>5, <2>6
<1>5. CASE Dokube!Make("connect", TRUE, "tag", 0, {}, "untag") /\ UNCHANGED Dokube!store
  <2>1. CASE cloud' = cloud /\ Dokube!Return
    BY <1>5, <2>1 DEF Dokube!Make
  <2>2. CASE Dokube!FreshIds("tag") # {} /\ cloud' = TagMade(cloud, Dokube!FreshId("tag"))
    <3>1. DoksSame(cloud, cloud')
      BY <1>0, <2>2, DokubeFresh, DoksTag
    <3> QED
      BY <1>5, <2>2, <3>1 DEF DoksSame, Dokube!Make
  <2> QED
    BY <1>5, <2>1, <2>2 DEF TagMade, Dokube!Make, Dokube!Resource
<1>6. CASE Dokube!Remove("untag", TRUE, Dokube!Current("tag"), "connected") /\ UNCHANGED Dokube!store
  <2>1. cloud' = TagGone(cloud, cur)
    BY <1>6 DEF TagGone, Dokube!Remove, Dokube!Current, Dokube!Only, Dokube!All
  <2>2. DoksSame(cloud, cloud')
    BY <1>0, <2>1, DoksUntag
  <2> QED
    BY <1>6, <2>2 DEF DoksSame, Dokube!Remove
<1>7. CASE Dokube!Check("connected", TRUE, IF mem.phase = "Pending" THEN "known" ELSE "dsets")
            /\ UNCHANGED Dokube!store
  BY <1>7
<1>8. CASE Dokube!clusterKnown
  BY <1>8 DEF Dokube!clusterKnown
<1>9. CASE Dokube!Make("make", TRUE, "doks", 0, {}, "wait") /\ UNCHANGED Dokube!store
  <2>1. CASE cloud' = cloud /\ Dokube!Return
    BY <1>9, <2>1 DEF Dokube!Make
  <2>2. CASE Dokube!FreshIds("doks") # {} /\ cloud' = DoksMade(cloud, Dokube!FreshId("doks"))
    <3>1. Dokube!FreshId("doks") \in 1..MaxTwins /\ ~Doks(cloud, Dokube!FreshId("doks"))
      BY <2>2, DokubeFresh DEF Doks, Dokube!FreshIds, Dokube!Only, Dokube!All
    <3>2. DoksMakes(cloud, cloud', cur') /\ cur' = Dokube!FreshId("doks")
      BY <1>0, <1>9, <2>2, <3>1, DoksMake DEF Dokube!Make
    <3>3. StoreTypes(1..MaxTwins)'
      BY <1>a, <1>9, <2>2, <3>1, <3>2, DoksSeen DEF DoksMakes, Dokube!Make
    <3>4. DokubeSteps' /\ DoksSound(cloud)'
      BY <1>a, <1>9, <2>2, <3>1, <3>2, DoksSeen DEF DoksMakes, Dokube!Make
    <3>5. DokubeKnown'
      BY <1>a, <1>9, <2>2, <3>1, <3>2, DoksSeen DEF DoksMakes, Dokube!Make
    <3>6. DokubePaid'
      BY <1>a, <1>9, <2>2, <3>1, <3>2, DoksSeen DEF DoksMakes, Dokube!Make
    <3>7. DokubeGone'
      BY <1>a, <1>9, <2>2, <3>1, <3>2, DoksSeen DEF DoksMakes, Dokube!Make
    <3>8. DokubeAlive'
      BY <1>a, <1>9, <2>2, <3>1, <3>2, DoksSeen DEF DoksMakes, Dokube!Make
    <3> QED
      BY <3>3, <3>4, <3>5, <3>6, <3>7, <3>8
  <2> QED
    BY <1>9, <2>1, <2>2 DEF DoksMade, Dokube!Make, Dokube!Resource
<1>10. CASE Dokube!Check("make", FALSE, "wait") /\ UNCHANGED Dokube!store
  BY <1>10
<1>11. CASE Dokube!waitForClusterCreation
  <2>1. Doks(cloud, cur) => DoksHas(cloud, cur, "done") \/ DoksHas(cloud, cur, "failed")
    BY <1>11 DEF Doks, DoksHas, Dokube!waitForClusterCreation, Dokube!Current, Dokube!Only,
       Dokube!All
  <2>2. StoreTypes(1..MaxTwins)'
    BY <1>a, <1>11, <2>1 DEF Dokube!waitForClusterCreation
  <2>3. DokubeSteps' /\ DoksSound(cloud)'
    BY <1>a, <1>11, <2>1 DEF Dokube!waitForClusterCreation
  <2>4. DokubeKnown'
    BY <1>a, <1>11, <2>1 DEF Dokube!waitForClusterCreation
  <2>5. DokubePaid'
    BY <1>a, <1>11, <2>1 DEF Dokube!waitForClusterCreation
  <2>6. DokubeGone'
    BY <1>a, <1>11, <2>1 DEF Dokube!waitForClusterCreation
  <2>7. DokubeAlive'
    BY <1>a, <1>11, <2>1 DEF Dokube!waitForClusterCreation
  <2> QED
    BY <2>2, <2>3, <2>4, <2>5, <2>6, <2>7
<1>12. CASE Dokube!retrieveClusterStatus
  <2>1. (\E r \in Dokube!Current("doks") : "done" \in r.has) <=> DoksHas(cloud, cur, "done")
    BY DEF DoksHas, Dokube!Current, Dokube!Only, Dokube!All
  <2>2. cur \in 1..MaxTwins
    BY <1>12 DEF Doks, DoksSound, Dokube!retrieveClusterStatus
  <2>3. mem' = [mem EXCEPT !.ids = {cur}, !.endp = \E r \in Dokube!Current("doks") : "done" \in r.has]
    BY <1>12 DEF Dokube!retrieveClusterStatus
  <2>4. (\E r \in Dokube!Current("doks") : "done" \in r.has) \in BOOLEAN
    OBVIOUS
  <2>5. /\ mem' \in Clusters(1..MaxTwins) /\ mem'.phase = mem.phase /\ mem'.del = mem.del
        /\ mem'.ids = {cur} /\ (mem'.endp <=> DoksHas(cloud, cur, "done"))
    BY <2>1, <2>2, <2>3, <2>4 DEF Clusters
  <2>6. StoreTypes(1..MaxTwins)'
    BY <1>a, <1>12, <2>5 DEF Dokube!retrieveClusterStatus
  <2>7. DokubeSteps' /\ DoksSound(cloud)'
    BY <1>a, <1>12, <2>5 DEF Dokube!retrieveClusterStatus
  <2>8. DokubeKnown'
    BY <1>a, <1>12, <2>5 DEF Dokube!retrieveClusterStatus
  <2>9. DokubePaid'
    BY <1>a, <1>12, <2>5 DEF Dokube!retrieveClusterStatus
  <2>10. DokubeGone'
    BY <1>a, <1>12, <2>5 DEF Dokube!retrieveClusterStatus
  <2>11. DokubeAlive'
    BY <1>a, <1>12, <2>5 DEF Dokube!retrieveClusterStatus
  <2> QED
    BY <2>6, <2>7, <2>8, <2>9, <2>10, <2>11
<1>13. CASE Dokube!getKubeConfigYAML
  <2>1. StoreTypes(1..MaxTwins)'
    BY <1>a, <1>13 DEF Dokube!getKubeConfigYAML
  <2>2. DokubeSteps' /\ DoksSound(cloud)'
    BY <1>a, <1>13 DEF Dokube!getKubeConfigYAML
  <2>3. DokubeKnown'
    BY <1>a, <1>13 DEF Dokube!getKubeConfigYAML
  <2>4. DokubePaid'
    BY <1>a, <1>13 DEF Dokube!getKubeConfigYAML
  <2>5. DokubeGone'
    BY <1>a, <1>13 DEF Dokube!getKubeConfigYAML
  <2>6. DokubeAlive'
    BY <1>a, <1>13 DEF Dokube!getKubeConfigYAML
  <2> QED
    BY <2>1, <2>2, <2>3, <2>4, <2>5, <2>6
<1>14. CASE Dokube!StoreCertificate("save")
  <2>1. pki' \subseteq {"ca", "cloud", "admin"} /\ mem' \in Clusters(1..MaxTwins)
           /\ UNCHANGED <<ng, db, torn, sets, aborts, lost>>
    BY <1>14 DEF Dokube!StoreCertificate
  <2>2. StoreTypes(1..MaxTwins)'
    BY <1>a, <1>14, <2>1 DEF Dokube!StoreCertificate
  <2>3. DokubeSteps' /\ DoksSound(cloud)'
    BY <1>a, <1>14, <2>1 DEF Dokube!StoreCertificate
  <2>4. DokubeKnown'
    BY <1>a, <1>14, <2>1 DEF Dokube!StoreCertificate
  <2>5. DokubePaid'
    BY <1>a, <1>14, <2>1 DEF Dokube!StoreCertificate
  <2>6. DokubeGone'
    BY <1>a, <1>14, <2>1 DEF Dokube!StoreCertificate
  <2>7. DokubeAlive'
    BY <1>a, <1>14, <2>1 DEF Dokube!StoreCertificate
  <2> QED
    BY <2>2, <2>3, <2>4, <2>5, <2>6, <2>7
<1>15. CASE Dokube!PrepareCloud
  <2>1. StoreTypes(1..MaxTwins)'
    BY <1>a, <1>15 DEF Clusters, Dokube!PrepareCloud, Dokube!Save
  <2>2. DokubeSteps' /\ DoksSound(cloud)'
    BY <1>a, <1>15 DEF Clusters, Dokube!PrepareCloud, Dokube!Save
  <2>3. DokubeKnown'
    BY <1>a, <1>15 DEF Clusters, Dokube!PrepareCloud, Dokube!Save
  <2>4. DokubePaid'
    BY <1>a, <1>15 DEF Clusters, Dokube!PrepareCloud, Dokube!Save
  <2>5. DokubeGone'
    BY <1>a, <1>15 DEF Clusters, Dokube!PrepareCloud, Dokube!Save
  <2>6. DokubeAlive'
    BY <1>a, <1>15 DEF Clusters, Dokube!PrepareCloud, Dokube!Save
  <2> QED
    BY <2>1, <2>2, <2>3, <2>4, <2>5, <2>6
<1>16. CASE Dokube!NewDokubeAdminClient
  BY <1>16 DEF Dokube!NewDokubeAdminClient
<1>17. CASE Dokube!ApplyCreate("ready", Dokube!Reachable(mem), "scale")
  <2>1. Dokube!Reachable(mem) =>
           {"cloud", "admin"} \subseteq pki /\ \E i \in mem.ids : DoksHas(cloud, i, "done")
    BY DEF DoksHas, Dokube!Reachable, Dokube!Known, Dokube!Only, Dokube!All
  <2>2. StoreTypes(1..MaxTwins)'
    BY <1>a, <1>17, <2>1 DEF Clusters, Dokube!ApplyCreate
  <2>3. DokubeSteps' /\ DoksSound(cloud)'
    BY <1>a, <1>17, <2>1 DEF Clusters, Dokube!ApplyCreate
  <2>4. DokubeKnown'
    BY <1>a, <1>17, <2>1 DEF Clusters, Dokube!ApplyCreate
  <2>5. DokubePaid'
    BY <1>a, <1>17, <2>1 DEF Clusters, Dokube!ApplyCreate
  <2>6. DokubeGone'
    BY <1>a, <1>17, <2>1 DEF Clusters, Dokube!ApplyCreate
  <2>7. DokubeAlive'
    BY <1>a, <1>17, <2>1 DEF Clusters, Dokube!ApplyCreate
  <2> QED
    BY <2>2, <2>3, <2>4, <2>5, <2>6, <2>7
<1>18. CASE Dokube!Check("scale", TRUE, IF ng = "none" THEN "scaled" ELSE "ng") /\ UNCHANGED Dokube!store
  BY <1>18
<1>19. CASE Dokube!Update("scaled", "end")
  <2>1. StoreTypes(1..MaxTwins)'
    BY <1>a, <1>19 DEF Clusters, Dokube!Update, Dokube!Save
  <2>2. DokubeSteps' /\ DoksSound(cloud)'
    BY <1>a, <1>19 DEF Clusters, Dokube!Update, Dokube!Save
  <2>3. DokubeKnown'
    BY <1>a, <1>19 DEF Clusters, Dokube!Update, Dokube!Save
  <2>4. DokubePaid'
    BY <1>a, <1>19 DEF Clusters, Dokube!Update, Dokube!Save
  <2>5. DokubeGone'
    BY <1>a, <1>19 DEF Clusters, Dokube!Update, Dokube!Save
  <2>6. DokubeAlive'
    BY <1>a, <1>19 DEF Clusters, Dokube!Update, Dokube!Save
  <2> QED
    BY <2>1, <2>2, <2>3, <2>4, <2>5, <2>6
<1>20. CASE Dokube!Done("end")
  BY <1>20 DEF Dokube!Done
<1>21. CASE Dokube!getNodePool
  BY <1>21 DEF Dokube!getNodePool
<1>22. CASE Dokube!adjustNodePool
  BY <1>22 DEF Dokube!adjustNodePool
<1>23. CASE Dokube!deleteNodePool
  <2>1. cloud' = DoksMarked(cloud, mem.ids, "nopool")
    BY <1>23 DEF DoksMarked, Dokube!deleteNodePool, Dokube!Mark, Dokube!Marked, Dokube!Known,
       Dokube!Only, Dokube!All
  <2>2. DoksMarks(cloud, cloud', mem.ids, "nopool")
    BY <1>0, <2>1, DoksMark DEF AllMarks
  <2>3. StoreTypes(1..MaxTwins)'
    BY <1>a, <1>23, <2>2 DEF DoksMarks, Dokube!deleteNodePool, Dokube!Mark
  <2>4. DokubeSteps' /\ DoksSound(cloud)'
    BY <1>a, <1>23, <2>2 DEF DoksMarks, Dokube!deleteNodePool, Dokube!Mark
  <2>5. DokubeKnown'
    BY <1>a, <1>23, <2>2 DEF DoksMarks, Dokube!deleteNodePool, Dokube!Mark
  <2>6. DokubePaid'
    BY <1>a, <1>23, <2>2 DEF DoksMarks, Dokube!deleteNodePool, Dokube!Mark
  <2>7. DokubeGone'
    BY <1>a, <1>23, <2>2 DEF DoksMarks, Dokube!deleteNodePool, Dokube!Mark
  <2>8. DokubeAlive'
    BY <1>a, <1>23, <2>2 DEF DoksMarks, Dokube!deleteNodePool, Dokube!Mark
  <2> QED
    BY <2>3, <2>4, <2>5, <2>6, <2>7, <2>8
<1>24. CASE Dokube!Forget("ngForget", "ngStatus")
  BY <1>24 DEF Dokube!Forget
<1>25. CASE Dokube!UpdateStatus("ngStatus", "scaled")
  BY <1>25 DEF Dokube!UpdateStatus
<1>26. CASE Dokube!ApplyDelete("ddoks")
  <2>1. StoreTypes(1..MaxTwins)'
    BY <1>a, <1>26 DEF Clusters, Dokube!ApplyDelete, Dokube!StartDelete
  <2>2. DokubeSteps' /\ DoksSound(cloud)'
    BY <1>a, <1>26 DEF Clusters, Dokube!ApplyDelete, Dokube!StartDelete
  <2>3. DokubeKnown'
    BY <1>a, <1>26 DEF Clusters, Dokube!ApplyDelete, Dokube!StartDelete
  <2>4. DokubePaid'
    BY <1>a, <1>26 DEF Clusters, Dokube!ApplyDelete, Dokube!StartDelete
  <2>5. DokubeGone'
    BY <1>a, <1>26 DEF Clusters, Dokube!ApplyDelete, Dokube!StartDelete
  <2>6. DokubeAlive'
    BY <1>a, <1>26 DEF Clusters, Dokube!ApplyDelete, Dokube!StartDelete
  <2> QED
    BY <2>1, <2>2, <2>3, <2>4, <2>5, <2>6
<1>27. CASE Dokube!requestDelete
  <2>1. CASE cloud' = cloud /\ Dokube!Return
    BY <1>27, <2>1 DEF Dokube!requestDelete, Dokube!Mark
  <2>2. CASE cloud' = Dokube!Marked(Dokube!Known(mem), {"deleting"}) /\ Dokube!Continue("dend")
    <3>1. cloud' = DoksMarked(cloud, mem.ids, "deleting")
      BY <2>2 DEF DoksMarked, Dokube!Marked, Dokube!Known, Dokube!Only, Dokube!All
    <3>2. DoksMarks(cloud, cloud', mem.ids, "deleting")
      BY <1>0, <3>1, DoksMark DEF AllMarks
    <3>3. StoreTypes(1..MaxTwins)'
      BY <1>a, <1>27, <2>2, <3>2 DEF DoksMarks, Dokube!requestDelete, Dokube!Mark
    <3>4. DokubeSteps' /\ DoksSound(cloud)'
      BY <1>a, <1>27, <2>2, <3>2 DEF DoksMarks, Dokube!requestDelete, Dokube!Mark
    <3>5. DokubeKnown'
      BY <1>a, <1>27, <2>2, <3>2 DEF DoksMarks, Dokube!requestDelete, Dokube!Mark
    <3>6. DokubePaid'
      BY <1>a, <1>27, <2>2, <3>2 DEF DoksMarks, Dokube!requestDelete, Dokube!Mark
    <3>7. DokubeGone'
      BY <1>a, <1>27, <2>2, <3>2 DEF DoksMarks, Dokube!requestDelete, Dokube!Mark
    <3>8. DokubeAlive'
      BY <1>a, <1>27, <2>2, <3>2 DEF DoksMarks, Dokube!requestDelete, Dokube!Mark
    <3> QED
      BY <3>3, <3>4, <3>5, <3>6, <3>7, <3>8
  <2> QED
    BY <1>27, <2>1, <2>2 DEF Dokube!requestDelete, Dokube!Mark
<1>28. CASE Dokube!Deleted
  <2>1. StoreTypes(1..MaxTwins)'
    BY <1>a, <1>28 DEF Clusters, Dokube!Deleted, Dokube!Finish
  <2>2. DokubeSteps' /\ DoksSound(cloud)'
    BY <1>a, <1>28 DEF Clusters, Dokube!Deleted, Dokube!Finish
  <2>3. DokubeKnown'
    BY <1>a, <1>28 DEF Clusters, Dokube!Deleted, Dokube!Finish
  <2>4. DokubePaid'
    BY <1>a, <1>28 DEF Clusters, Dokube!Deleted, Dokube!Finish
  <2>5. DokubeGone'
    BY <1>a, <1>28 DEF Clusters, Dokube!Deleted, Dokube!Finish
  <2>6. DokubeAlive'
    BY <1>a, <1>28 DEF Clusters, Dokube!Deleted, Dokube!Finish
  <2> QED
    BY <2>1, <2>2, <2>3, <2>4, <2>5, <2>6
<1>29. CASE Dokube!Provision({"doks"})
  <2>1. PICK r \in cloud, m \in {"done", "failed"} :
            /\ r.kind = "doks" /\ r.has \cap {"done", "failed", "deleting"} = {}
            /\ cloud' = Dokube!Marked({r}, {m})
            /\ IF m = "failed" THEN aborts' = aborts + 1 ELSE aborts' = aborts
    BY <1>29 DEF Dokube!Provision, Dokube!All
  <2>2. {r} = {q \in cloud : q.kind = "doks" /\ q.id \in {r.id}}
    BY <1>0, <2>1 DEF DoksSound
  <2>3. cloud' = DoksMarked(cloud, {r.id}, m)
    BY <2>1, <2>2 DEF DoksMarked, Dokube!Marked
  <2>4. DoksMarks(cloud, cloud', {r.id}, m)
    BY <1>0, <2>3, DoksMark DEF AllMarks
  <2>5. ~DoksHas(cloud, r.id, "done") /\ ~DoksHas(cloud, r.id, "failed")
    BY <1>0, <2>1 DEF DoksHas, DoksSound
  <2>6. UNCHANGED <<pc, db, mem, net, cur, sets, torn, lost, ng, pki>>
    BY <1>29 DEF Dokube!Provision
  <2>7. StoreTypes(1..MaxTwins)'
    BY <1>a, <2>1, <2>4, <2>5, <2>6 DEF DoksMarks
  <2>8. DokubeSteps' /\ DoksSound(cloud)'
    BY <1>a, <2>1, <2>4, <2>5, <2>6 DEF DoksMarks
  <2>9. DokubeKnown'
    BY <1>a, <2>1, <2>4, <2>5, <2>6 DEF DoksMarks
  <2>10. DokubePaid'
    <3>1. DoksCount(cloud') = DoksCount(cloud)
      BY <2>4 DEF DoksMarks
    <3>2. CASE m = "done"
      <4>1. \A j : DoksHas(cloud', j, "failed") <=> DoksHas(cloud, j, "failed")
        BY <2>4, <3>2 DEF DoksMarks
      <4> QED
        BY <1>a, <2>1, <2>6, <3>1, <3>2, <4>1
    <3>3. CASE m = "failed"
      BY <1>a, <2>1, <2>6, <3>1, <3>3
    <3> QED
      BY <3>2, <3>3
  <2>11. DokubeGone'
    BY <1>a, <2>1, <2>4, <2>5, <2>6 DEF DoksMarks
  <2>12. DokubeAlive'
    <3>1. db.phase \in {"Pending", "Ready"} => \A i : ~DoksHas(cloud', i, "deleting")
      BY <2>1, <2>4 DEF DoksMarks
    <3>2. \A i : DoksHas(cloud', i, "done") => ~DoksHas(cloud', i, "failed")
      <4>1. \A i, x : DoksHas(cloud', i, x) => DoksHas(cloud, i, x) \/ (x = m /\ i = r.id)
        BY <2>4 DEF DoksMarks
      <4>2. \A i : DoksHas(cloud, i, "done") => ~DoksHas(cloud, i, "failed")
        OBVIOUS
      <4> QED
        BY <2>5, <4>1, <4>2
    <3>3. \A i : DoksHas(cloud, i, "done") => DoksHas(cloud', i, "done")
      BY <2>4 DEF DoksMarks
    <3> QED
      BY <2>6, <3>1, <3>2, <3>3
  <2> QED
    BY <2>7, <2>8, <2>9, <2>10, <2>11, <2>12
<1>30. CASE Dokube!Withdraw(Dokube!Going("doks"))
  <2>1. cloud' = DoksGone(cloud)
    BY <1>30 DEF DoksGone, Dokube!Withdraw, Dokube!Going, Dokube!With, Dokube!Only, Dokube!All
  <2>2. DoksDrops(cloud, cloud')
    BY <1>0, <2>1, DoksDrop
  <2>3. StoreTypes(1..MaxTwins)'
    BY <1>a, <1>30, <2>2 DEF DoksDrops, Dokube!Withdraw
  <2>4. DokubeSteps' /\ DoksSound(cloud)'
    BY <1>a, <1>30, <2>2 DEF DoksDrops, Dokube!Withdraw
  <2>5. DokubeKnown'
    BY <1>a, <1>30, <2>2 DEF DoksDrops, Dokube!Withdraw
  <2>6. DokubePaid'
    <3>1. DoksCount(cloud') \in Nat /\ DoksCount(cloud') <= DoksCount(cloud)
      BY <2>2 DEF DoksDrops
    <3>2. \A j, m : DoksHas(cloud', j, m) => DoksHas(cloud, j, m)
      BY <2>2 DEF DoksDrops
    <3>3. \A x \in Nat : DoksCount(cloud) <= x => DoksCount(cloud') <= x
      BY <1>a, <3>1
    <3>4. UNCHANGED <<pc, db, mem, cur, aborts, pki>>
      BY <1>30 DEF Dokube!Withdraw
    <3>5. aborts \in Nat /\ 1 + aborts \in Nat
      OBVIOUS
    <3> QED
      BY <3>2, <3>3, <3>4, <3>5
  <2>7. DokubeGone'
    BY <1>a, <1>30, <2>2 DEF DoksDrops, Dokube!Withdraw
  <2>8. DokubeAlive'
    BY <1>a, <1>30, <2>2 DEF DoksDrops, Dokube!Withdraw
  <2> QED
    BY <2>3, <2>4, <2>5, <2>6, <2>7, <2>8
<1> QED
  BY <1>1, <1>2, <1>3, <1>4, <1>5, <1>6, <1>7, <1>8, <1>9, <1>10, <1>11, <1>12, <1>13, <1>14, <1>15,
     <1>16, <1>17, <1>18, <1>19, <1>20, <1>21, <1>22, <1>23, <1>24, <1>25, <1>26, <1>27, <1>28,
     <1>29, <1>30
  DEF Dokube!Next, Dokube!Step, Dokube!newconnector, Dokube!Prepare, Dokube!createCluster,
      Dokube!ApplyScale, Dokube!NodeGroup, Dokube!Environment

-----------------------------------------------------------------------------
(* What the invariants say *)

\* A new cluster, with nothing in the cloud.
LEMMA ManagedStart == GetCloudManager => ManagedInv
<1> SUFFICES ASSUME GetCloudManager PROVE ManagedInv
  OBVIOUS
<1> USE DEF GetCloudManager, ManagedInit, Init
<1>1. /\ \A ids : NewCluster \in Clusters(ids)
      /\ NewCluster.phase = "Pending" /\ NewCluster.del = FALSE
      /\ NewCluster.ids = {} /\ NewCluster.endp = FALSE
  <2>1. \A ids : {} \in SUBSET ids /\ FALSE \in BOOLEAN /\ "Pending" \in Phases
    BY DEF Phases
  <2> QED
    BY <2>1 DEF NewCluster, Cluster, Clusters
<1>2. \A ids : StoreTypes(ids)
  BY <1>1 DEF StoreTypes
<1>3. EksInv
  BY <1>1, <1>2 DEF EksInv, EksSteps, EksPrepare, EksScale, EksVpc, EksRole, EksDelete, EksGone,
     EksAlive, EksNodes, Sound, Unique, Within, There, Has
<1>4. GkeInv
  BY <1>1, <1>2 DEF GkeInv, GkeSteps, GkePrepare, GkeGroup, GkeScale, GkeDelete, GkeGone, GkeAlive,
     GkePool, Sound, Unique, Within, There, Has
<1>5. AksInv
  BY <1>1, <1>2 DEF AksInv, AksSteps, AksPrepare, AksDelete, Sound, Unique, Within, There, Has
<1>6. DokubeInv
  <2>1. DoksIds(cloud) = {}
    BY DEF DoksIds, Doks
  <2>2. DoksCount(cloud) = 0
    BY <2>1, FS_EmptySet DEF DoksCount
  <2> QED
    BY <1>1, <1>2, <2>2 DEF DokubeInv, DokubeSteps, DokubeMade, DokubePrepare, DokubeScale,
       DokubeDelete, DokubeKnown, DokubePaid, DokubeGone, DokubeAlive, DoksSound, Doks, DoksHas
<1> QED
  BY <1>3, <1>4, <1>5, <1>6 DEF ManagedInv

\* A step of the provider that the cluster has.
LEMMA ManagedStep == ManagedInv /\ [Next]_allVars => ManagedInv'
<1> SUFFICES ASSUME ManagedInv, [Next]_allVars PROVE ManagedInv'
  OBVIOUS
<1>1. CASE Is("eks") /\ Eks!Next
  BY <1>1, EksStep DEF ManagedInv, Is
<1>2. CASE Is("gke") /\ Gke!Next
  BY <1>2, GkeStep DEF ManagedInv, Is
<1>3. CASE Is("aks") /\ Aks!Next
  BY <1>3, AksStep DEF ManagedInv, Is
<1>4. CASE Is("dokube") /\ Dokube!Next
  BY <1>4, DokubeStep DEF ManagedInv, Is
<1>5. CASE UNCHANGED allVars
  <2> USE <1>5 DEF allVars, managedVars, vars
  <2>1. EksInv => EksInv'
    BY DEF EksInv, StoreTypes, EksSteps, EksGone, EksAlive, EksNodes
  <2>2. GkeInv => GkeInv'
    BY DEF GkeInv, StoreTypes, GkeSteps, GkeGone, GkeAlive, GkePool
  <2>3. AksInv => AksInv'
    BY DEF AksInv, StoreTypes, AksSteps
  <2>4. DokubeInv => DokubeInv'
    BY DEF DokubeInv, StoreTypes, DokubeSteps, DokubeKnown, DokubePaid, DokubeGone, DokubeAlive
  <2> QED
    BY <2>1, <2>2, <2>3, <2>4 DEF ManagedInv
<1> QED
  BY <1>1, <1>2, <1>3, <1>4, <1>5 DEF Next

\* The module of the provider counts as this one does.
LEMMA DoksCardinality == \A S : Dokube!Cardinality(S) = Cardinality(S)
BY Zenon DEF Dokube!Cardinality, Cardinality

\* As many clusters as ids.
LEMMA DoksOnly ==
    ASSUME DoksSound(cloud)
    PROVE  /\ IsFiniteSet(Dokube!Only("doks"))
           /\ Cardinality(Dokube!Only("doks")) <= DoksCount(cloud)
<1> DEFINE S == DoksIds(cloud)
           T == Dokube!Only("doks")
           f == [i \in S |-> CHOOSE r \in T : r.id = i]
<1>1. T \subseteq cloud /\ \A r \in T : r.kind = "doks"
  BY DEF Dokube!Only, Dokube!All
<1>2. \A r \in T : r.id \in S
  BY <1>1 DEF DoksSound, DoksIds, Doks
<1>3. \A i \in S : \E r \in T : r.id = i
  BY DEF DoksIds, Doks, Dokube!Only, Dokube!All
<1>4. \A r, q \in T : r.id = q.id => r = q
  BY <1>1 DEF DoksSound
<1> HIDE DEF S, T
<1>5. \A i \in S : f[i] \in T /\ f[i].id = i
  BY <1>3
<1>6. f \in [S -> T]
  BY <1>5
<1>7. \A r \in T : r.id \in S /\ f[r.id] = r
  BY <1>2, <1>4, <1>5
<1> HIDE DEF f
<1>8. f \in Surjection(S, T)
  BY <1>6, <1>7 DEF Surjection
<1>9. IsFiniteSet(T) /\ Cardinality(T) <= Cardinality(S)
  BY <1>8, DoksFinite, FS_Surjection DEF S
<1> QED
  BY <1>9 DEF S, T, DoksCount

\* Nothing is built twice.
LEMMA ManagedTwins == ManagedInv => NoTwins
<1> SUFFICES ASSUME ManagedInv PROVE NoTwins
  OBVIOUS
<1>1. provider = "eks" => Eks!NoTwins
  BY DEF ManagedInv, EksInv, Sound, Unique, Eks!NoTwins
<1>2. provider = "gke" => Gke!NoTwins
  BY DEF ManagedInv, GkeInv, Sound, Unique, Gke!NoTwins
<1>3. provider = "aks" => Aks!NoTwins
  BY DEF ManagedInv, AksInv, Sound, Unique, Aks!NoTwins
<1>4. ASSUME provider = "dokube" PROVE Dokube!NoTwins
  <2>1. DoksSound(cloud) /\ DokubePaid /\ aborts \in Nat
    BY <1>4 DEF ManagedInv, DokubeInv, StoreTypes
  <2>2. Cardinality(Dokube!Only("doks")) <= DoksCount(cloud) /\ DoksCount(cloud) \in Nat
    BY <2>1, DoksOnly, DoksFinite
  <2>3. DoksCount(cloud) <= 1 + aborts \/ (db.ids = {} /\ "admin" \in pki)
    BY <2>1, <2>2 DEF DokubePaid
  <2>4. Cardinality(Dokube!Only("doks")) \in Nat
    BY <2>1, DoksOnly, FS_CardinalityType
  <2>5. \A x, y, z \in Nat : x <= y /\ y <= 1 + z => x <= 1 + z
    OBVIOUS
  <2>6. Cardinality(Dokube!Only("doks")) <= 1 + aborts \/ (db.ids = {} /\ "admin" \in pki)
    BY <2>1, <2>2, <2>3, <2>4, <2>5
  <2> QED
    BY <2>6, DoksCardinality DEF Dokube!NoTwins
<1> QED
  BY <1>1, <1>2, <1>3, <1>4 DEF NoTwins

\* What a deletion that has ended leaves.
LEMMA ManagedGone == ManagedInv => NetworkGone
<1> SUFFICES ASSUME ManagedInv PROVE NetworkGone
  OBVIOUS
<1>1. provider = "eks" => Eks!NetworkGone
  BY DEF ManagedInv, EksInv, EksGone, Within, There, Has, Eks!NetworkGone
<1>2. provider = "gke" => Gke!NetworkGone
  BY DEF ManagedInv, GkeInv, GkeGone, There, Gke!NetworkGone, Gke!All
<1>3. provider = "aks" => Aks!NetworkGone
  BY AksReads DEF ManagedInv, AksInv, Within, There, Has, Aks!NetworkGone
<1>4. provider = "dokube" => Dokube!NetworkGone
  BY DEF ManagedInv, DokubeInv, DokubeGone, DoksSound, Doks, DoksHas, Dokube!NetworkGone,
     Dokube!Only, Dokube!All
<1> QED
  BY <1>1, <1>2, <1>3, <1>4 DEF NetworkGone

\* What a cluster that is Ready has.
LEMMA ManagedReady == ManagedInv => Served
<1> SUFFICES ASSUME ManagedInv, db.phase = "Ready", pc = "idle", aborts = 0, lost = 0
             PROVE  /\ provider = "eks" => Eks!Served
                    /\ provider = "gke" => Gke!Served
                    /\ provider = "aks" => Aks!Served
                    /\ provider = "dokube" => Dokube!Served
  BY DEF Served
<1>1. provider = "eks" => Eks!Served
  BY EksReads DEF ManagedInv, EksInv, EksAlive, EksNodes, Has, Eks!Served, Eks!GetKubeConfig,
     Eks!With,
     Eks!Only, Eks!All
<1>2. provider = "gke" => Gke!Served
  BY GkeReads DEF ManagedInv, GkeInv, GkeAlive, GkePool, Gke!Served, Gke!GetKubeConfig,
     Gke!Reachable
<1>3. provider = "aks" => Aks!Served
  BY AksReads DEF ManagedInv, AksInv, Aks!Served, Aks!GetKubeConfig
<1>4. provider = "dokube" => Dokube!Served
  BY DEF ManagedInv, DokubeInv, DokubeAlive, DoksHas, Dokube!Served, Dokube!GetKubeConfig,
     Dokube!Reachable, Dokube!Known, Dokube!Only, Dokube!All
<1> QED
  BY <1>1, <1>2, <1>3, <1>4

-----------------------------------------------------------------------------

\* However many calls fail, commands are killed and errors are only logged,
\* and however often apply runs again: no resource of EKS, GKE or AKS is built
\* twice, and each further DigitalOcean cluster was paid for with a failure,
\* unless its certificate is stored and its id is not.
THEOREM ManagedNoTwins == Spec => []NoTwins
BY ManagedStart, ManagedStep, ManagedTwins, PTL DEF Spec

\* When the ApplyDelete of a managed provider has returned without an error,
\* what the cluster was made of is gone or on its way out, except what the
\* module of the provider names.
THEOREM ManagedNetworkGone == Spec => []NetworkGone
BY ManagedStart, ManagedStep, ManagedGone, PTL DEF Spec

\* A managed cluster that is Ready after commands without a failure has its
\* node group, and the store holds what GetKubeConfig needs.
THEOREM ManagedServed == Spec => []Served
BY ManagedStart, ManagedStep, ManagedReady, PTL DEF Spec
=============================================================================
