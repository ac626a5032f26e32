-------------------------- MODULE SelfHosted_proofs --------------------------
(***************************************************************************)
(* Safety of the providers that build a cluster from machines, for any     *)
(* bounds on failures, lost errors and ids.                                *)
(*                                                                         *)
(* On Azure, GCE and Linode a cloud has at most one resource of a kind and *)
(* is known by the kinds that exist and the marks on each.  Packet and AWS *)
(* accept a second one: there the invariants count, and every resource too *)
(* many was paid for with an error that the code has only logged.          *)
(***************************************************************************)
EXTENDS SelfHosted, FiniteSetTheorems, NaturalsInduction, WellFoundedInduction, TLAPS

Phases   == {"Pending", "Ready", "Deleting", "Deleted"}
AllMarks == {"done", "failed", "deleting", "script", "owner", "running", "config", "lb",
             "name", "policy", "profile", "attached", "mapIP", "route", "assoc", "rules", "check"}
Resources(kinds) == [kind : kinds, id : Nat, in : Nat, has : SUBSET AllMarks]

\* In a cloud c: some resource of kind k, one with the mark m, one with the id
\* i, all of kind k; at most one of each kind.
There(c, k)  == \E r \in c : r.kind = k
Has(c, k, m) == \E r \in c : r.kind = k /\ m \in r.has
Id(c, k, i)  == \E r \in c : r.kind = k /\ r.id = i
Of(c, k)     == {r \in c : r.kind = k}
Unique(c)    == \A r, q \in c : r.kind = q.kind => r = q
Sound(c, kinds) == Unique(c) /\ c \subseteq Resources(kinds)

\* A stored cluster, or the command's copy of one.
IsCluster(x) ==
    /\ x = [phase |-> x.phase, del |-> x.del, endp |-> x.endp, ids |-> x.ids]
    /\ x.phase \in Phases /\ x.del \in BOOLEAN /\ x.endp \in BOOLEAN

\* The command's copy of the cluster, and what is stored, agree on what the
\* command is for, and a deletion that was requested stays so.
StoreTypes ==
    /\ IsCluster(db) /\ IsCluster(mem)
    /\ torn \in BOOLEAN /\ sets \in BOOLEAN
    /\ aborts \in Nat /\ lost \in Nat
    /\ db.del <=> db.phase \in {"Deleting", "Deleted"}
    /\ torn => db.del
    /\ pc # "idle" => mem.phase = db.phase /\ mem.del = db.del

\* A command that works on a cluster of a phase.
Phased(prepare, delete) ==
    /\ pc \in {"idle", "connect"} \cup prepare \cup delete
    /\ pc = "connect" => db.phase \in {"Pending", "Deleting"}
    /\ pc \in prepare => db.phase = "Pending"
    /\ pc \in delete => db.phase = "Deleting"

-----------------------------------------------------------------------------
(* Azure *)

AzureKinds   == {"rg", "vnet", "nsg-master", "nsg-node", "rt", "subnet-master", "subnet-node",
                 "lb-internal", "pip", "lb-public", "nic", "master", "worker"}
AzurePrepare == {"rg", "rgMake", "vnet", "vnetMake", "vnetWait",
                 "nsgMaster", "nsgMasterMake", "nsgMasterWait",
                 "nsgNode", "nsgNodeMake", "nsgNodeWait", "rt", "rtMake", "rtWait",
                 "subnetMaster", "subnetMasterMake", "subnetMasterWait",
                 "subnetNode", "subnetNodeMake", "subnetNodeWait",
                 "lbInternal", "lbInternalMake", "lbInternalWait", "pip", "pipMake", "pipWait",
                 "lbPublic", "lbPublicMake", "lbPublicWait", "endpoint",
                 "nic", "nicMake", "nicWait", "masterNic", "master", "masterMake",
                 "extension", "save", "vmid", "ready"}
AzureDelete  == {"dworkers", "drg", "dend"}

\* Once the deletion of the group was accepted, nothing is outside of it.
AzureGone ==
    torn \/ pc = "dend" => \A k : There(cloud, k) => Has(cloud, "rg", "deleting")

AzureInv ==
    /\ StoreTypes /\ Sound(cloud, AzureKinds)
    /\ Phased(AzurePrepare, AzureDelete) /\ AzureGone

-----------------------------------------------------------------------------
(* GCE *)

GceKinds   == {"metadata", "network", "fw-default", "fw-cluster", "fw-ssh", "fw-api",
               "address", "healthcheck", "pool", "rule", "disk", "master", "worker"}
GcePrepare == {"key", "network", "networkMake", "rules", "fwDefault", "fwDefaultMake",
               "fwCluster", "fwClusterMake", "fwSave", "fwSsh", "fwSshMake",
               "fwApi", "fwApiMake", "fwSaveApi", "lb", "address", "healthcheck", "pool",
               "rule", "endpoint", "master", "disk", "diskMake", "masterMake", "masterWait",
               "ready"}
GceBalancer == {"daddress", "drule", "dpool", "dhealth", "dend"}
GceDisk     == {"ddisk"} \cup GceBalancer
GceApi      == {"dfwApi"} \cup GceDisk
GceSsh      == {"dfwSsh"} \cup GceApi
GceCluster  == {"dfwCluster"} \cup GceSsh
GceDelete   == {"dworkers", "dmaster"} \cup GceCluster

\* What has gone so far, unless an error was logged.
GceGone ==
    lost = 0 =>
        /\ torn \/ pc \in GceCluster => ~There(cloud, "master")
        /\ torn \/ pc \in GceSsh => ~There(cloud, "fw-cluster")
        /\ torn \/ pc \in GceApi => ~There(cloud, "fw-ssh")
        /\ torn \/ pc \in GceDisk => ~There(cloud, "fw-api")
        /\ torn \/ pc \in GceBalancer => ~There(cloud, "disk")

GceInv ==
    /\ StoreTypes /\ Sound(cloud, GceKinds)
    /\ Phased(GcePrepare, GceDelete) /\ GceGone

-----------------------------------------------------------------------------
(* Linode *)

LinodeKinds   == {"lb", "script-master", "master", "worker", "script-node"}
LinodePrepare == {"lb", "lbAgain", "lbMake", "lbGet", "lbConfig", "endpoint", "master",
                  "script", "scriptAgain", "scriptId", "masterMake", "masterWait",
                  "masterReg", "save", "ready"}
LinodeBalancer == {"dlb", "dend"}
LinodeMaster   == {"dmaster"} \cup LinodeBalancer
LinodeDelete   == {"dworkers", "dkube", "dnodes", "dmasters", "dscript"} \cup LinodeMaster

\* The API server answers through the balancer.
LinodeUp(c) == Has(c, "lb", "config") /\ Has(c, "master", "lb") /\ Has(c, "master", "running")

\* What a command knows of the balancer and of the master it has made.
LinodeKnown ==
    /\ pc = "lbMake" => ~There(cloud, "lb")
    /\ pc \in {"masterWait", "masterReg"} =>
         There(cloud, "master") /\ \A i : Id(cloud, "master", i) => i = cur
    /\ pc = "masterReg" => Has(cloud, "master", "running")
    /\ pc = "save" => LinodeUp(cloud)
    /\ pc \in LinodeDelete \ {"dworkers", "dkube"} => db.endp
    /\ pc \in {"connect"} \cup LinodeDelete => mem.endp = db.endp

\* A cluster with an endpoint can be reached until its master goes, and what
\* has gone so far, unless an error was logged.
LinodeGone ==
    /\ db.phase = "Ready" => db.endp
    /\ lost = 0 =>
        /\ db.endp /\ db.phase \in {"Pending", "Ready"} => LinodeUp(cloud)
        /\ db.endp => \/ LinodeUp(cloud)
                      \/ ~There(cloud, "master") /\ ~There(cloud, "script-master")
        /\ torn \/ pc \in LinodeMaster => ~There(cloud, "script-master")
        /\ torn \/ pc \in LinodeBalancer => ~There(cloud, "master")
        /\ torn \/ pc = "dend" => ~There(cloud, "lb")

LinodeInv ==
    /\ StoreTypes /\ Sound(cloud, LinodeKinds)
    /\ Phased(LinodePrepare, LinodeDelete) /\ LinodeKnown /\ LinodeGone

-----------------------------------------------------------------------------
(* Packet *)

PacketKinds   == {"key", "master", "worker"}
PacketPrepare == {"key", "keyImport", "master", "masterMake", "masterWait", "save", "ready"}
PacketDelete  == {"dworkers", "dkube", "dlist", "dmaster", "dend"}

\* In a cloud c: a resource of kind k and id i with the mark m, and how many
\* there are of kind k.  No two of a kind have the same id.
IdHas(c, k, i, m)  == \E r \in c : r.kind = k /\ r.id = i /\ m \in r.has
Count(c, k)        == Cardinality(Of(c, k))
Distinct(c, kinds) ==
    /\ c \subseteq Resources(kinds) /\ IsFiniteSet(c)
    /\ \A r, q \in c : r.kind = q.kind /\ r.id = q.id => r = q

\* Every resource too many was paid for, and one that is about to be made.
PacketPaid ==
    /\ Count(cloud, "key") <= 1
    /\ \A k \in {"master", "worker"} : Count(cloud, k) <= 1 + lost
    /\ pc = "masterMake" => Count(cloud, "master") <= lost
    /\ ctl = "make" => Count(cloud, "worker") <= lost

\* The address of the master is the first one that was stored.
PacketKnown ==
    /\ pc # "idle" => mem = db
    /\ db.endp <=> db.ids # {}
    /\ db.phase = "Ready" => db.endp
    /\ pc \in {"masterWait", "save"} => Id(cloud, "master", cur)
    /\ pc = "save" => IdHas(cloud, "master", cur, "running")
    /\ pc \in PacketDelete \ {"dworkers", "dkube"} => db.endp

PacketGone ==
    lost = 0 =>
        /\ \A i, j : Id(cloud, "master", i) /\ Id(cloud, "master", j) => i = j
        /\ pc = "masterMake" => \A i : ~Id(cloud, "master", i)
        /\ db.endp => \A i : Id(cloud, "master", i) =>
                         i \in db.ids /\ IdHas(cloud, "master", i, "running")
        /\ db.endp /\ db.phase \in {"Pending", "Ready"} => There(cloud, "master")
        /\ torn \/ pc = "dend" => ~There(cloud, "master")

PacketInv ==
    /\ StoreTypes /\ Distinct(cloud, PacketKinds)
    /\ Phased(PacketPrepare, PacketDelete)
    /\ PacketPaid /\ PacketKnown /\ PacketGone

-----------------------------------------------------------------------------
(* AWS *)

AwsKinds == {"iam-master", "iam-node", "key", "vpc", "subnet-public", "subnet-private", "igw",
             "nat", "eip", "rt-public", "rt-private", "sg-master", "sg-node", "sg-bastion",
             "bastion", "lb", "master", "worker"}
AwsIam     == {"iam", "iamMaster", "roleMaster", "policyMaster", "profileMaster",
               "attachMaster", "iamNode", "roleNode", "policyNode", "profileNode", "attachNode",
               "key", "keyImport", "vpc"}
AwsSubnets == {"subnets", "public", "publicMake", "publicAttr", "publicTag",
               "private", "privateMake", "privateTag", "igw", "igwMake", "igwAttach", "igwTag",
               "nat"}
AwsAddress == {"eipMake", "eipTag", "natMake"}
AwsTables  == {"natTag", "natKnown", "rtPublic", "rtPubMake", "rtPubTag", "rtPubRoute",
               "rtPubAssoc", "rtPrivate", "rtPrivMake", "rtPrivTag", "rtPrivRoute",
               "rtPrivAssoc"}
AwsGroups  == {"sg", "sgDetect", "sgMaster", "sgMasterTag", "sgNode", "sgNodeTag", "sgBastion",
               "sgBastionTag", "sgRules", "ruleBastion", "ruleMaster", "ruleNode",
               "bastion", "bastionMake", "lb", "lbCheck", "save", "master", "masterMake",
               "masterWait", "masterReg", "masterSave", "ready"}
AwsBuild   == AwsSubnets \cup AwsAddress \cup AwsTables \cup AwsGroups
AwsPrepare == AwsIam \cup {"vpcMake", "vpcTag", "vpcKnown"} \cup AwsBuild

AwsReleased == {"digw", "digwDelete", "dsubnet", "dvpcDelete"}
AwsInVpc    == {"dsg", "drt", "dnat", "deip"} \cup AwsReleased
AwsBalancer == {"dlb", "dbastion", "dvpc", "dend"} \cup AwsInVpc
AwsNode     == {"diamNode"} \cup AwsBalancer
AwsMaster   == {"diamMaster"} \cup AwsNode
AwsDelete   == {"dworkers", "dmaster", "dkey"} \cup AwsMaster

AwsTags     == {"name", "owner"}
AwsContents == {"master", "bastion", "worker", "sg-master", "sg-node", "sg-bastion",
                "subnet-public", "subnet-private", "rt-public", "rt-private", "nat", "lb"}
AwsHome     == {"subnet-public", "subnet-private", "nat"}

\* In a cloud c: a complete VPC with the id i, a complete resource of kind k in
\* the VPC n, and a resource of kind k and id i in n that has no mark yet.
Vpc(c, i)      == \E r \in c : r.kind = "vpc" /\ r.id = i /\ AwsTags \subseteq r.has
Table(c, k, n) == \E r \in c : r.kind = k /\ r.in = n /\ AwsTags \subseteq r.has
Blank(c, k, i, n) == \E r \in c : r.kind = k /\ r.id = i /\ r.in = n /\ r.has = {}
Complete(c, k) == \E r \in c : r.kind = k /\ AwsTags \subseteq r.has

\* What is in a VPC is in a complete one.
Anchored(c) ==
    \A r \in c : r.kind \in AwsContents \/ (r.kind = "igw" /\ "attached" \in r.has)
        => Vpc(c, r.in)

AwsSound(c) == Distinct(c, AwsKinds) /\ Anchored(c)

\* Subnets and gateways are in the oldest VPC, one subnet of each kind.
Settled(c) ==
    /\ \A r \in c : r.kind \in AwsHome => \A i : Vpc(c, i) => r.in <= i
    /\ \A r, q \in c : r.kind \in {"subnet-public", "subnet-private"} /\ r.kind = q.kind => r = q

\* The ids of the VPCs have no gaps.
Chain(c) == \A r \in c : r.kind = "vpc" => \A j \in 1..r.id : Id(c, "vpc", j)

\* The places of tables of kind k: the tables, and the VPCs that have none.
\* For a kind that nothing has, the VPCs.
Places(c, k) ==
    {r \in c : /\ AwsTags \subseteq r.has
               /\ r.kind = k \/ (r.kind = "vpc" /\ ~Table(c, k, r.id))}
Placed(c, k) == Cardinality(Places(c, k))
PlaceKinds   == {"none", "rt-public", "rt-private"}

\* Where the command is.
AwsKnown ==
    /\ pc = "vpcTag" => Blank(cloud, "vpc", cur, 0) /\ \A i : Vpc(cloud, i) => i < cur
    /\ pc = "vpcKnown" => Vpc(cloud, cur)
    /\ pc \in AwsBuild \cup AwsInVpc => Vpc(cloud, net)
    /\ pc = "igwAttach" => Blank(cloud, "igw", cur, net)
    /\ pc = "rtPubTag" => Blank(cloud, "rt-public", cur, net)
    /\ pc = "rtPrivTag" => Blank(cloud, "rt-private", cur, net)

\* Every resource too many was paid for, and one that is about to be made: a
\* command that works in a VPC other than the oldest one has missed that one.
AwsPaid ==
    /\ \A k \in PlaceKinds : Placed(cloud, k) <= 1 + lost
    /\ Count(cloud, "nat") <= 1 + lost
    /\ pc \in {"vpcMake", "vpcTag"} =>
         Count(cloud, "nat") <= lost /\ \A k \in PlaceKinds : Placed(cloud, k) <= lost
    /\ pc = "vpcKnown" /\ (\E i : Vpc(cloud, i) /\ i < cur) => Count(cloud, "nat") <= lost
    /\ pc \in AwsSubnets /\ (\E i : Vpc(cloud, i) /\ i < net) => Count(cloud, "nat") <= lost
    /\ pc \in AwsAddress => Count(cloud, "nat") <= lost
    /\ pc \in {"rtPubMake", "rtPubTag"} /\ Table(cloud, "rt-public", net) =>
         Placed(cloud, "rt-public") <= lost
    /\ pc \in {"rtPrivMake", "rtPrivTag"} /\ Table(cloud, "rt-private", net) =>
         Placed(cloud, "rt-private") <= lost
    /\ \A k \in {"subnet-public", "subnet-private"} : Count(cloud, k) <= 1

\* What has gone so far, unless an error was logged.
AwsGone ==
    lost = 0 =>
        /\ \A i, j : Vpc(cloud, i) /\ Vpc(cloud, j) => i = j
        /\ torn \/ pc \in AwsMaster => ~There(cloud, "key")
        /\ torn \/ pc \in AwsNode => ~There(cloud, "iam-master")
        /\ torn \/ pc \in AwsBalancer => ~There(cloud, "iam-node")
        /\ pc \in AwsReleased \/ (\A i : ~Vpc(cloud, i)) => ~Complete(cloud, "eip")
        /\ torn \/ pc = "dend" => \A i : ~Vpc(cloud, i)

AwsInv ==
    /\ StoreTypes /\ AwsSound(cloud)
    /\ Phased(AwsPrepare, AwsDelete)
    /\ AwsKnown /\ AwsPaid /\ AwsGone
    /\ db.phase = "Pending" => Settled(cloud) /\ Chain(cloud)

-----------------------------------------------------------------------------

SelfHostedInv ==
    /\ provider \in {"aws", "azure", "gce", "linode", "packet"}
    /\ provider = "aws" => AwsInv
    /\ provider = "azure" => AzureInv
    /\ provider = "gce" => GceInv
    /\ provider = "linode" => LinodeInv
    /\ provider = "packet" => PacketInv
-----------------------------------------------------------------------------
(* What the calls do to a cloud *)

\* A set of numbers has a least one.
LEMMA Least ==
    ASSUME NEW S, S \subseteq Nat, S # {}
    PROVE  \E i \in S : \A j \in S : i <= j
<1>1. \E i \in S : \A j \in S : ~(<<j, i>> \in OpToRel(<, Nat))
  BY WFMin, NatLessThanWellFounded
<1>2. \A i, j \in Nat : <<j, i>> \in OpToRel(<, Nat) <=> j < i
  BY DEF OpToRel
<1>3. PICK i \in S : \A j \in S : ~(<<j, i>> \in OpToRel(<, Nat))
  BY <1>1
<1>4. ASSUME NEW j \in S PROVE i <= j
  <2>1. i \in Nat /\ j \in Nat /\ ~(j < i)
    BY <1>2, <1>3
  <2> QED
    BY <2>1
<1> QED
  BY <1>4

\* A creating call finds the least id that is free, or fails.
LEMMA Fresh ==
    ASSUME NEW k, FreshIds(k) # {}
    PROVE  /\ FreshId(k) \in FreshIds(k) /\ FreshId(k) \in 1..MaxTwins /\ FreshId(k) \in Nat
           /\ \A j \in FreshIds(k) : FreshId(k) <= j
<1>0. FreshIds(k) \subseteq Nat
  BY ProviderBounds DEF FreshIds
<1>1. \E i \in FreshIds(k) : \A j \in FreshIds(k) : i <= j
  BY <1>0, Least
<1>2. FreshId(k) \in FreshIds(k) /\ \A j \in FreshIds(k) : FreshId(k) <= j
  BY <1>1 DEF FreshId
<1> QED
  BY <1>0, <1>2 DEF FreshIds

\* What a call may do to the resources of a kind.
Making(c, kind, id, in, marks) == c \cup {[kind |-> kind, id |-> id, in |-> in, has |-> marks]}
Marking(c, S, marks) == (c \ S) \cup {[r EXCEPT !.has = @ \cup marks] : r \in S}
Dropping(c, gone)    == c \ {r \in c : r.kind \in gone}

\* The same, as seen by look-ups, where kinds are unique.
Makes(c, d, kind, marks, kinds) ==
    /\ \A k : There(d, k) <=> There(c, k) \/ k = kind
    /\ \A k, m : Has(d, k, m) <=> Has(c, k, m) \/ (k = kind /\ m \in marks)
    /\ \A k, i : k # kind => (Id(d, k, i) <=> Id(c, k, i))
    /\ Sound(d, kinds)

Marks(c, d, kind, marks, kinds) ==
    /\ \A k : There(d, k) <=> There(c, k)
    /\ \A k, m : Has(d, k, m) <=> Has(c, k, m) \/ (k = kind /\ m \in marks /\ There(c, k))
    /\ \A k, i : Id(d, k, i) <=> Id(c, k, i)
    /\ Sound(d, kinds)

Drops(c, d, gone, kinds) ==
    /\ \A k : There(d, k) <=> There(c, k) /\ k \notin gone
    /\ \A k, m : Has(d, k, m) <=> Has(c, k, m) /\ k \notin gone
    /\ \A k, i : Id(d, k, i) => Id(c, k, i)
    /\ Sound(d, kinds)

\* A resource is made where there was none of its kind.
LEMMA CloudMake ==
    ASSUME NEW kinds, NEW c, Sound(c, kinds), NEW kind \in kinds, NEW id \in Nat, NEW in \in Nat,
           NEW marks \in SUBSET AllMarks, ~There(c, kind)
    PROVE  Makes(c, Making(c, kind, id, in, marks), kind, marks, kinds)
<1> DEFINE n == [kind |-> kind, id |-> id, in |-> in, has |-> marks]
           d == Making(c, kind, id, in, marks)
<1>1. n \in Resources(kinds) /\ n.kind = kind /\ n.has = marks
  BY DEF Resources
<1>2. d = c \cup {n}
  BY DEF Making
<1> HIDE DEF n, d
<1>3. Unique(d)
  BY <1>1, <1>2 DEF Sound, Unique, There
<1>4. /\ \A k : There(d, k) <=> There(c, k) \/ k = kind
      /\ \A k, m : Has(d, k, m) <=> Has(c, k, m) \/ (k = kind /\ m \in marks)
      /\ \A k, i : k # kind => (Id(d, k, i) <=> Id(c, k, i))
      /\ d \subseteq Resources(kinds)
  BY <1>1, <1>2 DEF Sound, There, Has, Id
<1> QED
  BY <1>3, <1>4 DEF Makes, Sound, d

\* It is the one with its id.
LEMMA MadeIds ==
    ASSUME NEW c, NEW kind, NEW id, NEW in, NEW marks, ~There(c, kind)
    PROVE  /\ There(Making(c, kind, id, in, marks), kind)
           /\ \A i : Id(Making(c, kind, id, in, marks), kind, i) => i = id
<1> DEFINE n == [kind |-> kind, id |-> id, in |-> in, has |-> marks]
<1>1. n.kind = kind /\ n.id = id /\ Making(c, kind, id, in, marks) = c \cup {n}
  BY DEF Making
<1> HIDE DEF n
<1> QED
  BY <1>1 DEF There, Id

\* The resources of a kind are marked.
LEMMA CloudMark ==
    ASSUME NEW kinds, NEW c, Sound(c, kinds), NEW kind, NEW marks \in SUBSET AllMarks
    PROVE  Marks(c, Marking(c, Of(c, kind), marks), kind, marks, kinds)
<1> DEFINE f(r) == [r EXCEPT !.has = @ \cup marks]
           d == Marking(c, Of(c, kind), marks)
<1>1. \A r \in c : /\ f(r) \in Resources(kinds) /\ f(r).kind = r.kind /\ f(r).id = r.id
                  /\ f(r).has = r.has \cup marks
  BY DEF Sound, Resources
<1>2. d = (c \ Of(c, kind)) \cup {f(r) : r \in Of(c, kind)}
  BY DEF Marking
<1> HIDE DEF f, d
<1>3. \A r \in d : \/ r \in c /\ r.kind # kind
                   \/ \E q \in c : q.kind = kind /\ r = f(q)
  BY <1>2 DEF Of
<1>4. \A q \in c : IF q.kind = kind THEN f(q) \in d ELSE q \in d
  BY <1>2 DEF Of
<1>5. \A k : There(d, k) <=> There(c, k)
  BY <1>1, <1>3, <1>4 DEF There
<1>6. \A k, m : Has(d, k, m) <=> Has(c, k, m) \/ (k = kind /\ m \in marks /\ There(c, k))
  BY <1>1, <1>3, <1>4 DEF Has, There
<1>7. Unique(d) /\ d \subseteq Resources(kinds)
  BY <1>1, <1>3 DEF Sound, Unique
<1>8. \A k, i : Id(d, k, i) <=> Id(c, k, i)
  BY <1>1, <1>3, <1>4 DEF Id
<1> QED
  BY <1>5, <1>6, <1>7, <1>8 DEF Marks, Sound, d

\* The resources of some kinds are gone.
LEMMA CloudDrop ==
    ASSUME NEW kinds, NEW c, Sound(c, kinds), NEW gone
    PROVE  Drops(c, Dropping(c, gone), gone, kinds)
BY DEF Sound, Drops, Dropping, There, Has, Id, Unique

-----------------------------------------------------------------------------
(* What the steps do to the store *)

\* A step of the command that leaves the store alone: it goes on or returns.
Moves(from, to) ==
    /\ pc = from
    /\ \/ pc' = to /\ mem' = mem
       \/ pc' = "idle" /\ mem' = NewCluster
    /\ UNCHANGED <<db, sets, torn>>
    /\ aborts' \in Nat /\ lost' \in Nat /\ lost <= lost'

\* A step that leaves the command and the store alone.
Steady == UNCHANGED <<pc, db, mem, sets, torn, lost>> /\ aborts' \in Nat

\* The command's copy when it has returned.
LEMMA NewIsCluster == IsCluster(NewCluster) /\ NewCluster.phase = "Pending"
BY DEF NewCluster, Cluster, IsCluster, Phases

\* Such steps keep the store in order.
LEMMA MovesStore ==
    ASSUME StoreTypes, NEW from, NEW to, from # "idle", Moves(from, to)
    PROVE  StoreTypes'
BY NewIsCluster DEF StoreTypes, Moves

\* So do steps that leave the command and the stored cluster alone.
LEMMA SteadyStore ==
    ASSUME StoreTypes, Steady
    PROVE  StoreTypes'
BY DEF StoreTypes, Steady

\* The command starts with what is stored.
LEMMA ApplyStore ==
    ASSUME StoreTypes, Apply
    PROVE  /\ StoreTypes' /\ UNCHANGED <<db, cloud, torn, lost>>
           /\ pc' = "connect" /\ mem' = db /\ db.phase \in {"Pending", "Deleting"}
BY DEF StoreTypes, IsCluster, Phases, Apply

\* A deletion is asked for, again perhaps.
LEMMA DeleteStore ==
    ASSUME StoreTypes, DeleteCluster
    PROVE  /\ StoreTypes' /\ UNCHANGED <<pc, cloud, torn, lost, cur, net>>
           /\ pc = "idle" /\ db'.phase = "Deleting" /\ db'.endp = db.endp /\ db'.ids = db.ids
<1>1. db' = [phase |-> "Deleting", del |-> TRUE, endp |-> db.endp, ids |-> db.ids]
  BY DEF StoreTypes, IsCluster, DeleteCluster
<1>2. IsCluster(db') /\ db'.del /\ db'.phase = "Deleting" /\ db'.endp = db.endp
          /\ db'.ids = db.ids
  BY <1>1 DEF StoreTypes, IsCluster, Phases
<1> QED
  BY <1>2 DEF StoreTypes, DeleteCluster

\* The command stores its copy.
LEMMA SaveStore ==
    ASSUME StoreTypes, NEW from, NEW endp \in BOOLEAN, NEW ids, NEW to, from # "idle",
           Save(from, endp, ids, to)
    PROVE  /\ StoreTypes' /\ UNCHANGED <<cloud, torn, lost, cur, net>>
           /\ pc = from /\ pc' = to /\ mem' = db'
           /\ db'.phase = db.phase /\ db'.endp = endp /\ db'.ids = mem.ids \cup ids
<1>1. db' = [phase |-> mem.phase, del |-> mem.del, endp |-> endp, ids |-> mem.ids \cup ids]
  BY DEF StoreTypes, IsCluster, Save
<1>2. /\ IsCluster(db') /\ db'.del = mem.del /\ db'.phase = mem.phase /\ db'.endp = endp
      /\ db'.ids = mem.ids \cup ids
  BY <1>1 DEF StoreTypes, IsCluster
<1> QED
  BY <1>2 DEF StoreTypes, Save

\* The cluster becomes Ready, or the command gives up waiting.
LEMMA ReadyStore ==
    ASSUME StoreTypes, NEW from, NEW reachable, from # "idle", db.phase = "Pending",
           MarkReady(from, reachable)
    PROVE  /\ StoreTypes' /\ UNCHANGED <<cloud, torn, lost>>
           /\ pc = from /\ pc' = "idle"
           /\ \/ db' = db
              \/ /\ reachable /\ mem.endp
                 /\ db'.phase = "Ready" /\ db'.endp /\ db'.ids = mem.ids
<1>1. CASE db' = db /\ sets' = sets
  BY <1>1, NewIsCluster DEF StoreTypes, MarkReady, Return
<1>2. CASE reachable /\ mem.endp /\ db' = [mem EXCEPT !.phase = "Ready"] /\ sets' = TRUE
  <2>1. db' = [phase |-> "Ready", del |-> mem.del, endp |-> mem.endp, ids |-> mem.ids]
    BY <1>2 DEF StoreTypes, IsCluster
  <2>2. /\ IsCluster(db') /\ db'.del = mem.del /\ db'.phase = "Ready" /\ db'.endp = mem.endp
        /\ db'.ids = mem.ids
    BY <2>1 DEF StoreTypes, IsCluster, Phases
  <2> QED
    BY <1>2, <2>2, NewIsCluster DEF StoreTypes, MarkReady, Return
<1> QED
  BY <1>1, <1>2 DEF MarkReady

\* The deletion starts: the phase is Deleting already.
LEMMA StartStore ==
    ASSUME StoreTypes, NEW from, NEW reachable, NEW to, from # "idle", db.phase = "Deleting",
           StartDelete(from, reachable, to)
    PROVE  /\ StoreTypes' /\ UNCHANGED <<cloud, torn>>
           /\ pc = from /\ pc' = to /\ lost <= lost' /\ db' = db /\ mem' = mem
<1>1. mem' = mem
  BY DEF StoreTypes, IsCluster, StartDelete
<1>2. db' = db
  BY <1>1 DEF StoreTypes, IsCluster, StartDelete
<1>3. lost' \in Nat /\ lost <= lost'
  BY DEF StoreTypes, StartDelete
<1>4. (sets /\ ~(mem.endp /\ reachable)) \in BOOLEAN
  OBVIOUS
<1>5. sets' \in BOOLEAN
  BY <1>4, Zenon DEF StoreTypes, StartDelete
<1> QED
  BY <1>1, <1>2, <1>3, <1>5 DEF StoreTypes, StartDelete

\* The provider's part of the deletion has succeeded.
LEMMA FinishStore ==
    ASSUME StoreTypes, NEW from, NEW phase \in {"Deleting", "Deleted"}, from # "idle",
           db.phase = "Deleting", Finish(from, phase)
    PROVE  /\ StoreTypes' /\ UNCHANGED <<cloud, lost>>
           /\ pc = from /\ pc' = "idle" /\ torn'
           /\ db'.phase = phase /\ db'.endp = db.endp /\ db'.ids = db.ids
<1>1. db' = [phase |-> phase, del |-> db.del, endp |-> db.endp, ids |-> db.ids]
  BY DEF StoreTypes, IsCluster, Finish
<1>2. /\ IsCluster(db') /\ db'.del = db.del /\ db'.phase = phase /\ db'.endp = db.endp
      /\ db'.ids = db.ids
  BY <1>1 DEF StoreTypes, IsCluster, Phases
<1> QED
  BY <1>2, NewIsCluster DEF StoreTypes, Finish, Return

-----------------------------------------------------------------------------
(* What the calls do where kinds are unique *)

\* What a command sees of the cloud.
LEMMA Reads ==
    \A k, m : /\ Only(k) = {} <=> ~There(cloud, k)
              /\ With(k, m) = {} <=> ~Has(cloud, k, m)
              /\ Only(k) = Of(cloud, k)
BY DEF Only, With, All, There, Has, Of

\* A creating call has succeeded.
LEMMA CloudMade ==
    ASSUME NEW kinds, Sound(cloud, kinds), NEW k \in kinds, ~There(cloud, k), FreshIds(k) # {},
           NEW marks \in SUBSET AllMarks, cloud' = Making(cloud, k, FreshId(k), 0, marks)
    PROVE  Makes(cloud, cloud', k, marks, kinds)
BY Fresh, CloudMake

\* A completing call has succeeded.
LEMMA CloudMarked ==
    ASSUME NEW kinds, Sound(cloud, kinds), NEW k, NEW marks \in SUBSET AllMarks,
           cloud' = Marking(cloud, Only(k), marks)
    PROVE  Marks(cloud, cloud', k, marks, kinds)
BY CloudMark, Reads

\* The cloud has completed a resource.
LEMMA CloudMarkOne ==
    ASSUME NEW kinds, Sound(cloud, kinds), NEW r \in cloud, NEW marks \in SUBSET AllMarks,
           cloud' = Marking(cloud, {r}, marks)
    PROVE  Marks(cloud, cloud', r.kind, marks, kinds)
<1>1. {r} = Of(cloud, r.kind)
  BY DEF Sound, Unique, Of
<1> QED
  BY <1>1, CloudMark

\* A deleting call has succeeded.
LEMMA CloudDropped ==
    ASSUME NEW kinds, Sound(cloud, kinds), NEW k, cloud' = cloud \ Only(k)
    PROVE  Drops(cloud, cloud', {k}, kinds)
<1>1. cloud' = Dropping(cloud, {k})
  BY DEF Dropping, Only, All
<1> QED
  BY <1>1, CloudDrop

\* The machine controller has made or removed the worker.
LEMMA ScaledCloud ==
    ASSUME NEW kinds, Sound(cloud, kinds), "worker" \in kinds, NEW masters,
           masters # {}, masters \subseteq cloud,
           \/ Only("worker") = {} /\ cloud' = cloud \cup {[kind |-> "worker", id |-> 1,
                  in |-> (CHOOSE m \in masters : TRUE).in, has |-> {"owner", "running"}]}
           \/ cloud' = cloud \ Only("worker")
    PROVE  \/ Makes(cloud, cloud', "worker", {"owner", "running"}, kinds)
           \/ Drops(cloud, cloud', {"worker"}, kinds)
<1>1. (CHOOSE m \in masters : TRUE).in \in Nat
  BY DEF Sound, Resources
<1>2. CASE cloud' = cloud \ Only("worker")
  BY <1>2, CloudDropped
<1>3. CASE Only("worker") = {} /\ cloud' = cloud \cup {[kind |-> "worker", id |-> 1,
                  in |-> (CHOOSE m \in masters : TRUE).in, has |-> {"owner", "running"}]}
  <2>1. cloud' = Making(cloud, "worker", 1, (CHOOSE m \in masters : TRUE).in,
            {"owner", "running"})
    BY <1>3 DEF Making
  <2>2. ~There(cloud, "worker") /\ {"owner", "running"} \in SUBSET AllMarks
    BY <1>3, Reads DEF AllMarks
  <2> QED
    BY <1>1, <2>1, <2>2, CloudMake
<1> QED
  BY <1>2, <1>3

-----------------------------------------------------------------------------
(* Azure *)

\* What the module of a provider says is what the common one says.
LEMMA AzureSame ==
    /\ Azure!NewCluster = NewCluster
    /\ \A k, m : Azure!Only(k) = Only(k) /\ Azure!With(k, m) = With(k, m)
    /\ \A S : Azure!All(S) = All(S) /\ Azure!First(S) = First(S)
    /\ \A k : Azure!FreshIds(k) = FreshIds(k) /\ Azure!FreshId(k) = FreshId(k)
    /\ \A k : Azure!Current(k) = Current(k)
    /\ \A S, m : Azure!Marked(S, m) = Marking(cloud, S, m)
BY DEF Azure!NewCluster, Azure!Cluster, NewCluster, Cluster, Azure!Only, Azure!With, Azure!All,
    Only, With, All,
    Azure!First, First, Azure!FreshIds, Azure!FreshId, FreshIds, FreshId, Azure!Current, Current,
    Azure!Marked, Marking

\* The parts of the command around the provider.
LEMMA AzureCommand ==
    /\ Azure!Apply => Apply
    /\ Azure!DeleteCluster => DeleteCluster
    /\ \A from, endp, ids, to : Azure!Save(from, endp, ids, to) => Save(from, endp, ids, to)
    /\ \A from, ok : Azure!MarkReady(from, ok) => MarkReady(from, ok)
    /\ \A from, ok, to : Azure!StartDelete(from, ok, to) => StartDelete(from, ok, to)
    /\ \A from, phase : Azure!Finish(from, phase) => Finish(from, phase)
BY AzureSame DEF Azure!Apply, Apply, Azure!DeleteCluster, DeleteCluster, Azure!Save, Save,
    Azure!MarkReady,
    MarkReady, Azure!StartDelete, StartDelete, Azure!Finish, Finish, Azure!Return, Return

\* The calls, as steps of the command.
LEMMA AzureCalls ==
    ASSUME StoreTypes
    PROVE
    /\ \A from, ok, to : Azure!Check(from, ok, to) =>
         Moves(from, to) /\ UNCHANGED <<cloud, lost>> /\ (pc' = to => ok \/ to = "idle")
    /\ \A from, S, found, missing : Azure!Find(from, S, found, missing) =>
         (Moves(from, found) \/ Moves(from, missing)) /\ UNCHANGED cloud
    /\ \A from, ok, kind, in, marks, to : Azure!Make(from, ok, kind, in, marks, to) =>
         /\ Moves(from, to) /\ lost' = lost
         /\ \/ pc' = "idle" /\ cloud' = cloud
            \/ /\ ok /\ FreshIds(kind) # {} /\ pc' = to /\ cur' = FreshId(kind)
               /\ cloud' = Making(cloud, kind, FreshId(kind), in, marks)
    /\ \A from, ok, S, marks, to : Azure!Mark(from, ok, S, marks, to) =>
         /\ Moves(from, to) /\ lost' = lost
         /\ \/ pc' = "idle" /\ cloud' = cloud
            \/ ok /\ pc' = to /\ cur' = cur /\ cloud' = Marking(cloud, S, marks)
    /\ Azure!Abort
           => Moves(pc, "idle") /\ pc # "idle" /\ pc' = "idle" /\ UNCHANGED <<cloud, lost>>
BY AzureSame DEF Moves, StoreTypes, Azure!Check, Azure!Find, Azure!Make, Azure!Resource,
    Azure!Mark, Azure!Decide, Azure!Continue, Azure!Return, Azure!Abort, Making

\* CreateOrUpdate makes what is missing.
LEMMA AzureCreate ==
    ASSUME StoreTypes, Sound(cloud, AzureKinds), NEW from, NEW ok, NEW kind \in AzureKinds,
           NEW to,
           Azure!CreateOrUpdate(from, ok, kind, to)
    PROVE  Moves(from, to) /\ Sound(cloud', AzureKinds)
<1>1. CASE There(cloud, kind)
  BY <1>1, AzureCalls, AzureSame, Reads DEF Azure!CreateOrUpdate
<1>2. CASE ~There(cloud, kind)
  <2>1. Azure!Make(from, ok, kind, 0, {}, to)
    BY <1>2, AzureSame, Reads DEF Azure!CreateOrUpdate
  <2> QED
    BY <1>2, <2>1, AzureCalls, CloudMade DEF Makes
<1> QED
  BY <1>1, <1>2

\* A step towards a cluster leaves nothing that a deletion has done.
LEMMA AzurePrepares ==
    ASSUME AzureInv, NEW from \in AzurePrepare, NEW to \in AzurePrepare, Moves(from, to),
           Sound(cloud', AzureKinds)
    PROVE  AzureInv'
<1>1. StoreTypes'
  BY MovesStore DEF AzureInv, AzurePrepare
<1>2. db.phase = "Pending" /\ ~torn
  BY DEF AzureInv, StoreTypes, Phased, Moves
<1>3. ~torn' /\ pc' # "dend" /\ db'.phase = "Pending" /\ pc' \in {"idle", to}
  BY <1>2 DEF Moves, AzurePrepare
<1>4. Phased(AzurePrepare, AzureDelete)'
  BY <1>3 DEF Phased, AzurePrepare, AzureDelete
<1> QED
  BY <1>1, <1>3, <1>4 DEF AzureInv, AzureGone

\* Every step keeps the invariant.
LEMMA AzureStep ==
    ASSUME AzureInv, Azure!Next
    PROVE  AzureInv'
<1>0. StoreTypes /\ Sound(cloud, AzureKinds)
  BY DEF AzureInv
<1>1. CASE Azure!Apply
  BY <1>0, <1>1, AzureCommand, ApplyStore
     DEF AzureInv, Phased, AzurePrepare, AzureDelete, AzureGone
<1>2. CASE Azure!DeleteCluster
  BY <1>0, <1>2, AzureCommand, DeleteStore
     DEF AzureInv, Phased, AzurePrepare, AzureDelete, AzureGone
<1>3. CASE Azure!Abort
  BY <1>0, <1>3, AzureCalls, MovesStore
     DEF AzureInv, Phased, AzurePrepare, AzureDelete, AzureGone, Moves
<1>4. CASE Azure!newconnector
  <2>1. Moves("connect", IF mem.phase = "Pending" THEN "rg" ELSE "dworkers") /\ cloud' = cloud
    BY <1>0, <1>4, AzureCalls DEF Azure!newconnector, Azure!Connect
  <2> QED
    BY <1>0, <2>1, MovesStore
    DEF AzureInv, StoreTypes, Phased, AzurePrepare, AzureDelete, AzureGone, Moves
<1>5. CASE Azure!getResourceGroup
  BY <1>0, <1>5, AzureCalls, AzurePrepares DEF AzurePrepare, Azure!getResourceGroup
<1>6. CASE Azure!ensureResourceGroup
  <2>1. CASE Azure!Check("rgMake", TRUE, "vnet")
    <3>1. Moves("rgMake", "vnet") /\ cloud' = cloud
      BY <1>0, <2>1, AzureCalls
    <3> QED
      BY <1>0, <3>1, AzurePrepares DEF AzurePrepare
  <2>2. CASE ~There(cloud, "rg") /\ Azure!Make("rgMake", TRUE, "rg", 0, {"done"}, "vnet")
    <3>1. /\ Moves("rgMake", "vnet")
          /\ \/ cloud' = cloud
             \/ FreshIds("rg") # {} /\ cloud' = Making(cloud, "rg", FreshId("rg"), 0, {"done"})
      BY <1>0, <2>2, AzureCalls
    <3>2. Sound(cloud', AzureKinds)
      <4>1. "rg" \in AzureKinds /\ {"done"} \in SUBSET AllMarks
        BY DEF AzureKinds, AllMarks
      <4> QED
        BY <1>0, <2>2, <3>1, <4>1, CloudMade DEF Makes
    <3> QED
      BY <3>1, <3>2, AzurePrepares DEF AzurePrepare
  <2> QED
    BY <1>6, <2>1, <2>2, AzureSame, Reads DEF Azure!ensureResourceGroup
<1>7. CASE Azure!getVirtualNetwork
  BY <1>0, <1>7, AzureCalls, AzurePrepares DEF AzurePrepare, Azure!getVirtualNetwork
<1>8. CASE Azure!ensureVirtualNetwork
  <2>1. CASE Azure!CreateOrUpdate("vnetMake", Azure!Only("rg") # {}, "vnet", "vnetWait")
    <3>1. Moves("vnetMake", "vnetWait") /\ Sound(cloud', AzureKinds)
      BY <1>0, <2>1, AzureCreate DEF AzureKinds
    <3> QED
      BY <3>1, AzurePrepares DEF AzurePrepare
  <2>2. CASE Azure!WaitForCompletionRef("vnetWait", "vnet", "nsgMaster")
    BY <1>0, <2>2, AzureCalls, AzurePrepares DEF AzurePrepare, Azure!WaitForCompletionRef
  <2> QED
    BY <1>8, <2>1, <2>2 DEF Azure!ensureVirtualNetwork
<1>9. CASE Azure!getNetworkSecurityGroup("nsg-master", "nsgMaster", "nsgNode", "nsgMasterMake")
  BY <1>0, <1>9, AzureCalls, AzurePrepares DEF AzurePrepare, Azure!getNetworkSecurityGroup
<1>10. CASE Azure!createNetworkSecurityGroup("nsg-master", "nsgMasterMake", "nsgMasterWait",
                "nsgNode")
  <2>1. CASE Azure!CreateOrUpdate("nsgMasterMake", Azure!Only("rg") # {}, "nsg-master",
                 "nsgMasterWait")
    <3>1. Moves("nsgMasterMake", "nsgMasterWait") /\ Sound(cloud', AzureKinds)
      BY <1>0, <2>1, AzureCreate DEF AzureKinds
    <3> QED
      BY <3>1, AzurePrepares DEF AzurePrepare
  <2>2. CASE Azure!WaitForCompletionRef("nsgMasterWait", "nsg-master", "nsgNode")
    BY <1>0, <2>2, AzureCalls, AzurePrepares DEF AzurePrepare, Azure!WaitForCompletionRef
  <2> QED
    BY <1>10, <2>1, <2>2 DEF Azure!createNetworkSecurityGroup
<1>11. CASE Azure!getNetworkSecurityGroup("nsg-node", "nsgNode", "rt", "nsgNodeMake")
  BY <1>0, <1>11, AzureCalls, AzurePrepares DEF AzurePrepare, Azure!getNetworkSecurityGroup
<1>12. CASE Azure!createNetworkSecurityGroup("nsg-node", "nsgNodeMake", "nsgNodeWait", "rt")
  <2>1. CASE Azure!CreateOrUpdate("nsgNodeMake", Azure!Only("rg") # {}, "nsg-node", "nsgNodeWait")
    <3>1. Moves("nsgNodeMake", "nsgNodeWait") /\ Sound(cloud', AzureKinds)
      BY <1>0, <2>1, AzureCreate DEF AzureKinds
    <3> QED
      BY <3>1, AzurePrepares DEF AzurePrepare
  <2>2. CASE Azure!WaitForCompletionRef("nsgNodeWait", "nsg-node", "rt")
    BY <1>0, <2>2, AzureCalls, AzurePrepares DEF AzurePrepare, Azure!WaitForCompletionRef
  <2> QED
    BY <1>12, <2>1, <2>2 DEF Azure!createNetworkSecurityGroup
<1>13. CASE Azure!getRouteTable
  BY <1>0, <1>13, AzureCalls, AzurePrepares DEF AzurePrepare, Azure!getRouteTable
<1>14. CASE Azure!createRouteTable
  <2>1. CASE Azure!CreateOrUpdate("rtMake", Azure!Only("rg") # {}, "rt", "rtWait")
    <3>1. Moves("rtMake", "rtWait") /\ Sound(cloud', AzureKinds)
      BY <1>0, <2>1, AzureCreate DEF AzureKinds
    <3> QED
      BY <3>1, AzurePrepares DEF AzurePrepare
  <2>2. CASE Azure!WaitForCompletionRef("rtWait", "rt", "subnetMaster")
    BY <1>0, <2>2, AzureCalls, AzurePrepares DEF AzurePrepare, Azure!WaitForCompletionRef
  <2> QED
    BY <1>14, <2>1, <2>2 DEF Azure!createRouteTable
<1>15. CASE Azure!getSubnetID("subnet-master", "subnetMaster", "subnetNode", "subnetMasterMake")
  BY <1>0, <1>15, AzureCalls, AzurePrepares DEF AzurePrepare, Azure!getSubnetID
<1>16. CASE Azure!createSubnetID("subnet-master", {"vnet", "nsg-master"},
                              "subnetMasterMake", "subnetMasterWait", "subnetNode")
  <2>1. CASE Azure!CreateOrUpdate("subnetMasterMake", \A k \in {"vnet", "nsg-master"} :
                 Azure!Done(k) # {}, "subnet-master", "subnetMasterWait")
    <3>1. Moves("subnetMasterMake", "subnetMasterWait") /\ Sound(cloud', AzureKinds)
      BY <1>0, <2>1, AzureCreate DEF AzureKinds
    <3> QED
      BY <3>1, AzurePrepares DEF AzurePrepare
  <2>2. CASE Azure!WaitForCompletionRef("subnetMasterWait", "subnet-master", "subnetNode")
    BY <1>0, <2>2, AzureCalls, AzurePrepares DEF AzurePrepare, Azure!WaitForCompletionRef
  <2> QED
    BY <1>16, <2>1, <2>2 DEF Azure!createSubnetID
<1>17. CASE Azure!getSubnetID("subnet-node", "subnetNode", "lbInternal", "subnetNodeMake")
  BY <1>0, <1>17, AzureCalls, AzurePrepares DEF AzurePrepare, Azure!getSubnetID
<1>18. CASE Azure!createSubnetID("subnet-node", {"vnet", "nsg-node", "rt"},
                              "subnetNodeMake", "subnetNodeWait", "lbInternal")
  <2>1. CASE Azure!CreateOrUpdate("subnetNodeMake", \A k \in {"vnet", "nsg-node", "rt"} :
                 Azure!Done(k) # {}, "subnet-node", "subnetNodeWait")
    <3>1. Moves("subnetNodeMake", "subnetNodeWait") /\ Sound(cloud', AzureKinds)
      BY <1>0, <2>1, AzureCreate DEF AzureKinds
    <3> QED
      BY <3>1, AzurePrepares DEF AzurePrepare
  <2>2. CASE Azure!WaitForCompletionRef("subnetNodeWait", "subnet-node", "lbInternal")
    BY <1>0, <2>2, AzureCalls, AzurePrepares DEF AzurePrepare, Azure!WaitForCompletionRef
  <2> QED
    BY <1>18, <2>1, <2>2 DEF Azure!createSubnetID
<1>19. CASE Azure!createInternalLoadBalancer
  <2>1. CASE Azure!CreateOrUpdate("lbInternalMake", Azure!Done("subnet-master") # {},
                 "lb-internal", "lbInternalWait")
    <3>1. Moves("lbInternalMake", "lbInternalWait") /\ Sound(cloud', AzureKinds)
      BY <1>0, <2>1, AzureCreate DEF AzureKinds
    <3> QED
      BY <3>1, AzurePrepares DEF AzurePrepare
  <2>2. CASE Azure!WaitForCompletionRef("lbInternalWait", "lb-internal", "pip")
    BY <1>0, <2>2, AzureCalls, AzurePrepares DEF AzurePrepare, Azure!WaitForCompletionRef
  <2> QED
    BY <1>19, <2>1, <2>2 DEF Azure!createInternalLoadBalancer
<1>20. CASE Azure!getPublicIP
  BY <1>0, <1>20, AzureCalls, AzurePrepares DEF AzurePrepare, Azure!getPublicIP
<1>21. CASE Azure!createPublicIP
  <2>1. CASE Azure!CreateOrUpdate("pipMake", Azure!Only("rg") # {}, "pip", "pipWait")
    <3>1. Moves("pipMake", "pipWait") /\ Sound(cloud', AzureKinds)
      BY <1>0, <2>1, AzureCreate DEF AzureKinds
    <3> QED
      BY <3>1, AzurePrepares DEF AzurePrepare
  <2>2. CASE Azure!WaitForCompletionRef("pipWait", "pip", "lbPublic")
    BY <1>0, <2>2, AzureCalls, AzurePrepares DEF AzurePrepare, Azure!WaitForCompletionRef
  <2> QED
    BY <1>21, <2>1, <2>2 DEF Azure!createPublicIP
<1>22. CASE Azure!createPublicLoadBalancer
  <2>1. CASE Azure!CreateOrUpdate("lbPublicMake", Azure!Done("pip") # {}, "lb-public",
                 "lbPublicWait")
    <3>1. Moves("lbPublicMake", "lbPublicWait") /\ Sound(cloud', AzureKinds)
      BY <1>0, <2>1, AzureCreate DEF AzureKinds
    <3> QED
      BY <3>1, AzurePrepares DEF AzurePrepare
  <2>2. CASE Azure!WaitForCompletionRef("lbPublicWait", "lb-public", "endpoint")
    BY <1>0, <2>2, AzureCalls, AzurePrepares DEF AzurePrepare, Azure!WaitForCompletionRef
  <2> QED
    BY <1>22, <2>1, <2>2 DEF Azure!createPublicLoadBalancer
<1>23. CASE Azure!findLoadBalancer("lb-internal", "lbInternal", "pip", "lbInternalMake")
  BY <1>0, <1>23, AzureCalls, AzurePrepares DEF AzurePrepare, Azure!findLoadBalancer
<1>24. CASE Azure!findLoadBalancer("lb-public", "lbPublic", "endpoint", "lbPublicMake")
  BY <1>0, <1>24, AzureCalls, AzurePrepares DEF AzurePrepare, Azure!findLoadBalancer
<1>25. CASE Azure!ensureLoadBalancer /\ pc = "endpoint"
  <2>1. /\ UNCHANGED <<db, cloud, sets, torn, aborts, lost>>
        /\ \/ pc' = "nic" /\ mem' = [mem EXCEPT !.endp = TRUE]
           \/ pc' = "idle" /\ mem' = NewCluster
    BY <1>25, AzureSame
    DEF Azure!ensureLoadBalancer, Azure!findLoadBalancer, Azure!Find, Azure!Return
  <2>2. IsCluster(mem') /\ (pc' # "idle" => mem'.phase = mem.phase /\ mem'.del = mem.del)
    BY <1>0, <2>1, NewIsCluster DEF StoreTypes, IsCluster
  <2> QED
    BY <1>25, <2>1, <2>2 DEF AzureInv, StoreTypes, Phased, AzurePrepare, AzureDelete, AzureGone
<1>26. CASE Azure!getNetworkInterface
  BY <1>0, <1>26, AzureCalls, AzurePrepares DEF AzurePrepare, Azure!getNetworkInterface
<1>27. CASE Azure!createNetworkInterface
  <2>1. CASE Azure!CreateOrUpdate("nicMake",
                 \A k \in {"subnet-master", "lb-public", "lb-internal"} :
                     Azure!Done(k) # {}, "nic", "nicWait")
    <3>1. Moves("nicMake", "nicWait") /\ Sound(cloud', AzureKinds)
      BY <1>0, <2>1, AzureCreate DEF AzureKinds
    <3> QED
      BY <3>1, AzurePrepares DEF AzurePrepare
  <2>2. CASE Azure!WaitForCompletionRef("nicWait", "nic", "masterNic")
    BY <1>0, <2>2, AzureCalls, AzurePrepares DEF AzurePrepare, Azure!WaitForCompletionRef
  <2> QED
    BY <1>27, <2>1, <2>2 DEF Azure!createNetworkInterface
<1>28. CASE Azure!masterNIC
  BY <1>0, <1>28, AzureCalls, AzurePrepares DEF AzurePrepare, Azure!masterNIC
<1>29. CASE Azure!getVirtualMachine
  BY <1>0, <1>29, AzureCalls, AzurePrepares DEF AzurePrepare, Azure!getVirtualMachine
<1>30. CASE Azure!createVirtualMachine
  <2>1. CASE Azure!CreateOrUpdate("masterMake", Azure!Done("nic") # {}, "master", "extension")
    BY <1>0, <2>1, AzureCreate, AzurePrepares DEF AzurePrepare, AzureKinds
  <2>2. CASE Azure!Mark("extension", TRUE, Azure!Only("master"), {"script"}, "save")
    <3>1. /\ Moves("extension", "save")
          /\ cloud' = cloud \/ cloud' = Marking(cloud, Only("master"), {"script"})
      BY <1>0, <2>2, AzureSame, AzureCalls
    <3>2. Sound(cloud', AzureKinds)
      <4>1. {"script"} \in SUBSET AllMarks
        BY DEF AllMarks
      <4> QED
        BY <1>0, <3>1, <4>1, CloudMarked DEF Marks
    <3> QED
      BY <3>1, <3>2, AzurePrepares DEF AzurePrepare
  <2> QED
    BY <1>30, <2>1, <2>2 DEF Azure!createVirtualMachine
<1>31. CASE Azure!EnsureMaster
  <2>1. CASE Azure!Save("save", mem.endp, {}, "vmid")
    BY <1>0, <2>1, AzureCommand, SaveStore
    DEF AzureInv, StoreTypes, IsCluster, Phased, AzurePrepare, AzureDelete, AzureGone
  <2>2. CASE pc = "vmid" /\ Azure!EnsureMaster
    <3>1. /\ pc' = "ready" /\ UNCHANGED <<cloud, sets, torn, aborts, lost>>
          /\ mem' = [mem EXCEPT !.ids = @ \cup {"vmid"}]
          /\ db' = [db EXCEPT !.ids = @ \cup {"vmid"}]
      BY <2>2 DEF Azure!EnsureMaster, Azure!Save
    <3>2. IsCluster(mem') /\ mem'.phase = mem.phase /\ mem'.del = mem.del
      BY <1>0, <3>1 DEF StoreTypes, IsCluster
    <3>3. IsCluster(db') /\ db'.phase = db.phase /\ db'.del = db.del
      BY <1>0, <3>1 DEF StoreTypes, IsCluster
    <3> QED
      BY <2>2, <3>1, <3>2, <3>3
      DEF AzureInv, StoreTypes, Phased, AzurePrepare, AzureDelete, AzureGone
  <2> QED
    BY <1>31, <2>1, <2>2 DEF Azure!EnsureMaster
<1>32. CASE Azure!MarkReady("ready", Azure!Reachable)
  <2>1. db.phase = "Pending"
    BY <1>32 DEF AzureInv, Phased, AzurePrepare, Azure!MarkReady
  <2> QED
    BY <1>0, <1>32, <2>1, AzureCommand, ReadyStore
    DEF AzureInv, StoreTypes, Phased, AzurePrepare, AzureDelete, AzureGone
<1>33. CASE Azure!StartDelete("dworkers", Azure!Reachable, "drg")
  <2>1. db.phase = "Deleting"
    BY <1>33 DEF AzureInv, Phased, AzureDelete, Azure!StartDelete
  <2> QED
    BY <1>0, <1>33, <2>1, AzureCommand, StartStore
    DEF AzureInv, Phased, AzurePrepare, AzureDelete, AzureGone
<1>34. CASE Azure!deleteResourceGroup
  <2>1. /\ Moves("drg", "dend")
        /\ \/ pc' = "idle" /\ cloud' = cloud
           \/ There(cloud, "rg") /\ pc' = "dend"
                  /\ Marks(cloud, cloud', "rg", {"deleting"}, AzureKinds)
    BY <1>0, <1>34, AzureSame, AzureCalls, CloudMarked, Reads DEF AllMarks,
        Azure!deleteResourceGroup
  <2> QED
    BY <1>0, <2>1, MovesStore
    DEF AzureInv, Phased, AzurePrepare, AzureDelete, AzureGone, Moves, Marks
<1>35. CASE Azure!ApplyDelete
  <2>1. db.phase = "Deleting" /\ pc = "dend"
    BY <1>35 DEF AzureInv, Phased, AzureDelete, Azure!ApplyDelete, Azure!Finish
  <2> QED
    BY <1>0, <1>35, <2>1, AzureCommand, FinishStore
    DEF AzureInv, Phased, AzurePrepare, AzureDelete, AzureGone, Azure!ApplyDelete
<1>36. CASE Azure!Provision
  <2>1. PICK r \in cloud, m \in {"done", "failed"} : cloud' = Marking(cloud, {r}, {m})
    BY <1>36, AzureSame DEF Azure!Provision, All
  <2>2. Marks(cloud, cloud', r.kind, {m}, AzureKinds)
    BY <1>0, <2>1, CloudMarkOne DEF AllMarks
  <2>3. Steady
    BY <1>0, <1>36 DEF Steady, StoreTypes, Azure!Provision
  <2> QED
    BY <1>0, <2>2, <2>3, SteadyStore DEF AzureInv, Phased, AzureGone, Steady, Marks
<1>37. CASE Azure!removeGroup
  <2>1. Steady /\ cloud' = {} /\ pc = "idle"
    BY <1>0, <1>37 DEF Steady, StoreTypes, Azure!removeGroup
  <2>2. Sound(cloud', AzureKinds) /\ \A k : ~There(cloud', k)
    BY <2>1 DEF Sound, Unique, There
  <2> QED
    BY <1>0, <2>1, <2>2, SteadyStore DEF AzureInv, Phased, AzureGone, Steady
<1>38. CASE ~Has(cloud, "rg", "deleting") /\ Azure!ControllerScale(Azure!Done("master"), "drg")
  <2>1. There(cloud, "master") /\ Steady /\ pc \in {"idle", "drg"}
    BY <1>0, <1>38, AzureSame, Reads DEF Steady, StoreTypes, Azure!ControllerScale, Azure!Done,
        Has, There
  <2>2. Sound(cloud', AzureKinds)
    <3>1. "worker" \in AzureKinds /\ Azure!Done("master") \subseteq cloud
      BY DEF AzureKinds, Azure!Done, Azure!With, Azure!Only, Azure!All
    <3> QED
      BY <1>0, <1>38, <3>1, AzureSame, ScaledCloud DEF Azure!ControllerScale, Azure!Resource,
          Makes, Drops
  <2> QED
    BY <1>0, <1>38, <2>1, <2>2, SteadyStore DEF AzureInv, Phased, AzureGone, Steady
<1> QED
  BY <1>1, <1>2, <1>3, <1>4, <1>5, <1>6, <1>7, <1>8, <1>9, <1>10, <1>11, <1>12, <1>13, <1>14,
     <1>15, <1>16, <1>17, <1>18, <1>19, <1>20, <1>21, <1>22, <1>23, <1>24, <1>25, <1>26,
     <1>27, <1>28, <1>29, <1>30, <1>31, <1>32, <1>33, <1>34, <1>35, <1>36, <1>37, <1>38,
     AzureSame, Reads
  DEF Azure!Next, Azure!Step, Azure!Prepare, Azure!Master, Azure!Teardown, Azure!Environment,
      Azure!ensureSecurityGroup, Azure!ensureSubnet, Azure!ensureLoadBalancer

-----------------------------------------------------------------------------
(* GCE *)

\* What the module of a provider says is what the common one says.
LEMMA GceSame ==
    /\ Gce!NewCluster = NewCluster
    /\ \A k, m : Gce!Only(k) = Only(k) /\ Gce!With(k, m) = With(k, m)
    /\ \A S : Gce!All(S) = All(S) /\ Gce!First(S) = First(S)
    /\ \A k : Gce!FreshIds(k) = FreshIds(k) /\ Gce!FreshId(k) = FreshId(k)
    /\ \A k : Gce!Current(k) = Current(k)
    /\ \A S, m : Gce!Marked(S, m) = Marking(cloud, S, m)
BY DEF Gce!NewCluster, Gce!Cluster, NewCluster, Cluster, Gce!Only, Gce!With, Gce!All, Only,
    With, All,
    Gce!First, First, Gce!FreshIds, Gce!FreshId, FreshIds, FreshId, Gce!Current, Current,
    Gce!Marked, Marking

\* The parts of the command around the provider.
LEMMA GceCommand ==
    /\ Gce!Apply => Apply
    /\ Gce!DeleteCluster => DeleteCluster
    /\ \A from, endp, ids, to : Gce!Save(from, endp, ids, to) => Save(from, endp, ids, to)
    /\ \A from, ok : Gce!MarkReady(from, ok) => MarkReady(from, ok)
    /\ \A from, ok, to : Gce!StartDelete(from, ok, to) => StartDelete(from, ok, to)
    /\ \A from, phase : Gce!Finish(from, phase) => Finish(from, phase)
BY GceSame DEF Gce!Apply, Apply, Gce!DeleteCluster, DeleteCluster, Gce!Save, Save, Gce!MarkReady,
    MarkReady, Gce!StartDelete, StartDelete, Gce!Finish, Finish, Gce!Return, Return

\* The calls, as steps of the command.
LEMMA GceCalls ==
    ASSUME StoreTypes
    PROVE
    /\ \A from, ok, to : Gce!Check(from, ok, to) =>
         Moves(from, to) /\ UNCHANGED <<cloud, lost>> /\ (pc' = to => ok \/ to = "idle")
    /\ \A from, S, found, missing : Gce!Find(from, S, found, missing) =>
         (Moves(from, found) \/ Moves(from, missing)) /\ UNCHANGED cloud
    /\ \A from, ok, kind, in, marks, to : Gce!Make(from, ok, kind, in, marks, to) =>
         /\ Moves(from, to) /\ lost' = lost
         /\ \/ pc' = "idle" /\ cloud' = cloud
            \/ /\ ok /\ FreshIds(kind) # {} /\ pc' = to /\ cur' = FreshId(kind)
               /\ cloud' = Making(cloud, kind, FreshId(kind), in, marks)
    /\ \A from, ok, S, to : Gce!RemoveLogged(from, ok, S, to) =>
         /\ Moves(from, to)
         /\ \/ ok /\ cloud' = cloud \ S
            \/ ~ok /\ cloud' = cloud
            \/ lost' = lost + 1 /\ cloud' = cloud
    /\ Gce!Abort => Moves(pc, "idle") /\ pc # "idle" /\ pc' = "idle" /\ UNCHANGED <<cloud, lost>>
BY GceSame DEF Moves, StoreTypes, Gce!Check, Gce!Find, Gce!Make, Gce!Resource,
    Gce!RemoveLogged, Gce!Decide, Gce!Continue, Gce!Return, Gce!Abort, Making

\* Names are unique: an insertion makes what was missing.
LEMMA GceInsert ==
    ASSUME StoreTypes, Sound(cloud, GceKinds), NEW from, NEW ok, NEW kind \in GceKinds, NEW to,
           Gce!Insert(from, ok, kind, to)
    PROVE  Moves(from, to) /\ Sound(cloud', GceKinds)
<1>1. Gce!Make(from, ok /\ Gce!Only(kind) = {}, kind, 0, {}, to)
  BY DEF Gce!Insert
<1>2. /\ Moves(from, to)
      /\ \/ cloud' = cloud
         \/ /\ ok /\ Gce!Only(kind) = {} /\ FreshIds(kind) # {}
            /\ cloud' = Making(cloud, kind, FreshId(kind), 0, {})
  BY <1>1, GceCalls
<1> QED
  BY <1>2, GceSame, Reads, CloudMade DEF Makes

\* An insertion that comes after a look for the name changes nothing else.
LEMMA GceInsertIfMissing ==
    ASSUME StoreTypes, Sound(cloud, GceKinds), NEW from, NEW kind \in GceKinds, NEW to,
           Gce!InsertIfMissing(from, kind, to)
    PROVE  Moves(from, to) /\ Sound(cloud', GceKinds)
<1>1. CASE There(cloud, kind)
  BY <1>1, GceCalls, GceSame, Reads DEF Gce!InsertIfMissing
<1>2. CASE ~There(cloud, kind)
  <2>1. Gce!Make(from, TRUE, kind, 0, {}, to)
    BY <1>2, GceSame, Reads DEF Gce!InsertIfMissing
  <2>2. /\ Moves(from, to)
        /\ \/ cloud' = cloud
           \/ FreshIds(kind) # {} /\ cloud' = Making(cloud, kind, FreshId(kind), 0, {})
    BY <2>1, GceCalls
  <2> QED
    BY <1>2, <2>2, CloudMade DEF Makes
<1> QED
  BY <1>1, <1>2

\* A deletion succeeds, is refused, or fails and is logged.
LEMMA GceRemoved ==
    ASSUME StoreTypes, Sound(cloud, GceKinds), NEW from, NEW ok, NEW kind, NEW to,
           Gce!RemoveLogged(from, ok, Gce!Only(kind), to)
    PROVE  /\ Moves(from, to)
           /\ \/ Drops(cloud, cloud', {kind}, GceKinds)
              \/ cloud' = cloud /\ (~ok \/ lost' = lost + 1)
<1>1. /\ Moves(from, to)
      /\ \/ cloud' = cloud \ Gce!Only(kind)
         \/ cloud' = cloud /\ (~ok \/ lost' = lost + 1)
  BY GceCalls
<1> QED
  BY <1>1, GceSame, CloudDropped

\* A step towards a cluster leaves nothing that a deletion has done.
LEMMA GcePrepares ==
    ASSUME GceInv, NEW from \in GcePrepare, NEW to \in GcePrepare, Moves(from, to),
           Sound(cloud', GceKinds)
    PROVE  GceInv'
<1>1. StoreTypes'
  BY MovesStore DEF GceInv, GcePrepare
<1>2. db.phase = "Pending" /\ ~torn
  BY DEF GceInv, StoreTypes, Phased, Moves
<1>3. ~torn' /\ pc' \notin GceDelete /\ db'.phase = "Pending" /\ pc' \in {"idle", to}
  BY <1>2 DEF Moves, GcePrepare, GceDelete, GceCluster, GceSsh, GceApi, GceDisk, GceBalancer
<1>4. Phased(GcePrepare, GceDelete)'
  BY <1>3 DEF Phased
<1> QED
  BY <1>1, <1>3, <1>4
  DEF GceInv, GceGone, GceDelete, GceCluster, GceSsh, GceApi, GceDisk, GceBalancer

\* Every step keeps the invariant.
LEMMA GceStep ==
    ASSUME GceInv, Gce!Next
    PROVE  GceInv'
<1> USE DEF GceDelete, GceCluster, GceSsh, GceApi, GceDisk, GceBalancer
<1>0. StoreTypes /\ Sound(cloud, GceKinds)
  BY DEF GceInv
<1>1. CASE Gce!Apply
  BY <1>0, <1>1, GceCommand, ApplyStore DEF GceInv, Phased, GcePrepare, GceGone
<1>2. CASE Gce!DeleteCluster
  BY <1>0, <1>2, GceCommand, DeleteStore DEF GceInv, Phased, GcePrepare, GceGone
<1>3. CASE Gce!Abort
  BY <1>0, <1>3, GceCalls, MovesStore DEF GceInv, Phased, GcePrepare, GceGone, Moves
<1>4. CASE Gce!newconnector
  <2>1. /\ Moves("connect", IF mem.phase = "Pending" THEN "key" ELSE "dworkers")
        /\ UNCHANGED <<cloud, lost>>
    BY <1>0, <1>4, GceCalls DEF Gce!newconnector, Gce!Connect
  <2> QED
    BY <1>0, <2>1, MovesStore DEF GceInv, Phased, GcePrepare, GceGone, StoreTypes, Moves
<1>5. CASE Gce!importPublicKey
  <2>1. Moves("key", "network") /\ Sound(cloud', GceKinds)
    BY <1>0, <1>5, GceInsertIfMissing DEF GceKinds, Gce!importPublicKey
  <2> QED
    BY <2>1, GcePrepares DEF GcePrepare
<1>6. CASE Gce!getNetworks
  BY <1>0, <1>6, GceCalls, GcePrepares DEF GcePrepare, Gce!getNetworks
<1>7. CASE Gce!ensureNetworks
  <2>1. Moves("networkMake", "rules") /\ Sound(cloud', GceKinds)
    BY <1>0, <1>7, GceInsert DEF GceKinds, Gce!ensureNetworks
  <2> QED
    BY <2>1, GcePrepares DEF GcePrepare
<1>8. CASE Gce!getFirewallRules
  BY <1>0, <1>8, GceCalls, GcePrepares DEF GcePrepare, Gce!getFirewallRules
<1>9. CASE Gce!ensureRule("fw-default", "fwDefault", "fwDefaultMake", "fwCluster")
  <2>1. CASE Gce!Find("fwDefault", Gce!Only("fw-default"), "fwCluster", "fwDefaultMake")
    BY <1>0, <2>1, GceCalls, GcePrepares DEF GcePrepare
  <2>2. CASE Gce!Insert("fwDefaultMake", Gce!Only("network") # {}, "fw-default", "fwCluster")
    <3>1. Moves("fwDefaultMake", "fwCluster") /\ Sound(cloud', GceKinds)
      BY <1>0, <2>2, GceInsert DEF GceKinds
    <3> QED
      BY <3>1, GcePrepares DEF GcePrepare
  <2> QED
    BY <1>9, <2>1, <2>2 DEF Gce!ensureRule
<1>10. CASE Gce!ensureRule("fw-cluster", "fwCluster", "fwClusterMake", "fwSave")
  <2>1. CASE Gce!Find("fwCluster", Gce!Only("fw-cluster"), "fwSave", "fwClusterMake")
    BY <1>0, <2>1, GceCalls, GcePrepares DEF GcePrepare
  <2>2. CASE Gce!Insert("fwClusterMake", Gce!Only("network") # {}, "fw-cluster", "fwSave")
    <3>1. Moves("fwClusterMake", "fwSave") /\ Sound(cloud', GceKinds)
      BY <1>0, <2>2, GceInsert DEF GceKinds
    <3> QED
      BY <3>1, GcePrepares DEF GcePrepare
  <2> QED
    BY <1>10, <2>1, <2>2 DEF Gce!ensureRule
<1>11. CASE Gce!ensureRule("fw-ssh", "fwSsh", "fwSshMake", "fwApi")
  <2>1. CASE Gce!Find("fwSsh", Gce!Only("fw-ssh"), "fwApi", "fwSshMake")
    BY <1>0, <2>1, GceCalls, GcePrepares DEF GcePrepare
  <2>2. CASE Gce!Insert("fwSshMake", Gce!Only("network") # {}, "fw-ssh", "fwApi")
    <3>1. Moves("fwSshMake", "fwApi") /\ Sound(cloud', GceKinds)
      BY <1>0, <2>2, GceInsert DEF GceKinds
    <3> QED
      BY <3>1, GcePrepares DEF GcePrepare
  <2> QED
    BY <1>11, <2>1, <2>2 DEF Gce!ensureRule
<1>12. CASE Gce!ensureRule("fw-api", "fwApi", "fwApiMake", "fwSaveApi")
  <2>1. CASE Gce!Find("fwApi", Gce!Only("fw-api"), "fwSaveApi", "fwApiMake")
    BY <1>0, <2>1, GceCalls, GcePrepares DEF GcePrepare
  <2>2. CASE Gce!Insert("fwApiMake", Gce!Only("network") # {}, "fw-api", "fwSaveApi")
    <3>1. Moves("fwApiMake", "fwSaveApi") /\ Sound(cloud', GceKinds)
      BY <1>0, <2>2, GceInsert DEF GceKinds
    <3> QED
      BY <3>1, GcePrepares DEF GcePrepare
  <2> QED
    BY <1>12, <2>1, <2>2 DEF Gce!ensureRule
<1>13. CASE Gce!Save("fwSave", mem.endp, {"fw-cluster"}, "fwSsh")
  BY <1>0, <1>13, GceCommand, SaveStore DEF GceInv, Phased, GcePrepare, GceGone, StoreTypes,
      IsCluster
<1>14. CASE Gce!Save("fwSaveApi", mem.endp, {"fw-api"}, "lb")
  BY <1>0, <1>14, GceCommand, SaveStore DEF GceInv, Phased, GcePrepare, GceGone, StoreTypes,
      IsCluster
<1>15. CASE Gce!getLoadBalancer
  BY <1>0, <1>15, GceCalls, GcePrepares DEF GcePrepare, Gce!getLoadBalancer
<1>16. CASE Gce!InsertIfMissing("address", "address", "healthcheck")
  <2>1. Moves("address", "healthcheck") /\ Sound(cloud', GceKinds)
    BY <1>0, <1>16, GceInsertIfMissing DEF GceKinds
  <2> QED
    BY <2>1, GcePrepares DEF GcePrepare
<1>17. CASE Gce!InsertIfMissing("healthcheck", "healthcheck", "pool")
  <2>1. Moves("healthcheck", "pool") /\ Sound(cloud', GceKinds)
    BY <1>0, <1>17, GceInsertIfMissing DEF GceKinds
  <2> QED
    BY <2>1, GcePrepares DEF GcePrepare
<1>18. CASE Gce!InsertIfMissing("pool", "pool", "rule")
  <2>1. Moves("pool", "rule") /\ Sound(cloud', GceKinds)
    BY <1>0, <1>18, GceInsertIfMissing DEF GceKinds
  <2> QED
    BY <2>1, GcePrepares DEF GcePrepare
<1>19. CASE Gce!InsertIfMissing("rule", "rule", "endpoint")
  <2>1. Moves("rule", "endpoint") /\ Sound(cloud', GceKinds)
    BY <1>0, <1>19, GceInsertIfMissing DEF GceKinds
  <2> QED
    BY <2>1, GcePrepares DEF GcePrepare
<1>20. CASE Gce!ensureLoadBalancer
  <2>1. IsCluster(mem') /\ mem'.phase = mem.phase /\ mem'.del = mem.del
    BY <1>0, <1>20 DEF StoreTypes, IsCluster, Gce!ensureLoadBalancer
  <2> QED
    BY <1>20, <2>1 DEF GceInv, Phased, GcePrepare, GceGone, StoreTypes, Gce!ensureLoadBalancer
<1>21. CASE Gce!getMasterInstance
  BY <1>0, <1>21, GceCalls, GcePrepares DEF GcePrepare, Gce!getMasterInstance
<1>22. CASE Gce!getMasterPDDisk
  BY <1>0, <1>22, GceCalls, GcePrepares DEF GcePrepare, Gce!getMasterPDDisk
<1>23. CASE Gce!createDisk
  <2>1. Moves("diskMake", "masterMake") /\ Sound(cloud', GceKinds)
    BY <1>0, <1>23, GceInsert DEF GceKinds, Gce!createDisk
  <2> QED
    BY <2>1, GcePrepares DEF GcePrepare
<1>24. CASE Gce!createMasterIntance
  <2>1. Moves("masterMake", "masterWait") /\ Sound(cloud', GceKinds)
    BY <1>0, <1>24, GceInsert DEF GceKinds, Gce!createMasterIntance
  <2> QED
    BY <2>1, GcePrepares DEF GcePrepare
<1>25. CASE Gce!waitForZoneOperation
  <2>1. Moves("masterWait", "ready") /\ cloud' = cloud
    BY <1>0, <1>25, GceCalls DEF Gce!waitForZoneOperation
  <2> QED
    BY <1>0, <2>1, GcePrepares DEF GcePrepare
<1>26. CASE Gce!MarkReady("ready", Gce!Reachable)
  <2>1. db.phase = "Pending"
    BY <1>26 DEF GceInv, Phased, GcePrepare, Gce!MarkReady
  <2> QED
    BY <1>0, <1>26, <2>1, GceCommand, ReadyStore DEF GceInv, Phased, GcePrepare, GceGone,
        StoreTypes
<1>27. CASE Gce!StartDelete("dworkers", Gce!Reachable, "dmaster")
  <2>1. db.phase = "Deleting"
    BY <1>27 DEF GceInv, Phased, Gce!StartDelete
  <2> QED
    BY <1>0, <1>27, <2>1, GceCommand, StartStore DEF GceInv, Phased, GcePrepare, GceGone,
        StoreTypes
<1>28. CASE Gce!deleteMaster
  <2>1. /\ Moves("dmaster", "dfwCluster")
        /\ \/ Drops(cloud, cloud', {"master"}, GceKinds)
           \/ cloud' = cloud /\ (lost' = lost + 1)
    BY <1>0, <1>28, GceRemoved DEF Gce!deleteMaster
  <2> QED
    BY <1>0, <2>1, MovesStore DEF GceInv, Phased, GcePrepare, GceGone, StoreTypes, Moves, Drops
<1>29. CASE Gce!deleteFirewall("fw-cluster", "dfwCluster", "dfwSsh")
  <2>1. /\ Moves("dfwCluster", "dfwSsh")
        /\ \/ Drops(cloud, cloud', {"fw-cluster"}, GceKinds)
           \/ cloud' = cloud /\ (lost' = lost + 1)
    BY <1>0, <1>29, GceRemoved DEF Gce!deleteFirewall
  <2> QED
    BY <1>0, <2>1, MovesStore DEF GceInv, Phased, GcePrepare, GceGone, StoreTypes, Moves, Drops
<1>30. CASE Gce!deleteFirewall("fw-ssh", "dfwSsh", "dfwApi")
  <2>1. /\ Moves("dfwSsh", "dfwApi")
        /\ \/ Drops(cloud, cloud', {"fw-ssh"}, GceKinds)
           \/ cloud' = cloud /\ (lost' = lost + 1)
    BY <1>0, <1>30, GceRemoved DEF Gce!deleteFirewall
  <2> QED
    BY <1>0, <2>1, MovesStore DEF GceInv, Phased, GcePrepare, GceGone, StoreTypes, Moves, Drops
<1>31. CASE Gce!deleteFirewall("fw-api", "dfwApi", "ddisk")
  <2>1. /\ Moves("dfwApi", "ddisk")
        /\ \/ Drops(cloud, cloud', {"fw-api"}, GceKinds)
           \/ cloud' = cloud /\ (lost' = lost + 1)
    BY <1>0, <1>31, GceRemoved DEF Gce!deleteFirewall
  <2> QED
    BY <1>0, <2>1, MovesStore DEF GceInv, Phased, GcePrepare, GceGone, StoreTypes, Moves, Drops
<1>32. CASE Gce!deleteDisk
  <2>1. /\ Moves("ddisk", "daddress")
        /\ \/ Drops(cloud, cloud', {"disk"}, GceKinds)
           \/ cloud' = cloud /\ (There(cloud, "master") \/ lost' = lost + 1)
    BY <1>0, <1>32, GceRemoved, GceSame, Reads DEF Gce!deleteDisk
  <2> QED
    BY <1>0, <2>1, MovesStore DEF GceInv, Phased, GcePrepare, GceGone, StoreTypes, Moves, Drops
<1>33. CASE Gce!deletePart("address", Gce!Only("rule") = {}, "daddress", "drule")
  <2>1. /\ Moves("daddress", "drule") \/ Moves("daddress", "dend")
        /\ cloud' = cloud \/ cloud' = cloud \ Only("address")
    BY <1>0, <1>33, GceSame DEF Gce!deletePart, Gce!Continue, Moves, StoreTypes
  <2>2. cloud' = cloud \/ Drops(cloud, cloud', {"address"}, GceKinds)
    BY <1>0, <2>1, CloudDropped
  <2> QED
    BY <1>0, <2>1, <2>2, MovesStore DEF GceInv, Phased, GcePrepare, GceGone, StoreTypes, Moves,
        Drops
<1>34. CASE Gce!deletePart("rule", TRUE, "drule", "dpool")
  <2>1. /\ Moves("drule", "dpool") \/ Moves("drule", "dend")
        /\ cloud' = cloud \/ cloud' = cloud \ Only("rule")
    BY <1>0, <1>34, GceSame DEF Gce!deletePart, Gce!Continue, Moves, StoreTypes
  <2>2. cloud' = cloud \/ Drops(cloud, cloud', {"rule"}, GceKinds)
    BY <1>0, <2>1, CloudDropped
  <2> QED
    BY <1>0, <2>1, <2>2, MovesStore DEF GceInv, Phased, GcePrepare, GceGone, StoreTypes, Moves,
        Drops
<1>35. CASE Gce!deletePart("pool", Gce!Only("rule") = {}, "dpool", "dhealth")
  <2>1. /\ Moves("dpool", "dhealth") \/ Moves("dpool", "dend")
        /\ cloud' = cloud \/ cloud' = cloud \ Only("pool")
    BY <1>0, <1>35, GceSame DEF Gce!deletePart, Gce!Continue, Moves, StoreTypes
  <2>2. cloud' = cloud \/ Drops(cloud, cloud', {"pool"}, GceKinds)
    BY <1>0, <2>1, CloudDropped
  <2> QED
    BY <1>0, <2>1, <2>2, MovesStore DEF GceInv, Phased, GcePrepare, GceGone, StoreTypes, Moves,
        Drops
<1>36. CASE Gce!deletePart("healthcheck", Gce!Only("pool") = {}, "dhealth", "dend")
  <2>1. /\ Moves("dhealth", "dend") \/ Moves("dhealth", "dend")
        /\ cloud' = cloud \/ cloud' = cloud \ Only("healthcheck")
    BY <1>0, <1>36, GceSame DEF Gce!deletePart, Gce!Continue, Moves, StoreTypes
  <2>2. cloud' = cloud \/ Drops(cloud, cloud', {"healthcheck"}, GceKinds)
    BY <1>0, <2>1, CloudDropped
  <2> QED
    BY <1>0, <2>1, <2>2, MovesStore DEF GceInv, Phased, GcePrepare, GceGone, StoreTypes, Moves,
        Drops
<1>37. CASE Gce!Check("daddress", TRUE, "drule")
  <2>1. Moves("daddress", "drule") /\ UNCHANGED <<cloud, lost>>
    BY <1>0, <1>37, GceCalls
  <2> QED
    BY <1>0, <2>1, MovesStore DEF GceInv, Phased, GcePrepare, GceGone, Moves
<1>38. CASE Gce!ApplyDelete
  <2>1. db.phase = "Deleting" /\ pc = "dend"
    BY <1>38 DEF GceInv, Phased, Gce!ApplyDelete, Gce!Finish
  <2> QED
    BY <1>0, <1>38, <2>1, GceCommand, FinishStore DEF GceInv, Phased, GcePrepare, GceGone,
        Gce!ApplyDelete
<1>39. CASE Gce!Boot({"master"}, "masterWait")
  <2>1. PICK r \in cloud : cloud' = Marking(cloud, {r}, {"running"})
    BY <1>39, GceSame DEF Gce!Boot, All
  <2>2. Marks(cloud, cloud', r.kind, {"running"}, GceKinds)
    BY <1>0, <2>1, CloudMarkOne DEF AllMarks
  <2>3. Steady
    BY <1>0, <1>39 DEF Steady, StoreTypes, Gce!Boot
  <2> QED
    BY <1>0, <2>2, <2>3, SteadyStore DEF GceInv, Phased, GceGone, Steady, Marks
<1>40. CASE Gce!ControllerScale(Gce!With("master", "running"), "dmaster")
  <2>1. Steady
    BY <1>0, <1>40 DEF Steady, StoreTypes, Gce!ControllerScale
  <2>2. \/ Makes(cloud, cloud', "worker", {"owner", "running"}, GceKinds)
        \/ Drops(cloud, cloud', {"worker"}, GceKinds)
    <3>1. "worker" \in GceKinds /\ Gce!With("master", "running") \subseteq cloud
      BY DEF GceKinds, Gce!With, Gce!Only, Gce!All
    <3> QED
      BY <1>0, <1>40, <3>1, GceSame, ScaledCloud DEF Gce!ControllerScale, Gce!Resource
  <2> QED
    BY <1>0, <1>40, <2>1, <2>2, SteadyStore DEF GceInv, Phased, GceGone, Steady, Makes, Drops
<1> QED
  BY <1>1, <1>2, <1>3, <1>4, <1>5, <1>6, <1>7, <1>8, <1>9, <1>10, <1>11, <1>12, <1>13, <1>14,
     <1>15, <1>16, <1>17, <1>18, <1>19, <1>20, <1>21, <1>22, <1>23, <1>24, <1>25, <1>26,
     <1>27, <1>28, <1>29, <1>30, <1>31, <1>32, <1>33, <1>34, <1>35, <1>36, <1>37, <1>38,
     <1>39, <1>40
  DEF Gce!Next, Gce!Step, Gce!Prepare, Gce!Master, Gce!Teardown, Gce!Environment,
      Gce!ensureFirewallRules, Gce!createLoadBalancer, Gce!deleteFirewalls, Gce!deleteLoadBalancer

-----------------------------------------------------------------------------
(* Linode *)

\* What the module of a provider says is what the common one says.
LEMMA LinodeSame ==
    /\ Linode!NewCluster = NewCluster
    /\ \A k, m : Linode!Only(k) = Only(k) /\ Linode!With(k, m) = With(k, m)
    /\ \A S : Linode!All(S) = All(S) /\ Linode!First(S) = First(S)
    /\ \A k : Linode!FreshIds(k) = FreshIds(k) /\ Linode!FreshId(k) = FreshId(k)
    /\ \A k : Linode!Current(k) = Current(k)
    /\ \A S, m : Linode!Marked(S, m) = Marking(cloud, S, m)
BY DEF Linode!NewCluster, Linode!Cluster, NewCluster, Cluster, Linode!Only, Linode!With,
    Linode!All, Only, With, All,
    Linode!First, First, Linode!FreshIds, Linode!FreshId, FreshIds, FreshId, Linode!Current,
    Current,
    Linode!Marked, Marking

\* The parts of the command around the provider.
LEMMA LinodeCommand ==
    /\ Linode!Apply => Apply
    /\ Linode!DeleteCluster => DeleteCluster
    /\ \A from, endp, ids, to : Linode!Save(from, endp, ids, to) => Save(from, endp, ids, to)
    /\ \A from, ok : Linode!MarkReady(from, ok) => MarkReady(from, ok)
    /\ \A from, ok, to : Linode!StartDelete(from, ok, to) => StartDelete(from, ok, to)
    /\ \A from, phase : Linode!Finish(from, phase) => Finish(from, phase)
BY LinodeSame DEF Linode!Apply, Apply, Linode!DeleteCluster, DeleteCluster, Linode!Save, Save,
    Linode!MarkReady,
    MarkReady, Linode!StartDelete, StartDelete, Linode!Finish, Finish, Linode!Return, Return

\* The calls, as steps of the command.
LEMMA LinodeCalls ==
    ASSUME StoreTypes
    PROVE
    /\ \A from, ok, to : Linode!Check(from, ok, to) =>
         Moves(from, to) /\ UNCHANGED <<cloud, lost>> /\ (pc' = to => ok \/ to = "idle")
    /\ \A from, S, found, missing : Linode!Find(from, S, found, missing) =>
         (Moves(from, found) \/ Moves(from, missing)) /\ UNCHANGED cloud
    /\ \A from, ok, kind, in, marks, to : Linode!Make(from, ok, kind, in, marks, to) =>
         /\ Moves(from, to) /\ lost' = lost
         /\ \/ pc' = "idle" /\ cloud' = cloud
            \/ /\ ok /\ FreshIds(kind) # {} /\ pc' = to /\ cur' = FreshId(kind)
               /\ cloud' = Making(cloud, kind, FreshId(kind), in, marks)
    /\ \A from, ok, S, marks, to : Linode!Mark(from, ok, S, marks, to) =>
         /\ Moves(from, to) /\ lost' = lost
         /\ \/ pc' = "idle" /\ cloud' = cloud
            \/ ok /\ pc' = to /\ cur' = cur /\ cloud' = Marking(cloud, S, marks)
    /\ \A from, ok, S, to : Linode!Remove(from, ok, S, to) =>
         /\ Moves(from, to) /\ lost' = lost
         /\ \/ pc' = "idle" /\ cloud' = cloud
            \/ ok /\ pc' = to /\ cloud' = cloud \ S
    /\ \A from, ok, S, to : Linode!RemoveLogged(from, ok, S, to) =>
         /\ Moves(from, to)
         /\ \/ ok /\ cloud' = cloud \ S
            \/ ~ok /\ cloud' = cloud
            \/ lost' = lost + 1 /\ cloud' = cloud
    /\ Linode!Abort
           => Moves(pc, "idle") /\ pc # "idle" /\ pc' = "idle" /\ UNCHANGED <<cloud, lost>>
BY LinodeSame DEF Moves, StoreTypes, Linode!Check, Linode!Find, Linode!Make, Linode!Resource,
    Linode!Mark, Linode!Remove, Linode!RemoveLogged, Linode!Decide, Linode!Continue,
    Linode!Return, Linode!Abort, Making

\* What a command sees of the one master and its balancer.
LEMMA LinodeReads ==
    ASSUME Sound(cloud, LinodeKinds)
    PROVE  /\ Linode!Reachable <=> LinodeUp(cloud)
           /\ Linode!Listed <=> LinodeUp(cloud)
           /\ Linode!Alive <=> Has(cloud, "master", "running")
           /\ \A k, i : There(cloud, k) /\ (\A j : Id(cloud, k, j) => j = i) =>
                Of(cloud, k) = {r \in Of(cloud, k) : r.id = i}
<1>1. Linode!Alive <=> Has(cloud, "master", "running")
  BY LinodeSame, Reads DEF Linode!Alive
<1>2. Linode!Reachable <=> LinodeUp(cloud)
  <2>1. (\E m \in With("master", "lb") : "running" \in m.has) <=>
            Has(cloud, "master", "lb") /\ Has(cloud, "master", "running")
    BY DEF Sound, Unique, Has, With, Only, All
  <2> QED
    BY <2>1, LinodeSame, Reads DEF Linode!Reachable, LinodeUp
<1>3. \A k, i : There(cloud, k) /\ (\A j : Id(cloud, k, j) => j = i) =>
          Of(cloud, k) = {r \in Of(cloud, k) : r.id = i}
  BY DEF There, Id, Of
<1> QED
  BY <1>1, <1>2, <1>3 DEF Linode!Listed

\* A step towards a cluster takes nothing away.
LEMMA LinodePrepares ==
    ASSUME LinodeInv, NEW from \in LinodePrepare, NEW to \in LinodePrepare, Moves(from, to),
           Sound(cloud', LinodeKinds), \A k, m : Has(cloud, k, m) => Has(cloud', k, m),
           pc' = to => LinodeKnown'
    PROVE  LinodeInv'
<1> USE DEF LinodeDelete, LinodeMaster, LinodeBalancer
<1>1. StoreTypes'
  BY MovesStore DEF LinodeInv, LinodePrepare
<1>2. db.phase = "Pending" /\ ~torn
  BY DEF LinodeInv, StoreTypes, Phased, Moves
<1>3. ~torn' /\ pc' \notin LinodeDelete /\ db' = db /\ pc' \in {"idle", to}
  BY <1>2 DEF Moves, LinodePrepare
<1>4. Phased(LinodePrepare, LinodeDelete)'
  BY <1>2, <1>3 DEF Phased
<1>5. LinodeKnown'
  BY <1>3 DEF LinodeKnown, LinodePrepare, Moves
<1>6. LinodeUp(cloud) => LinodeUp(cloud')
  BY DEF LinodeUp
<1>7. lost' = 0 => lost = 0
  BY DEF LinodeInv, StoreTypes, Moves
<1>8. LinodeGone'
  BY <1>2, <1>3, <1>6, <1>7 DEF LinodeInv, LinodeGone
<1> QED
  BY <1>1, <1>4, <1>5, <1>8 DEF LinodeInv

\* The actuator changes workers and their scripts only.
LEMMA LinodeActs ==
    ASSUME LinodeInv, UNCHANGED <<pc, db, mem, cur, sets, torn, aborts>>, lost' \in Nat,
           lost <= lost',
           NEW k \in {"worker", "script-node"},
           \/ cloud' = cloud
           \/ Makes(cloud, cloud', k, {}, LinodeKinds)
           \/ Drops(cloud, cloud', {k}, LinodeKinds)
    PROVE  LinodeInv'
<1>1. Sound(cloud', LinodeKinds)
  BY DEF LinodeInv, Makes, Drops
<1>2. /\ \A j \in {"lb", "master", "script-master"} : There(cloud', j) <=> There(cloud, j)
      /\ \A j \in {"lb", "master", "script-master"} : \A m :
             Has(cloud', j, m) <=> Has(cloud, j, m)
      /\ \A i : Id(cloud', "master", i) => Id(cloud, "master", i)
  BY DEF Makes, Drops
<1>3. LinodeUp(cloud') <=> LinodeUp(cloud)
  BY <1>2 DEF LinodeUp
<1>4. LinodeKnown'
  BY <1>2, <1>3 DEF LinodeInv, LinodeKnown
<1>5. lost' = 0 => lost = 0
  BY DEF LinodeInv, StoreTypes
<1>6. LinodeGone'
  BY <1>2, <1>3, <1>5 DEF LinodeInv, LinodeGone
<1>7. StoreTypes' /\ Phased(LinodePrepare, LinodeDelete)'
  BY DEF LinodeInv, StoreTypes, Phased
<1> QED
  BY <1>1, <1>4, <1>6, <1>7 DEF LinodeInv

\* Every step keeps the invariant.
LEMMA LinodeStep ==
    ASSUME LinodeInv, Linode!Next
    PROVE  LinodeInv'
<1> USE DEF LinodeDelete, LinodeMaster, LinodeBalancer
<1>0. StoreTypes /\ Sound(cloud, LinodeKinds)
  BY DEF LinodeInv
<1>1. CASE Linode!Apply
  <2>1. /\ StoreTypes' /\ UNCHANGED <<db, cloud, torn, lost>>
        /\ pc' = "connect" /\ mem' = db /\ db.phase \in {"Pending", "Deleting"}
    BY <1>0, <1>1, LinodeCommand, ApplyStore
  <2>2. Phased(LinodePrepare, LinodeDelete)'
    BY <1>0, <2>1 DEF LinodeInv, Phased, LinodePrepare, StoreTypes
  <2>3. LinodeKnown'
    BY <1>0, <2>1 DEF LinodeInv, LinodeKnown, LinodePrepare, LinodeUp
  <2>4. LinodeGone'
    BY <1>0, <2>1 DEF LinodeInv, LinodeGone, LinodeKnown, LinodeUp, StoreTypes, Phased,
        LinodePrepare
  <2>5. StoreTypes' /\ Sound(cloud', LinodeKinds)
    BY <1>0, <2>1, ApplyStore DEF LinodeInv
  <2> QED
    BY <2>2, <2>3, <2>4, <2>5 DEF LinodeInv
<1>2. CASE Linode!DeleteCluster
  <2>1. /\ StoreTypes' /\ UNCHANGED <<pc, cloud, torn, lost>>
        /\ pc = "idle" /\ db'.phase = "Deleting" /\ db'.endp = db.endp
    BY <1>0, <1>2, LinodeCommand, DeleteStore
  <2>2. Phased(LinodePrepare, LinodeDelete)'
    BY <1>0, <2>1 DEF LinodeInv, Phased, LinodePrepare, StoreTypes
  <2>3. LinodeKnown'
    BY <1>0, <2>1 DEF LinodeInv, LinodeKnown, LinodePrepare, LinodeUp
  <2>4. LinodeGone'
    BY <1>0, <2>1 DEF LinodeInv, LinodeGone, LinodeKnown, LinodeUp, StoreTypes, Phased,
        LinodePrepare
  <2>5. StoreTypes' /\ Sound(cloud', LinodeKinds)
    BY <1>0, <2>1, DeleteStore DEF LinodeInv
  <2> QED
    BY <2>2, <2>3, <2>4, <2>5 DEF LinodeInv
<1>3. CASE Linode!Abort
  <2>1. Moves(pc, "idle") /\ pc # "idle" /\ pc' = "idle" /\ UNCHANGED <<cloud, lost>>
    BY <1>0, <1>3, LinodeCalls
  <2>2. Phased(LinodePrepare, LinodeDelete)'
    BY <1>0, <2>1 DEF LinodeInv, Phased, LinodePrepare, StoreTypes, Moves
  <2>3. LinodeKnown'
    BY <1>0, <2>1 DEF LinodeInv, LinodeKnown, LinodePrepare, LinodeUp, Moves
  <2>4. LinodeGone'
    BY <1>0, <2>1 DEF LinodeInv, LinodeGone, LinodeKnown, LinodeUp, StoreTypes, Phased,
        LinodePrepare, Moves
  <2>5. StoreTypes' /\ Sound(cloud', LinodeKinds)
    BY <1>0, <2>1, MovesStore DEF LinodeInv, Moves
  <2> QED
    BY <2>2, <2>3, <2>4, <2>5 DEF LinodeInv
<1>4. CASE Linode!newconnector
  <2>1. /\ Moves("connect", IF mem.phase = "Pending" THEN "lb" ELSE "dworkers")
        /\ UNCHANGED <<cloud, lost>>
    BY <1>0, <1>4, LinodeCalls DEF Linode!newconnector, Linode!Connect
  <2>2. Phased(LinodePrepare, LinodeDelete)'
    BY <1>0, <2>1 DEF LinodeInv, Phased, LinodePrepare, StoreTypes, Moves
  <2>3. LinodeKnown'
    BY <1>0, <2>1 DEF LinodeInv, LinodeKnown, LinodePrepare, LinodeUp, Moves
  <2>4. LinodeGone'
    BY <1>0, <2>1 DEF LinodeInv, LinodeGone, LinodeKnown, LinodeUp, StoreTypes, Phased,
        LinodePrepare, Moves
  <2>5. StoreTypes' /\ Sound(cloud', LinodeKinds)
    BY <1>0, <2>1, MovesStore DEF LinodeInv, Moves
  <2> QED
    BY <2>2, <2>3, <2>4, <2>5 DEF LinodeInv
<1>5. CASE Linode!lbByName("lb", "endpoint", "lbAgain")
  <2>1. (Moves("lb", "endpoint") \/ Moves("lb", "lbAgain")) /\ cloud' = cloud
    BY <1>0, <1>5, LinodeCalls DEF Linode!lbByName
  <2> QED
    BY <1>0, <2>1, LinodePrepares DEF LinodePrepare, LinodeKnown, Moves
<1>6. CASE Linode!createLoadBalancer
  <2>1. /\ Moves("lbAgain", "lbMake") \/ Moves("lbAgain", "endpoint")
        /\ cloud' = cloud /\ (pc' = "lbMake" => ~There(cloud, "lb"))
    <3>1. CASE Linode!Check("lbAgain", TRUE,
                   IF Linode!Only("lb") = {} THEN "lbMake" ELSE "endpoint")
      <4>1. Only("lb") = {} <=> ~There(cloud, "lb")
        BY Reads
      <4> QED
        BY <1>0, <3>1, <4>1, LinodeSame
        DEF Moves, StoreTypes, Linode!Check, Linode!Decide, Linode!Continue
    <3>2. CASE /\ pc = "lbAgain" /\ Linode!Return /\ lost' = lost + 1
               /\ UNCHANGED <<db, cloud, sets, torn, aborts>>
      <4>1. lost' \in Nat /\ lost <= lost' /\ aborts' \in Nat
        BY <1>0, <3>2 DEF StoreTypes
      <4> QED
        BY <3>2, <4>1, LinodeSame DEF Linode!Return, Moves
    <3> QED
      BY <1>6, <3>1, <3>2 DEF Linode!createLoadBalancer
  <2> QED
    BY <1>0, <2>1, LinodePrepares DEF LinodePrepare, LinodeKnown, Moves
<1>7. CASE Linode!createNodeBalancer
  <2>1. /\ Moves("lbMake", "lbGet")
        /\ \/ cloud' = cloud /\ pc' = "idle"
           \/ ~There(cloud, "lb") /\ Makes(cloud, cloud', "lb", {}, LinodeKinds)
    <3>1. /\ Moves("lbMake", "lbGet")
          /\ \/ cloud' = cloud /\ pc' = "idle"
             \/ FreshIds("lb") # {} /\ cloud' = Making(cloud, "lb", FreshId("lb"), 0, {})
      BY <1>0, <1>7, LinodeCalls DEF Linode!createNodeBalancer
    <3>2. ~There(cloud, "lb")
      BY <3>1 DEF LinodeInv, LinodeKnown, Moves
    <3>3. "lb" \in LinodeKinds /\ {} \in SUBSET AllMarks
      BY DEF LinodeKinds
    <3>4. FreshIds("lb") # {} /\ cloud' = Making(cloud, "lb", FreshId("lb"), 0, {}) =>
             Makes(cloud, cloud', "lb", {}, LinodeKinds)
      BY <1>0, <3>2, <3>3, CloudMade
    <3> QED
      BY <3>1, <3>2, <3>4
  <2> QED
    BY <1>0, <2>1, LinodePrepares DEF LinodePrepare, LinodeKnown, Moves, Makes
<1>8. CASE Linode!buildLoadBalancerRequest
  <2>1. (Moves("lbGet", "lbConfig")) /\ cloud' = cloud
    BY <1>0, <1>8, LinodeCalls DEF Linode!buildLoadBalancerRequest
  <2> QED
    BY <1>0, <2>1, LinodePrepares DEF LinodePrepare, LinodeKnown, Moves
<1>9. CASE Linode!createNodeBalancerConfig
  <2>1. /\ Moves("lbConfig", "endpoint")
        /\ cloud' = cloud \/ cloud' = Marking(cloud, Current("lb"), {"config"})
    BY <1>0, <1>9, LinodeCalls, LinodeSame DEF Linode!createNodeBalancerConfig
  <2>2. CASE Current("lb") = {}
    <3>1. cloud' = cloud
      BY <2>1, <2>2 DEF Marking
    <3> QED
      BY <1>0, <2>1, <3>1, LinodePrepares DEF LinodePrepare, LinodeKnown, Moves
  <2>3. CASE Current("lb") # {}
    <3>1. Current("lb") = Only("lb")
      BY <1>0, <2>3 DEF Current, Only, All, Sound, Unique
    <3>2. cloud' = cloud \/ Marks(cloud, cloud', "lb", {"config"}, LinodeKinds)
      BY <1>0, <2>1, <3>1, CloudMarked DEF AllMarks
    <3> QED
      BY <1>0, <2>1, <3>2, LinodePrepares DEF LinodePrepare, LinodeKnown, Moves, Marks
  <2> QED
    BY <2>2, <2>3
<1>10. CASE Linode!PrepareCloud
  <2>1. IsCluster(mem') /\ mem'.phase = mem.phase /\ mem'.del = mem.del
    BY <1>0, <1>10 DEF StoreTypes, IsCluster, Linode!PrepareCloud
  <2>2. StoreTypes' /\ Phased(LinodePrepare, LinodeDelete)'
    BY <1>10, <2>1 DEF LinodeInv, StoreTypes, Phased, LinodePrepare, Linode!PrepareCloud
  <2>3. LinodeKnown' /\ LinodeGone'
    BY <1>10, <2>1 DEF LinodeInv, LinodeKnown, LinodeGone, Linode!PrepareCloud
  <2> QED
    BY <1>0, <1>10, <2>2, <2>3 DEF LinodeInv, Linode!PrepareCloud
<1>11. CASE Linode!instanceIfExists
  <2>1. (Moves("master", "ready") \/ Moves("master", "script")) /\ cloud' = cloud
    BY <1>0, <1>11, LinodeCalls DEF Linode!instanceIfExists
  <2> QED
    BY <1>0, <2>1, LinodePrepares DEF LinodePrepare, LinodeKnown, Moves
<1>12. CASE Linode!createOrUpdateStackScript("script", "scriptAgain")
  <2>1. CASE There(cloud, "script-master")
    <3>1. Moves("script", "scriptAgain") /\ cloud' = cloud
      BY <1>0, <1>12, <2>1, LinodeCalls, LinodeSame, Reads DEF Linode!createOrUpdateStackScript
    <3> QED
      BY <1>0, <3>1, LinodePrepares DEF LinodePrepare, LinodeKnown, Moves
  <2>2. CASE ~There(cloud, "script-master")
    <3>1. Linode!Make("script", TRUE, "script-master", 0, {}, "scriptAgain")
      BY <1>12, <2>2, LinodeSame, Reads DEF Linode!createOrUpdateStackScript
    <3>2. /\ Moves("script", "scriptAgain")
          /\ \/ cloud' = cloud
             \/ /\ FreshIds("script-master") # {}
                /\ cloud' = Making(cloud, "script-master", FreshId("script-master"), 0, {})
      BY <1>0, <3>1, LinodeCalls
    <3>3. "script-master" \in LinodeKinds /\ {} \in SUBSET AllMarks
      BY DEF LinodeKinds
    <3>4. cloud' = cloud \/ Makes(cloud, cloud', "script-master", {}, LinodeKinds)
      BY <1>0, <2>2, <3>2, <3>3, CloudMade
    <3> QED
      BY <1>0, <3>2, <3>4, LinodePrepares DEF LinodePrepare, LinodeKnown, Moves, Makes
  <2> QED
    BY <2>1, <2>2
<1>13. CASE Linode!createOrUpdateStackScript("scriptAgain", "scriptId")
  <2>1. CASE There(cloud, "script-master")
    <3>1. Moves("scriptAgain", "scriptId") /\ cloud' = cloud
      BY <1>0, <1>13, <2>1, LinodeCalls, LinodeSame, Reads DEF Linode!createOrUpdateStackScript
    <3> QED
      BY <1>0, <3>1, LinodePrepares DEF LinodePrepare, LinodeKnown, Moves
  <2>2. CASE ~There(cloud, "script-master")
    <3>1. Linode!Make("scriptAgain", TRUE, "script-master", 0, {}, "scriptId")
      BY <1>13, <2>2, LinodeSame, Reads DEF Linode!createOrUpdateStackScript
    <3>2. /\ Moves("scriptAgain", "scriptId")
          /\ \/ cloud' = cloud
             \/ /\ FreshIds("script-master") # {}
                /\ cloud' = Making(cloud, "script-master", FreshId("script-master"), 0, {})
      BY <1>0, <3>1, LinodeCalls
    <3>3. "script-master" \in LinodeKinds /\ {} \in SUBSET AllMarks
      BY DEF LinodeKinds
    <3>4. cloud' = cloud \/ Makes(cloud, cloud', "script-master", {}, LinodeKinds)
      BY <1>0, <2>2, <3>2, <3>3, CloudMade
    <3> QED
      BY <1>0, <3>2, <3>4, LinodePrepares DEF LinodePrepare, LinodeKnown, Moves, Makes
  <2> QED
    BY <2>1, <2>2
<1>14. CASE Linode!getStartupScriptID
  <2>1. (Moves("scriptId", "masterMake")) /\ cloud' = cloud
    BY <1>0, <1>14, LinodeCalls DEF Linode!getStartupScriptID
  <2> QED
    BY <1>0, <2>1, LinodePrepares DEF LinodePrepare, LinodeKnown, Moves
<1>15. CASE Linode!CreateInstance
  <2>1. /\ Moves("masterMake", "masterWait")
        /\ \/ cloud' = cloud /\ pc' = "idle"
           \/ /\ ~There(cloud, "master") /\ FreshIds("master") # {} /\ cur' = FreshId("master")
              /\ cloud' = Making(cloud, "master", FreshId("master"), 0, {})
    <3>1. Only("master") = {} <=> ~There(cloud, "master")
      BY Reads
    <3> QED
      BY <1>0, <1>15, <3>1, LinodeSame
      DEF Moves, Making, StoreTypes, Linode!CreateInstance, Linode!Make, Linode!Resource,
          Linode!Return
  <2>2. "master" \in LinodeKinds /\ {} \in SUBSET AllMarks
    BY DEF LinodeKinds
  <2>3. (cloud' = cloud /\ pc' = "idle") \/ Makes(cloud, cloud', "master", {}, LinodeKinds)
    BY <1>0, <2>1, <2>2, CloudMade
  <2>4. pc' = "masterWait" =>
           There(cloud', "master") /\ \A i : Id(cloud', "master", i) => i = cur'
    <3>1. CASE pc' = "idle"
      BY <3>1
    <3>2. CASE ~There(cloud, "master") /\ cloud' = Making(cloud, "master", cur', 0, {})
      BY <3>2, MadeIds
    <3> QED
      BY <2>1, <3>1, <3>2
  <2>5. pc' = "masterWait" => LinodeKnown'
    BY <2>4 DEF LinodeKnown
  <2> QED
    BY <1>0, <2>1, <2>3, <2>5, LinodePrepares DEF LinodePrepare, Makes, Moves
<1>16. CASE Linode!waitForStatus
  <2>1. Moves("masterWait", "masterReg") /\ UNCHANGED cloud
    BY <1>0, <1>16, LinodeCalls DEF Linode!waitForStatus
  <2>2. There(cloud, "master") /\ \A i : Id(cloud, "master", i) => i = cur
    BY <2>1 DEF LinodeInv, LinodeKnown, Moves
  <2>3. Has(cloud, "master", "running")
    BY <1>16, <2>2, LinodeSame
    DEF Linode!waitForStatus, Linode!Check, Current, Only, All, There, Id, Has
  <2>4. pc' = "masterReg" => cur' = cur
    BY <1>16 DEF Linode!waitForStatus, Linode!Check, Linode!Decide, Linode!Continue
  <2>5. pc' = "masterReg" => LinodeKnown'
    BY <2>1, <2>2, <2>3, <2>4 DEF LinodeKnown
  <2> QED
    BY <1>0, <2>1, <2>5, LinodePrepares DEF LinodePrepare
<1>17. CASE Linode!addNodeToBalancer
  <2>1. /\ There(cloud, "master") /\ (\A i : Id(cloud, "master", i) => i = cur)
        /\ Has(cloud, "master", "running")
    BY <1>17 DEF LinodeInv, LinodeKnown, Linode!addNodeToBalancer, Linode!Mark
  <2>2. Current("master") = Only("master")
    BY <2>1 DEF Current, Only, All, Id
  <2>3. /\ Moves("masterReg", "save")
        /\ \/ pc' = "idle" /\ cloud' = cloud
           \/ Has(cloud, "lb", "config") /\ cloud' = Marking(cloud, Only("master"), {"lb"})
    <3>1. With("lb", "config") = {} <=> ~Has(cloud, "lb", "config")
      BY Reads
    <3> QED
      BY <1>0, <1>17, <2>2, <3>1, LinodeSame
      DEF Moves, StoreTypes, Linode!addNodeToBalancer, Linode!Mark, Linode!Decide,
      Linode!Continue,
          Linode!Return
  <2>4. \/ pc' = "idle" /\ cloud' = cloud
        \/ Has(cloud, "lb", "config") /\ Marks(cloud, cloud', "master", {"lb"}, LinodeKinds)
    BY <1>0, <2>3, CloudMarked DEF AllMarks
  <2>5. pc' = "save" => LinodeKnown'
    BY <2>1, <2>4 DEF LinodeKnown, LinodeUp, Marks
  <2> QED
    BY <1>0, <2>3, <2>4, <2>5, LinodePrepares DEF LinodePrepare, Marks
<1>18. CASE Linode!EnsureMaster
  <2>1. /\ StoreTypes' /\ UNCHANGED <<cloud, torn, lost>> /\ pc = "save" /\ pc' = "ready"
        /\ mem' = db' /\ db'.phase = db.phase /\ db'.endp = mem.endp
    BY <1>0, <1>18, LinodeCommand, SaveStore DEF Linode!EnsureMaster, StoreTypes, IsCluster
  <2>2. Phased(LinodePrepare, LinodeDelete)'
    BY <1>0, <2>1 DEF LinodeInv, Phased, LinodePrepare, StoreTypes
  <2>3. LinodeKnown'
    BY <1>0, <2>1 DEF LinodeInv, LinodeKnown, LinodePrepare, LinodeUp
  <2>4. LinodeGone'
    BY <1>0, <2>1 DEF LinodeInv, LinodeGone, LinodeKnown, LinodeUp, StoreTypes, Phased,
        LinodePrepare
  <2>5. StoreTypes' /\ Sound(cloud', LinodeKinds)
    BY <1>0, <2>1, SaveStore DEF LinodeInv
  <2> QED
    BY <2>2, <2>3, <2>4, <2>5 DEF LinodeInv
<1>19. CASE Linode!MarkReady("ready", Linode!Reachable)
  <2>0. db.phase = "Pending"
    BY <1>19 DEF LinodeInv, Phased, LinodePrepare, Linode!MarkReady
  <2>1. /\ StoreTypes' /\ UNCHANGED <<cloud, torn, lost>> /\ pc = "ready" /\ pc' = "idle"
        /\ \/ db' = db
           \/ LinodeUp(cloud) /\ db'.phase = "Ready" /\ db'.endp
    BY <1>0, <1>19, <2>0, LinodeCommand, LinodeReads, ReadyStore
  <2>2. Phased(LinodePrepare, LinodeDelete)'
    BY <1>0, <2>1 DEF LinodeInv, Phased, LinodePrepare, StoreTypes
  <2>3. LinodeKnown'
    BY <1>0, <2>1 DEF LinodeInv, LinodeKnown, LinodePrepare, LinodeUp
  <2>4. LinodeGone'
    BY <1>0, <2>1 DEF LinodeInv, LinodeGone, LinodeKnown, LinodeUp, StoreTypes, Phased,
        LinodePrepare
  <2>5. StoreTypes' /\ Sound(cloud', LinodeKinds)
    BY <1>0, <2>1, ReadyStore DEF LinodeInv
  <2> QED
    BY <2>2, <2>3, <2>4, <2>5 DEF LinodeInv
<1>20. CASE Linode!StartDelete("dworkers", Linode!Reachable, "dkube")
  <2>0. db.phase = "Deleting"
    BY <1>20 DEF LinodeInv, Phased, Linode!StartDelete
  <2>1. /\ StoreTypes' /\ UNCHANGED <<cloud, torn, db, mem>> /\ pc = "dworkers" /\ pc' = "dkube"
        /\ lost <= lost'
    BY <1>0, <1>20, <2>0, LinodeCommand, StartStore
  <2>2. Phased(LinodePrepare, LinodeDelete)'
    BY <1>0, <2>1 DEF LinodeInv, Phased, LinodePrepare, StoreTypes
  <2>3. LinodeKnown'
    BY <1>0, <2>1 DEF LinodeInv, LinodeKnown, LinodePrepare, LinodeUp
  <2>4. LinodeGone'
    BY <1>0, <2>1 DEF LinodeInv, LinodeGone, LinodeKnown, LinodeUp, StoreTypes, Phased,
        LinodePrepare
  <2>5. StoreTypes' /\ Sound(cloud', LinodeKinds)
    BY <1>0, <2>1, StartStore DEF LinodeInv
  <2> QED
    BY <2>2, <2>3, <2>4, <2>5 DEF LinodeInv
<1>21. CASE Linode!GetAdminClient("dkube", "dnodes")
  <2>1. /\ Moves("dkube", "dnodes") /\ UNCHANGED <<cloud, lost>>
        /\ pc' = "dnodes" => mem.endp
    BY <1>0, <1>21, LinodeCalls DEF Linode!GetAdminClient
  <2>2. Phased(LinodePrepare, LinodeDelete)'
    BY <1>0, <2>1 DEF LinodeInv, Phased, LinodePrepare, StoreTypes, Moves
  <2>3. LinodeKnown'
    BY <1>0, <2>1 DEF LinodeInv, LinodeKnown, LinodePrepare, LinodeUp, Moves
  <2>4. LinodeGone'
    BY <1>0, <2>1 DEF LinodeInv, LinodeGone, LinodeKnown, LinodeUp, StoreTypes, Phased,
        LinodePrepare, Moves
  <2>5. StoreTypes' /\ Sound(cloud', LinodeKinds)
    BY <1>0, <2>1, MovesStore DEF LinodeInv, Moves
  <2> QED
    BY <2>2, <2>3, <2>4, <2>5 DEF LinodeInv
<1>22. CASE Linode!deleteNodeScripts
  <2>1. /\ Moves("dnodes", "dmasters")
        /\ \/ Drops(cloud, cloud', {"script-node"}, LinodeKinds)
           \/ cloud' = cloud
    BY <1>0, <1>22, LinodeCalls, LinodeSame, CloudDropped DEF Linode!deleteNodeScripts
  <2>2. Phased(LinodePrepare, LinodeDelete)'
    BY <1>0, <2>1 DEF LinodeInv, Phased, LinodePrepare, StoreTypes, Moves, Drops
  <2>3. LinodeKnown'
    BY <1>0, <2>1 DEF LinodeInv, LinodeKnown, LinodePrepare, LinodeUp, Moves, Drops
  <2>4. LinodeGone'
    BY <1>0, <2>1 DEF LinodeInv, LinodeGone, LinodeKnown, LinodeUp, StoreTypes, Phased,
        LinodePrepare, Moves, Drops
  <2>5. StoreTypes' /\ Sound(cloud', LinodeKinds)
    BY <1>0, <2>1, MovesStore DEF LinodeInv, Moves, Drops
  <2> QED
    BY <2>2, <2>3, <2>4, <2>5 DEF LinodeInv
<1>23. CASE Linode!listMasters
  <2>1. /\ Moves("dmasters", "dscript") \/ Moves("dmasters", "dlb")
        /\ cloud' = cloud /\ (pc' = "dlb" => ~LinodeUp(cloud) \/ lost' = lost + 1)
    BY <1>0, <1>23, LinodeReads
    DEF Linode!listMasters, Linode!Check, Linode!Decide, Linode!Continue, StoreTypes, Moves
  <2>2. Phased(LinodePrepare, LinodeDelete)'
    BY <1>0, <2>1 DEF LinodeInv, Phased, LinodePrepare, StoreTypes, Moves
  <2>3. LinodeKnown'
    BY <1>0, <2>1 DEF LinodeInv, LinodeKnown, LinodePrepare, LinodeUp, Moves
  <2>4. LinodeGone'
    BY <1>0, <2>1 DEF LinodeInv, LinodeGone, LinodeKnown, LinodeUp, StoreTypes, Phased,
        LinodePrepare, Moves
  <2>5. StoreTypes' /\ Sound(cloud', LinodeKinds)
    BY <1>0, <2>1, MovesStore DEF LinodeInv, Moves
  <2> QED
    BY <2>2, <2>3, <2>4, <2>5 DEF LinodeInv
<1>24. CASE Linode!DeleteStackScript
  <2>1. /\ Moves("dscript", "dmaster")
        /\ \/ Drops(cloud, cloud', {"script-master"}, LinodeKinds)
           \/ cloud' = cloud /\ lost' = lost + 1
    BY <1>0, <1>24, LinodeCalls, LinodeSame, CloudDropped DEF Linode!DeleteStackScript
  <2>2. Phased(LinodePrepare, LinodeDelete)'
    BY <1>0, <2>1 DEF LinodeInv, Phased, LinodePrepare, StoreTypes, Moves, Drops
  <2>3. LinodeKnown'
    BY <1>0, <2>1 DEF LinodeInv, LinodeKnown, LinodePrepare, LinodeUp, Moves, Drops
  <2>4. LinodeGone'
    BY <1>0, <2>1 DEF LinodeInv, LinodeGone, LinodeKnown, LinodeUp, StoreTypes, Phased,
        LinodePrepare, Moves, Drops
  <2>5. StoreTypes' /\ Sound(cloud', LinodeKinds)
    BY <1>0, <2>1, MovesStore DEF LinodeInv, Moves, Drops
  <2> QED
    BY <2>2, <2>3, <2>4, <2>5 DEF LinodeInv
<1>25. CASE Linode!DeleteInstanceByProviderID
  <2>1. /\ Moves("dmaster", "dlb")
        /\ \/ Drops(cloud, cloud', {"master"}, LinodeKinds)
           \/ cloud' = cloud /\ lost' = lost + 1
    BY <1>0, <1>25, LinodeCalls, LinodeSame, CloudDropped DEF Linode!DeleteInstanceByProviderID
  <2>2. Phased(LinodePrepare, LinodeDelete)'
    BY <1>0, <2>1 DEF LinodeInv, Phased, LinodePrepare, StoreTypes, Moves, Drops
  <2>3. LinodeKnown'
    BY <1>0, <2>1 DEF LinodeInv, LinodeKnown, LinodePrepare, LinodeUp, Moves, Drops
  <2>4. LinodeGone'
    BY <1>0, <2>1 DEF LinodeInv, LinodeGone, LinodeKnown, LinodeUp, StoreTypes, Phased,
        LinodePrepare, Moves, Drops
  <2>5. StoreTypes' /\ Sound(cloud', LinodeKinds)
    BY <1>0, <2>1, MovesStore DEF LinodeInv, Moves, Drops
  <2> QED
    BY <2>2, <2>3, <2>4, <2>5 DEF LinodeInv
<1>26. CASE Linode!deleteLoadBalancer
  <2>1. /\ Moves("dlb", "dend")
        /\ \/ Drops(cloud, cloud', {"lb"}, LinodeKinds)
           \/ cloud' = cloud /\ pc' = "idle"
    BY <1>0, <1>26, LinodeCalls, LinodeSame, CloudDropped DEF Linode!deleteLoadBalancer
  <2>2. Phased(LinodePrepare, LinodeDelete)'
    BY <1>0, <2>1 DEF LinodeInv, Phased, LinodePrepare, StoreTypes, Moves, Drops
  <2>3. LinodeKnown'
    BY <1>0, <2>1 DEF LinodeInv, LinodeKnown, LinodePrepare, LinodeUp, Moves, Drops
  <2>4. LinodeGone'
    BY <1>0, <2>1 DEF LinodeInv, LinodeGone, LinodeKnown, LinodeUp, StoreTypes, Phased,
        LinodePrepare, Moves, Drops
  <2>5. StoreTypes' /\ Sound(cloud', LinodeKinds)
    BY <1>0, <2>1, MovesStore DEF LinodeInv, Moves, Drops
  <2> QED
    BY <2>2, <2>3, <2>4, <2>5 DEF LinodeInv
<1>27. CASE Linode!ApplyDelete
  <2>0. db.phase = "Deleting"
    BY <1>27 DEF LinodeInv, Phased, Linode!ApplyDelete, Linode!Finish
  <2>1. /\ StoreTypes' /\ UNCHANGED <<cloud, lost>> /\ pc = "dend" /\ pc' = "idle" /\ torn'
        /\ db'.phase = "Deleted" /\ db'.endp = db.endp
    BY <1>0, <1>27, <2>0, LinodeCommand, FinishStore DEF Linode!ApplyDelete
  <2>2. Phased(LinodePrepare, LinodeDelete)'
    BY <1>0, <2>1 DEF LinodeInv, Phased, LinodePrepare, StoreTypes
  <2>3. LinodeKnown'
    BY <1>0, <2>1 DEF LinodeInv, LinodeKnown, LinodePrepare, LinodeUp
  <2>4. LinodeGone'
    BY <1>0, <2>1 DEF LinodeInv, LinodeGone, LinodeKnown, LinodeUp, StoreTypes, Phased,
        LinodePrepare
  <2>5. StoreTypes' /\ Sound(cloud', LinodeKinds)
    BY <1>0, <2>1, FinishStore DEF LinodeInv
  <2> QED
    BY <2>2, <2>3, <2>4, <2>5 DEF LinodeInv
<1>28. CASE Linode!AddMachine
  <2>1. /\ UNCHANGED <<pc, db, mem, cur, sets, torn, aborts>> /\ lost' \in Nat /\ lost <= lost'
        /\ cloud' = cloud
    BY <1>0, <1>28 DEF StoreTypes, Linode!Reconcile, Linode!AddMachine
  <2> QED
    BY <2>1, LinodeActs
<1>29. CASE Linode!Exists
  <2>1. /\ UNCHANGED <<pc, db, mem, cur, sets, torn, aborts>> /\ lost' \in Nat /\ lost <= lost'
        /\ cloud' = cloud
    BY <1>0, <1>29 DEF StoreTypes, Linode!Reconcile, Linode!Exists
  <2> QED
    BY <2>1, LinodeActs
<1>30. CASE Linode!workerScript
  <2>1. /\ UNCHANGED <<pc, db, mem, cur, sets, torn, aborts>> /\ lost' \in Nat /\ lost <= lost'
        /\ \/ cloud' = cloud
           \/ ~There(cloud, "script-node") /\ cloud' = Making(cloud, "script-node", 1, 0, {})
    BY <1>0, <1>30, LinodeSame, Reads
    DEF StoreTypes, Making, Linode!Reconcile, Linode!workerScript, Linode!Resource
  <2>2. "script-node" \in LinodeKinds /\ {} \in SUBSET AllMarks
    BY DEF LinodeKinds
  <2>3. cloud' = cloud \/ Makes(cloud, cloud', "script-node", {}, LinodeKinds)
    BY <1>0, <2>1, <2>2, CloudMake
  <2> QED
    BY <2>1, <2>3, LinodeActs
<1>31. CASE Linode!Create
  <2>1. /\ UNCHANGED <<pc, db, mem, cur, sets, torn, aborts>> /\ lost' \in Nat /\ lost <= lost'
        /\ \/ cloud' = cloud
           \/ ~There(cloud, "worker") /\ cloud' = Making(cloud, "worker", 1, 0, {})
    BY <1>0, <1>31, LinodeSame, Reads
    DEF StoreTypes, Making, Linode!Reconcile, Linode!Create, Linode!Resource
  <2>2. "worker" \in LinodeKinds /\ {} \in SUBSET AllMarks
    BY DEF LinodeKinds
  <2>3. cloud' = cloud \/ Makes(cloud, cloud', "worker", {}, LinodeKinds)
    BY <1>0, <2>1, <2>2, CloudMake
  <2> QED
    BY <2>1, <2>3, LinodeActs
<1>32. CASE Linode!workerWait
  <2>1. /\ UNCHANGED <<pc, db, mem, cur, sets, torn, aborts>> /\ lost' \in Nat /\ lost <= lost'
        /\ cloud' = cloud
    BY <1>0, <1>32 DEF StoreTypes, Linode!Reconcile, Linode!workerWait
  <2> QED
    BY <2>1, LinodeActs
<1>33. CASE Linode!updateMachineStatus
  <2>1. /\ UNCHANGED <<pc, db, mem, cur, sets, torn, aborts>> /\ lost' \in Nat /\ lost <= lost'
        /\ cloud' = cloud
    BY <1>0, <1>33 DEF StoreTypes, Linode!Reconcile, Linode!updateMachineStatus
  <2> QED
    BY <2>1, LinodeActs
<1>34. CASE Linode!Delete
  <2>1. /\ UNCHANGED <<pc, db, mem, cur, sets, torn, aborts>> /\ lost' \in Nat /\ lost <= lost'
        /\ cloud' = cloud \/ cloud' = cloud \ Only("worker")
    BY <1>0, <1>34, LinodeSame DEF StoreTypes, Linode!Reconcile, Linode!Delete
  <2>2. cloud' = cloud \/ Drops(cloud, cloud', {"worker"}, LinodeKinds)
    BY <1>0, <2>1, CloudDropped
  <2> QED
    BY <2>1, <2>2, LinodeActs
<1>35. CASE Linode!ReconcileCluster
  <2>1. /\ UNCHANGED <<pc, db, mem, cur, sets, torn, aborts, lost>> /\ db.phase # "Pending"
        /\ Has(cloud, "master", "running") /\ ~There(cloud, "lb")
        /\ cloud' = Making(cloud, "lb", 1, 0, {"config"})
    BY <1>0, <1>35, LinodeSame, LinodeReads, Reads DEF Making, Linode!ReconcileCluster,
        Linode!Resource
  <2>2. "lb" \in LinodeKinds /\ {"config"} \in SUBSET AllMarks
    BY DEF LinodeKinds, AllMarks
  <2>3. Makes(cloud, cloud', "lb", {"config"}, LinodeKinds)
    BY <1>0, <2>1, <2>2, CloudMake
  <2>4. There(cloud, "master") /\ pc \notin LinodePrepare
    BY <2>1 DEF There, Has, LinodeInv, Phased
  <2>5. LinodeKnown'
    BY <2>1, <2>3, <2>4 DEF LinodeInv, LinodeKnown, LinodePrepare, LinodeUp, Makes
  <2>6. LinodeGone'
    BY <2>1, <2>3, <2>4 DEF LinodeInv, LinodeGone, LinodeUp, Makes
  <2> QED
    BY <2>1, <2>3, <2>5, <2>6 DEF LinodeInv, StoreTypes, Phased, Makes
<1>36. CASE Linode!Boot({"master", "worker"}, "masterWait")
  <2>1. PICK r \in cloud : cloud' = Marking(cloud, {r}, {"running"})
    BY <1>36, LinodeSame DEF Linode!Boot, All
  <2>2. Marks(cloud, cloud', r.kind, {"running"}, LinodeKinds)
    BY <1>0, <2>1, CloudMarkOne DEF AllMarks
  <2>3. Steady /\ cur' = cur
    BY <1>0, <1>36 DEF Steady, StoreTypes, Linode!Boot
  <2>4. LinodeKnown'
    BY <2>2, <2>3 DEF LinodeInv, LinodeKnown, LinodeUp, Steady, Marks
  <2>5. LinodeGone'
    BY <2>2, <2>3 DEF LinodeInv, LinodeGone, LinodeUp, Steady, Marks
  <2> QED
    BY <1>0, <2>2, <2>3, <2>4, <2>5, SteadyStore DEF LinodeInv, Phased, Steady, Marks
<1> QED
  BY <1>1, <1>2, <1>3, <1>4, <1>5, <1>6, <1>7, <1>8, <1>9, <1>10, <1>11, <1>12, <1>13, <1>14,
     <1>15, <1>16, <1>17, <1>18, <1>19, <1>20, <1>21, <1>22, <1>23, <1>24, <1>25, <1>26,
     <1>27, <1>28, <1>29, <1>30, <1>31, <1>32, <1>33, <1>34, <1>35, <1>36
  DEF Linode!Next, Linode!Command, Linode!Environment, Linode!Step, Linode!Prepare,
      Linode!Master, Linode!Teardown, Linode!Actuator

-----------------------------------------------------------------------------
(* What the calls do where ids are unique, and how many there are *)

\* The effects of calls, as seen by look-ups.
DMakes(c, d, kind, id, marks, kinds) ==
    /\ \A k, i : Id(d, k, i) <=> Id(c, k, i) \/ (k = kind /\ i = id)
    /\ \A k, i, m : IdHas(d, k, i, m) <=> IdHas(c, k, i, m) \/ (k = kind /\ i = id /\ m \in marks)
    /\ \A k : k # kind => Count(d, k) = Count(c, k)
    /\ Count(d, kind) = Count(c, kind) + 1
    /\ Distinct(d, kinds)

DMarks(c, d, kind, id, marks, kinds) ==
    /\ \A k, i : Id(d, k, i) <=> Id(c, k, i)
    /\ \A k, i, m : IdHas(d, k, i, m) <=> IdHas(c, k, i, m) \/ (k = kind /\ i = id /\ m \in marks)
    /\ \A k : Count(d, k) = Count(c, k)
    /\ Distinct(d, kinds)

DDrops(c, d, kind, kinds) ==
    /\ \A k, i : Id(d, k, i) => Id(c, k, i)
    /\ \A k, i : k # kind => (Id(d, k, i) <=> Id(c, k, i))
    /\ \A k, i, m : k # kind => (IdHas(d, k, i, m) <=> IdHas(c, k, i, m))
    /\ \A k : Count(d, k) <= Count(c, k)
    /\ Distinct(d, kinds)

\* The resources of a kind are finitely many: the count is a number.
LEMMA Counted ==
    ASSUME NEW kinds, NEW c, Distinct(c, kinds)
    PROVE  /\ \A k : IsFiniteSet(Of(c, k)) /\ Count(c, k) \in Nat
           /\ \A k : Of(c, k) = {} => Count(c, k) = 0
           /\ \A k : Of(c, k) = {} <=> ~There(c, k)
           /\ \A k : There(c, k) <=> \E i : Id(c, k, i)
<1>1. \A k : IsFiniteSet(Of(c, k)) /\ Count(c, k) \in Nat
  BY FS_Subset, FS_CardinalityType DEF Distinct, Of, Count
<1>2. \A k : Of(c, k) = {} => Count(c, k) = 0
  BY FS_EmptySet DEF Count
<1>3. \A k : Of(c, k) = {} <=> ~There(c, k)
  BY DEF Of, There
<1>4. \A k : There(c, k) <=> \E i : Id(c, k, i)
  BY DEF There, Id
<1> QED
  BY <1>1, <1>2, <1>3, <1>4

\* A smaller cloud.
LEMMA Smaller ==
    ASSUME NEW kinds, NEW c, Distinct(c, kinds), NEW d, d \subseteq c, NEW kind,
           \A r \in c : r \notin d => r.kind = kind
    PROVE  DDrops(c, d, kind, kinds)
<1>1. Distinct(d, kinds)
  BY FS_Subset DEF Distinct
<1>2. \A k : Of(d, k) \subseteq Of(c, k)
  BY DEF Of
<1>3. \A k : Count(d, k) <= Count(c, k)
  BY <1>2, Counted, FS_Subset DEF Count
<1>4. /\ \A k, i : Id(d, k, i) => Id(c, k, i)
      /\ \A k, i : k # kind => (Id(d, k, i) <=> Id(c, k, i))
      /\ \A k, i, m : k # kind => (IdHas(d, k, i, m) <=> IdHas(c, k, i, m))
  BY DEF Id, IdHas
<1> QED
  BY <1>1, <1>3, <1>4 DEF DDrops

\* One more resource, with an id of its own.
LEMMA OneMore ==
    ASSUME NEW kinds, NEW c, Distinct(c, kinds), NEW kind \in kinds, NEW id \in Nat,
           NEW in \in Nat,
           NEW marks \in SUBSET AllMarks, ~Id(c, kind, id)
    PROVE  DMakes(c, Making(c, kind, id, in, marks), kind, id, marks, kinds)
<1> DEFINE n == [kind |-> kind, id |-> id, in |-> in, has |-> marks]
           d == Making(c, kind, id, in, marks)
<1>1. n \in Resources(kinds) /\ n.kind = kind /\ n.id = id /\ n.has = marks
  BY DEF Resources
<1>2. d = c \cup {n}
  BY DEF Making
<1> HIDE DEF n, d
<1>3. n \notin c
  BY <1>1 DEF Id
<1>4. Distinct(d, kinds)
  <2>1. IsFiniteSet(d)
    BY <1>2, FS_AddElement DEF Distinct
  <2> QED
    BY <1>1, <1>2, <2>1 DEF Distinct, Id
<1>5. Of(d, kind) = Of(c, kind) \cup {n} /\ n \notin Of(c, kind)
  BY <1>1, <1>2, <1>3 DEF Of
<1>6. Count(d, kind) = Count(c, kind) + 1
  BY <1>5, Counted, FS_AddElement DEF Count
<1>7. \A k : k # kind => Of(d, k) = Of(c, k)
  BY <1>1, <1>2 DEF Of
<1>8. \A k : k # kind => Count(d, k) = Count(c, k)
  BY <1>7 DEF Count
<1>9. \A k, i : Id(d, k, i) <=> Id(c, k, i) \/ (k = kind /\ i = id)
  BY <1>1, <1>2 DEF Id
<1>10. \A k, i, m : IdHas(d, k, i, m) <=> IdHas(c, k, i, m) \/ (k = kind /\ i = id /\ m \in marks)
  BY <1>1, <1>2 DEF IdHas
<1> QED
  BY <1>4, <1>6, <1>8, <1>9, <1>10 DEF DMakes, d

\* A set in which one element is replaced is not larger.
LEMMA Replaced ==
    ASSUME NEW S, IsFiniteSet(S), NEW x \in S, NEW y, y \notin S \/ y = x
    PROVE  /\ IsFiniteSet((S \ {x}) \cup {y})
           /\ Cardinality((S \ {x}) \cup {y}) = Cardinality(S)
<1>1. CASE y = x
  <2>1. (S \ {x}) \cup {y} = S
    BY <1>1
  <2> QED
    BY <2>1
<1>2. CASE y \notin S
  <2>1. IsFiniteSet(S \ {x}) /\ Cardinality(S \ {x}) = Cardinality(S) - 1
    BY FS_RemoveElement
  <2>2. y \notin S \ {x}
    BY <1>2
  <2>3. /\ IsFiniteSet((S \ {x}) \cup {y})
        /\ Cardinality((S \ {x}) \cup {y}) = Cardinality(S \ {x}) + 1
    BY <2>1, <2>2, FS_AddElement
  <2>4. Cardinality(S) \in Nat /\ Cardinality(S) - 1 \in Nat
    BY <2>1, FS_CardinalityType
  <2> QED
    BY <2>1, <2>3, <2>4
<1> QED
  BY <1>1, <1>2

\* One resource is marked.
LEMMA OneMarked ==
    ASSUME NEW kinds, NEW c, Distinct(c, kinds), NEW r \in c, NEW marks \in SUBSET AllMarks
    PROVE  DMarks(c, Marking(c, {r}, marks), r.kind, r.id, marks, kinds)
<1> DEFINE n == [r EXCEPT !.has = @ \cup marks]
           d == Marking(c, {r}, marks)
<1>1. n \in Resources(kinds) /\ n.kind = r.kind /\ n.id = r.id /\ n.has = r.has \cup marks
  BY DEF Distinct, Resources
<1>2. d = (c \ {r}) \cup {n}
  BY DEF Marking
<1> HIDE DEF n, d
<1>3. n \notin c \/ n = r
  BY <1>1 DEF Distinct
<1>4. Distinct(d, kinds)
  <2>1. IsFiniteSet(d)
    BY <1>2, <1>3, Replaced DEF Distinct
  <2> QED
    BY <1>1, <1>2, <2>1 DEF Distinct
<1>5. \A k, i : Id(d, k, i) <=> Id(c, k, i)
  BY <1>1, <1>2 DEF Id
<1>6. \A k, i, m : IdHas(d, k, i, m) <=>
                       IdHas(c, k, i, m) \/ (k = r.kind /\ i = r.id /\ m \in marks)
  BY <1>1, <1>2 DEF IdHas, Distinct
<1>7. Count(d, r.kind) = Count(c, r.kind)
  <2>1. Of(d, r.kind) = (Of(c, r.kind) \ {r}) \cup {n} /\ r \in Of(c, r.kind)
    BY <1>1, <1>2 DEF Of
  <2>2. n \notin Of(c, r.kind) \/ n = r
    BY <1>3 DEF Of
  <2> QED
    BY <2>1, <2>2, Counted, Replaced DEF Count
<1>8. \A k : k # r.kind => Of(d, k) = Of(c, k)
  BY <1>1, <1>2 DEF Of
<1>9. \A k : Count(d, k) = Count(c, k)
  BY <1>7, <1>8 DEF Count
<1> QED
  BY <1>4, <1>5, <1>6, <1>9 DEF DMarks, d

\* A creating call has succeeded.
LEMMA MadeOne ==
    ASSUME NEW kinds, Distinct(cloud, kinds), NEW k \in kinds, FreshIds(k) # {}, NEW in \in Nat,
           NEW marks \in SUBSET AllMarks, cloud' = Making(cloud, k, FreshId(k), in, marks)
    PROVE  DMakes(cloud, cloud', k, FreshId(k), marks, kinds)
<1>1. FreshId(k) \in Nat /\ ~Id(cloud, k, FreshId(k))
  BY Fresh DEF FreshIds, Only, All, Id
<1> QED
  BY <1>1, OneMore

-----------------------------------------------------------------------------
(* Packet *)

\* What the module of a provider says is what the common one says.
LEMMA PacketSame ==
    /\ Packet!NewCluster = NewCluster
    /\ \A k, m : Packet!Only(k) = Only(k) /\ Packet!With(k, m) = With(k, m)
    /\ \A S : Packet!All(S) = All(S) /\ Packet!First(S) = First(S)
    /\ \A k : Packet!FreshIds(k) = FreshIds(k) /\ Packet!FreshId(k) = FreshId(k)
    /\ \A k : Packet!Current(k) = Current(k)
    /\ \A S, m : Packet!Marked(S, m) = Marking(cloud, S, m)
BY DEF Packet!NewCluster, Packet!Cluster, NewCluster, Cluster, Packet!Only, Packet!With,
    Packet!All, Only, With, All,
    Packet!First, First, Packet!FreshIds, Packet!FreshId, FreshIds, FreshId, Packet!Current,
    Current,
    Packet!Marked, Marking

\* The parts of the command around the provider.
LEMMA PacketCommand ==
    /\ Packet!Apply => Apply
    /\ Packet!DeleteCluster => DeleteCluster
    /\ \A from, endp, ids, to : Packet!Save(from, endp, ids, to) => Save(from, endp, ids, to)
    /\ \A from, ok : Packet!MarkReady(from, ok) => MarkReady(from, ok)
    /\ \A from, ok, to : Packet!StartDelete(from, ok, to) => StartDelete(from, ok, to)
    /\ \A from, phase : Packet!Finish(from, phase) => Finish(from, phase)
BY PacketSame DEF Packet!Apply, Apply, Packet!DeleteCluster, DeleteCluster, Packet!Save, Save,
    Packet!MarkReady,
    MarkReady, Packet!StartDelete, StartDelete, Packet!Finish, Finish, Packet!Return, Return

\* The calls, as steps of the command.
LEMMA PacketCalls ==
    ASSUME StoreTypes
    PROVE
    /\ \A from, ok, to : Packet!Check(from, ok, to) =>
         Moves(from, to) /\ UNCHANGED <<cloud, lost>> /\ (pc' = to => ok \/ to = "idle")
    /\ \A from, ok, kind, in, marks, to : Packet!Make(from, ok, kind, in, marks, to) =>
         /\ Moves(from, to) /\ lost' = lost
         /\ \/ pc' = "idle" /\ cloud' = cloud
            \/ /\ ok /\ FreshIds(kind) # {} /\ pc' = to /\ cur' = FreshId(kind)
               /\ cloud' = Making(cloud, kind, FreshId(kind), in, marks)
    /\ \A from, ok, S, to : Packet!RemoveLogged(from, ok, S, to) =>
         /\ Moves(from, to)
         /\ \/ ok /\ cloud' = cloud \ S
            \/ ~ok /\ cloud' = cloud
            \/ lost' = lost + 1 /\ cloud' = cloud
    /\ Packet!Abort
           => Moves(pc, "idle") /\ pc # "idle" /\ pc' = "idle" /\ UNCHANGED <<cloud, lost>>
BY PacketSame DEF Moves, StoreTypes, Packet!Check, Packet!Make, Packet!Resource,
    Packet!RemoveLogged, Packet!Decide, Packet!Continue, Packet!Return, Packet!Abort, Making

\* What the command sees of the masters.
LEMMA PacketReads ==
    /\ Packet!Reachable <=> \E i \in mem.ids : IdHas(cloud, "master", i, "running")
    /\ Packet!Listed <=> \E i \in mem.ids : IdHas(cloud, "master", i, "running")
    /\ \A i, m : IdHas(cloud, "master", i, m) => Id(cloud, "master", i)
    /\ \A k : There(cloud, k) <=> \E i : Id(cloud, k, i)
<1>1. Packet!Reachable <=> \E i \in mem.ids : IdHas(cloud, "master", i, "running")
  BY PacketSame DEF Packet!Reachable, IdHas, With, Only, All
<1>2. /\ \A i, m : IdHas(cloud, "master", i, m) => Id(cloud, "master", i)
      /\ \A k : There(cloud, k) <=> \E i : Id(cloud, k, i)
  BY DEF IdHas, Id, There
<1> QED
  BY <1>1, <1>2 DEF Packet!Listed

\* Every step keeps the invariant.
LEMMA PacketStep ==
    ASSUME PacketInv, Packet!Next
    PROVE  PacketInv'
<1>0. StoreTypes /\ Distinct(cloud, PacketKinds)
  BY DEF PacketInv
<1>a. \A k : Count(cloud, k) \in Nat /\ (~There(cloud, k) => Count(cloud, k) = 0)
  BY <1>0, Counted
<1>1. CASE Packet!Apply /\ UNCHANGED ctl
  <2>1. /\ StoreTypes' /\ UNCHANGED <<db, cloud, torn, lost, ctl>>
        /\ pc' = "connect" /\ mem' = db /\ db.phase \in {"Pending", "Deleting"}
    BY <1>0, <1>1, PacketCommand, ApplyStore
  <2>2. StoreTypes' /\ Distinct(cloud', PacketKinds)
    BY <1>0, <2>1, ApplyStore DEF PacketInv
  <2>3. Phased(PacketPrepare, PacketDelete)'
    BY <1>0, <2>1 DEF PacketInv, StoreTypes, Phased, PacketPrepare, PacketDelete
  <2>4. PacketPaid'
    BY <1>a, <1>0, <2>1 DEF PacketInv, StoreTypes, PacketPaid
  <2>5. PacketKnown'
    BY <1>0, <2>1, PacketReads DEF PacketInv, PacketKnown, PacketDelete
  <2>6. PacketGone'
    BY <1>0, <2>1, PacketReads
       DEF PacketInv, StoreTypes, Phased, PacketPrepare, PacketDelete, PacketGone, PacketKnown
  <2> QED
    BY <2>2, <2>3, <2>4, <2>5, <2>6 DEF PacketInv
<1>2. CASE Packet!DeleteCluster /\ UNCHANGED ctl
  <2>1. /\ StoreTypes' /\ UNCHANGED <<pc, cloud, torn, lost, ctl>>
        /\ pc = "idle" /\ db'.phase = "Deleting" /\ db'.endp = db.endp /\ db'.ids = db.ids
    BY <1>0, <1>2, PacketCommand, DeleteStore
  <2>2. StoreTypes' /\ Distinct(cloud', PacketKinds)
    BY <1>0, <2>1, DeleteStore DEF PacketInv
  <2>3. Phased(PacketPrepare, PacketDelete)'
    BY <1>0, <2>1 DEF PacketInv, StoreTypes, Phased, PacketPrepare, PacketDelete
  <2>4. PacketPaid'
    BY <1>a, <1>0, <2>1 DEF PacketInv, StoreTypes, PacketPaid
  <2>5. PacketKnown'
    BY <1>0, <2>1, PacketReads DEF PacketInv, PacketKnown, PacketDelete
  <2>6. PacketGone'
    BY <1>0, <2>1, PacketReads
       DEF PacketInv, StoreTypes, Phased, PacketPrepare, PacketDelete, PacketGone, PacketKnown
  <2> QED
    BY <2>2, <2>3, <2>4, <2>5, <2>6 DEF PacketInv
<1>3. CASE Packet!Abort /\ UNCHANGED ctl
  <2>1. Moves(pc, "idle") /\ pc # "idle" /\ pc' = "idle" /\ UNCHANGED <<cloud, lost, ctl>>
    BY <1>0, <1>3, PacketCalls
  <2>2. StoreTypes' /\ Distinct(cloud', PacketKinds)
    BY <1>0, <2>1, MovesStore DEF PacketInv, Moves
  <2>3. Phased(PacketPrepare, PacketDelete)'
    BY <1>0, <2>1 DEF PacketInv, StoreTypes, Phased, PacketPrepare, PacketDelete, Moves
  <2>4. PacketPaid'
    BY <1>a, <1>0, <2>1 DEF PacketInv, StoreTypes, PacketPaid, Moves
  <2>5. PacketKnown'
    BY <1>0, <2>1, PacketReads DEF PacketInv, PacketKnown, PacketDelete, Moves
  <2>6. PacketGone'
    BY <1>0, <2>1, PacketReads
       DEF PacketInv, StoreTypes, Phased, PacketPrepare, PacketDelete, PacketGone, PacketKnown,
           Moves
  <2> QED
    BY <2>2, <2>3, <2>4, <2>5, <2>6 DEF PacketInv
<1>4. CASE Packet!newconnector /\ UNCHANGED ctl
  <2>1. /\ Moves("connect", IF mem.phase = "Pending" THEN "key" ELSE "dworkers")
        /\ UNCHANGED <<cloud, lost, ctl>>
    BY <1>0, <1>4, PacketCalls DEF Packet!newconnector, Packet!Connect
  <2>2. StoreTypes' /\ Distinct(cloud', PacketKinds)
    BY <1>0, <2>1, MovesStore DEF PacketInv, Moves
  <2>3. Phased(PacketPrepare, PacketDelete)'
    BY <1>0, <2>1 DEF PacketInv, StoreTypes, Phased, PacketPrepare, PacketDelete, Moves
  <2>4. PacketPaid'
    BY <1>a, <1>0, <2>1 DEF PacketInv, StoreTypes, PacketPaid, Moves
  <2>5. PacketKnown'
    BY <1>0, <2>1, PacketReads DEF PacketInv, PacketKnown, PacketDelete, Moves
  <2>6. PacketGone'
    BY <1>0, <2>1, PacketReads
       DEF PacketInv, StoreTypes, Phased, PacketPrepare, PacketDelete, PacketGone, PacketKnown,
           Moves
  <2> QED
    BY <2>2, <2>3, <2>4, <2>5, <2>6 DEF PacketInv
<1>5. CASE Packet!getPublicKey /\ UNCHANGED ctl
  <2>1. /\ Moves("key", "master") \/ Moves("key", "keyImport")
        /\ UNCHANGED <<cloud, lost, ctl>>
    BY <1>0, <1>5, PacketSame
    DEF Moves, StoreTypes, Packet!getPublicKey, Packet!Check, Packet!Decide, Packet!Continue
  <2>2. StoreTypes' /\ Distinct(cloud', PacketKinds)
    BY <1>0, <2>1, MovesStore DEF PacketInv, Moves
  <2>3. Phased(PacketPrepare, PacketDelete)'
    BY <1>0, <2>1 DEF PacketInv, StoreTypes, Phased, PacketPrepare, PacketDelete, Moves
  <2>4. PacketPaid'
    BY <1>a, <1>0, <2>1 DEF PacketInv, StoreTypes, PacketPaid, Moves
  <2>5. PacketKnown'
    BY <1>0, <2>1, PacketReads DEF PacketInv, PacketKnown, PacketDelete, Moves
  <2>6. PacketGone'
    BY <1>0, <2>1, PacketReads
       DEF PacketInv, StoreTypes, Phased, PacketPrepare, PacketDelete, PacketGone, PacketKnown,
           Moves
  <2> QED
    BY <2>2, <2>3, <2>4, <2>5, <2>6 DEF PacketInv
<1>6. CASE Packet!importPublicKey /\ UNCHANGED ctl
  <2>1. /\ Moves("keyImport", "master") /\ UNCHANGED <<lost, ctl>>
        /\ \/ pc' = "idle" /\ cloud' = cloud
           \/ ~There(cloud, "key") /\ DMakes(cloud, cloud', "key", cur', {}, PacketKinds)
    <3>1. Only("key") = {} <=> ~There(cloud, "key")
      BY Reads
    <3>2. /\ Moves("keyImport", "master") /\ UNCHANGED <<lost, ctl>>
          /\ \/ pc' = "idle" /\ cloud' = cloud
             \/ /\ ~There(cloud, "key") /\ FreshIds("key") # {} /\ cur' = FreshId("key")
                /\ cloud' = Making(cloud, "key", FreshId("key"), 0, {})
      BY <1>0, <1>6, <3>1, PacketSame
      DEF Moves, Making, StoreTypes, Packet!importPublicKey, Packet!Make, Packet!Resource,
          Packet!Return
    <3>3. "key" \in PacketKinds /\ {} \in SUBSET AllMarks /\ 0 \in Nat
      BY DEF PacketKinds
    <3>4. FreshIds("key") # {} /\ cloud' = Making(cloud, "key", FreshId("key"), 0, {}) =>
             DMakes(cloud, cloud', "key", FreshId("key"), {}, PacketKinds)
      BY <1>0, <3>3, MadeOne
    <3> QED
      BY <3>2, <3>4
  <2>2. StoreTypes' /\ Distinct(cloud', PacketKinds)
    BY <1>0, <2>1, MovesStore DEF PacketInv, Moves, DMakes
  <2>3. /\ \A k : Count(cloud', k) \in Nat
        /\ \A k : There(cloud', k) <=> \E i : Id(cloud', k, i)
        /\ \A i, m : IdHas(cloud', "master", i, m) => Id(cloud', "master", i)
    BY <2>2, Counted DEF Id, IdHas
  <2>4. /\ \A i : Id(cloud', "master", i) <=> Id(cloud, "master", i)
        /\ \A i : IdHas(cloud, "master", i, "running") => IdHas(cloud', "master", i, "running")
    BY <1>0, <2>1, SMT DEF DMakes
  <2>5. Phased(PacketPrepare, PacketDelete)'
    BY <1>0, <2>1 DEF PacketInv, StoreTypes, Phased, PacketPrepare, PacketDelete, Moves, DMakes
  <2>6. PacketPaid'
    BY <1>a, <1>0, <2>1, <2>3 DEF PacketInv, StoreTypes, PacketPaid, Moves, DMakes
  <2>7. PacketKnown'
    BY <1>0, <2>1, PacketReads DEF PacketInv, PacketKnown, PacketDelete, Moves, DMakes
  <2>8. PacketGone'
    BY <1>0, <2>1, <2>3, <2>4, PacketReads
       DEF PacketInv, StoreTypes, Phased, PacketPrepare, PacketDelete, PacketGone, PacketKnown,
           Moves
  <2> QED
    BY <2>2, <2>3, <2>4, <2>5, <2>6, <2>7, <2>8 DEF PacketInv
<1>7. CASE Packet!instanceIfExists /\ UNCHANGED ctl
  <2>0. Only("master") = {} <=> ~There(cloud, "master")
    BY Reads
  <2>1. /\ Moves("master", "ready") \/ Moves("master", "masterMake")
        /\ UNCHANGED <<cloud, ctl>>
        /\ pc' = "masterMake" => (There(cloud, "master") => lost' = lost + 1)
    BY <1>0, <1>7, <2>0, PacketSame
    DEF Moves, StoreTypes, Packet!instanceIfExists, Packet!Find
  <2>2. StoreTypes' /\ Distinct(cloud', PacketKinds)
    BY <1>0, <2>1, MovesStore DEF PacketInv, Moves
  <2>3. Phased(PacketPrepare, PacketDelete)'
    BY <1>0, <2>1 DEF PacketInv, StoreTypes, Phased, PacketPrepare, PacketDelete, Moves
  <2>4. PacketPaid'
    BY <1>a, <1>0, <2>1 DEF PacketInv, StoreTypes, PacketPaid, Moves
  <2>5. PacketKnown'
    BY <1>0, <2>1, PacketReads DEF PacketInv, PacketKnown, PacketDelete, Moves
  <2>6. PacketGone'
    BY <1>0, <2>1, PacketReads
       DEF PacketInv, StoreTypes, Phased, PacketPrepare, PacketDelete, PacketGone, PacketKnown,
           Moves
  <2> QED
    BY <2>2, <2>3, <2>4, <2>5, <2>6 DEF PacketInv
<1>8. CASE Packet!CreateInstance /\ UNCHANGED ctl
  <2>1. /\ Moves("masterMake", "masterWait") /\ UNCHANGED <<lost, ctl>>
        /\ \/ pc' = "idle" /\ cloud' = cloud
           \/ DMakes(cloud, cloud', "master", cur', {}, PacketKinds)
    <3>1. Only("key") = {} <=> ~There(cloud, "key")
      BY Reads
    <3>2. /\ Moves("masterMake", "masterWait") /\ UNCHANGED <<lost, ctl>>
          /\ \/ pc' = "idle" /\ cloud' = cloud
             \/ /\ FreshIds("master") # {} /\ cur' = FreshId("master")
                /\ cloud' = Making(cloud, "master", FreshId("master"), 0, {})
      BY <1>0, <1>8, <3>1, PacketSame
      DEF Moves, Making, StoreTypes, Packet!CreateInstance, Packet!Make, Packet!Resource,
          Packet!Return
    <3>3. "master" \in PacketKinds /\ {} \in SUBSET AllMarks /\ 0 \in Nat
      BY DEF PacketKinds
    <3>4. FreshIds("master") # {} /\ cloud' = Making(cloud, "master", FreshId("master"), 0, {}) =>
             DMakes(cloud, cloud', "master", FreshId("master"), {}, PacketKinds)
      BY <1>0, <3>3, MadeOne
    <3> QED
      BY <3>2, <3>4
  <2>2. StoreTypes' /\ Distinct(cloud', PacketKinds)
    BY <1>0, <2>1, MovesStore DEF PacketInv, Moves, DMakes
  <2>3. Phased(PacketPrepare, PacketDelete)'
    BY <1>0, <2>1 DEF PacketInv, StoreTypes, Phased, PacketPrepare, PacketDelete, Moves, DMakes
  <2>4. PacketPaid'
    BY <1>a, <1>0, <2>1 DEF PacketInv, StoreTypes, PacketPaid, Moves, DMakes
  <2>5. PacketKnown'
    BY <1>0, <2>1, PacketReads DEF PacketInv, PacketKnown, PacketDelete, Moves, DMakes
  <2>6. PacketGone'
    BY <1>0, <2>1, PacketReads
       DEF PacketInv, StoreTypes, Phased, PacketPrepare, PacketDelete, PacketGone, PacketKnown,
           Moves, DMakes
  <2> QED
    BY <2>2, <2>3, <2>4, <2>5, <2>6 DEF PacketInv
<1>9. CASE Packet!waitForInstance /\ UNCHANGED ctl
  <2>0. IdHas(cloud, "master", cur, "running")
    BY <1>9, PacketSame
    DEF PacketInv, PacketKnown, Packet!waitForInstance, Packet!Check, Current, Only, All, Id,
        IdHas
  <2>1. /\ Moves("masterWait", "save") /\ UNCHANGED <<cloud, lost, ctl>>
        /\ pc' = "save" => cur' = cur /\ IdHas(cloud, "master", cur, "running")
    BY <1>0, <1>9, <2>0, PacketSame
    DEF Moves, StoreTypes, Packet!waitForInstance, Packet!Check, Packet!Decide, Packet!Continue
  <2>2. StoreTypes' /\ Distinct(cloud', PacketKinds)
    BY <1>0, <2>1, MovesStore DEF PacketInv, Moves
  <2>3. Phased(PacketPrepare, PacketDelete)'
    BY <1>0, <2>1 DEF PacketInv, StoreTypes, Phased, PacketPrepare, PacketDelete, Moves
  <2>4. PacketPaid'
    BY <1>a, <1>0, <2>1 DEF PacketInv, StoreTypes, PacketPaid, Moves
  <2>5. PacketKnown'
    BY <1>0, <2>1, PacketReads DEF PacketInv, PacketKnown, PacketDelete, Moves
  <2>6. PacketGone'
    BY <1>0, <2>1, PacketReads
       DEF PacketInv, StoreTypes, Phased, PacketPrepare, PacketDelete, PacketGone, PacketKnown,
           Moves
  <2> QED
    BY <2>2, <2>3, <2>4, <2>5, <2>6 DEF PacketInv
<1>10. CASE Packet!EnsureMaster /\ UNCHANGED ctl
  <2>0. /\ Save("save", TRUE, IF mem.ids = {} THEN {cur} ELSE {}, "ready") /\ UNCHANGED ctl
        /\ TRUE \in BOOLEAN /\ "save" # "idle"
    BY <1>10, PacketCommand DEF Packet!EnsureMaster
  <2>1. /\ StoreTypes' /\ UNCHANGED <<cloud, torn, lost, ctl>> /\ pc = "save" /\ pc' = "ready"
        /\ mem' = db' /\ db'.phase = db.phase /\ db'.endp
        /\ db'.ids = mem.ids \cup IF mem.ids = {} THEN {cur} ELSE {}
    BY <1>0, <2>0, SaveStore
  <2>2. StoreTypes' /\ Distinct(cloud', PacketKinds)
    BY <1>0, <2>1, SaveStore DEF PacketInv
  <2>3. Phased(PacketPrepare, PacketDelete)'
    BY <1>0, <2>1 DEF PacketInv, StoreTypes, Phased, PacketPrepare, PacketDelete
  <2>4. PacketPaid'
    BY <1>a, <1>0, <2>1 DEF PacketInv, StoreTypes, PacketPaid
  <2>5. PacketKnown'
    BY <1>0, <2>1, PacketReads DEF PacketInv, PacketKnown, PacketDelete
  <2>6. PacketGone'
    BY <1>0, <2>1, PacketReads
       DEF PacketInv, StoreTypes, Phased, PacketPrepare, PacketDelete, PacketGone, PacketKnown
  <2> QED
    BY <2>2, <2>3, <2>4, <2>5, <2>6 DEF PacketInv
<1>11. CASE Packet!MarkReady("ready", Packet!Reachable) /\ UNCHANGED ctl
  <2>0. db.phase = "Pending"
    BY <1>11 DEF PacketInv, Phased, PacketPrepare, Packet!MarkReady
  <2>1. /\ StoreTypes' /\ UNCHANGED <<cloud, torn, lost, ctl>> /\ pc = "ready" /\ pc' = "idle"
        /\ \/ db' = db
           \/ mem.endp /\ db'.phase = "Ready" /\ db'.endp /\ db'.ids = mem.ids
    BY <1>0, <1>11, <2>0, PacketCommand, ReadyStore
  <2>2. StoreTypes' /\ Distinct(cloud', PacketKinds)
    BY <1>0, <2>0, <2>1, ReadyStore DEF PacketInv
  <2>3. Phased(PacketPrepare, PacketDelete)'
    BY <1>0, <2>0, <2>1 DEF PacketInv, StoreTypes, Phased, PacketPrepare, PacketDelete
  <2>4. PacketPaid'
    BY <1>a, <1>0, <2>0, <2>1 DEF PacketInv, StoreTypes, PacketPaid
  <2>5. PacketKnown'
    BY <1>0, <2>0, <2>1, PacketReads DEF PacketInv, PacketKnown, PacketDelete
  <2>6. PacketGone'
    BY <1>0, <2>0, <2>1, PacketReads
       DEF PacketInv, StoreTypes, Phased, PacketPrepare, PacketDelete, PacketGone, PacketKnown
  <2> QED
    BY <2>2, <2>3, <2>4, <2>5, <2>6 DEF PacketInv
<1>12. CASE Packet!StartDelete("dworkers", Packet!Reachable, "dkube") /\ UNCHANGED ctl
  <2>0. db.phase = "Deleting"
    BY <1>12 DEF PacketInv, Phased, PacketDelete, Packet!StartDelete
  <2>1. /\ StoreTypes' /\ UNCHANGED <<cloud, torn, db, mem, ctl>> /\ pc = "dworkers"
               /\ pc' = "dkube"
        /\ lost <= lost'
    BY <1>0, <1>12, <2>0, PacketCommand, StartStore
  <2>2. StoreTypes' /\ Distinct(cloud', PacketKinds)
    BY <1>0, <2>1, StartStore DEF PacketInv
  <2>3. Phased(PacketPrepare, PacketDelete)'
    BY <1>0, <2>1 DEF PacketInv, StoreTypes, Phased, PacketPrepare, PacketDelete
  <2>4. PacketPaid'
    BY <1>a, <1>0, <2>1 DEF PacketInv, StoreTypes, PacketPaid
  <2>5. PacketKnown'
    BY <1>0, <2>1, PacketReads DEF PacketInv, PacketKnown, PacketDelete
  <2>6. PacketGone'
    BY <1>0, <2>1, PacketReads
       DEF PacketInv, StoreTypes, Phased, PacketPrepare, PacketDelete, PacketGone, PacketKnown
  <2> QED
    BY <2>2, <2>3, <2>4, <2>5, <2>6 DEF PacketInv
<1>13. CASE Packet!GetAdminClient("dkube", "dlist") /\ UNCHANGED ctl
  <2>1. /\ Moves("dkube", "dlist") /\ UNCHANGED <<cloud, lost, ctl>>
        /\ pc' = "dlist" => mem.endp
    BY <1>0, <1>13, PacketCalls DEF Packet!GetAdminClient
  <2>2. StoreTypes' /\ Distinct(cloud', PacketKinds)
    BY <1>0, <2>1, MovesStore DEF PacketInv, Moves
  <2>3. Phased(PacketPrepare, PacketDelete)'
    BY <1>0, <2>1 DEF PacketInv, StoreTypes, Phased, PacketPrepare, PacketDelete, Moves
  <2>4. PacketPaid'
    BY <1>a, <1>0, <2>1 DEF PacketInv, StoreTypes, PacketPaid, Moves
  <2>5. PacketKnown'
    BY <1>0, <2>1, PacketReads DEF PacketInv, PacketKnown, PacketDelete, Moves
  <2>6. PacketGone'
    BY <1>0, <2>1, PacketReads
       DEF PacketInv, StoreTypes, Phased, PacketPrepare, PacketDelete, PacketGone, PacketKnown,
           Moves
  <2> QED
    BY <2>2, <2>3, <2>4, <2>5, <2>6 DEF PacketInv
<1>14. CASE Packet!listMasters /\ UNCHANGED ctl
  <2>1. /\ Moves("dlist", "dmaster") \/ Moves("dlist", "dend")
        /\ UNCHANGED <<cloud, ctl>>
        /\ \/ pc' # "dend" \/ lost' = lost + 1
           \/ \A i \in mem.ids : ~IdHas(cloud, "master", i, "running")
    BY <1>0, <1>14, PacketReads
    DEF Packet!listMasters, Packet!Check, Packet!Decide, Packet!Continue, StoreTypes, Moves
  <2>2. StoreTypes' /\ Distinct(cloud', PacketKinds)
    BY <1>0, <2>1, MovesStore DEF PacketInv, Moves
  <2>3. Phased(PacketPrepare, PacketDelete)'
    BY <1>0, <2>1 DEF PacketInv, StoreTypes, Phased, PacketPrepare, PacketDelete, Moves
  <2>4. PacketPaid'
    BY <1>a, <1>0, <2>1 DEF PacketInv, StoreTypes, PacketPaid, Moves
  <2>5. PacketKnown'
    BY <1>0, <2>1, PacketReads DEF PacketInv, PacketKnown, PacketDelete, Moves
  <2>6. PacketGone'
    BY <1>0, <2>1, PacketReads
       DEF PacketInv, StoreTypes, Phased, PacketPrepare, PacketDelete, PacketGone, PacketKnown,
           Moves
  <2> QED
    BY <2>2, <2>3, <2>4, <2>5, <2>6 DEF PacketInv
<1>15. CASE Packet!DeleteInstanceByProviderID /\ UNCHANGED ctl
  <2>1. /\ Moves("dmaster", "dend") /\ UNCHANGED ctl
        /\ \/ /\ DDrops(cloud, cloud', "master", PacketKinds)
              /\ \A i \in mem.ids : ~Id(cloud', "master", i)
           \/ cloud' = cloud /\ lost' = lost + 1
    <3>1. /\ Moves("dmaster", "dend") /\ UNCHANGED ctl
          /\ \/ cloud' = cloud \ {m \in Only("master") : m.id \in mem.ids}
             \/ cloud' = cloud /\ lost' = lost + 1
      BY <1>0, <1>15, PacketCalls, PacketSame DEF Packet!DeleteInstanceByProviderID
    <3>2. CASE cloud' = cloud \ {m \in Only("master") : m.id \in mem.ids}
      <4>1. cloud' \subseteq cloud /\ \A r \in cloud : r \notin cloud' => r.kind = "master"
        BY <3>2 DEF Only, All
      <4>2. \A i \in mem.ids : ~Id(cloud', "master", i)
        BY <3>2 DEF Only, All, Id
      <4> QED
        BY <1>0, <3>1, <4>1, <4>2, Smaller
    <3> QED
      BY <3>1, <3>2
  <2>2. StoreTypes' /\ Distinct(cloud', PacketKinds)
    BY <1>0, <2>1, MovesStore DEF PacketInv, Moves, DDrops
  <2>3. /\ \A k : Count(cloud', k) \in Nat
        /\ \A k : There(cloud', k) <=> \E i : Id(cloud', k, i)
        /\ \A i, m : IdHas(cloud', "master", i, m) => Id(cloud', "master", i)
    BY <2>2, Counted DEF Id, IdHas
  <2>4. lost' = 0 => lost = 0 /\ \A i : ~Id(cloud', "master", i)
    BY <1>0, <2>1, PacketReads
    DEF PacketInv, PacketKnown, PacketGone, StoreTypes, DDrops, Moves, PacketDelete
  <2>5. Phased(PacketPrepare, PacketDelete)'
    BY <1>0, <2>1 DEF PacketInv, StoreTypes, Phased, PacketPrepare, PacketDelete, Moves, DDrops
  <2>6. PacketPaid'
    BY <1>a, <1>0, <2>1, <2>3 DEF PacketInv, StoreTypes, PacketPaid, Moves, DDrops
  <2>7. PacketKnown'
    BY <1>0, <2>1, PacketReads DEF PacketInv, PacketKnown, PacketDelete, Moves, DDrops
  <2>8. PacketGone'
    BY <1>0, <2>1, <2>3, <2>4, PacketReads
       DEF PacketInv, StoreTypes, Phased, PacketPrepare, PacketDelete, PacketGone, PacketKnown,
           Moves
  <2> QED
    BY <2>2, <2>3, <2>4, <2>5, <2>6, <2>7, <2>8 DEF PacketInv
<1>16. CASE Packet!ApplyDelete /\ UNCHANGED ctl
  <2>0. db.phase = "Deleting"
    BY <1>16 DEF PacketInv, Phased, PacketDelete, Packet!ApplyDelete, Packet!Finish
  <2>1. /\ StoreTypes' /\ UNCHANGED <<cloud, lost, ctl>> /\ pc = "dend" /\ pc' = "idle" /\ torn'
        /\ db'.phase = "Deleted" /\ db'.endp = db.endp /\ db'.ids = db.ids
    BY <1>0, <1>16, <2>0, PacketCommand, FinishStore DEF Packet!ApplyDelete
  <2>2. StoreTypes' /\ Distinct(cloud', PacketKinds)
    BY <1>0, <2>1, FinishStore DEF PacketInv
  <2>3. Phased(PacketPrepare, PacketDelete)'
    BY <1>0, <2>1 DEF PacketInv, StoreTypes, Phased, PacketPrepare, PacketDelete
  <2>4. PacketPaid'
    BY <1>a, <1>0, <2>1 DEF PacketInv, StoreTypes, PacketPaid
  <2>5. PacketKnown'
    BY <1>0, <2>1, PacketReads DEF PacketInv, PacketKnown, PacketDelete
  <2>6. PacketGone'
    BY <1>0, <2>1, PacketReads
       DEF PacketInv, StoreTypes, Phased, PacketPrepare, PacketDelete, PacketGone, PacketKnown
  <2> QED
    BY <2>2, <2>3, <2>4, <2>5, <2>6 DEF PacketInv
<1>17. CASE Packet!AddMachine
  <2>1. /\ UNCHANGED <<pc, db, mem, cur, sets, torn, aborts>>
        /\ UNCHANGED <<cloud, lost>> /\ ctl' = "new"
    BY <1>17 DEF Packet!AddMachine, Packet!Reconcile, StoreTypes
  <2>2. StoreTypes' /\ Distinct(cloud', PacketKinds)
    BY <1>0, <2>1 DEF PacketInv, StoreTypes
  <2>3. Phased(PacketPrepare, PacketDelete)'
    BY <1>0, <2>1 DEF PacketInv, StoreTypes, Phased, PacketPrepare, PacketDelete
  <2>4. PacketPaid'
    BY <1>a, <1>0, <2>1 DEF PacketInv, StoreTypes, PacketPaid
  <2>5. PacketKnown'
    BY <1>0, <2>1, PacketReads DEF PacketInv, PacketKnown, PacketDelete
  <2>6. PacketGone'
    BY <1>0, <2>1, PacketReads
       DEF PacketInv, StoreTypes, Phased, PacketPrepare, PacketDelete, PacketGone, PacketKnown
  <2> QED
    BY <2>2, <2>3, <2>4, <2>5, <2>6 DEF PacketInv
<1>18. CASE Packet!Exists
  <2>0. Only("worker") = {} <=> ~There(cloud, "worker")
    BY Reads
  <2>1. /\ UNCHANGED <<pc, db, mem, cur, sets, torn, aborts>>
        /\ cloud' = cloud /\ lost' \in Nat /\ lost <= lost'
        /\ ctl' = "make" => (There(cloud, "worker") => lost' = lost + 1)
    BY <1>0, <1>18, <2>0, PacketSame DEF Packet!Exists, Packet!Reconcile, StoreTypes
  <2>2. StoreTypes' /\ Distinct(cloud', PacketKinds)
    BY <1>0, <2>1 DEF PacketInv, StoreTypes
  <2>3. Phased(PacketPrepare, PacketDelete)'
    BY <1>0, <2>1 DEF PacketInv, StoreTypes, Phased, PacketPrepare, PacketDelete
  <2>4. PacketPaid'
    BY <1>a, <1>0, <2>1 DEF PacketInv, StoreTypes, PacketPaid
  <2>5. PacketKnown'
    BY <1>0, <2>1, PacketReads DEF PacketInv, PacketKnown, PacketDelete
  <2>6. PacketGone'
    BY <1>0, <2>1, PacketReads
       DEF PacketInv, StoreTypes, Phased, PacketPrepare, PacketDelete, PacketGone, PacketKnown
  <2> QED
    BY <2>2, <2>3, <2>4, <2>5, <2>6 DEF PacketInv
<1>19. CASE Packet!Create
  <2>1. /\ UNCHANGED <<pc, db, mem, cur, sets, torn, aborts, lost>> /\ ctl = "make"
               /\ ctl' = "wait"
        /\ DMakes(cloud, cloud', "worker", FreshId("worker"), {}, PacketKinds)
    <3>1. /\ UNCHANGED <<pc, db, mem, cur, sets, torn, aborts, lost>> /\ ctl = "make"
                 /\ ctl' = "wait"
          /\ FreshIds("worker") # {}
          /\ cloud' = Making(cloud, "worker", FreshId("worker"), 0, {})
      BY <1>19, PacketSame DEF Packet!Create, Packet!Reconcile, Packet!Resource, Making
    <3>2. "worker" \in PacketKinds /\ {} \in SUBSET AllMarks /\ 0 \in Nat
      BY DEF PacketKinds
    <3> QED
      BY <1>0, <3>1, <3>2, MadeOne
  <2>2. StoreTypes' /\ Distinct(cloud', PacketKinds)
    BY <1>0, <2>1 DEF PacketInv, StoreTypes, DMakes
  <2>3. /\ \A k : Count(cloud', k) \in Nat
        /\ \A k : There(cloud', k) <=> \E i : Id(cloud', k, i)
        /\ \A i, m : IdHas(cloud', "master", i, m) => Id(cloud', "master", i)
    BY <2>2, Counted DEF Id, IdHas
  <2>4. /\ \A i : Id(cloud', "master", i) <=> Id(cloud, "master", i)
        /\ \A i : IdHas(cloud, "master", i, "running") => IdHas(cloud', "master", i, "running")
    BY <1>0, <2>1, SMT DEF DMakes
  <2>5. Phased(PacketPrepare, PacketDelete)'
    BY <1>0, <2>1 DEF PacketInv, StoreTypes, Phased, PacketPrepare, PacketDelete, DMakes
  <2>6. PacketPaid'
    BY <1>a, <1>0, <2>1, <2>3 DEF PacketInv, StoreTypes, PacketPaid, DMakes
  <2>7. PacketKnown'
    BY <1>0, <2>1, PacketReads DEF PacketInv, PacketKnown, PacketDelete, DMakes
  <2>8. PacketGone'
    BY <1>0, <2>1, <2>3, <2>4, PacketReads
       DEF PacketInv, StoreTypes, Phased, PacketPrepare, PacketDelete, PacketGone, PacketKnown
  <2> QED
    BY <2>2, <2>3, <2>4, <2>5, <2>6, <2>7, <2>8 DEF PacketInv
<1>20. CASE Packet!workerWait
  <2>1. /\ UNCHANGED <<pc, db, mem, cur, sets, torn, aborts>>
        /\ UNCHANGED <<cloud, lost>> /\ ctl' # "make"
    BY <1>20 DEF Packet!workerWait, Packet!Reconcile, StoreTypes
  <2>2. StoreTypes' /\ Distinct(cloud', PacketKinds)
    BY <1>0, <2>1 DEF PacketInv, StoreTypes
  <2>3. Phased(PacketPrepare, PacketDelete)'
    BY <1>0, <2>1 DEF PacketInv, StoreTypes, Phased, PacketPrepare, PacketDelete
  <2>4. PacketPaid'
    BY <1>a, <1>0, <2>1 DEF PacketInv, StoreTypes, PacketPaid
  <2>5. PacketKnown'
    BY <1>0, <2>1, PacketReads DEF PacketInv, PacketKnown, PacketDelete
  <2>6. PacketGone'
    BY <1>0, <2>1, PacketReads
       DEF PacketInv, StoreTypes, Phased, PacketPrepare, PacketDelete, PacketGone, PacketKnown
  <2> QED
    BY <2>2, <2>3, <2>4, <2>5, <2>6 DEF PacketInv
<1>21. CASE Packet!updateMachineStatus
  <2>1. /\ UNCHANGED <<pc, db, mem, cur, sets, torn, aborts>>
        /\ UNCHANGED <<cloud, lost>> /\ ctl' # "make"
    BY <1>21 DEF Packet!updateMachineStatus, Packet!Reconcile, StoreTypes
  <2>2. StoreTypes' /\ Distinct(cloud', PacketKinds)
    BY <1>0, <2>1 DEF PacketInv, StoreTypes
  <2>3. Phased(PacketPrepare, PacketDelete)'
    BY <1>0, <2>1 DEF PacketInv, StoreTypes, Phased, PacketPrepare, PacketDelete
  <2>4. PacketPaid'
    BY <1>a, <1>0, <2>1 DEF PacketInv, StoreTypes, PacketPaid
  <2>5. PacketKnown'
    BY <1>0, <2>1, PacketReads DEF PacketInv, PacketKnown, PacketDelete
  <2>6. PacketGone'
    BY <1>0, <2>1, PacketReads
       DEF PacketInv, StoreTypes, Phased, PacketPrepare, PacketDelete, PacketGone, PacketKnown
  <2> QED
    BY <2>2, <2>3, <2>4, <2>5, <2>6 DEF PacketInv
<1>22. CASE Packet!Delete
  <2>1. /\ UNCHANGED <<pc, db, mem, cur, sets, torn, aborts>> /\ ctl' = "none"
        /\ lost' \in Nat /\ lost <= lost'
        /\ cloud' = cloud \/ DDrops(cloud, cloud', "worker", PacketKinds)
    <3>1. /\ UNCHANGED <<pc, db, mem, cur, sets, torn, aborts>> /\ ctl' = "none"
          /\ lost' \in Nat /\ lost <= lost'
          /\ cloud' = cloud
                 \/ cloud' = cloud \ {w \in Only("worker") : w.id = First(Only("worker"))}
      BY <1>0, <1>22, PacketSame DEF Packet!Delete, Packet!Reconcile, StoreTypes
    <3>2. cloud' \subseteq cloud /\ \A r \in cloud : r \notin cloud' => r.kind = "worker"
      BY <3>1 DEF Only, All
    <3> QED
      BY <1>0, <3>1, <3>2, Smaller
  <2>2. StoreTypes' /\ Distinct(cloud', PacketKinds)
    BY <1>0, <2>1 DEF PacketInv, StoreTypes, DDrops
  <2>3. /\ \A k : Count(cloud', k) \in Nat
        /\ \A k : There(cloud', k) <=> \E i : Id(cloud', k, i)
        /\ \A i, m : IdHas(cloud', "master", i, m) => Id(cloud', "master", i)
    BY <2>2, Counted DEF Id, IdHas
  <2>4. /\ \A i : Id(cloud', "master", i) <=> Id(cloud, "master", i)
        /\ \A i : IdHas(cloud, "master", i, "running") => IdHas(cloud', "master", i, "running")
    BY <1>0, <2>1, Zenon DEF DDrops
  <2>5. Phased(PacketPrepare, PacketDelete)'
    BY <1>0, <2>1 DEF PacketInv, StoreTypes, Phased, PacketPrepare, PacketDelete, DDrops
  <2>6. PacketPaid'
    BY <1>a, <1>0, <2>1, <2>3 DEF PacketInv, StoreTypes, PacketPaid, DDrops
  <2>7. PacketKnown'
    BY <1>0, <2>1, PacketReads DEF PacketInv, PacketKnown, PacketDelete, DDrops
  <2>8. PacketGone'
    BY <1>0, <2>1, <2>3, <2>4, PacketReads
       DEF PacketInv, StoreTypes, Phased, PacketPrepare, PacketDelete, PacketGone, PacketKnown
  <2> QED
    BY <2>2, <2>3, <2>4, <2>5, <2>6, <2>7, <2>8 DEF PacketInv
<1>23. CASE Packet!Boot({"master", "worker"}, "masterWait") /\ UNCHANGED ctl
  <2>1. /\ Steady /\ UNCHANGED <<cur, ctl>>
        /\ \E r \in cloud : DMarks(cloud, cloud', r.kind, r.id, {"running"}, PacketKinds)
    <3>1. PICK r \in cloud : cloud' = Marking(cloud, {r}, {"running"})
      BY <1>23, PacketSame DEF Packet!Boot, All
    <3>2. DMarks(cloud, cloud', r.kind, r.id, {"running"}, PacketKinds)
      BY <1>0, <3>1, OneMarked DEF AllMarks
    <3> QED
      BY <1>0, <1>23, <3>2 DEF Steady, StoreTypes, Packet!Boot
  <2>2. StoreTypes' /\ Distinct(cloud', PacketKinds)
    BY <1>0, <2>1, SteadyStore DEF PacketInv, Steady, DMarks
  <2>3. /\ \A k : Count(cloud', k) \in Nat
        /\ \A k : There(cloud', k) <=> \E i : Id(cloud', k, i)
        /\ \A i, m : IdHas(cloud', "master", i, m) => Id(cloud', "master", i)
    BY <2>2, Counted DEF Id, IdHas
  <2>4. /\ \A i : Id(cloud', "master", i) <=> Id(cloud, "master", i)
        /\ \A i : IdHas(cloud, "master", i, "running") => IdHas(cloud', "master", i, "running")
    BY <1>0, <2>1, Zenon DEF DMarks
  <2>5. Phased(PacketPrepare, PacketDelete)'
    BY <1>0, <2>1 DEF PacketInv, StoreTypes, Phased, PacketPrepare, PacketDelete, Steady, DMarks
  <2>6. PacketPaid'
    BY <1>a, <1>0, <2>1, <2>3 DEF PacketInv, StoreTypes, PacketPaid, Steady, DMarks
  <2>7. PacketKnown'
    BY <1>0, <2>1, PacketReads DEF PacketInv, PacketKnown, PacketDelete, Steady, DMarks
  <2>8. PacketGone'
    BY <1>0, <2>1, <2>3, <2>4, PacketReads
       DEF PacketInv, StoreTypes, Phased, PacketPrepare, PacketDelete, PacketGone, PacketKnown,
           Steady
  <2> QED
    BY <2>2, <2>3, <2>4, <2>5, <2>6, <2>7, <2>8 DEF PacketInv
<1> QED
  BY <1>1, <1>2, <1>3, <1>4, <1>5, <1>6, <1>7, <1>8, <1>9, <1>10, <1>11, <1>12, <1>13, <1>14,
     <1>15, <1>16, <1>17, <1>18, <1>19, <1>20, <1>21, <1>22, <1>23
  DEF Packet!Next, Packet!Command, Packet!Environment, Packet!Step, Packet!Prepare,
      Packet!Master, Packet!Teardown, Packet!Actuator

-----------------------------------------------------------------------------
(* The network on AWS *)

\* The places that are counted.
AwsPlacing == {"vpc", "rt-public", "rt-private"}

\* Another cloud with the same complete VPCs and tables, and as many places.
AwsSees(c, d) ==
    /\ AwsSound(d)
    /\ \A i : Vpc(d, i) <=> Vpc(c, i)
    /\ \A k \in PlaceKinds : \A n : Table(d, k, n) <=> Table(c, k, n)
    /\ \A k \in PlaceKinds : Placed(d, k) = Placed(c, k)

\* The same, with the same gateways and subnets.
AwsKeeps(c, d) ==
    /\ AwsSees(c, d)
    /\ \A k \in AwsHome : Count(d, k) = Count(c, k)
    /\ Settled(c) => Settled(d)
    /\ Chain(c) => Chain(d)

\* A cloud of which something has been taken away.
AwsFewer(c, d) ==
    /\ AwsSound(d)
    /\ \A i : Vpc(d, i) => Vpc(c, i)
    /\ \A k \in PlaceKinds : Placed(d, k) <= Placed(c, k)
    /\ \A k \in AwsHome : Count(d, k) <= Count(c, k)

\* The places are finitely many.
LEMMA PlacesFinite ==
    ASSUME NEW c, AwsSound(c), NEW k
    PROVE  IsFiniteSet(Places(c, k)) /\ Placed(c, k) \in Nat
<1>1. IsFiniteSet(c) /\ Places(c, k) \in SUBSET c
  BY DEF AwsSound, Distinct, Places
<1>2. IsFiniteSet(Places(c, k))
  BY <1>1, FS_Subset
<1> QED
  BY <1>2, FS_CardinalityType DEF Placed

\* Nothing has happened.
LEMMA KeepsSame == ASSUME NEW c, AwsSound(c) PROVE AwsKeeps(c, c)
BY DEF AwsKeeps, AwsSees

\* A resource that is not complete, or that no look-up of the network sees.
LEMMA AddedOne ==
    ASSUME NEW c, AwsSound(c), NEW n \in Resources(AwsKinds), ~Id(c, n.kind, n.id), NEW d,
           d = c \cup {n},
           n.kind \in AwsContents => Vpc(c, n.in),
           n.kind = "igw" => "attached" \notin n.has,
           n.kind \in AwsPlacing => ~(AwsTags \subseteq n.has)
    PROVE  /\ AwsSees(c, d)
           /\ \A k : k # n.kind => Of(d, k) = Of(c, k)
           /\ \A k : k # n.kind => Count(d, k) = Count(c, k)
           /\ Count(d, n.kind) = Count(c, n.kind) + 1
           /\ n.kind \notin AwsHome /\ Settled(c) => Settled(d)
           /\ n.kind # "vpc" /\ Chain(c) => Chain(d)
<1>1. n \notin c
  BY DEF Id
<1>2. Distinct(d, AwsKinds)
  <2>1. IsFiniteSet(d)
    BY FS_AddElement DEF AwsSound, Distinct
  <2> QED
    BY <2>1 DEF AwsSound, Distinct, Id
<1>3. \A i : Vpc(d, i) <=> Vpc(c, i)
  BY DEF Vpc, AwsPlacing
<1>4. \A k \in PlaceKinds : \A x : Table(d, k, x) <=> Table(c, k, x)
  BY DEF Table, AwsPlacing, PlaceKinds, AwsKinds, Resources
<1>5. \A k \in PlaceKinds : Places(d, k) = Places(c, k)
  BY <1>4 DEF Places, AwsPlacing, PlaceKinds, AwsKinds, Resources
<1>6. \A k \in PlaceKinds : Placed(d, k) = Placed(c, k)
  BY <1>5 DEF Placed
<1>7. Anchored(d)
  BY <1>3 DEF AwsSound, Anchored
<1>8. \A k : k # n.kind => Of(d, k) = Of(c, k)
  BY DEF Of
<1>9. Count(d, n.kind) = Count(c, n.kind) + 1
  <2>1. Of(d, n.kind) = Of(c, n.kind) \cup {n} /\ n \notin Of(c, n.kind)
    BY <1>1 DEF Of
  <2>2. IsFiniteSet(Of(c, n.kind))
    BY Counted DEF AwsSound
  <2> QED
    BY <2>1, <2>2, FS_AddElement DEF Count
<1>10. n.kind \notin AwsHome /\ Settled(c) => Settled(d)
  BY <1>3 DEF Settled, AwsHome
<1>11. n.kind # "vpc" /\ Chain(c) => Chain(d)
  BY DEF Chain, Id
<1> QED
  BY <1>2, <1>3, <1>4, <1>6, <1>7, <1>8, <1>9, <1>10, <1>11 DEF AwsSees, AwsSound, Count

\* A resource is changed, but its kind and its id.
LEMMA Swapped ==
    ASSUME NEW c, AwsSound(c), NEW r \in c, NEW n \in Resources(AwsKinds), NEW d,
           d = (c \ {r}) \cup {n}, n.kind = r.kind, n.id = r.id
    PROVE  /\ n \notin c \/ n = r
           /\ Distinct(d, AwsKinds)
           /\ \A k : Count(d, k) = Count(c, k)
           /\ Chain(c) => Chain(d)
<1>1. n \notin c \/ n = r
  BY DEF AwsSound, Distinct
<1>2. Distinct(d, AwsKinds)
  <2>1. IsFiniteSet(d)
    BY <1>1, Replaced DEF AwsSound, Distinct
  <2> QED
    BY <2>1 DEF AwsSound, Distinct
<1>3. \A k : Count(d, k) = Count(c, k)
  <2>1. Count(d, r.kind) = Count(c, r.kind)
    <3>1. Of(d, r.kind) = (Of(c, r.kind) \ {r}) \cup {n} /\ r \in Of(c, r.kind)
      BY DEF Of
    <3>2. n \notin Of(c, r.kind) \/ n = r
      BY <1>1 DEF Of
    <3>3. IsFiniteSet(Of(c, r.kind))
      BY Counted DEF AwsSound
    <3>4. Cardinality((Of(c, r.kind) \ {r}) \cup {n}) = Cardinality(Of(c, r.kind))
      BY <3>1, <3>2, <3>3, Replaced
    <3> QED
      BY <3>1, <3>4 DEF Count
  <2>2. \A k : k # r.kind => Of(d, k) = Of(c, k)
    BY DEF Of
  <2> QED
    BY <2>1, <2>2 DEF Count
<1>4. Chain(c) => Chain(d)
  BY DEF Chain, Id
<1> QED
  BY <1>1, <1>2, <1>3, <1>4

\* A resource is changed, but its kind, its id and what the look-ups of the
\* network see of it.
LEMMA Touched ==
    ASSUME NEW c, AwsSound(c), NEW r \in c, NEW n \in Resources(AwsKinds), NEW d,
           d = (c \ {r}) \cup {n}, n.kind = r.kind, n.id = r.id,
           n.in = r.in \/ n.kind \in {"igw", "eip"},
           n.kind \in AwsPlacing => (AwsTags \subseteq n.has <=> AwsTags \subseteq r.has),
           n.kind = "igw" /\ "attached" \in n.has => Vpc(c, n.in)
    PROVE  AwsKeeps(c, d)
<1>1. /\ n \notin c \/ n = r
      /\ Distinct(d, AwsKinds)
      /\ \A k : Count(d, k) = Count(c, k)
      /\ Chain(c) => Chain(d)
  BY Swapped
<1>3. \A i : Vpc(d, i) <=> Vpc(c, i)
  BY DEF Vpc, AwsPlacing
<1>4. \A k \in PlaceKinds : \A x : Table(d, k, x) <=> Table(c, k, x)
  BY DEF Table, AwsPlacing, PlaceKinds, AwsKinds, Resources
<1>5. ASSUME NEW k \in PlaceKinds PROVE Placed(d, k) = Placed(c, k)
  <2>1. CASE r \in Places(c, k)
    <3>1. \A x : Table(d, k, x) <=> Table(c, k, x)
      BY <1>4
    <3>2. n \in Places(d, k)
      BY <2>1, <3>1 DEF Places, AwsPlacing, PlaceKinds, AwsKinds, Resources
    <3>3. Places(d, k) = (Places(c, k) \ {r}) \cup {n}
      BY <1>1, <3>1, <3>2 DEF Places
    <3>4. n \notin Places(c, k) \/ n = r
      BY <1>1 DEF Places
    <3>5. IsFiniteSet(Places(c, k))
      BY PlacesFinite
    <3>6. Cardinality((Places(c, k) \ {r}) \cup {n}) = Cardinality(Places(c, k))
      BY <2>1, <3>4, <3>5, Replaced
    <3> QED
      BY <3>3, <3>6 DEF Placed
  <2>2. CASE r \notin Places(c, k)
    <3>1. Places(d, k) = Places(c, k)
      BY <1>1, <1>4, <2>2 DEF Places, AwsPlacing, PlaceKinds, AwsKinds, Resources
    <3> QED
      BY <3>1 DEF Placed
  <2> QED
    BY <2>1, <2>2
<1>6. Anchored(d)
  BY <1>3 DEF AwsSound, Anchored, AwsContents
<1>8. Settled(c) => Settled(d)
  BY <1>3 DEF Settled, AwsHome
<1> QED
  BY <1>1, <1>3, <1>4, <1>5, <1>6, <1>8 DEF AwsKeeps, AwsSees, AwsSound

\* Resources that no look-up of the network sees are marked.
LEMMA MarkedAside ==
    ASSUME NEW c, AwsSound(c), NEW S, S \subseteq c, NEW marks \in SUBSET AllMarks,
           \A r \in S : r.kind \notin AwsPlacing \cup AwsHome \cup {"igw"}
    PROVE  AwsKeeps(c, Marking(c, S, marks))
<1> DEFINE g(r) == [r EXCEPT !.has = @ \cup marks]
           d == Marking(c, S, marks)
<1>1. \A r \in c : /\ g(r) \in Resources(AwsKinds) /\ g(r).kind = r.kind /\ g(r).id = r.id
                  /\ g(r).in = r.in
  BY DEF AwsSound, Distinct, Resources
<1>2. d = (c \ S) \cup {g(r) : r \in S}
  BY DEF Marking
<1> HIDE DEF g, d
<1>3. \A r \in d : r \in c \ S \/ \E q \in S : r = g(q)
  BY <1>2
<1>4. \A r \in c : IF r \in S THEN g(r) \in d ELSE r \in d
  BY <1>2
<1>5. IsFiniteSet(d)
  <2> DEFINE f == [r \in c |-> IF r \in S THEN g(r) ELSE r]
  <2>1. f \in [c -> d] /\ \A r \in d : \E q \in c : f[q] = r
    BY <1>3, <1>4
  <2>2. f \in Surjection(c, d)
    BY <2>1 DEF Surjection
  <2> QED
    BY <2>2, FS_Surjection DEF AwsSound, Distinct
<1>6. Distinct(d, AwsKinds)
  <2>1. d \subseteq Resources(AwsKinds)
    BY <1>1, <1>3 DEF AwsSound, Distinct
  <2>2. ASSUME NEW r \in d, NEW q \in d, r.kind = q.kind, r.id = q.id PROVE r = q
    <3>1. \A x \in d : \E y \in c : /\ x.kind = y.kind /\ x.id = y.id
                                   /\ x = IF y \in S THEN g(y) ELSE y
      BY <1>1, <1>3
    <3>2. PICK y \in c : r.kind = y.kind /\ r.id = y.id /\ r = IF y \in S THEN g(y) ELSE y
      BY <3>1
    <3>3. PICK z \in c : q.kind = z.kind /\ q.id = z.id /\ q = IF z \in S THEN g(z) ELSE z
      BY <3>1
    <3>4. y = z
      BY <2>2, <3>2, <3>3 DEF AwsSound, Distinct
    <3> QED
      BY <3>2, <3>3, <3>4
  <2> QED
    BY <1>5, <2>1, <2>2 DEF Distinct
<1>7. \A r : r.kind \in AwsPlacing \cup AwsHome \cup {"igw"} => (r \in d <=> r \in c)
  BY <1>1, <1>3, <1>4
<1>8. \A i : Vpc(d, i) <=> Vpc(c, i)
  BY <1>7 DEF Vpc, AwsPlacing
<1>9. \A k \in PlaceKinds : \A x : Table(d, k, x) <=> Table(c, k, x)
  <2>1. \A k \in {"rt-public", "rt-private"} : \A x : Table(d, k, x) <=> Table(c, k, x)
    BY <1>7 DEF Table, AwsPlacing
  <2>2. \A x : ~Table(d, "none", x) /\ ~Table(c, "none", x)
    BY <1>6 DEF Table, AwsSound, Distinct, AwsKinds, Resources
  <2> QED
    BY <2>1, <2>2 DEF PlaceKinds
<1>10. \A k \in PlaceKinds : Places(d, k) = Places(c, k)
  <2>1. \A k \in PlaceKinds : \A r : r \in Places(d, k) \/ r \in Places(c, k)
            => r.kind \in AwsPlacing
    BY <1>6 DEF Places, PlaceKinds, AwsPlacing, AwsSound, Distinct, AwsKinds, Resources
  <2> QED
    BY <1>7, <1>9, <2>1 DEF Places
<1>11. Anchored(d)
  <2>1. ASSUME NEW r \in d,
               r.kind \in AwsContents \/ (r.kind = "igw" /\ "attached" \in r.has)
        PROVE  Vpc(d, r.in)
    <3>1. CASE r \in c
      BY <1>8, <2>1, <3>1 DEF AwsSound, Anchored
    <3>2. CASE r \notin c
      <4>1. PICK q \in S : r = g(q)
        BY <1>3, <3>2
      <4>2. q \in c /\ q.kind = r.kind /\ q.in = r.in /\ q.kind # "igw"
        BY <1>1, <4>1
      <4> QED
        BY <1>8, <2>1, <4>2 DEF AwsSound, Anchored
    <3> QED
      BY <3>1, <3>2
  <2> QED
    BY <2>1 DEF Anchored
<1>12. \A k \in AwsHome : Of(d, k) = Of(c, k)
  BY <1>7 DEF Of
<1>13. Settled(c) => Settled(d)
  BY <1>7, <1>8 DEF Settled, AwsHome
<1>14. Chain(c) => Chain(d)
  <2>1. \A i : Id(d, "vpc", i) <=> Id(c, "vpc", i)
    BY <1>7 DEF Id, AwsPlacing
  <2> QED
    BY <1>7, <2>1 DEF Chain, AwsPlacing
<1> QED
  BY <1>6, <1>8, <1>9, <1>10, <1>11, <1>12, <1>13, <1>14
  DEF AwsKeeps, AwsSees, AwsSound, Placed, Count, d

\* The resource that the command is setting up.
LEMMA CurrentOne ==
    ASSUME AwsSound(cloud), NEW k
    PROVE  Current(k) = {} \/ \E r \in cloud : Current(k) = {r} /\ r.kind = k /\ r.id = cur
<1>1. \A r \in cloud : r \in Current(k) <=> r.kind = k /\ r.id = cur
  BY DEF Current, Only, All
<1>2. Current(k) \subseteq cloud
  BY DEF Current, Only, All
<1>3. \A r, q \in Current(k) : r = q
  BY <1>1, <1>2 DEF AwsSound, Distinct
<1> QED
  BY <1>1, <1>2, <1>3

\* It is marked.
LEMMA MarkedCurrent ==
    ASSUME AwsSound(cloud), NEW k, NEW marks \in SUBSET AllMarks,
           k \in AwsPlacing => \A r \in Current(k) : AwsTags \subseteq (r.has \cup marks)
           => AwsTags \subseteq r.has,
           k = "igw" /\ "attached" \in marks => \A r \in Current(k) : Vpc(cloud, r.in)
    PROVE  AwsKeeps(cloud, Marking(cloud, Current(k), marks))
<1>1. CASE Current(k) = {}
  <2>1. Marking(cloud, Current(k), marks) = cloud
    BY <1>1 DEF Marking
  <2> QED
    BY <2>1, KeepsSame
<1>2. ASSUME NEW r \in cloud, Current(k) = {r}, r.kind = k, r.id = cur
      PROVE  AwsKeeps(cloud, Marking(cloud, Current(k), marks))
  <2> DEFINE n == [r EXCEPT !.has = @ \cup marks]
  <2>1. /\ n \in Resources(AwsKinds) /\ n.kind = r.kind /\ n.id = r.id /\ n.in = r.in
        /\ n.has = r.has \cup marks
    BY DEF AwsSound, Distinct, Resources
  <2>2. Marking(cloud, Current(k), marks) = (cloud \ {r}) \cup {n}
    BY <1>2 DEF Marking
  <2> HIDE DEF n
  <2>3. n.kind \in AwsPlacing => (AwsTags \subseteq n.has <=> AwsTags \subseteq r.has)
    BY <1>2, <2>1
  <2>4. n.kind = "igw" /\ "attached" \in n.has => Vpc(cloud, n.in)
    BY <1>2, <2>1 DEF AwsSound, Anchored
  <2> QED
    BY <2>1, <2>2, <2>3, <2>4, Touched
<1> QED
  BY <1>1, <1>2, CurrentOne

\* What is taken away makes no count larger.
LEMMA FewerCounted ==
    ASSUME NEW c, AwsSound(c), NEW d, d \subseteq c
    PROVE  \A k : Count(d, k) <= Count(c, k)
<1>1. \A k : IsFiniteSet(Of(c, k))
  BY Counted DEF AwsSound
<1>2. \A k : Of(d, k) \in SUBSET Of(c, k)
  BY DEF Of
<1> QED
  BY <1>1, <1>2, FS_Subset DEF Count

\* Anything but VPCs and tables is taken away.
LEMMA DroppedAside ==
    ASSUME NEW c, AwsSound(c), NEW d, d \subseteq c,
           \A r \in c : r \notin d => r.kind \notin AwsPlacing
    PROVE  AwsFewer(c, d) /\ \A i : Vpc(d, i) <=> Vpc(c, i)
<1>1. Distinct(d, AwsKinds)
  BY FS_Subset DEF AwsSound, Distinct
<1>2. \A i : Vpc(d, i) <=> Vpc(c, i)
  BY DEF Vpc, AwsPlacing
<1>3. Anchored(d)
  BY <1>2 DEF AwsSound, Anchored
<1>4. ASSUME NEW k \in PlaceKinds PROVE Places(d, k) = Places(c, k)
  <2>1. \A x : Table(d, k, x) <=> Table(c, k, x)
    BY DEF Table, AwsPlacing, PlaceKinds, AwsSound, Distinct, AwsKinds, Resources
  <2> QED
    BY <2>1 DEF Places, AwsPlacing, PlaceKinds, AwsSound, Distinct, AwsKinds, Resources
<1>5. \A k \in PlaceKinds : Placed(d, k) <= Placed(c, k)
  <2>1. \A k : Placed(c, k) \in Nat
    BY PlacesFinite
  <2> QED
    BY <1>4, <2>1 DEF Placed
<1>6. \A k : Count(d, k) <= Count(c, k)
  BY FewerCounted
<1> QED
  BY <1>1, <1>2, <1>3, <1>5, <1>6 DEF AwsFewer, AwsSound

\* A table is taken away: its VPC has its place.
LEMMA DroppedTable ==
    ASSUME NEW c, AwsSound(c), NEW t \in c, t.kind \in {"rt-public", "rt-private"}, NEW d,
           d = c \ {t}
    PROVE  AwsFewer(c, d) /\ \A i : Vpc(d, i) <=> Vpc(c, i)
<1>1. Distinct(d, AwsKinds)
  BY FS_Subset DEF AwsSound, Distinct
<1>2. \A i : Vpc(d, i) <=> Vpc(c, i)
  BY DEF Vpc
<1>3. Anchored(d)
  BY <1>2 DEF AwsSound, Anchored
<1>4. ASSUME NEW k \in PlaceKinds PROVE Placed(d, k) <= Placed(c, k)
  <2>1. Vpc(c, t.in)
    BY DEF AwsSound, Anchored, AwsContents
  <2>2. PICK v \in c : v.kind = "vpc" /\ v.id = t.in /\ AwsTags \subseteq v.has
    BY <2>1 DEF Vpc
  <2>3. \A x : Table(d, k, x) => Table(c, k, x)
    BY DEF Table
  <2>4. \A x : Table(c, k, x)
            => Table(d, k, x) \/ (k = t.kind /\ x = t.in /\ AwsTags \subseteq t.has)
    BY DEF Table
  <2>5. IsFiniteSet(Places(c, k)) /\ Placed(c, k) \in Nat
    BY PlacesFinite
  <2>6. CASE Places(d, k) \subseteq Places(c, k)
    BY <2>5, <2>6, FS_Subset DEF Placed
  <2>7. CASE ~(Places(d, k) \subseteq Places(c, k))
    <3>1. PICK p \in Places(d, k) : p \notin Places(c, k)
      BY <2>7
    <3>2. p.kind = "vpc" /\ p.id = t.in /\ k = t.kind /\ AwsTags \subseteq t.has
      BY <2>3, <2>4, <3>1 DEF Places
    <3>3. p = v /\ v \notin Places(c, k) /\ t \in Places(c, k)
      BY <2>2, <3>1, <3>2 DEF Places, AwsSound, Distinct
    <3>4. Places(d, k) \subseteq (Places(c, k) \ {t}) \cup {v}
      <4>1. ASSUME NEW q \in Places(d, k), q \notin Places(c, k) PROVE q = v
        <5>1. q.kind = "vpc" /\ q.id = t.in /\ q \in c
          BY <2>3, <2>4, <4>1 DEF Places
        <5> QED
          BY <2>2, <5>1 DEF AwsSound, Distinct
      <4>2. t \notin Places(d, k)
        BY DEF Places
      <4> QED
        BY <4>1, <4>2
    <3>5. /\ IsFiniteSet((Places(c, k) \ {t}) \cup {v})
          /\ Cardinality((Places(c, k) \ {t}) \cup {v}) = Cardinality(Places(c, k))
      BY <2>5, <3>3, Replaced
    <3>6. Cardinality(Places(d, k)) <= Cardinality((Places(c, k) \ {t}) \cup {v})
      BY <3>4, <3>5, FS_Subset
    <3> QED
      BY <3>5, <3>6 DEF Placed
  <2> QED
    BY <2>6, <2>7
<1>5. \A k : Count(d, k) <= Count(c, k)
  BY FewerCounted
<1> QED
  BY <1>1, <1>2, <1>3, <1>4, <1>5 DEF AwsFewer, AwsSound

\* An empty VPC is taken away.
LEMMA DroppedVpc ==
    ASSUME NEW c, AwsSound(c), NEW n, NEW d, d = c \ {r \in c : r.kind = "vpc" /\ r.id = n},
           \A r \in c : r.kind \in AwsContents \/ (r.kind = "igw" /\ "attached" \in r.has)
               => r.in # n
    PROVE  AwsFewer(c, d) /\ \A i : Vpc(d, i) <=> Vpc(c, i) /\ i # n
<1>1. Distinct(d, AwsKinds)
  BY FS_Subset DEF AwsSound, Distinct
<1>2. \A i : Vpc(d, i) <=> Vpc(c, i) /\ i # n
  BY DEF Vpc
<1>3. Anchored(d)
  BY <1>2 DEF AwsSound, Anchored
<1>4. ASSUME NEW k \in PlaceKinds PROVE Placed(d, k) <= Placed(c, k)
  <2>1. \A x : Table(d, k, x) <=> Table(c, k, x)
    BY DEF Table, PlaceKinds
  <2>2. Places(d, k) \in SUBSET Places(c, k)
    BY <2>1 DEF Places
  <2>3. IsFiniteSet(Places(c, k))
    BY PlacesFinite
  <2> QED
    BY <2>2, <2>3, FS_Subset DEF Placed
<1>5. \A k : Count(d, k) <= Count(c, k)
  BY FewerCounted
<1> QED
  BY <1>1, <1>2, <1>3, <1>4, <1>5 DEF AwsFewer, AwsSound

\* A VPC becomes complete.
LEMMA TaggedVpc ==
    ASSUME NEW c, AwsSound(c), NEW r \in c, NEW n \in Resources(AwsKinds), NEW d,
           d = (c \ {r}) \cup {n}, n.kind = "vpc", r.kind = "vpc", n.id = r.id,
           AwsTags \subseteq n.has
    PROVE  /\ AwsSound(d)
           /\ \A i : Vpc(d, i) <=> Vpc(c, i) \/ i = r.id
           /\ \A k \in PlaceKinds : Placed(d, k) <= Placed(c, k) + 1
           /\ \A k : Count(d, k) = Count(c, k)
           /\ (\A i : Vpc(c, i) => i < r.id) /\ Settled(c) => Settled(d)
           /\ Chain(c) => Chain(d)
<1>1. /\ Distinct(d, AwsKinds)
      /\ \A k : Count(d, k) = Count(c, k)
      /\ Chain(c) => Chain(d)
  BY Swapped
<1>2. \A i : Vpc(d, i) <=> Vpc(c, i) \/ i = r.id
  BY DEF Vpc, AwsSound, Distinct
<1>3. Anchored(d)
  BY <1>2 DEF AwsSound, Anchored, AwsContents
<1>4. ASSUME NEW k \in PlaceKinds PROVE Placed(d, k) <= Placed(c, k) + 1
  <2>1. \A x : Table(d, k, x) <=> Table(c, k, x)
    BY DEF Table, PlaceKinds
  <2>2. Places(d, k) \subseteq Places(c, k) \cup {n}
    BY <2>1 DEF Places
  <2>3. IsFiniteSet(Places(c, k)) /\ Placed(c, k) \in Nat
    BY PlacesFinite
  <2>4. /\ IsFiniteSet(Places(c, k) \cup {n})
        /\ Cardinality(Places(c, k) \cup {n}) <= Cardinality(Places(c, k)) + 1
    <3>1. /\ IsFiniteSet(Places(c, k) \cup {n})
          /\ Cardinality(Places(c, k) \cup {n}) =
               IF n \in Places(c,
                   k) THEN Cardinality(Places(c, k)) ELSE Cardinality(Places(c, k)) + 1
      BY <2>3, FS_AddElement
    <3>2. Cardinality(Places(c, k)) \in Nat
      BY <2>3 DEF Placed
    <3> QED
      BY <3>1, <3>2
  <2>5. Cardinality(Places(d, k)) <= Cardinality(Places(c, k) \cup {n})
    BY <2>2, <2>4, FS_Subset
  <2>6. Cardinality(Places(d, k)) \in Nat /\ Cardinality(Places(c, k) \cup {n}) \in Nat
    BY <2>2, <2>4, FS_Subset, FS_CardinalityType
  <2> QED
    BY <2>3, <2>4, <2>5, <2>6 DEF Placed
<1>5. (\A i : Vpc(c, i) => i < r.id) /\ Settled(c) => Settled(d)
  <2> SUFFICES ASSUME \A i : Vpc(c, i) => i < r.id, Settled(c) PROVE Settled(d)
    OBVIOUS
  <2>1. ASSUME NEW q \in d, q.kind \in AwsHome, NEW i, Vpc(d, i) PROVE q.in <= i
    <3>1. q \in c /\ Vpc(c, q.in) /\ q.in \in Nat /\ r.id \in Nat
      BY <2>1 DEF AwsHome, AwsSound, Anchored, AwsContents, Distinct, Resources
    <3>2. q.in < r.id
      BY <3>1
    <3> QED
      BY <1>2, <2>1, <3>1, <3>2 DEF Settled
  <2> QED
    BY <2>1 DEF Settled
<1> QED
  BY <1>1, <1>2, <1>3, <1>4, <1>5 DEF AwsSound

\* A table becomes complete: it takes the place of its VPC, or one more.
LEMMA TaggedTable ==
    ASSUME NEW c, AwsSound(c), NEW t \in c, NEW n \in Resources(AwsKinds), NEW d,
           d = (c \ {t}) \cup {n}, t.kind \in {"rt-public", "rt-private"},
           n.kind = t.kind, n.id = t.id, n.in = t.in, t.has = {}, AwsTags \subseteq n.has
    PROVE  /\ AwsSound(d)
           /\ \A i : Vpc(d, i) <=> Vpc(c, i)
           /\ \A k \in PlaceKinds : k # t.kind => Placed(d, k) = Placed(c, k)
           /\ Placed(d, t.kind) <= Placed(c, t.kind) + 1
           /\ ~Table(c, t.kind, t.in) => Placed(d, t.kind) <= Placed(c, t.kind)
           /\ \A k : Count(d, k) = Count(c, k)
           /\ Settled(c) => Settled(d)
           /\ Chain(c) => Chain(d)
<1>0. /\ AwsSound(c) /\ t \in c /\ n \in Resources(AwsKinds)
      /\ d = (c \ {t}) \cup {n} /\ n.kind = t.kind /\ n.id = t.id
  OBVIOUS
<1>1. /\ n \notin c \/ n = t
      /\ Distinct(d, AwsKinds)
      /\ \A k : Count(d, k) = Count(c, k)
      /\ Chain(c) => Chain(d)
  BY ONLY <1>0, Swapped
<1>2. \A i : Vpc(d, i) <=> Vpc(c, i)
  BY DEF Vpc
<1>3. Anchored(d)
  BY <1>2 DEF AwsSound, Anchored, AwsContents
<1>4. Settled(c) => Settled(d)
  BY <1>2 DEF Settled, AwsHome
<1>5. ASSUME NEW k \in PlaceKinds, k # t.kind PROVE Placed(d, k) = Placed(c, k)
  <2>1. \A x : Table(d, k, x) <=> Table(c, k, x)
    BY <1>5 DEF Table
  <2>2. Places(d, k) = Places(c, k)
    BY <1>5, <2>1 DEF Places
  <2> QED
    BY <2>2 DEF Placed
<1> DEFINE k == t.kind
           P == Places(c, k)
<1>6. IsFiniteSet(P) /\ Placed(c, k) \in Nat /\ Placed(c, k) = Cardinality(P)
  BY PlacesFinite DEF Placed
<1>7. \A x : Table(d, k, x) <=> Table(c, k, x) \/ x = t.in
  <2>1. ~(AwsTags \subseteq t.has)
    BY DEF AwsTags
  <2> QED
    BY <2>1 DEF Table
<1>8. Places(d, k) \subseteq P \cup {n}
  BY <1>7 DEF Places
<1>9. Placed(d, k) <= Placed(c, k) + 1
  <2>1. /\ IsFiniteSet(P \cup {n})
        /\ Cardinality(P \cup {n}) <= Cardinality(P) + 1
    BY <1>6, FS_AddElement
  <2>2. Cardinality(Places(d, k)) <= Cardinality(P \cup {n})
    BY <1>8, <2>1, FS_Subset
  <2>3. Cardinality(Places(d, k)) \in Nat /\ Cardinality(P \cup {n}) \in Nat
    BY <1>8, <2>1, FS_Subset, FS_CardinalityType
  <2> QED
    BY <1>6, <2>1, <2>2, <2>3 DEF Placed
<1>10. ASSUME ~Table(c, k, t.in) PROVE Placed(d, k) <= Placed(c, k)
  <2>1. Vpc(c, t.in)
    BY DEF AwsSound, Anchored, AwsContents
  <2>2. PICK v \in c : v.kind = "vpc" /\ v.id = t.in /\ AwsTags \subseteq v.has
    BY <2>1 DEF Vpc
  <2>3. v \in P /\ v \notin Places(d, k)
    BY <1>7, <1>10, <2>2 DEF Places
  <2>4. n \notin P \/ n = v
    BY <1>1 DEF Places, AwsTags
  <2>5. /\ IsFiniteSet((P \ {v}) \cup {n})
        /\ Cardinality((P \ {v}) \cup {n}) = Cardinality(P)
    BY <1>6, <2>3, <2>4, Replaced
  <2>6. Places(d, k) \subseteq (P \ {v}) \cup {n}
    BY <1>8, <2>3
  <2>7. Cardinality(Places(d, k)) <= Cardinality((P \ {v}) \cup {n})
    BY <2>5, <2>6, FS_Subset
  <2> QED
    BY <1>6, <2>5, <2>7 DEF Placed
<1> QED
  BY <1>1, <1>2, <1>3, <1>4, <1>5, <1>9, <1>10 DEF AwsSound

-----------------------------------------------------------------------------
(* AWS *)

\* What the module of a provider says is what the common one says.
LEMMA AwsSame ==
    /\ Aws!NewCluster = NewCluster
    /\ \A k, m : Aws!Only(k) = Only(k) /\ Aws!With(k, m) = With(k, m)
    /\ \A S : Aws!All(S) = All(S) /\ Aws!First(S) = First(S)
    /\ \A k : Aws!FreshIds(k) = FreshIds(k) /\ Aws!FreshId(k) = FreshId(k)
    /\ \A k : Aws!Current(k) = Current(k)
    /\ \A S, m : Aws!Marked(S, m) = Marking(cloud, S, m)
BY DEF Aws!NewCluster, Aws!Cluster, NewCluster, Cluster, Aws!Only, Aws!With, Aws!All, Only,
    With, All,
    Aws!First, First, Aws!FreshIds, Aws!FreshId, FreshIds, FreshId, Aws!Current, Current,
    Aws!Marked, Marking

\* The parts of the command around the provider.
LEMMA AwsCommand ==
    /\ Aws!Apply => Apply
    /\ Aws!DeleteCluster => DeleteCluster
    /\ \A from, endp, ids, to : Aws!Save(from, endp, ids, to) => Save(from, endp, ids, to)
    /\ \A from, ok : Aws!MarkReady(from, ok) => MarkReady(from, ok)
    /\ \A from, ok, to : Aws!StartDelete(from, ok, to) => StartDelete(from, ok, to)
    /\ \A from, phase : Aws!Finish(from, phase) => Finish(from, phase)
BY AwsSame DEF Aws!Apply, Apply, Aws!DeleteCluster, DeleteCluster, Aws!Save, Save, Aws!MarkReady,
    MarkReady, Aws!StartDelete, StartDelete, Aws!Finish, Finish, Aws!Return, Return

\* A step of the command that leaves the store alone; it stays in its VPC.
Walks(from, to) == Moves(from, to) /\ (pc' # "idle" => net' = net)

\* The calls, as steps of the command.
LEMMA AwsCalls ==
    ASSUME StoreTypes
    PROVE
    /\ \A from, ok, to : Aws!Check(from, ok, to) => Walks(from, to) /\ UNCHANGED <<cloud, lost>>
    /\ \A from, S, found, missing : Aws!Find(from, S, found, missing) =>
         /\ cloud' = cloud
         /\ \/ Walks(from, found) /\ S # {} /\ pc' = found /\ cur' = First(S) /\ lost' = lost
            \/ Walks(from, missing) /\ pc' = missing /\ (S = {} \/ lost' = lost + 1)
    /\ \A from, ok, kind, in, marks, to : Aws!Make(from, ok, kind, in, marks, to) =>
         /\ Walks(from, to) /\ lost' = lost
         /\ \/ pc' = "idle" /\ cloud' = cloud
            \/ /\ ok /\ FreshIds(kind) # {} /\ pc' = to /\ cur' = FreshId(kind)
               /\ cloud' = Making(cloud, kind, FreshId(kind), in, marks)
    /\ \A from, ok, S, marks, to : Aws!Mark(from, ok, S, marks, to) =>
         /\ Walks(from, to) /\ lost' = lost
         /\ \/ pc' = "idle" /\ cloud' = cloud
            \/ cloud' = Marking(cloud, S, marks)
    /\ \A from, S, tags, to : Aws!Tag(from, S, tags, to) =>
         /\ Walks(from, to) /\ lost' = lost
         /\ \/ pc' = to /\ cur' = cur /\ cloud' = Marking(cloud, S, tags)
            \/ pc' = "idle"
                   /\ \E some \in (SUBSET tags) \ {tags} : cloud' = Marking(cloud, S, some)
    /\ \A from, ok, S, to : Aws!Remove(from, ok, S, to) =>
         /\ Walks(from, to) /\ lost' = lost
         /\ \/ pc' = "idle" /\ cloud' = cloud
            \/ ok /\ pc' = to /\ cloud' = cloud \ S
    /\ \A from, S, to : Aws!RemoveLogged(from, TRUE, S, to) =>
         /\ Walks(from, to)
         /\ \/ cloud' = cloud \ S
            \/ lost' = lost + 1 /\ cloud' = cloud
    /\ \A from, ok, S, to : Aws!RemoveEach(from, ok, S, to) =>
         /\ lost' = lost
         /\ \/ Walks(from, to) /\ cloud' = cloud
            \/ Walks(from, from) /\ \E r \in S : cloud' = cloud \ {r}
    /\ Aws!Abort => Moves(pc, "idle") /\ pc # "idle" /\ pc' = "idle" /\ UNCHANGED <<cloud, lost>>
<1>1. /\ \A from, ok, to : Aws!Check(from, ok, to) => Walks(from, to) /\ UNCHANGED <<cloud, lost>>
      /\ \A from, S, found, missing : Aws!Find(from, S, found, missing) =>
           /\ cloud' = cloud
           /\ \/ Walks(from, found) /\ S # {} /\ pc' = found /\ cur' = First(S) /\ lost' = lost
              \/ Walks(from, missing) /\ pc' = missing /\ (S = {} \/ lost' = lost + 1)
      /\ Aws!Abort
             => Moves(pc, "idle") /\ pc # "idle" /\ pc' = "idle" /\ UNCHANGED <<cloud, lost>>
  BY AwsSame
  DEF Walks, Moves, StoreTypes, Aws!Check, Aws!Find, Aws!Abort, Aws!Decide, Aws!Continue,
      Aws!Return
<1>2. \A from, ok, kind, in, marks, to : Aws!Make(from, ok, kind, in, marks, to) =>
         /\ Walks(from, to) /\ lost' = lost
         /\ \/ pc' = "idle" /\ cloud' = cloud
            \/ /\ ok /\ FreshIds(kind) # {} /\ pc' = to /\ cur' = FreshId(kind)
               /\ cloud' = Making(cloud, kind, FreshId(kind), in, marks)
  BY AwsSame DEF Walks, Moves, StoreTypes, Making, Aws!Make, Aws!Resource, Aws!Return
<1>3. \A from, ok, S, marks, to : Aws!Mark(from, ok, S, marks, to) =>
         /\ Walks(from, to) /\ lost' = lost
         /\ \/ pc' = "idle" /\ cloud' = cloud
            \/ cloud' = Marking(cloud, S, marks)
  BY AwsSame DEF Walks, Moves, StoreTypes, Aws!Mark, Aws!Decide, Aws!Continue, Aws!Return
<1>4. \A from, S, tags, to : Aws!Tag(from, S, tags, to) =>
         /\ Walks(from, to) /\ lost' = lost
         /\ \/ pc' = to /\ cur' = cur /\ cloud' = Marking(cloud, S, tags)
            \/ pc' = "idle"
                   /\ \E some \in (SUBSET tags) \ {tags} : cloud' = Marking(cloud, S, some)
  BY AwsSame DEF Walks, Moves, StoreTypes, Aws!Tag, Aws!Continue, Aws!Return
<1>5. /\ \A from, ok, S, to : Aws!Remove(from, ok, S, to) =>
           /\ Walks(from, to) /\ lost' = lost
           /\ \/ pc' = "idle" /\ cloud' = cloud
              \/ ok /\ pc' = to /\ cloud' = cloud \ S
      /\ \A from, S, to : Aws!RemoveLogged(from, TRUE, S, to) =>
           /\ Walks(from, to)
           /\ \/ cloud' = cloud \ S
              \/ lost' = lost + 1 /\ cloud' = cloud
  BY AwsSame DEF Walks, Moves, StoreTypes, Aws!Remove, Aws!RemoveLogged, Aws!Decide,
      Aws!Continue, Aws!Return
<1>6. \A from, ok, S, to : Aws!RemoveEach(from, ok, S, to) =>
         /\ lost' = lost
         /\ \/ Walks(from, to) /\ cloud' = cloud
            \/ Walks(from, from) /\ \E r \in S : cloud' = cloud \ {r}
  BY AwsSame DEF Walks, Moves, StoreTypes, Aws!RemoveEach, Aws!Continue, Aws!Return
<1> QED
  BY <1>1, <1>2, <1>3, <1>4, <1>5, <1>6

\* The oldest of some resources.
LEMMA Oldest ==
    ASSUME AwsSound(cloud), NEW S, S \subseteq cloud, S # {}
    PROVE  /\ \E r \in S : r.id = First(S)
           /\ \A r \in S : First(S) <= r.id
           /\ First(S) \in Nat
<1> DEFINE I == {r.id : r \in S}
<1>1. I \subseteq Nat /\ I # {}
  BY DEF AwsSound, Distinct, Resources
<1>2. PICK i \in I : \A j \in I : i <= j
  BY <1>1, Least
<1>3. PICK r \in S : r.id = i
  BY <1>2
<1>4. \A q \in S : r.id <= q.id
  BY <1>2, <1>3
<1> DEFINE f == CHOOSE q \in S : \A p \in S : q.id <= p.id
<1>5. f \in S /\ \A p \in S : f.id <= p.id
  BY <1>4
<1>6. First(S) = f.id
  BY DEF First
<1> HIDE DEF f
<1> QED
  BY <1>1, <1>5, <1>6

\* What the command sees of the network.
LEMMA AwsReads ==
    ASSUME AwsSound(cloud)
    PROVE  /\ \A i : Vpc(cloud, i) <=> \E r \in Aws!Vpcs : r.id = i
           /\ Aws!Vpcs = {} <=> \A i : ~Vpc(cloud, i)
           /\ Aws!Vpcs # {} => /\ Vpc(cloud, First(Aws!Vpcs)) /\ First(Aws!Vpcs) \in Nat
                               /\ \A i : Vpc(cloud, i) => First(Aws!Vpcs) <= i
           /\ \A k : Aws!In(net, Aws!Tagged(Aws!Only(k))) = {} <=> ~Table(cloud, k, net)
           /\ \A i : Vpc(cloud, i) => i \in Nat
<1>1. Aws!Vpcs = {r \in cloud : r.kind = "vpc" /\ AwsTags \subseteq r.has}
  BY AwsSame DEF Aws!Vpcs, Aws!Tagged, Aws!Tags, AwsTags, Only, All
<1>2. \A i : Vpc(cloud, i) <=> \E r \in Aws!Vpcs : r.id = i
  BY <1>1 DEF Vpc
<1>3. Aws!Vpcs # {} => /\ Vpc(cloud, First(Aws!Vpcs)) /\ First(Aws!Vpcs) \in Nat
                       /\ \A i : Vpc(cloud, i) => First(Aws!Vpcs) <= i
  BY <1>1, <1>2, Oldest
<1>4. \A k : Aws!In(net, Aws!Tagged(Aws!Only(k))) = {} <=> ~Table(cloud, k, net)
  BY AwsSame DEF Aws!In, Aws!Tagged, Aws!Tags, AwsTags, Only, All, Table
<1>5. \A i : Vpc(cloud, i) => i \in Nat
  BY DEF Vpc, AwsSound, Distinct, Resources
<1> QED
  BY <1>2, <1>3, <1>4, <1>5

\* The counts are numbers.
LEMMA AwsCounted ==
    ASSUME NEW c, AwsSound(c)
    PROVE  /\ \A k : Placed(c, k) \in Nat /\ Count(c, k) \in Nat
           /\ \A k : ~There(c, k) => Count(c, k) = 0
           /\ (\A i : ~Vpc(c, i)) => /\ \A k \in AwsContents : ~There(c, k)
                                     /\ \A k \in PlaceKinds : Placed(c, k) = 0
           /\ Placed(c, "none") = 0 => \A i : ~Vpc(c, i)
<1>1. \A k : Placed(c, k) \in Nat
  BY PlacesFinite
<1>2. \A k : Count(c, k) \in Nat /\ (~There(c, k) => Count(c, k) = 0)
  BY Counted DEF AwsSound
<1>3. (\A i : ~Vpc(c, i)) => \A k \in AwsContents : ~There(c, k)
  BY DEF AwsSound, Anchored, There
<1>4. ASSUME \A i : ~Vpc(c, i), NEW k \in PlaceKinds PROVE Placed(c, k) = 0
  <2>1. \A r \in c : r.kind \in AwsContents => FALSE
    BY <1>3, <1>4 DEF There
  <2>2. Places(c, k) = {}
    BY <1>4, <2>1 DEF Places, Vpc, PlaceKinds, AwsContents, AwsSound, Distinct, AwsKinds,
        Resources
  <2> QED
    BY <2>2, FS_EmptySet DEF Placed
<1>5. ASSUME Placed(c, "none") = 0 PROVE \A i : ~Vpc(c, i)
  <2>1. Places(c, "none") = {}
    BY <1>5, PlacesFinite, FS_EmptySet DEF Placed
  <2>2. \A r \in c : r.kind # "none"
    BY DEF AwsSound, Distinct, AwsKinds, Resources
  <2> QED
    BY <2>1, <2>2 DEF Places, Vpc, Table
<1> QED
  BY <1>1, <1>2, <1>3, <1>4, <1>5

\* What a step of PrepareCloud leaves as it was.
LEMMA AwsAhead ==
    ASSUME AwsInv, NEW from \in AwsPrepare, NEW to \in AwsPrepare, Moves(from, to),
           AwsKeeps(cloud, cloud'),
           Complete(cloud', "eip") => Complete(cloud, "eip") \/ \E i : Vpc(cloud, i)
    PROVE  /\ StoreTypes' /\ AwsSound(cloud') /\ Phased(AwsPrepare, AwsDelete)' /\ AwsGone'
           /\ \A k \in PlaceKinds : Placed(cloud', k) = Placed(cloud, k)
                  /\ Placed(cloud, k) \in Nat
           /\ \A k \in AwsHome : Count(cloud', k) = Count(cloud, k) /\ Count(cloud, k) \in Nat
           /\ \A k \in PlaceKinds : Placed(cloud', k) <= 1 + lost'
           /\ Count(cloud', "nat") <= 1 + lost'
           /\ \A k \in {"subnet-public", "subnet-private"} : Count(cloud', k) <= 1
           /\ lost \in Nat /\ lost' \in Nat /\ lost <= lost' /\ pc = from /\ pc' \in {"idle", to}
           /\ db'.phase = "Pending" /\ Settled(cloud') /\ Chain(cloud')
<1>1. from # "idle" /\ to # "connect" /\ from \notin AwsDelete /\ to \notin AwsDelete
  BY DEF AwsPrepare, AwsIam, AwsBuild, AwsSubnets, AwsAddress, AwsTables, AwsGroups,
      AwsDelete, AwsMaster, AwsNode, AwsBalancer, AwsInVpc, AwsReleased
<1>2. StoreTypes'
  BY <1>1, MovesStore DEF AwsInv
<1>3. /\ db.phase = "Pending" /\ ~torn /\ pc = from /\ pc' \in {"idle", to}
      /\ lost \in Nat /\ lost' \in Nat /\ lost <= lost'
  BY DEF AwsInv, StoreTypes, Phased, Moves
<1>4. ~torn' /\ db' = db /\ pc' \notin AwsDelete /\ pc' # "connect"
  BY <1>1, <1>3 DEF Moves, AwsDelete, AwsMaster, AwsNode, AwsBalancer, AwsInVpc, AwsReleased
<1>5. Phased(AwsPrepare, AwsDelete)'
  BY <1>3, <1>4 DEF Phased
<1>6. AwsGone'
  <2>1. lost' = 0 => lost = 0
    BY <1>3
  <2>2. \A i : Vpc(cloud', i) <=> Vpc(cloud, i)
    BY DEF AwsKeeps, AwsSees
  <2>3. pc' \notin AwsMaster \cup AwsNode \cup AwsBalancer \cup AwsReleased /\ pc' # "dend"
    BY <1>4 DEF AwsDelete, AwsMaster, AwsNode, AwsBalancer, AwsInVpc
  <2> QED
    BY <1>4, <2>1, <2>2, <2>3 DEF AwsInv, AwsGone
<1>7. /\ \A k \in PlaceKinds : Placed(cloud', k) = Placed(cloud, k)
      /\ \A k \in AwsHome : Count(cloud', k) = Count(cloud, k)
      /\ AwsSound(cloud')
  BY DEF AwsKeeps, AwsSees
<1>8. \A k : Placed(cloud, k) \in Nat /\ Count(cloud, k) \in Nat
  BY AwsCounted DEF AwsInv
<1>9. /\ \A k \in PlaceKinds : Placed(cloud', k) <= 1 + lost'
      /\ Count(cloud', "nat") <= 1 + lost'
      /\ \A k \in {"subnet-public", "subnet-private"} : Count(cloud', k) <= 1
  BY <1>3, <1>7, <1>8 DEF AwsInv, AwsPaid, AwsHome
<1>10. Settled(cloud') /\ Chain(cloud')
  BY <1>3 DEF AwsInv, AwsKeeps
<1> QED
  BY <1>2, <1>3, <1>4, <1>5, <1>6, <1>7, <1>8, <1>9, <1>10

\* The command returns.
LEMMA AwsReturns ==
    ASSUME AwsInv, NEW from \in AwsPrepare, NEW to \in AwsPrepare, Moves(from, to),
           AwsKeeps(cloud, cloud'),
           Complete(cloud', "eip") => Complete(cloud, "eip") \/ \E i : Vpc(cloud, i),
           pc' = "idle"
    PROVE  AwsInv'
<1>1. AwsKnown'
  BY DEF AwsKnown, AwsBuild, AwsSubnets, AwsAddress, AwsTables, AwsGroups, AwsInVpc, AwsReleased
<1>2. AwsPaid'
  BY AwsAhead DEF AwsPaid, AwsSubnets, AwsAddress
<1> QED
  BY <1>1, <1>2, AwsAhead DEF AwsInv

\* Steps that need not know the network.
AwsStays(from, to) ==
    \/ from \in AwsIam /\ to \in AwsIam
    \/ from \in AwsSubnets /\ to \in (AwsSubnets \ {"igwAttach"}) \cup {"natKnown"}
    \/ from \in AwsAddress /\ to \in AwsAddress
    \/ /\ from \in AwsTables \cup AwsGroups
       /\ to \in (AwsTables \cup AwsGroups) \ {"rtPubMake", "rtPubTag", "rtPrivMake", "rtPrivTag"}

\* They keep the invariant.
LEMMA AwsPrepares ==
    ASSUME AwsInv, NEW from, NEW to, AwsStays(from, to), Walks(from, to), AwsKeeps(cloud, cloud'),
           Complete(cloud', "eip") => Complete(cloud, "eip") \/ \E i : Vpc(cloud, i)
    PROVE  AwsInv'
<1>1. from \in AwsPrepare /\ to \in AwsPrepare /\ Moves(from, to) /\ pc' \in {"idle", to}
  BY DEF AwsStays, AwsPrepare, AwsBuild, AwsTables, Walks, Moves
<1>2. CASE pc' = "idle"
  BY <1>1, <1>2, AwsReturns
<1>3. CASE pc' = to /\ to # "idle"
  <2>1. net' = net /\ pc = from
    BY <1>3 DEF Walks, Moves
  <2>2. /\ \A i : Vpc(cloud', i) <=> Vpc(cloud, i)
        /\ \A k \in AwsHome : Count(cloud', k) = Count(cloud, k)
    BY DEF AwsKeeps, AwsSees
  <2>3. AwsKnown'
    <3>1. to \notin {"vpcTag", "vpcKnown", "igwAttach", "rtPubTag", "rtPrivTag"}
      BY DEF AwsStays, AwsIam, AwsSubnets, AwsAddress, AwsTables, AwsGroups
    <3>2. to \in AwsBuild \cup AwsInVpc => from \in AwsBuild
      BY DEF AwsStays, AwsBuild, AwsIam, AwsInVpc, AwsReleased, AwsSubnets, AwsAddress,
          AwsTables, AwsGroups
    <3> QED
      BY <1>3, <2>1, <2>2, <3>1, <3>2 DEF AwsKnown, AwsInv
  <2>4. AwsPaid'
    <3>1. to \notin {"vpcMake", "vpcTag", "vpcKnown", "rtPubMake", "rtPubTag", "rtPrivMake",
              "rtPrivTag"}
      BY DEF AwsStays, AwsIam, AwsSubnets, AwsAddress, AwsTables, AwsGroups
    <3>2. (to \in AwsSubnets => from \in AwsSubnets) /\ (to \in AwsAddress => from \in AwsAddress)
      BY DEF AwsStays, AwsIam, AwsSubnets, AwsAddress, AwsTables, AwsGroups
    <3>3. /\ Count(cloud', "nat") = Count(cloud, "nat") /\ Count(cloud, "nat") \in Nat
          /\ lost \in Nat /\ lost' \in Nat /\ lost <= lost'
      BY <1>1, AwsAhead DEF AwsHome
    <3>4. /\ to \in AwsSubnets /\ (\E i : Vpc(cloud', i) /\ i < net')
                 => Count(cloud', "nat") <= lost'
          /\ to \in AwsAddress => Count(cloud', "nat") <= lost'
      BY <2>1, <2>2, <3>2, <3>3 DEF AwsInv, AwsPaid
    <3>5. /\ \A k \in PlaceKinds : Placed(cloud', k) <= 1 + lost'
          /\ Count(cloud', "nat") <= 1 + lost'
          /\ \A k \in {"subnet-public", "subnet-private"} : Count(cloud', k) <= 1
      BY <1>1, AwsAhead
    <3> QED
      BY <1>3, <3>1, <3>4, <3>5 DEF AwsPaid
  <2> QED
    BY <1>1, <2>3, <2>4, AwsAhead DEF AwsInv
<1> QED
  BY <1>1, <1>2, <1>3

\* A step of ApplyDelete keeps the invariant if what has gone stays away.
LEMMA AwsDeletes ==
    ASSUME AwsInv, NEW from \in AwsDelete, NEW to \in AwsDelete, Moves(from, to),
           AwsFewer(cloud, cloud'),
           pc' \in AwsInVpc => Vpc(cloud', net'), AwsGone'
    PROVE  AwsInv'
<1>1. from # "idle" /\ from \notin AwsPrepare /\ to \notin AwsPrepare \cup {"connect"}
  BY DEF AwsPrepare, AwsIam, AwsBuild, AwsSubnets, AwsAddress, AwsTables, AwsGroups,
      AwsDelete, AwsMaster, AwsNode, AwsBalancer, AwsInVpc, AwsReleased
<1>2. StoreTypes'
  BY <1>1, MovesStore DEF AwsInv
<1>3. /\ db.phase = "Deleting" /\ db' = db /\ pc' \in {"idle", to}
      /\ lost \in Nat /\ lost' \in Nat /\ lost <= lost'
  BY DEF AwsInv, StoreTypes, Phased, Moves
<1>4. pc' \notin AwsPrepare \cup {"connect"} /\ pc' \in AwsDelete \cup {"idle"}
  BY <1>1, <1>3 DEF AwsPrepare, AwsIam, AwsBuild, AwsSubnets, AwsAddress, AwsTables, AwsGroups
<1>5. Phased(AwsPrepare, AwsDelete)'
  BY <1>3, <1>4 DEF Phased
<1>6. AwsKnown'
  BY <1>4 DEF AwsKnown, AwsPrepare, AwsBuild, AwsSubnets, AwsTables
<1>7. AwsPaid'
  <2>1. \A k : Placed(cloud, k) \in Nat /\ Count(cloud, k) \in Nat
    BY AwsCounted DEF AwsInv
  <2>2. \A k : Placed(cloud', k) \in Nat /\ Count(cloud', k) \in Nat
    BY AwsCounted DEF AwsFewer
  <2>3. /\ \A k \in PlaceKinds : Placed(cloud', k) <= 1 + lost'
        /\ Count(cloud', "nat") <= 1 + lost'
        /\ \A k \in {"subnet-public", "subnet-private"} : Count(cloud', k) <= 1
    BY <1>3, <2>1, <2>2 DEF AwsInv, AwsPaid, AwsFewer, AwsHome
  <2> QED
    BY <1>4, <2>3 DEF AwsPaid, AwsPrepare, AwsBuild, AwsTables
<1> QED
  BY <1>2, <1>3, <1>5, <1>6, <1>7 DEF AwsInv, AwsFewer

\* A resource outside of the network is made, or a table.
LEMMA MadeAside ==
    ASSUME AwsSound(cloud), NEW k \in AwsKinds \ (AwsHome \cup {"vpc"}), FreshIds(k) # {},
           NEW in \in Nat, NEW marks \in SUBSET AllMarks, k \in AwsContents => Vpc(cloud, in),
           k \in AwsPlacing \cup {"igw"} => marks = {},
           cloud' = Making(cloud, k, FreshId(k), in, marks)
    PROVE  /\ AwsKeeps(cloud, cloud')
           /\ k # "eip" => (Complete(cloud', "eip") => Complete(cloud, "eip"))
           /\ marks = {} => Blank(cloud', k, FreshId(k), in)
<1> DEFINE n == [kind |-> k, id |-> FreshId(k), in |-> in, has |-> marks]
<1>1. FreshId(k) \in Nat /\ ~Id(cloud, k, FreshId(k))
  BY Fresh DEF FreshIds, Only, All, Id
<1>2. /\ n \in Resources(AwsKinds) /\ n.kind = k /\ n.id = FreshId(k) /\ n.in = in
             /\ n.has = marks
      /\ cloud' = cloud \cup {n}
  BY <1>1 DEF Resources, Making
<1> HIDE DEF n
<1>3. /\ n.kind \in AwsContents => Vpc(cloud, n.in)
      /\ n.kind = "igw" => "attached" \notin n.has
      /\ n.kind \in AwsPlacing => ~(AwsTags \subseteq n.has)
  BY <1>2 DEF AwsTags
<1>4. /\ AwsSees(cloud, cloud')
      /\ \A x : x # n.kind => Count(cloud', x) = Count(cloud, x)
      /\ n.kind \notin AwsHome /\ Settled(cloud) => Settled(cloud')
      /\ n.kind # "vpc" /\ Chain(cloud) => Chain(cloud')
  BY <1>1, <1>2, <1>3, AddedOne
<1>5. AwsKeeps(cloud, cloud')
  BY <1>2, <1>4 DEF AwsKeeps, AwsHome
<1>6. k # "eip" => (Complete(cloud', "eip") => Complete(cloud, "eip"))
  BY <1>2 DEF Complete
<1>7. marks = {} => Blank(cloud', k, FreshId(k), in)
  BY <1>2 DEF Blank
<1> QED
  BY <1>5, <1>6, <1>7

\* Marks on other resources leave the addresses alone.
LEMMA MarkedEip ==
    ASSUME NEW c, AwsSound(c), NEW S, S \subseteq c, \A r \in S : r.kind # "eip", NEW marks,
           Complete(Marking(c, S, marks), "eip")
    PROVE  Complete(c, "eip")
<1> DEFINE g(r) == [r EXCEPT !.has = @ \cup marks]
<1>1. \A r \in c : g(r).kind = r.kind
  BY DEF AwsSound, Distinct, Resources
<1>2. Marking(c, S, marks) = (c \ S) \cup {g(r) : r \in S}
  BY DEF Marking
<1> HIDE DEF g
<1> QED
  BY <1>1, <1>2 DEF Complete


\* A VPC is made.
LEMMA MadeVpc ==
    ASSUME AwsSound(cloud), FreshIds("vpc") # {},
           cloud' = Making(cloud, "vpc", FreshId("vpc"), 0, {})
    PROVE  /\ AwsKeeps(cloud, cloud')
           /\ Complete(cloud', "eip") => Complete(cloud, "eip")
           /\ Blank(cloud', "vpc", FreshId("vpc"), 0)
           /\ Chain(cloud) => \A i : Vpc(cloud', i) => i < FreshId("vpc")
<1> DEFINE f == FreshId("vpc")
           n == [kind |-> "vpc", id |-> f, in |-> 0, has |-> {}]
<1>1. /\ f \in Nat /\ 1 <= f /\ ~Id(cloud, "vpc", f)
      /\ \A j \in Nat : 1 <= j /\ j < f => Id(cloud, "vpc", j)
  <2>1. /\ f \in FreshIds("vpc") /\ f \in 1..MaxTwins /\ f \in Nat
        /\ \A j \in FreshIds("vpc") : f <= j
    BY Fresh
  <2>2. \A j \in 1..MaxTwins : j \in FreshIds("vpc") <=> ~Id(cloud, "vpc", j)
    BY DEF FreshIds, Only, All, Id
  <2> HIDE DEF f
  <2>3. \A j \in Nat : 1 <= j /\ j < f => j \in 1..MaxTwins /\ ~(f <= j)
    BY <2>1, ProviderBounds
  <2> QED
    BY <2>1, <2>2, <2>3
<1>2. /\ n \in Resources(AwsKinds) /\ n.kind = "vpc" /\ n.id = f /\ n.in = 0 /\ n.has = {}
      /\ cloud' = cloud \cup {n}
  BY <1>1 DEF Resources, Making, AwsKinds
<1> HIDE DEF n, f
<1>3. /\ n.kind \in AwsContents => Vpc(cloud, n.in)
      /\ n.kind = "igw" => "attached" \notin n.has
      /\ n.kind \in AwsPlacing => ~(AwsTags \subseteq n.has)
  BY <1>2 DEF AwsTags, AwsContents
<1>4. /\ AwsSees(cloud, cloud')
      /\ \A x : x # n.kind => Count(cloud', x) = Count(cloud, x)
      /\ n.kind \notin AwsHome /\ Settled(cloud) => Settled(cloud')
  BY <1>1, <1>2, <1>3, AddedOne
<1>5. Chain(cloud) => \A r \in cloud : r.kind = "vpc" => r.id \in Nat /\ r.id < f
  <2> SUFFICES ASSUME Chain(cloud), NEW r \in cloud, r.kind = "vpc" PROVE r.id \in Nat /\ r.id < f
    OBVIOUS
  <2>1. r.id \in Nat
    BY DEF AwsSound, Distinct, Resources
  <2>2. ~(f \in 1..r.id)
    BY <1>1 DEF Chain
  <2> QED
    BY <1>1, <2>1, <2>2
<1>6. Chain(cloud) => Chain(cloud')
  <2> SUFFICES ASSUME Chain(cloud), NEW r \in cloud', r.kind = "vpc", NEW j \in 1..r.id
               PROVE  Id(cloud', "vpc", j)
    BY DEF Chain
  <2>1. \A i : Id(cloud', "vpc", i) <=> Id(cloud, "vpc", i) \/ i = f
    BY <1>2 DEF Id
  <2>2. CASE r \in cloud
    BY <2>1, <2>2 DEF Chain
  <2>3. CASE r = n
    <3>1. j \in Nat /\ 1 <= j /\ j <= f
      BY <1>1, <1>2, <2>3
    <3> QED
      BY <1>1, <2>1, <3>1
  <2> QED
    BY <1>2, <2>2, <2>3
<1>7. AwsKeeps(cloud, cloud')
  BY <1>2, <1>4, <1>6 DEF AwsKeeps, AwsHome
<1>8. Blank(cloud', "vpc", f, 0) /\ (Complete(cloud', "eip") => Complete(cloud, "eip"))
  BY <1>2 DEF Blank, Complete
<1>9. Chain(cloud) => \A i : Vpc(cloud', i) => i < f
  BY <1>4, <1>5 DEF AwsSees, Vpc
<1> QED
  BY <1>7, <1>8, <1>9 DEF f

\* A subnet is made: it is the only one of its kind.
LEMMA MadeSubnet ==
    ASSUME AwsSound(cloud), Settled(cloud), NEW k \in {"subnet-public", "subnet-private"},
           FreshIds(k) # {}, NEW in \in Nat, Vpc(cloud, in), \A i : Vpc(cloud, i) => in <= i,
           \A r \in cloud : r.kind = k => r.in # in,
           cloud' = Making(cloud, k, FreshId(k), in, {})
    PROVE  /\ AwsSees(cloud, cloud') /\ Settled(cloud')
           /\ Chain(cloud) => Chain(cloud')
           /\ Count(cloud', k) = 1 /\ \A x : x # k => Count(cloud', x) = Count(cloud, x)
           /\ Complete(cloud', "eip") => Complete(cloud, "eip")
<1> DEFINE n == [kind |-> k, id |-> FreshId(k), in |-> in, has |-> {}]
<1>1. FreshId(k) \in Nat /\ ~Id(cloud, k, FreshId(k))
  BY Fresh DEF FreshIds, Only, All, Id
<1>2. /\ n \in Resources(AwsKinds) /\ n.kind = k /\ n.id = FreshId(k) /\ n.in = in /\ n.has = {}
      /\ cloud' = cloud \cup {n}
  BY <1>1 DEF Resources, Making, AwsKinds
<1> HIDE DEF n
<1>3. /\ n.kind \in AwsContents => Vpc(cloud, n.in)
      /\ n.kind = "igw" => "attached" \notin n.has
      /\ n.kind \in AwsPlacing => ~(AwsTags \subseteq n.has)
  BY <1>2 DEF AwsPlacing
<1>4. /\ AwsSees(cloud, cloud')
      /\ \A x : x # n.kind => Count(cloud', x) = Count(cloud, x)
      /\ Count(cloud', n.kind) = Count(cloud, n.kind) + 1
      /\ n.kind # "vpc" /\ Chain(cloud) => Chain(cloud')
  BY <1>1, <1>2, <1>3, AddedOne
<1>5. \A r \in cloud : r.kind # k
  <2> SUFFICES ASSUME NEW r \in cloud, r.kind = k PROVE FALSE
    OBVIOUS
  <2>1. Vpc(cloud, r.in) /\ r.in \in Nat
    BY DEF AwsSound, Anchored, AwsContents, Distinct, Resources
  <2>2. r.in <= in /\ in <= r.in
    BY <2>1 DEF Settled, AwsHome
  <2> QED
    BY <2>1, <2>2
<1>6. Settled(cloud')
  <2>1. \A i : Vpc(cloud', i) <=> Vpc(cloud, i)
    BY <1>4 DEF AwsSees
  <2> QED
    BY <1>2, <1>5, <2>1 DEF Settled, AwsHome
<1>7. Count(cloud, k) = 0
  BY <1>5, AwsCounted DEF There
<1>8. Complete(cloud', "eip") => Complete(cloud, "eip")
  BY <1>2 DEF Complete
<1> QED
  BY <1>2, <1>4, <1>6, <1>7, <1>8

\* A gateway is made in the oldest VPC and takes the address.
LEMMA MadeNat ==
    ASSUME AwsSound(cloud), Settled(cloud), FreshIds("nat") # {}, NEW s \in cloud,
           s.kind = "subnet-public",
           cloud' = (cloud \ Current("eip"))
                        \cup {[r EXCEPT !.in = FreshId("nat")] : r \in Current("eip")}
                        \cup {[kind |-> "nat", id |-> FreshId("nat"), in |-> s.in, has |-> {}]}
    PROVE  /\ AwsSees(cloud, cloud') /\ Settled(cloud')
           /\ Chain(cloud) => Chain(cloud')
           /\ Count(cloud', "nat") = Count(cloud, "nat") + 1
           /\ \A k \in {"subnet-public", "subnet-private"} : Count(cloud', k) = Count(cloud, k)
<1> DEFINE f == FreshId("nat")
           n == [kind |-> "nat", id |-> f, in |-> s.in, has |-> {}]
           d == (cloud \ Current("eip")) \cup {[r EXCEPT !.in = f] : r \in Current("eip")}
<1>1. f \in Nat /\ ~Id(cloud, "nat", f)
  BY Fresh DEF FreshIds, Only, All, Id
<1>2. /\ n \in Resources(AwsKinds) /\ n.kind = "nat" /\ n.id = f /\ n.in = s.in /\ n.has = {}
      /\ cloud' = d \cup {n}
  BY <1>1 DEF Resources, AwsKinds, AwsSound, Distinct
<1>3. /\ Vpc(cloud, s.in) /\ \A i : Vpc(cloud, i) => s.in <= i
  BY DEF AwsSound, Anchored, AwsContents, Settled, AwsHome
<1>4. AwsKeeps(cloud, d) /\ ~Id(d, "nat", f)
  <2>1. CASE Current("eip") = {}
    <3>1. d = cloud
      BY <2>1
    <3> QED
      BY <1>1, <3>1, KeepsSame
  <2>2. ASSUME NEW r \in cloud, Current("eip") = {r}, r.kind = "eip"
        PROVE  AwsKeeps(cloud, d) /\ ~Id(d, "nat", f)
    <3> DEFINE m == [r EXCEPT !.in = f]
    <3>1. m \in Resources(AwsKinds) /\ m.kind = r.kind /\ m.id = r.id
      BY <1>1 DEF AwsSound, Distinct, Resources
    <3>2. d = (cloud \ {r}) \cup {m}
      BY <2>2
    <3> HIDE DEF m, d
    <3>3. m.kind \notin AwsPlacing /\ m.kind # "igw" /\ m.kind \in {"igw", "eip"}
      BY <2>2, <3>1 DEF AwsPlacing
    <3>4. AwsKeeps(cloud, d)
      BY <3>1, <3>2, <3>3, Touched
    <3>5. ~Id(d, "nat", f)
      BY <1>1, <2>2, <3>1, <3>2 DEF Id
    <3> QED
      BY <3>4, <3>5
  <2> QED
    BY <2>1, <2>2, CurrentOne
<1> HIDE DEF n, f, d
<1>5. AwsSound(d) /\ \A i : Vpc(d, i) <=> Vpc(cloud, i)
  BY <1>4 DEF AwsKeeps, AwsSees
<1>6. /\ n.kind \in AwsContents => Vpc(d, n.in)
      /\ n.kind = "igw" => "attached" \notin n.has
      /\ n.kind \in AwsPlacing => ~(AwsTags \subseteq n.has)
  BY <1>2, <1>3, <1>5 DEF AwsPlacing
<1>7. /\ AwsSees(d, cloud')
      /\ \A x : x # n.kind => Count(cloud', x) = Count(d, x)
      /\ Count(cloud', n.kind) = Count(d, n.kind) + 1
      /\ n.kind # "vpc" /\ Chain(d) => Chain(cloud')
  BY <1>2, <1>4, <1>5, <1>6, AddedOne
<1>8. AwsSees(cloud, cloud')
  BY <1>4, <1>7 DEF AwsKeeps, AwsSees
<1>9. Settled(cloud')
  <2>1. \A i : Vpc(cloud', i) <=> Vpc(cloud, i)
    BY <1>8 DEF AwsSees
  <2>2. Settled(d)
    BY <1>4 DEF AwsKeeps
  <2> QED
    BY <1>2, <1>3, <1>5, <2>1, <2>2 DEF Settled
<1>10. Chain(cloud) => Chain(cloud')
  BY <1>2, <1>4, <1>7 DEF AwsKeeps
<1>11. /\ Count(d, "nat") = Count(cloud, "nat")
       /\ \A k \in {"subnet-public", "subnet-private"} : Count(d, k) = Count(cloud, k)
  BY <1>4 DEF AwsKeeps, AwsHome
<1> QED
  BY <1>2, <1>7, <1>8, <1>9, <1>10, <1>11

\* A step of PrepareCloud that changes the network.
LEMMA AwsForward ==
    ASSUME AwsInv, NEW from \in AwsPrepare, NEW to \in AwsPrepare, Moves(from, to),
           AwsSound(cloud'),
           lost = 0 => \A i, j : Vpc(cloud', i) /\ Vpc(cloud', j) => i = j,
           \E i : Vpc(cloud', i), Settled(cloud'), Chain(cloud')
    PROVE  /\ StoreTypes' /\ Phased(AwsPrepare, AwsDelete)' /\ AwsGone'
           /\ db'.phase = "Pending"
<1>1. from # "idle" /\ to # "connect" /\ from \notin AwsDelete /\ to \notin AwsDelete
  BY DEF AwsPrepare, AwsIam, AwsBuild, AwsSubnets, AwsAddress, AwsTables, AwsGroups,
      AwsDelete, AwsMaster, AwsNode, AwsBalancer, AwsInVpc, AwsReleased
<1>2. StoreTypes'
  BY <1>1, MovesStore DEF AwsInv
<1>3. /\ db.phase = "Pending" /\ ~torn /\ pc = from /\ pc' \in {"idle", to}
      /\ lost \in Nat /\ lost' \in Nat /\ lost <= lost'
  BY DEF AwsInv, StoreTypes, Phased, Moves
<1>4. ~torn' /\ db' = db /\ pc' \notin AwsDelete /\ pc' # "connect"
  BY <1>1, <1>3 DEF Moves, AwsDelete, AwsMaster, AwsNode, AwsBalancer, AwsInVpc, AwsReleased
<1>5. Phased(AwsPrepare, AwsDelete)'
  BY <1>3, <1>4 DEF Phased
<1>6. AwsGone'
  <2>1. lost' = 0 => lost = 0
    BY <1>3
  <2>2. pc' \notin AwsMaster \cup AwsNode \cup AwsBalancer \cup AwsReleased /\ pc' # "dend"
    BY <1>4 DEF AwsDelete, AwsMaster, AwsNode, AwsBalancer, AwsInVpc
  <2> QED
    BY <1>4, <2>1, <2>2 DEF AwsGone
<1> QED
  BY <1>2, <1>3, <1>4, <1>5, <1>6

\* Where the command neither works in a VPC that it does not know nor has
\* taken anything away yet.
AwsResting == {"idle", "connect", "iam", "dworkers", "dmaster", "master", "ready"}

\* A step that leaves the cloud alone.
LEMMA AwsRests ==
    ASSUME AwsInv, StoreTypes', Phased(AwsPrepare, AwsDelete)', cloud' = cloud, lost <= lost',
           pc' \in AwsResting, pc' \in {"master", "ready"} => Vpc(cloud, net'),
           db'.phase = "Pending" => db.phase = "Pending",
           torn' => torn \/ lost' # 0 \/ (pc \in AwsBalancer /\ \A i : ~Vpc(cloud, i))
    PROVE  AwsInv'
<1>1. /\ pc' \notin AwsSubnets /\ pc' \notin AwsAddress /\ pc' \notin AwsTables
             /\ pc' \notin AwsInVpc
      /\ pc' \notin {"vpcMake", "vpcTag", "vpcKnown", "igwAttach", "rtPubMake", "rtPubTag",
                     "rtPrivMake", "rtPrivTag", "dend"}
  BY DEF AwsResting, AwsSubnets, AwsAddress, AwsTables, AwsInVpc, AwsReleased
<1>2. /\ pc' \in AwsBuild \cup AwsInVpc => pc' \in {"master", "ready"}
      /\ pc' \notin AwsMaster /\ pc' \notin AwsNode /\ pc' \notin AwsBalancer
             /\ pc' \notin AwsReleased
  BY DEF AwsResting, AwsBuild, AwsSubnets, AwsAddress, AwsTables, AwsGroups, AwsMaster, AwsNode,
      AwsBalancer, AwsInVpc, AwsReleased
<1>3. AwsKnown'
  BY <1>1, <1>2 DEF AwsKnown
<1>4. lost \in Nat /\ lost' \in Nat
  BY DEF AwsInv, StoreTypes
<1>5. \A k : Placed(cloud, k) \in Nat /\ Count(cloud, k) \in Nat
  BY AwsCounted DEF AwsInv
<1>6. /\ \A k \in PlaceKinds : Placed(cloud', k) <= 1 + lost'
      /\ Count(cloud', "nat") <= 1 + lost'
      /\ \A k \in {"subnet-public", "subnet-private"} : Count(cloud', k) <= 1
  BY <1>4, <1>5 DEF AwsInv, AwsPaid
<1>7. AwsPaid'
  BY <1>1, <1>6 DEF AwsPaid
<1>8. AwsGone'
  <2>1. lost' = 0 => lost = 0
    BY <1>4
  <2>2. pc \in AwsBalancer => pc \in AwsNode /\ pc \in AwsMaster
    BY DEF AwsNode, AwsMaster
  <2> QED
    BY <1>1, <1>2, <2>1, <2>2 DEF AwsInv, AwsGone
<1> QED
  BY <1>3, <1>7, <1>8 DEF AwsInv

\* What is as many is not more.
LEMMA KeepsFewer ==
    ASSUME NEW c, AwsSound(c), NEW d, AwsKeeps(c, d)
    PROVE  AwsFewer(c, d) /\ \A i : Vpc(d, i) <=> Vpc(c, i)
<1>1. \A k : Placed(c, k) \in Nat /\ Count(c, k) \in Nat
  BY AwsCounted
<1> QED
  BY <1>1 DEF AwsKeeps, AwsSees, AwsFewer

\* The cloud changes by itself, between two commands or while one waits.
LEMMA AwsSteady ==
    ASSUME AwsInv, Steady, net' = net, pc \in {"idle", "masterWait", "dmaster"},
           AwsFewer(cloud, cloud'), \A i : Vpc(cloud', i) <=> Vpc(cloud, i),
           Settled(cloud) => Settled(cloud'), Chain(cloud) => Chain(cloud'),
           \A k \in {"key", "iam-master", "iam-node"} : There(cloud', k) => There(cloud, k),
           Complete(cloud', "eip") => Complete(cloud, "eip")
    PROVE  AwsInv'
<1>1. StoreTypes'
  BY SteadyStore DEF AwsInv
<1>2. /\ pc' \notin AwsSubnets /\ pc' \notin AwsAddress
      /\ pc' \notin {"vpcMake", "vpcTag", "vpcKnown", "igwAttach", "rtPubMake", "rtPubTag",
                     "rtPrivMake", "rtPrivTag", "dend"}
  BY DEF Steady, AwsSubnets, AwsAddress
<1>3. pc' = pc /\ db' = db /\ torn' = torn /\ lost' = lost
  BY DEF Steady
<1>4. Phased(AwsPrepare, AwsDelete)'
  BY <1>3 DEF AwsInv, Phased
<1>5. AwsKnown'
  BY <1>2, <1>3 DEF AwsInv, AwsKnown
<1>6. lost \in Nat /\ \A k : Placed(cloud, k) \in Nat /\ Count(cloud, k) \in Nat
  BY AwsCounted DEF AwsInv, StoreTypes
<1>7. \A k : Placed(cloud', k) \in Nat /\ Count(cloud', k) \in Nat
  BY AwsCounted DEF AwsFewer
<1>8. /\ \A k \in PlaceKinds : Placed(cloud', k) <= 1 + lost'
      /\ Count(cloud', "nat") <= 1 + lost'
      /\ \A k \in {"subnet-public", "subnet-private"} : Count(cloud', k) <= 1
  BY <1>3, <1>6, <1>7 DEF AwsInv, AwsPaid, AwsFewer, AwsHome
<1>9. AwsPaid'
  BY <1>2, <1>8 DEF AwsPaid
<1>10. AwsGone'
  BY <1>3 DEF AwsInv, AwsGone
<1> QED
  BY <1>1, <1>3, <1>4, <1>5, <1>9, <1>10 DEF AwsInv, AwsFewer

\* Marks make nothing.
LEMMA MarkedThere ==
    ASSUME NEW c, AwsSound(c), NEW S, S \subseteq c, NEW marks, NEW k,
           There(Marking(c, S, marks), k)
    PROVE  There(c, k)
<1> DEFINE g(r) == [r EXCEPT !.has = @ \cup marks]
<1>1. \A r \in c : g(r).kind = r.kind
  BY DEF AwsSound, Distinct, Resources
<1>2. Marking(c, S, marks) = (c \ S) \cup {g(r) : r \in S}
  BY DEF Marking
<1> HIDE DEF g
<1> QED
  BY <1>1, <1>2 DEF There

\* What ApplyDelete is sure of when it comes to the step to.
AwsSure(from, to, c) ==
    /\ to \in AwsMaster => from \in AwsMaster \/ ~There(c, "key")
    /\ to \in AwsNode => from \in AwsNode \/ ~There(c, "iam-master")
    /\ to \in AwsBalancer => from \in AwsBalancer \/ ~There(c, "iam-node")
    /\ to \in AwsReleased => from \in AwsReleased \/ ~Complete(c, "eip")
    /\ to # "dend"

\* A step of ApplyDelete that leaves the VPCs alone.
LEMMA AwsTakes ==
    ASSUME AwsInv, NEW from \in AwsDelete, NEW to \in AwsDelete, Walks(from, to),
           AwsFewer(cloud, cloud'),
           \A i : Vpc(cloud', i) <=> Vpc(cloud, i),
           \A k : There(cloud', k) => There(cloud, k),
           Complete(cloud', "eip") => Complete(cloud, "eip"),
           to \in AwsInVpc => from \in AwsInVpc,
           lost' = 0 /\ pc' # "idle" => AwsSure(from, to, cloud')
    PROVE  AwsInv'
<1>1. Moves(from, to) /\ pc = from /\ pc' \in {"idle", to} /\ torn' = torn
          /\ (pc' # "idle" => net' = net)
  BY DEF Walks, Moves
<1>2. lost' = 0 => lost = 0
  BY <1>1 DEF AwsInv, StoreTypes, Moves
<1>3. "idle" \notin AwsMaster \cup AwsNode \cup AwsBalancer \cup AwsReleased \cup AwsInVpc
  BY DEF AwsMaster, AwsNode, AwsBalancer, AwsInVpc, AwsReleased
<1>4. pc' \in AwsInVpc => Vpc(cloud', net')
  BY <1>1, <1>3 DEF AwsInv, AwsKnown
<1>5. AwsGone'
  BY <1>1, <1>2, <1>3 DEF AwsInv, AwsGone, AwsSure
<1> QED
  BY <1>1, <1>4, <1>5, AwsDeletes

\* Of the gateways S, the one with the id i is detached.
Detaching(c, S, i) ==
    {IF r \in S /\ r.id = i THEN [r EXCEPT !.in = 0, !.has = @ \ {"attached"}] ELSE r : r \in c}
\* Every step keeps the invariant.
LEMMA AwsStep ==
    ASSUME AwsInv, Aws!Next
    PROVE  AwsInv'
<1>0. StoreTypes /\ AwsSound(cloud) /\ AwsKeeps(cloud, cloud)
  BY KeepsSame DEF AwsInv
<1>v. \A i : Vpc(cloud, i) => i \in Nat
  BY <1>0, AwsReads
<1>a. pc \in AwsBuild \cup AwsInVpc => Vpc(cloud, net) /\ net \in Nat
  BY <1>v DEF AwsInv, AwsKnown
<1>1. CASE Aws!getIAMProfile
  <2>1. (Walks("iam", "key") \/ Walks("iam", "iamMaster")) /\ cloud' = cloud
    BY <1>0, <1>1, AwsCalls DEF Aws!getIAMProfile
  <2>2. AwsKeeps(cloud, cloud')
    BY <1>0, <2>1
  <2>8. AwsStays("iam", "key") /\ AwsStays("iam", "iamMaster")
    BY DEF AwsStays, AwsIam
  <2> QED
    BY <2>1, <2>2, <2>8, AwsPrepares DEF Walks, Moves
<1>2. CASE Aws!ensureIAMProfile("iam-master", "iamMaster", "roleMaster", "iamNode")
  <2>1. (Walks("iamMaster", "roleMaster") \/ Walks("iamMaster", "iamNode")) /\ cloud' = cloud
    BY <1>0, <1>2, AwsSame DEF Aws!ensureIAMProfile, Aws!Check, Aws!Decide, Aws!Continue, Walks,
        Moves, StoreTypes
  <2>2. AwsKeeps(cloud, cloud')
    BY <1>0, <2>1
  <2>8. AwsStays("iamMaster", "roleMaster") /\ AwsStays("iamMaster", "iamNode")
    BY DEF AwsStays, AwsIam
  <2> QED
    BY <2>1, <2>2, <2>8, AwsPrepares DEF Walks, Moves
<1>3. CASE Aws!createRole("iam-master", "roleMaster", "policyMaster")
  <2>1. /\ Walks("roleMaster", "policyMaster")
        /\ \/ cloud' = cloud
           \/ FreshIds("iam-master") # {}
                  /\ cloud' = Making(cloud, "iam-master", FreshId("iam-master"), 0, {})
    BY <1>0, <1>3, AwsSame DEF Aws!createRole, Aws!Make, Aws!Resource, Aws!Return, Walks, Moves,
        Making, StoreTypes
  <2>2. /\ "iam-master" \in AwsKinds \ (AwsHome \cup {"vpc"}) /\ {} \in SUBSET AllMarks
        /\ "iam-master" \in AwsPlacing \cup {"igw"} => {} = {}
    BY DEF AwsKinds, AwsHome, AwsPlacing, AllMarks
  <2>3. 0 \in Nat /\ ("iam-master" \in AwsContents => Vpc(cloud, 0))
    BY <1>a, <2>1 DEF AwsContents, AwsBuild, Walks, Moves, AwsIam
  <2>4. AwsKeeps(cloud, cloud')
            /\ ("iam-master" # "eip" => (Complete(cloud', "eip") => Complete(cloud, "eip")))
    BY <1>0, <2>1, <2>2, <2>3, MadeAside
  <2>8. AwsStays("roleMaster", "policyMaster")
    BY DEF AwsStays, AwsIam
  <2> QED
    BY <2>1, <2>4, <2>8, AwsPrepares DEF Walks, Moves
<1>4. CASE Aws!noSession("roleMaster", "iamNode")
  <2>1. Walks("roleMaster", "iamNode") /\ cloud' = cloud
    BY <1>0, <1>4, AwsSame DEF Aws!noSession, Aws!Continue, Walks, Moves, StoreTypes
  <2>2. AwsKeeps(cloud, cloud')
    BY <1>0, <2>1
  <2>8. AwsStays("roleMaster", "iamNode")
    BY DEF AwsStays, AwsIam
  <2> QED
    BY <2>1, <2>2, <2>8, AwsPrepares DEF Walks, Moves
<1>5. CASE Aws!putRolePolicy("iam-master", "policyMaster", "profileMaster")
  <2>1. Walks("policyMaster", "profileMaster")
            /\ (cloud' = cloud \/ cloud' = Marking(cloud, Only("iam-master"), {"policy"}))
    BY <1>0, <1>5, AwsSame DEF Aws!putRolePolicy, Aws!Mark, Aws!Decide, Aws!Continue,
        Aws!Return, Walks, Moves, StoreTypes
  <2>2. /\ Only("iam-master") \subseteq cloud /\ {"policy"} \in SUBSET AllMarks
        /\ \A r \in Only("iam-master") : r.kind = "iam-master"
               /\ r.kind \notin AwsPlacing \cup AwsHome \cup {"igw"}
    BY AwsSame DEF AwsHome, AwsPlacing, AllMarks, Only, All, Aws!Group, Aws!In
  <2>3. AwsKeeps(cloud, cloud')
    BY <1>0, <2>1, <2>2, MarkedAside
  <2>4. Complete(cloud', "eip") => Complete(cloud, "eip")
    BY <1>0, <2>1, <2>2, MarkedEip
  <2>8. AwsStays("policyMaster", "profileMaster")
    BY DEF AwsStays, AwsIam
  <2> QED
    BY <2>1, <2>3, <2>4, <2>8, AwsPrepares DEF Walks, Moves
<1>6. CASE Aws!createInstanceProfile("iam-master", "profileMaster", "attachMaster")
  <2>1. Walks("profileMaster", "attachMaster")
            /\ (cloud' = cloud \/ cloud' = Marking(cloud, Only("iam-master"), {"profile"}))
    BY <1>0, <1>6, AwsSame DEF Aws!createInstanceProfile, Aws!Mark, Aws!Decide, Aws!Continue,
        Aws!Return, Walks, Moves, StoreTypes
  <2>2. /\ Only("iam-master") \subseteq cloud /\ {"profile"} \in SUBSET AllMarks
        /\ \A r \in Only("iam-master") : r.kind = "iam-master"
               /\ r.kind \notin AwsPlacing \cup AwsHome \cup {"igw"}
    BY AwsSame DEF AwsHome, AwsPlacing, AllMarks, Only, All, Aws!Group, Aws!In
  <2>3. AwsKeeps(cloud, cloud')
    BY <1>0, <2>1, <2>2, MarkedAside
  <2>4. Complete(cloud', "eip") => Complete(cloud, "eip")
    BY <1>0, <2>1, <2>2, MarkedEip
  <2>8. AwsStays("profileMaster", "attachMaster")
    BY DEF AwsStays, AwsIam
  <2> QED
    BY <2>1, <2>3, <2>4, <2>8, AwsPrepares DEF Walks, Moves
<1>7. CASE Aws!addRoleToProfile("iam-master", "attachMaster", "iamNode")
  <2>1. Walks("attachMaster", "iamNode")
            /\ (cloud' = cloud \/ cloud' = Marking(cloud, Only("iam-master"), {"attached"}))
    BY <1>0, <1>7, AwsSame DEF Aws!addRoleToProfile, Aws!Mark, Aws!Decide, Aws!Continue,
        Aws!Return, Walks, Moves, StoreTypes
  <2>2. /\ Only("iam-master") \subseteq cloud /\ {"attached"} \in SUBSET AllMarks
        /\ \A r \in Only("iam-master") : r.kind = "iam-master"
               /\ r.kind \notin AwsPlacing \cup AwsHome \cup {"igw"}
    BY AwsSame DEF AwsHome, AwsPlacing, AllMarks, Only, All, Aws!Group, Aws!In
  <2>3. AwsKeeps(cloud, cloud')
    BY <1>0, <2>1, <2>2, MarkedAside
  <2>4. Complete(cloud', "eip") => Complete(cloud, "eip")
    BY <1>0, <2>1, <2>2, MarkedEip
  <2>8. AwsStays("attachMaster", "iamNode")
    BY DEF AwsStays, AwsIam
  <2> QED
    BY <2>1, <2>3, <2>4, <2>8, AwsPrepares DEF Walks, Moves
<1>8. CASE Aws!ensureIAMProfile("iam-node", "iamNode", "roleNode", "key")
  <2>1. (Walks("iamNode", "roleNode") \/ Walks("iamNode", "key")) /\ cloud' = cloud
    BY <1>0, <1>8, AwsSame DEF Aws!ensureIAMProfile, Aws!Check, Aws!Decide, Aws!Continue, Walks,
        Moves, StoreTypes
  <2>2. AwsKeeps(cloud, cloud')
    BY <1>0, <2>1
  <2>8. AwsStays("iamNode", "roleNode") /\ AwsStays("iamNode", "key")
    BY DEF AwsStays, AwsIam
  <2> QED
    BY <2>1, <2>2, <2>8, AwsPrepares DEF Walks, Moves
<1>9. CASE Aws!createRole("iam-node", "roleNode", "policyNode")
  <2>1. /\ Walks("roleNode", "policyNode")
        /\ \/ cloud' = cloud
           \/ FreshIds("iam-node") # {}
                  /\ cloud' = Making(cloud, "iam-node", FreshId("iam-node"), 0, {})
    BY <1>0, <1>9, AwsSame DEF Aws!createRole, Aws!Make, Aws!Resource, Aws!Return, Walks, Moves,
        Making, StoreTypes
  <2>2. /\ "iam-node" \in AwsKinds \ (AwsHome \cup {"vpc"}) /\ {} \in SUBSET AllMarks
        /\ "iam-node" \in AwsPlacing \cup {"igw"} => {} = {}
    BY DEF AwsKinds, AwsHome, AwsPlacing, AllMarks
  <2>3. 0 \in Nat /\ ("iam-node" \in AwsContents => Vpc(cloud, 0))
    BY <1>a, <2>1 DEF AwsContents, AwsBuild, Walks, Moves, AwsIam
  <2>4. AwsKeeps(cloud, cloud')
            /\ ("iam-node" # "eip" => (Complete(cloud', "eip") => Complete(cloud, "eip")))
    BY <1>0, <2>1, <2>2, <2>3, MadeAside
  <2>8. AwsStays("roleNode", "policyNode")
    BY DEF AwsStays, AwsIam
  <2> QED
    BY <2>1, <2>4, <2>8, AwsPrepares DEF Walks, Moves
<1>10. CASE Aws!noSession("roleNode", "key")
  <2>1. Walks("roleNode", "key") /\ cloud' = cloud
    BY <1>0, <1>10, AwsSame DEF Aws!noSession, Aws!Continue, Walks, Moves, StoreTypes
  <2>2. AwsKeeps(cloud, cloud')
    BY <1>0, <2>1
  <2>8. AwsStays("roleNode", "key")
    BY DEF AwsStays, AwsIam
  <2> QED
    BY <2>1, <2>2, <2>8, AwsPrepares DEF Walks, Moves
<1>11. CASE Aws!putRolePolicy("iam-node", "policyNode", "profileNode")
  <2>1. Walks("policyNode", "profileNode")
            /\ (cloud' = cloud \/ cloud' = Marking(cloud, Only("iam-node"), {"policy"}))
    BY <1>0, <1>11, AwsSame DEF Aws!putRolePolicy, Aws!Mark, Aws!Decide, Aws!Continue,
        Aws!Return, Walks, Moves, StoreTypes
  <2>2. /\ Only("iam-node") \subseteq cloud /\ {"policy"} \in SUBSET AllMarks
        /\ \A r \in Only("iam-node") : r.kind = "iam-node"
               /\ r.kind \notin AwsPlacing \cup AwsHome \cup {"igw"}
    BY AwsSame DEF AwsHome, AwsPlacing, AllMarks, Only, All, Aws!Group, Aws!In
  <2>3. AwsKeeps(cloud, cloud')
    BY <1>0, <2>1, <2>2, MarkedAside
  <2>4. Complete(cloud', "eip") => Complete(cloud, "eip")
    BY <1>0, <2>1, <2>2, MarkedEip
  <2>8. AwsStays("policyNode", "profileNode")
    BY DEF AwsStays, AwsIam
  <2> QED
    BY <2>1, <2>3, <2>4, <2>8, AwsPrepares DEF Walks, Moves
<1>12. CASE Aws!createInstanceProfile("iam-node", "profileNode", "attachNode")
  <2>1. Walks("profileNode", "attachNode")
            /\ (cloud' = cloud \/ cloud' = Marking(cloud, Only("iam-node"), {"profile"}))
    BY <1>0, <1>12, AwsSame DEF Aws!createInstanceProfile, Aws!Mark, Aws!Decide, Aws!Continue,
        Aws!Return, Walks, Moves, StoreTypes
  <2>2. /\ Only("iam-node") \subseteq cloud /\ {"profile"} \in SUBSET AllMarks
        /\ \A r \in Only("iam-node") : r.kind = "iam-node"
               /\ r.kind \notin AwsPlacing \cup AwsHome \cup {"igw"}
    BY AwsSame DEF AwsHome, AwsPlacing, AllMarks, Only, All, Aws!Group, Aws!In
  <2>3. AwsKeeps(cloud, cloud')
    BY <1>0, <2>1, <2>2, MarkedAside
  <2>4. Complete(cloud', "eip") => Complete(cloud, "eip")
    BY <1>0, <2>1, <2>2, MarkedEip
  <2>8. AwsStays("profileNode", "attachNode")
    BY DEF AwsStays, AwsIam
  <2> QED
    BY <2>1, <2>3, <2>4, <2>8, AwsPrepares DEF Walks, Moves
<1>13. CASE Aws!addRoleToProfile("iam-node", "attachNode", "key")
  <2>1. Walks("attachNode", "key")
            /\ (cloud' = cloud \/ cloud' = Marking(cloud, Only("iam-node"), {"attached"}))
    BY <1>0, <1>13, AwsSame DEF Aws!addRoleToProfile, Aws!Mark, Aws!Decide, Aws!Continue,
        Aws!Return, Walks, Moves, StoreTypes
  <2>2. /\ Only("iam-node") \subseteq cloud /\ {"attached"} \in SUBSET AllMarks
        /\ \A r \in Only("iam-node") : r.kind = "iam-node"
               /\ r.kind \notin AwsPlacing \cup AwsHome \cup {"igw"}
    BY AwsSame DEF AwsHome, AwsPlacing, AllMarks, Only, All, Aws!Group, Aws!In
  <2>3. AwsKeeps(cloud, cloud')
    BY <1>0, <2>1, <2>2, MarkedAside
  <2>4. Complete(cloud', "eip") => Complete(cloud, "eip")
    BY <1>0, <2>1, <2>2, MarkedEip
  <2>8. AwsStays("attachNode", "key")
    BY DEF AwsStays, AwsIam
  <2> QED
    BY <2>1, <2>3, <2>4, <2>8, AwsPrepares DEF Walks, Moves
<1>14. CASE Aws!getPublicKey
  <2>1. (Walks("key", "vpc") \/ Walks("key", "keyImport")) /\ cloud' = cloud
    BY <1>0, <1>14, AwsCalls DEF Aws!getPublicKey
  <2>2. AwsKeeps(cloud, cloud')
    BY <1>0, <2>1
  <2>8. AwsStays("key", "vpc") /\ AwsStays("key", "keyImport")
    BY DEF AwsStays, AwsIam
  <2> QED
    BY <2>1, <2>2, <2>8, AwsPrepares DEF Walks, Moves
<1>15. CASE Aws!importPublicKey
  <2>1. /\ Walks("keyImport", "vpc")
        /\ \/ cloud' = cloud
           \/ FreshIds("key") # {} /\ cloud' = Making(cloud, "key", FreshId("key"), 0, {})
    BY <1>0, <1>15, AwsSame DEF Aws!importPublicKey, Aws!Make, Aws!Resource, Aws!Return, Walks,
        Moves, Making, StoreTypes
  <2>2. /\ "key" \in AwsKinds \ (AwsHome \cup {"vpc"}) /\ {} \in SUBSET AllMarks
        /\ "key" \in AwsPlacing \cup {"igw"} => {} = {}
    BY DEF AwsKinds, AwsHome, AwsPlacing, AllMarks
  <2>3. 0 \in Nat /\ ("key" \in AwsContents => Vpc(cloud, 0))
    BY <1>a, <2>1 DEF AwsContents, AwsBuild, Walks, Moves, AwsIam
  <2>4. AwsKeeps(cloud, cloud')
            /\ ("key" # "eip" => (Complete(cloud', "eip") => Complete(cloud, "eip")))
    BY <1>0, <2>1, <2>2, <2>3, MadeAside
  <2>8. AwsStays("keyImport", "vpc")
    BY DEF AwsStays, AwsIam
  <2> QED
    BY <2>1, <2>4, <2>8, AwsPrepares DEF Walks, Moves
<1>16. CASE Aws!ensureSubnet
  <2>1. Walks("subnets", "public") /\ cloud' = cloud
    BY <1>0, <1>16, AwsSame DEF Aws!ensureSubnet, Aws!Check, Aws!Decide, Aws!Continue,
        Aws!Return, Walks, Moves, StoreTypes
  <2>2. AwsKeeps(cloud, cloud')
    BY <1>0, <2>1
  <2>8. AwsStays("subnets", "public")
    BY DEF AwsStays, AwsSubnets
  <2> QED
    BY <2>1, <2>2, <2>8, AwsPrepares DEF Walks, Moves
<1>17. CASE Aws!getSubnet("subnet-public", "public", "private", "publicMake")
  <2>1. (Walks("public", "private") \/ Walks("public", "publicMake")) /\ cloud' = cloud
    BY <1>0, <1>17, AwsCalls DEF Aws!getSubnet
  <2>2. AwsKeeps(cloud, cloud')
    BY <1>0, <2>1
  <2>8. AwsStays("public", "private") /\ AwsStays("public", "publicMake")
    BY DEF AwsStays, AwsSubnets
  <2> QED
    BY <2>1, <2>2, <2>8, AwsPrepares DEF Walks, Moves
<1>18. CASE Aws!getSubnet("subnet-private", "private", "igw", "privateMake")
  <2>1. (Walks("private", "igw") \/ Walks("private", "privateMake")) /\ cloud' = cloud
    BY <1>0, <1>18, AwsCalls DEF Aws!getSubnet
  <2>2. AwsKeeps(cloud, cloud')
    BY <1>0, <2>1
  <2>8. AwsStays("private", "igw") /\ AwsStays("private", "privateMake")
    BY DEF AwsStays, AwsSubnets
  <2> QED
    BY <2>1, <2>2, <2>8, AwsPrepares DEF Walks, Moves
<1>19. CASE Aws!Mark("publicAttr", TRUE, Aws!Current("subnet-public"), {"mapIP"}, "publicTag")
  <2>1. /\ Walks("publicAttr", "publicTag")
        /\ \/ cloud' = cloud
           \/ \E m \in {{"mapIP"}} : cloud' = Marking(cloud, Current("subnet-public"), m)
    BY <1>0, <1>19, AwsSame DEF Aws!Mark, Aws!Decide, Aws!Continue, Walks, Moves, StoreTypes
  <2>2. {{"mapIP"}} \subseteq SUBSET AllMarks
    BY DEF AllMarks
  <2>3. "subnet-public" \notin AwsPlacing /\ "subnet-public" # "igw"
    BY DEF AwsPlacing
  <2>4. AwsKeeps(cloud, cloud')
    <3>1. ASSUME NEW m \in {{"mapIP"}}
          PROVE  AwsKeeps(cloud, Marking(cloud, Current("subnet-public"), m))
      BY <1>0, <2>2, <2>3, MarkedCurrent
    <3> QED
      BY <1>0, <2>1, <3>1
  <2>5. pc = "publicAttr" => \E i : Vpc(cloud, i)
    BY <1>a DEF AwsBuild, AwsSubnets
  <2>8. AwsStays("publicAttr", "publicTag")
    BY DEF AwsStays, AwsSubnets
  <2> QED
    BY <2>1, <2>4, <2>5, <2>8, AwsPrepares DEF Walks, Moves
<1>20. CASE Aws!Tag("publicTag", Aws!Current("subnet-public"), Aws!Tags, "private")
  <2>1. /\ Walks("publicTag", "private")
        /\ \/ cloud' = cloud
           \/ \E m \in SUBSET {"name", "owner"} :
                  cloud' = Marking(cloud, Current("subnet-public"), m)
    BY <1>0, <1>20, AwsCalls, AwsSame DEF Aws!Tags
  <2>2. SUBSET {"name", "owner"} \subseteq SUBSET AllMarks
    BY DEF AllMarks
  <2>3. "subnet-public" \notin AwsPlacing /\ "subnet-public" # "igw"
    BY DEF AwsPlacing
  <2>4. AwsKeeps(cloud, cloud')
    <3>1. ASSUME NEW m \in SUBSET {"name", "owner"}
          PROVE  AwsKeeps(cloud, Marking(cloud, Current("subnet-public"), m))
      BY <1>0, <2>2, <2>3, MarkedCurrent
    <3> QED
      BY <1>0, <2>1, <3>1
  <2>5. pc = "publicTag" => \E i : Vpc(cloud, i)
    BY <1>a DEF AwsBuild, AwsSubnets
  <2>8. AwsStays("publicTag", "private")
    BY DEF AwsStays, AwsSubnets
  <2> QED
    BY <2>1, <2>4, <2>5, <2>8, AwsPrepares DEF Walks, Moves
<1>21. CASE Aws!Tag("privateTag", Aws!Current("subnet-private"), Aws!Tags, "igw")
  <2>1. /\ Walks("privateTag", "igw")
        /\ \/ cloud' = cloud
           \/ \E m \in SUBSET {"name", "owner"} :
                  cloud' = Marking(cloud, Current("subnet-private"), m)
    BY <1>0, <1>21, AwsCalls, AwsSame DEF Aws!Tags
  <2>2. SUBSET {"name", "owner"} \subseteq SUBSET AllMarks
    BY DEF AllMarks
  <2>3. "subnet-private" \notin AwsPlacing /\ "subnet-private" # "igw"
    BY DEF AwsPlacing
  <2>4. AwsKeeps(cloud, cloud')
    <3>1. ASSUME NEW m \in SUBSET {"name", "owner"}
          PROVE  AwsKeeps(cloud, Marking(cloud, Current("subnet-private"), m))
      BY <1>0, <2>2, <2>3, MarkedCurrent
    <3> QED
      BY <1>0, <2>1, <3>1
  <2>5. pc = "privateTag" => \E i : Vpc(cloud, i)
    BY <1>a DEF AwsBuild, AwsSubnets
  <2>8. AwsStays("privateTag", "igw")
    BY DEF AwsStays, AwsSubnets
  <2> QED
    BY <2>1, <2>4, <2>5, <2>8, AwsPrepares DEF Walks, Moves
<1>22. CASE Aws!getInternetGateway
  <2>1. (Walks("igw", "nat") \/ Walks("igw", "igwMake")) /\ cloud' = cloud
    BY <1>0, <1>22, AwsCalls DEF Aws!getInternetGateway
  <2>2. AwsKeeps(cloud, cloud')
    BY <1>0, <2>1
  <2>8. AwsStays("igw", "nat") /\ AwsStays("igw", "igwMake")
    BY DEF AwsStays, AwsSubnets
  <2> QED
    BY <2>1, <2>2, <2>8, AwsPrepares DEF Walks, Moves
<1>23. CASE Aws!tagGateway
  <2>1. /\ Walks("igwTag", "nat")
        /\ \/ cloud' = cloud
           \/ \E m \in SUBSET {"name", "owner"} : cloud' = Marking(cloud, Current("igw"), m)
    BY <1>0, <1>23, AwsCalls, AwsSame DEF Aws!tagGateway, Aws!Tags
  <2>2. SUBSET {"name", "owner"} \subseteq SUBSET AllMarks
    BY DEF AllMarks
  <2>3. "igw" \notin AwsPlacing /\ \A m \in SUBSET {"name", "owner"} : "attached" \notin m
    BY DEF AwsPlacing
  <2>4. AwsKeeps(cloud, cloud')
    <3>1. ASSUME NEW m \in SUBSET {"name", "owner"}
          PROVE  AwsKeeps(cloud, Marking(cloud, Current("igw"), m))
      BY <1>0, <2>2, <2>3, MarkedCurrent
    <3> QED
      BY <1>0, <2>1, <3>1
  <2>5. pc = "igwTag" => \E i : Vpc(cloud, i)
    BY <1>a DEF AwsBuild, AwsSubnets
  <2>8. AwsStays("igwTag", "nat")
    BY DEF AwsStays, AwsSubnets
  <2> QED
    BY <2>1, <2>4, <2>5, <2>8, AwsPrepares DEF Walks, Moves
<1>24. CASE Aws!allocateElasticIP
  <2>1. /\ Walks("eipMake", "eipTag")
        /\ \/ cloud' = cloud
           \/ FreshIds("eip") # {} /\ cloud' = Making(cloud, "eip", FreshId("eip"), 0, {})
    BY <1>0, <1>24, AwsSame DEF Aws!allocateElasticIP, Aws!Make, Aws!Resource, Aws!Return,
        Walks, Moves, Making, StoreTypes
  <2>2. /\ "eip" \in AwsKinds \ (AwsHome \cup {"vpc"}) /\ {} \in SUBSET AllMarks
        /\ "eip" \in AwsPlacing \cup {"igw"} => {} = {}
    BY DEF AwsKinds, AwsHome, AwsPlacing, AllMarks
  <2>3. 0 \in Nat /\ ("eip" \in AwsContents => Vpc(cloud, 0))
    BY <1>a, <2>1 DEF AwsContents, AwsBuild, Walks, Moves, AwsAddress
  <2>4. AwsKeeps(cloud, cloud')
            /\ ("eip" # "eip" => (Complete(cloud', "eip") => Complete(cloud, "eip")))
    BY <1>0, <2>1, <2>2, <2>3, MadeAside
  <2>5. pc = "eipMake" => \E i : Vpc(cloud, i)
    BY <1>a DEF AwsBuild, AwsAddress
  <2>8. AwsStays("eipMake", "eipTag")
    BY DEF AwsStays, AwsAddress
  <2> QED
    BY <2>1, <2>4, <2>5, <2>8, AwsPrepares DEF Walks, Moves
<1>25. CASE Aws!tagElasticIP
  <2>1. /\ Walks("eipTag", "natMake")
        /\ \/ cloud' = cloud
           \/ \E m \in SUBSET {"name", "owner"} : cloud' = Marking(cloud, Current("eip"), m)
    BY <1>0, <1>25, AwsCalls, AwsSame DEF Aws!tagElasticIP, Aws!Tags
  <2>2. SUBSET {"name", "owner"} \subseteq SUBSET AllMarks
    BY DEF AllMarks
  <2>3. "eip" \notin AwsPlacing /\ "eip" # "igw"
    BY DEF AwsPlacing
  <2>4. AwsKeeps(cloud, cloud')
    <3>1. ASSUME NEW m \in SUBSET {"name", "owner"}
          PROVE  AwsKeeps(cloud, Marking(cloud, Current("eip"), m))
      BY <1>0, <2>2, <2>3, MarkedCurrent
    <3> QED
      BY <1>0, <2>1, <3>1
  <2>5. pc = "eipTag" => \E i : Vpc(cloud, i)
    BY <1>a DEF AwsBuild, AwsAddress
  <2>8. AwsStays("eipTag", "natMake")
    BY DEF AwsStays, AwsAddress
  <2> QED
    BY <2>1, <2>4, <2>5, <2>8, AwsPrepares DEF Walks, Moves
<1>26. CASE Aws!tagNat
  <2>1. /\ Walks("natTag", "natKnown")
        /\ \/ cloud' = cloud
           \/ \E m \in SUBSET {"name", "owner"} : cloud' = Marking(cloud, Current("nat"), m)
    BY <1>0, <1>26, AwsCalls, AwsSame DEF Aws!tagNat, Aws!Tags
  <2>2. SUBSET {"name", "owner"} \subseteq SUBSET AllMarks
    BY DEF AllMarks
  <2>3. "nat" \notin AwsPlacing /\ "nat" # "igw"
    BY DEF AwsPlacing
  <2>4. AwsKeeps(cloud, cloud')
    <3>1. ASSUME NEW m \in SUBSET {"name", "owner"}
          PROVE  AwsKeeps(cloud, Marking(cloud, Current("nat"), m))
      BY <1>0, <2>2, <2>3, MarkedCurrent
    <3> QED
      BY <1>0, <2>1, <3>1
  <2>5. pc = "natTag" => \E i : Vpc(cloud, i)
    BY <1>a DEF AwsBuild, AwsTables
  <2>8. AwsStays("natTag", "natKnown")
    BY DEF AwsStays, AwsTables
  <2> QED
    BY <2>1, <2>4, <2>5, <2>8, AwsPrepares DEF Walks, Moves
<1>27. CASE Aws!getSecurityGroupID
  <2>1. (Walks("sg", "sgDetect") \/ Walks("sg", "sgMaster")) /\ cloud' = cloud
    BY <1>0, <1>27, AwsCalls DEF Aws!getSecurityGroupID
  <2>2. AwsKeeps(cloud, cloud')
    BY <1>0, <2>1
  <2>8. AwsStays("sg", "sgDetect") /\ AwsStays("sg", "sgMaster")
    BY DEF AwsStays, AwsGroups
  <2> QED
    BY <2>1, <2>2, <2>8, AwsPrepares DEF Walks, Moves
<1>28. CASE Aws!detectSecurityGroups("sgDetect", "bastion")
  <2>1. Walks("sgDetect", "bastion") /\ cloud' = cloud
    BY <1>0, <1>28, AwsSame DEF Aws!detectSecurityGroups, Aws!Check, Aws!Decide, Aws!Continue,
        Aws!Return, Walks, Moves, StoreTypes
  <2>2. AwsKeeps(cloud, cloud')
    BY <1>0, <2>1
  <2>8. AwsStays("sgDetect", "bastion")
    BY DEF AwsStays, AwsGroups
  <2> QED
    BY <2>1, <2>2, <2>8, AwsPrepares DEF Walks, Moves
<1>29. CASE Aws!Check("sgMaster", TRUE, "sgNode")
  <2>1. Walks("sgMaster", "sgNode") /\ cloud' = cloud
    BY <1>0, <1>29, AwsCalls
  <2>2. AwsKeeps(cloud, cloud')
    BY <1>0, <2>1
  <2>8. AwsStays("sgMaster", "sgNode")
    BY DEF AwsStays, AwsGroups
  <2> QED
    BY <2>1, <2>2, <2>8, AwsPrepares DEF Walks, Moves
<1>30. CASE Aws!Make("sgMaster", TRUE, "sg-master", net, {}, "sgMasterTag")
  <2>1. /\ Walks("sgMaster", "sgMasterTag")
        /\ \/ cloud' = cloud
           \/ FreshIds("sg-master") # {}
                  /\ cloud' = Making(cloud, "sg-master", FreshId("sg-master"), net, {})
    BY <1>0, <1>30, AwsSame DEF Aws!Make, Aws!Resource, Aws!Return, Walks, Moves, Making,
        StoreTypes
  <2>2. /\ "sg-master" \in AwsKinds \ (AwsHome \cup {"vpc"}) /\ {} \in SUBSET AllMarks
        /\ "sg-master" \in AwsPlacing \cup {"igw"} => {} = {}
    BY DEF AwsKinds, AwsHome, AwsPlacing, AllMarks
  <2>3. net \in Nat /\ ("sg-master" \in AwsContents => Vpc(cloud, net))
    BY <1>a, <2>1 DEF AwsContents, AwsBuild, Walks, Moves, AwsGroups
  <2>4. AwsKeeps(cloud, cloud')
            /\ ("sg-master" # "eip" => (Complete(cloud', "eip") => Complete(cloud, "eip")))
    BY <1>0, <2>1, <2>2, <2>3, MadeAside
  <2>5. pc = "sgMaster" => \E i : Vpc(cloud, i)
    BY <1>a DEF AwsBuild, AwsGroups
  <2>8. AwsStays("sgMaster", "sgMasterTag")
    BY DEF AwsStays, AwsGroups
  <2> QED
    BY <2>1, <2>4, <2>5, <2>8, AwsPrepares DEF Walks, Moves
<1>31. CASE Aws!Tag("sgMasterTag", Aws!Current("sg-master"), Aws!Tags, "sgNode")
  <2>1. /\ Walks("sgMasterTag", "sgNode")
        /\ \/ cloud' = cloud
           \/ \E m \in SUBSET {"name", "owner"} : cloud' = Marking(cloud, Current("sg-master"), m)
    BY <1>0, <1>31, AwsCalls, AwsSame DEF Aws!Tags
  <2>2. SUBSET {"name", "owner"} \subseteq SUBSET AllMarks
    BY DEF AllMarks
  <2>3. "sg-master" \notin AwsPlacing /\ "sg-master" # "igw"
    BY DEF AwsPlacing
  <2>4. AwsKeeps(cloud, cloud')
    <3>1. ASSUME NEW m \in SUBSET {"name", "owner"}
          PROVE  AwsKeeps(cloud, Marking(cloud, Current("sg-master"), m))
      BY <1>0, <2>2, <2>3, MarkedCurrent
    <3> QED
      BY <1>0, <2>1, <3>1
  <2>5. pc = "sgMasterTag" => \E i : Vpc(cloud, i)
    BY <1>a DEF AwsBuild, AwsGroups
  <2>8. AwsStays("sgMasterTag", "sgNode")
    BY DEF AwsStays, AwsGroups
  <2> QED
    BY <2>1, <2>4, <2>5, <2>8, AwsPrepares DEF Walks, Moves
<1>32. CASE Aws!Check("sgNode", TRUE, "sgBastion")
  <2>1. Walks("sgNode", "sgBastion") /\ cloud' = cloud
    BY <1>0, <1>32, AwsCalls
  <2>2. AwsKeeps(cloud, cloud')
    BY <1>0, <2>1
  <2>8. AwsStays("sgNode", "sgBastion")
    BY DEF AwsStays, AwsGroups
  <2> QED
    BY <2>1, <2>2, <2>8, AwsPrepares DEF Walks, Moves
<1>33. CASE Aws!Make("sgNode", TRUE, "sg-node", net, {}, "sgNodeTag")
  <2>1. /\ Walks("sgNode", "sgNodeTag")
        /\ \/ cloud' = cloud
           \/ FreshIds("sg-node") # {}
                  /\ cloud' = Making(cloud, "sg-node", FreshId("sg-node"), net, {})
    BY <1>0, <1>33, AwsSame DEF Aws!Make, Aws!Resource, Aws!Return, Walks, Moves, Making,
        StoreTypes
  <2>2. /\ "sg-node" \in AwsKinds \ (AwsHome \cup {"vpc"}) /\ {} \in SUBSET AllMarks
        /\ "sg-node" \in AwsPlacing \cup {"igw"} => {} = {}
    BY DEF AwsKinds, AwsHome, AwsPlacing, AllMarks
  <2>3. net \in Nat /\ ("sg-node" \in AwsContents => Vpc(cloud, net))
    BY <1>a, <2>1 DEF AwsContents, AwsBuild, Walks, Moves, AwsGroups
  <2>4. AwsKeeps(cloud, cloud')
            /\ ("sg-node" # "eip" => (Complete(cloud', "eip") => Complete(cloud, "eip")))
    BY <1>0, <2>1, <2>2, <2>3, MadeAside
  <2>5. pc = "sgNode" => \E i : Vpc(cloud, i)
    BY <1>a DEF AwsBuild, AwsGroups
  <2>8. AwsStays("sgNode", "sgNodeTag")
    BY DEF AwsStays, AwsGroups
  <2> QED
    BY <2>1, <2>4, <2>5, <2>8, AwsPrepares DEF Walks, Moves
<1>34. CASE Aws!Tag("sgNodeTag", Aws!Current("sg-node"), Aws!Tags, "sgBastion")
  <2>1. /\ Walks("sgNodeTag", "sgBastion")
        /\ \/ cloud' = cloud
           \/ \E m \in SUBSET {"name", "owner"} : cloud' = Marking(cloud, Current("sg-node"), m)
    BY <1>0, <1>34, AwsCalls, AwsSame DEF Aws!Tags
  <2>2. SUBSET {"name", "owner"} \subseteq SUBSET AllMarks
    BY DEF AllMarks
  <2>3. "sg-node" \notin AwsPlacing /\ "sg-node" # "igw"
    BY DEF AwsPlacing
  <2>4. AwsKeeps(cloud, cloud')
    <3>1. ASSUME NEW m \in SUBSET {"name", "owner"}
          PROVE  AwsKeeps(cloud, Marking(cloud, Current("sg-node"), m))
      BY <1>0, <2>2, <2>3, MarkedCurrent
    <3> QED
      BY <1>0, <2>1, <3>1
  <2>5. pc = "sgNodeTag" => \E i : Vpc(cloud, i)
    BY <1>a DEF AwsBuild, AwsGroups
  <2>8. AwsStays("sgNodeTag", "sgBastion")
    BY DEF AwsStays, AwsGroups
  <2> QED
    BY <2>1, <2>4, <2>5, <2>8, AwsPrepares DEF Walks, Moves
<1>35. CASE Aws!Check("sgBastion", TRUE, "sgRules")
  <2>1. Walks("sgBastion", "sgRules") /\ cloud' = cloud
    BY <1>0, <1>35, AwsCalls
  <2>2. AwsKeeps(cloud, cloud')
    BY <1>0, <2>1
  <2>8. AwsStays("sgBastion", "sgRules")
    BY DEF AwsStays, AwsGroups
  <2> QED
    BY <2>1, <2>2, <2>8, AwsPrepares DEF Walks, Moves
<1>36. CASE Aws!Make("sgBastion", TRUE, "sg-bastion", net, {}, "sgBastionTag")
  <2>1. /\ Walks("sgBastion", "sgBastionTag")
        /\ \/ cloud' = cloud
           \/ FreshIds("sg-bastion") # {}
                  /\ cloud' = Making(cloud, "sg-bastion", FreshId("sg-bastion"), net, {})
    BY <1>0, <1>36, AwsSame DEF Aws!Make, Aws!Resource, Aws!Return, Walks, Moves, Making,
        StoreTypes
  <2>2. /\ "sg-bastion" \in AwsKinds \ (AwsHome \cup {"vpc"}) /\ {} \in SUBSET AllMarks
        /\ "sg-bastion" \in AwsPlacing \cup {"igw"} => {} = {}
    BY DEF AwsKinds, AwsHome, AwsPlacing, AllMarks
  <2>3. net \in Nat /\ ("sg-bastion" \in AwsContents => Vpc(cloud, net))
    BY <1>a, <2>1 DEF AwsContents, AwsBuild, Walks, Moves, AwsGroups
  <2>4. AwsKeeps(cloud, cloud')
            /\ ("sg-bastion" # "eip" => (Complete(cloud', "eip") => Complete(cloud, "eip")))
    BY <1>0, <2>1, <2>2, <2>3, MadeAside
  <2>5. pc = "sgBastion" => \E i : Vpc(cloud, i)
    BY <1>a DEF AwsBuild, AwsGroups
  <2>8. AwsStays("sgBastion", "sgBastionTag")
    BY DEF AwsStays, AwsGroups
  <2> QED
    BY <2>1, <2>4, <2>5, <2>8, AwsPrepares DEF Walks, Moves
<1>37. CASE Aws!Tag("sgBastionTag", Aws!Current("sg-bastion"), Aws!Tags, "sgRules")
  <2>1. /\ Walks("sgBastionTag", "sgRules")
        /\ \/ cloud' = cloud
           \/ \E m \in SUBSET {"name", "owner"} :
                  cloud' = Marking(cloud, Current("sg-bastion"), m)
    BY <1>0, <1>37, AwsCalls, AwsSame DEF Aws!Tags
  <2>2. SUBSET {"name", "owner"} \subseteq SUBSET AllMarks
    BY DEF AllMarks
  <2>3. "sg-bastion" \notin AwsPlacing /\ "sg-bastion" # "igw"
    BY DEF AwsPlacing
  <2>4. AwsKeeps(cloud, cloud')
    <3>1. ASSUME NEW m \in SUBSET {"name", "owner"}
          PROVE  AwsKeeps(cloud, Marking(cloud, Current("sg-bastion"), m))
      BY <1>0, <2>2, <2>3, MarkedCurrent
    <3> QED
      BY <1>0, <2>1, <3>1
  <2>5. pc = "sgBastionTag" => \E i : Vpc(cloud, i)
    BY <1>a DEF AwsBuild, AwsGroups
  <2>8. AwsStays("sgBastionTag", "sgRules")
    BY DEF AwsStays, AwsGroups
  <2> QED
    BY <2>1, <2>4, <2>5, <2>8, AwsPrepares DEF Walks, Moves
<1>38. CASE Aws!detectSecurityGroups("sgRules", "ruleBastion")
  <2>1. Walks("sgRules", "ruleBastion") /\ cloud' = cloud
    BY <1>0, <1>38, AwsSame DEF Aws!detectSecurityGroups, Aws!Check, Aws!Decide, Aws!Continue,
        Aws!Return, Walks, Moves, StoreTypes
  <2>2. AwsKeeps(cloud, cloud')
    BY <1>0, <2>1
  <2>8. AwsStays("sgRules", "ruleBastion")
    BY DEF AwsStays, AwsGroups
  <2> QED
    BY <2>1, <2>2, <2>8, AwsPrepares DEF Walks, Moves
<1>39. CASE Aws!getIngressRules("sg-bastion", "ruleBastion", "ruleMaster")
  <2>1. Walks("ruleBastion", "ruleMaster")
            /\ (cloud' = cloud \/ cloud' = Marking(cloud, Aws!Group("sg-bastion"), {"rules"}))
    BY <1>0, <1>39, AwsSame DEF Aws!getIngressRules, Aws!Mark, Aws!Decide, Aws!Continue,
        Aws!Return, Walks, Moves, StoreTypes
  <2>2. /\ Aws!Group("sg-bastion") \subseteq cloud /\ {"rules"} \in SUBSET AllMarks
        /\ \A r \in Aws!Group("sg-bastion") : r.kind = "sg-bastion"
               /\ r.kind \notin AwsPlacing \cup AwsHome \cup {"igw"}
    BY AwsSame DEF AwsHome, AwsPlacing, AllMarks, Only, All, Aws!Group, Aws!In
  <2>3. AwsKeeps(cloud, cloud')
    BY <1>0, <2>1, <2>2, MarkedAside
  <2>4. Complete(cloud', "eip") => Complete(cloud, "eip")
    BY <1>0, <2>1, <2>2, MarkedEip
  <2>8. AwsStays("ruleBastion", "ruleMaster")
    BY DEF AwsStays, AwsGroups
  <2> QED
    BY <2>1, <2>3, <2>4, <2>8, AwsPrepares DEF Walks, Moves
<1>40. CASE Aws!getIngressRules("sg-master", "ruleMaster", "ruleNode")
  <2>1. Walks("ruleMaster", "ruleNode")
            /\ (cloud' = cloud \/ cloud' = Marking(cloud, Aws!Group("sg-master"), {"rules"}))
    BY <1>0, <1>40, AwsSame DEF Aws!getIngressRules, Aws!Mark, Aws!Decide, Aws!Continue,
        Aws!Return, Walks, Moves, StoreTypes
  <2>2. /\ Aws!Group("sg-master") \subseteq cloud /\ {"rules"} \in SUBSET AllMarks
        /\ \A r \in Aws!Group("sg-master") : r.kind = "sg-master"
               /\ r.kind \notin AwsPlacing \cup AwsHome \cup {"igw"}
    BY AwsSame DEF AwsHome, AwsPlacing, AllMarks, Only, All, Aws!Group, Aws!In
  <2>3. AwsKeeps(cloud, cloud')
    BY <1>0, <2>1, <2>2, MarkedAside
  <2>4. Complete(cloud', "eip") => Complete(cloud, "eip")
    BY <1>0, <2>1, <2>2, MarkedEip
  <2>8. AwsStays("ruleMaster", "ruleNode")
    BY DEF AwsStays, AwsGroups
  <2> QED
    BY <2>1, <2>3, <2>4, <2>8, AwsPrepares DEF Walks, Moves
<1>41. CASE Aws!getIngressRules("sg-node", "ruleNode", "bastion")
  <2>1. Walks("ruleNode", "bastion")
            /\ (cloud' = cloud \/ cloud' = Marking(cloud, Aws!Group("sg-node"), {"rules"}))
    BY <1>0, <1>41, AwsSame DEF Aws!getIngressRules, Aws!Mark, Aws!Decide, Aws!Continue,
        Aws!Return, Walks, Moves, StoreTypes
  <2>2. /\ Aws!Group("sg-node") \subseteq cloud /\ {"rules"} \in SUBSET AllMarks
        /\ \A r \in Aws!Group("sg-node") : r.kind = "sg-node"
               /\ r.kind \notin AwsPlacing \cup AwsHome \cup {"igw"}
    BY AwsSame DEF AwsHome, AwsPlacing, AllMarks, Only, All, Aws!Group, Aws!In
  <2>3. AwsKeeps(cloud, cloud')
    BY <1>0, <2>1, <2>2, MarkedAside
  <2>4. Complete(cloud', "eip") => Complete(cloud, "eip")
    BY <1>0, <2>1, <2>2, MarkedEip
  <2>8. AwsStays("ruleNode", "bastion")
    BY DEF AwsStays, AwsGroups
  <2> QED
    BY <2>1, <2>3, <2>4, <2>8, AwsPrepares DEF Walks, Moves
<1>42. CASE Aws!getBastion
  <2>1. (Walks("bastion", "lb") \/ Walks("bastion", "bastionMake")) /\ cloud' = cloud
    BY <1>0, <1>42, AwsCalls DEF Aws!getBastion
  <2>2. AwsKeeps(cloud, cloud')
    BY <1>0, <2>1
  <2>8. AwsStays("bastion", "lb") /\ AwsStays("bastion", "bastionMake")
    BY DEF AwsStays, AwsGroups
  <2> QED
    BY <2>1, <2>2, <2>8, AwsPrepares DEF Walks, Moves
<1>43. CASE Aws!setupBastion
  <2>1. /\ Walks("bastionMake", "lb")
        /\ \/ cloud' = cloud
           \/ FreshIds("bastion") # {}
                  /\ cloud' = Making(cloud, "bastion", FreshId("bastion"), net, {"owner"})
    BY <1>0, <1>43, AwsSame DEF Aws!setupBastion, Aws!Make, Aws!Resource, Aws!Return, Walks,
        Moves, Making, StoreTypes
  <2>2. /\ "bastion" \in AwsKinds \ (AwsHome \cup {"vpc"}) /\ {"owner"} \in SUBSET AllMarks
        /\ "bastion" \in AwsPlacing \cup {"igw"} => {"owner"} = {}
    BY DEF AwsKinds, AwsHome, AwsPlacing, AllMarks
  <2>3. net \in Nat /\ ("bastion" \in AwsContents => Vpc(cloud, net))
    BY <1>a, <2>1 DEF AwsContents, AwsBuild, Walks, Moves, AwsGroups
  <2>4. AwsKeeps(cloud, cloud')
            /\ ("bastion" # "eip" => (Complete(cloud', "eip") => Complete(cloud, "eip")))
    BY <1>0, <2>1, <2>2, <2>3, MadeAside
  <2>5. pc = "bastionMake" => \E i : Vpc(cloud, i)
    BY <1>a DEF AwsBuild, AwsGroups
  <2>8. AwsStays("bastionMake", "lb")
    BY DEF AwsStays, AwsGroups
  <2> QED
    BY <2>1, <2>4, <2>5, <2>8, AwsPrepares DEF Walks, Moves
<1>44. CASE Aws!setupLoadBalancer
  <2>1. /\ Walks("lb", "lbCheck")
        /\ \/ cloud' = cloud
           \/ FreshIds("lb") # {} /\ cloud' = Making(cloud, "lb", FreshId("lb"), net, {"owner"})
    BY <1>0, <1>44, AwsSame DEF Aws!setupLoadBalancer, Aws!Check, Aws!Decide, Aws!Continue,
        Aws!Make, Aws!Resource, Aws!Return, Walks, Moves, Making, StoreTypes
  <2>2. /\ "lb" \in AwsKinds \ (AwsHome \cup {"vpc"}) /\ {"owner"} \in SUBSET AllMarks
        /\ "lb" \in AwsPlacing \cup {"igw"} => {"owner"} = {}
    BY DEF AwsKinds, AwsHome, AwsPlacing, AllMarks
  <2>3. net \in Nat /\ ("lb" \in AwsContents => Vpc(cloud, net))
    BY <1>a, <2>1 DEF AwsContents, AwsBuild, Walks, Moves, AwsGroups
  <2>4. AwsKeeps(cloud, cloud')
            /\ ("lb" # "eip" => (Complete(cloud', "eip") => Complete(cloud, "eip")))
    BY <1>0, <2>1, <2>2, <2>3, MadeAside
  <2>5. pc = "lb" => \E i : Vpc(cloud, i)
    BY <1>a DEF AwsBuild, AwsGroups
  <2>8. AwsStays("lb", "lbCheck")
    BY DEF AwsStays, AwsGroups
  <2> QED
    BY <2>1, <2>4, <2>5, <2>8, AwsPrepares DEF Walks, Moves
<1>45. CASE Aws!configureHealthCheck
  <2>1. Walks("lbCheck", "save")
            /\ (cloud' = cloud \/ cloud' = Marking(cloud, Only("lb"), {"check"}))
    BY <1>0, <1>45, AwsSame DEF Aws!configureHealthCheck, Aws!Mark, Aws!Decide, Aws!Continue,
        Aws!Return, Walks, Moves, StoreTypes
  <2>2. /\ Only("lb") \subseteq cloud /\ {"check"} \in SUBSET AllMarks
        /\ \A r \in Only("lb") : r.kind = "lb"
               /\ r.kind \notin AwsPlacing \cup AwsHome \cup {"igw"}
    BY AwsSame DEF AwsHome, AwsPlacing, AllMarks, Only, All, Aws!Group, Aws!In
  <2>3. AwsKeeps(cloud, cloud')
    BY <1>0, <2>1, <2>2, MarkedAside
  <2>4. Complete(cloud', "eip") => Complete(cloud, "eip")
    BY <1>0, <2>1, <2>2, MarkedEip
  <2>8. AwsStays("lbCheck", "save")
    BY DEF AwsStays, AwsGroups
  <2> QED
    BY <2>1, <2>3, <2>4, <2>8, AwsPrepares DEF Walks, Moves
<1>46. CASE Aws!getMaster
  <2>1. (Walks("master", "ready") \/ Walks("master", "masterMake")) /\ cloud' = cloud
    BY <1>0, <1>46, AwsCalls DEF Aws!getMaster
  <2>2. AwsKeeps(cloud, cloud')
    BY <1>0, <2>1
  <2>8. AwsStays("master", "ready") /\ AwsStays("master", "masterMake")
    BY DEF AwsStays, AwsGroups
  <2> QED
    BY <2>1, <2>2, <2>8, AwsPrepares DEF Walks, Moves
<1>47. CASE Aws!startMaster
  <2>1. /\ Walks("masterMake", "masterWait")
        /\ \/ cloud' = cloud
           \/ FreshIds("master") # {}
                  /\ cloud' = Making(cloud, "master", FreshId("master"), net, {"owner"})
    BY <1>0, <1>47, AwsSame DEF Aws!startMaster, Aws!Make, Aws!Resource, Aws!Return, Walks,
        Moves, Making, StoreTypes
  <2>2. /\ "master" \in AwsKinds \ (AwsHome \cup {"vpc"}) /\ {"owner"} \in SUBSET AllMarks
        /\ "master" \in AwsPlacing \cup {"igw"} => {"owner"} = {}
    BY DEF AwsKinds, AwsHome, AwsPlacing, AllMarks
  <2>3. net \in Nat /\ ("master" \in AwsContents => Vpc(cloud, net))
    BY <1>a, <2>1 DEF AwsContents, AwsBuild, Walks, Moves, AwsGroups
  <2>4. AwsKeeps(cloud, cloud')
            /\ ("master" # "eip" => (Complete(cloud', "eip") => Complete(cloud, "eip")))
    BY <1>0, <2>1, <2>2, <2>3, MadeAside
  <2>5. pc = "masterMake" => \E i : Vpc(cloud, i)
    BY <1>a DEF AwsBuild, AwsGroups
  <2>8. AwsStays("masterMake", "masterWait")
    BY DEF AwsStays, AwsGroups
  <2> QED
    BY <2>1, <2>4, <2>5, <2>8, AwsPrepares DEF Walks, Moves
<1>48. CASE Aws!waitForInstanceState
  <2>1. Walks("masterWait", "masterReg") /\ cloud' = cloud
    BY <1>0, <1>48, AwsCalls DEF Aws!waitForInstanceState
  <2>2. AwsKeeps(cloud, cloud')
    BY <1>0, <2>1
  <2>8. AwsStays("masterWait", "masterReg")
    BY DEF AwsStays, AwsGroups
  <2> QED
    BY <2>1, <2>2, <2>8, AwsPrepares DEF Walks, Moves
<1>49. CASE Aws!registerMaster
  <2>1. /\ Walks("masterReg", "masterSave")
        /\ \/ cloud' = cloud
           \/ \E m \in {{"lb"}} : cloud' = Marking(cloud, Current("master"), m)
    BY <1>0, <1>49, AwsSame DEF Aws!registerMaster, Aws!Mark, Aws!Decide, Aws!Continue,
        Aws!Return, Walks, Moves, StoreTypes
  <2>2. {{"lb"}} \subseteq SUBSET AllMarks
    BY DEF AllMarks
  <2>3. "master" \notin AwsPlacing /\ "master" # "igw"
    BY DEF AwsPlacing
  <2>4. AwsKeeps(cloud, cloud')
    <3>1. ASSUME NEW m \in {{"lb"}} PROVE AwsKeeps(cloud, Marking(cloud, Current("master"), m))
      BY <1>0, <2>2, <2>3, MarkedCurrent
    <3> QED
      BY <1>0, <2>1, <3>1
  <2>5. pc = "masterReg" => \E i : Vpc(cloud, i)
    BY <1>a DEF AwsBuild, AwsGroups
  <2>8. AwsStays("masterReg", "masterSave")
    BY DEF AwsStays, AwsGroups
  <2> QED
    BY <2>1, <2>4, <2>5, <2>8, AwsPrepares DEF Walks, Moves
<1>50. CASE Aws!getVpc
  <2>1. /\ cloud' = cloud
        /\ \/ /\ Walks("vpc", "vpcKnown") /\ Aws!Vpcs # {} /\ pc' = "vpcKnown"
                     /\ cur' = First(Aws!Vpcs)
              /\ lost' = lost
           \/ Walks("vpc", "vpcMake") /\ pc' = "vpcMake" /\ (Aws!Vpcs = {} \/ lost' = lost + 1)
    BY <1>0, <1>50, AwsCalls DEF Aws!getVpc
  <2>2. AwsKeeps(cloud, cloud') /\ (Complete(cloud', "eip") => Complete(cloud, "eip"))
    BY <1>0, <2>1
  <2>3. CASE Walks("vpc", "vpcKnown") /\ Aws!Vpcs # {} /\ pc' = "vpcKnown"
                 /\ cur' = First(Aws!Vpcs) /\ lost' = lost
    <3>1. Vpc(cloud', cur') /\ cur' \in Nat /\ \A i : Vpc(cloud', i) => cur' <= i /\ i \in Nat
      BY <1>0, <1>v, <2>1, <2>3, AwsReads
    <3>2. ~ \E i : Vpc(cloud', i) /\ i < cur'
      BY <3>1
    <3>3. Moves("vpc", "vpcKnown")
      BY <2>3 DEF Walks
    <3>11. "vpc" \in AwsPrepare /\ "vpcKnown" \in AwsPrepare
      BY DEF AwsPrepare, AwsIam, AwsBuild, AwsSubnets, AwsAddress, AwsTables, AwsGroups
    <3>10. "vpcKnown" \notin AwsSubnets /\ "vpcKnown" \notin AwsAddress
               /\ "vpcKnown" \notin AwsBuild \cup AwsInVpc
      BY DEF AwsBuild, AwsSubnets, AwsAddress, AwsTables, AwsGroups, AwsInVpc, AwsReleased
    <3>16. /\ \A k \in PlaceKinds : Placed(cloud', k) = Placed(cloud, k)
                  /\ Placed(cloud, k) \in Nat
          /\ \A k \in AwsHome : Count(cloud', k) = Count(cloud, k) /\ Count(cloud, k) \in Nat
          /\ lost \in Nat /\ lost' \in Nat /\ lost <= lost'
      BY <2>2, <3>3, <3>11, AwsAhead
    <3>12. /\ \A k \in PlaceKinds : Placed(cloud', k) <= 1 + lost'
          /\ Count(cloud', "nat") <= 1 + lost'
          /\ \A k \in {"subnet-public", "subnet-private"} : Count(cloud', k) <= 1
      BY <2>2, <3>3, <3>11, AwsAhead
    <3>13. AwsKnown'
      BY <2>3, <3>1, <3>10 DEF AwsKnown
    <3>14. AwsPaid'
      BY <2>3, <3>2, <3>10, <3>12 DEF AwsPaid
    <3> QED
      BY <2>2, <3>3, <3>11, <3>13, <3>14, AwsAhead DEF AwsInv
  <2>4. CASE Walks("vpc", "vpcMake") /\ pc' = "vpcMake" /\ (Aws!Vpcs = {} \/ lost' = lost + 1)
    <3>1. Moves("vpc", "vpcMake")
      BY <2>4 DEF Walks
    <3>2. Aws!Vpcs = {} => Count(cloud, "nat") = 0 /\ \A k \in PlaceKinds : Placed(cloud, k) = 0
      <4>1. Aws!Vpcs = {} => \A i : ~Vpc(cloud, i)
        BY <1>0, AwsReads
      <4> QED
        BY <1>0, <4>1, AwsCounted DEF AwsContents
    <3>3. lost \in Nat /\ lost' \in Nat /\ Count(cloud, "nat") <= 1 + lost
              /\ \A k \in PlaceKinds : Placed(cloud, k) <= 1 + lost
      BY <1>0, <3>1 DEF StoreTypes, Moves, AwsInv, AwsPaid
    <3>4. Count(cloud', "nat") <= lost' /\ \A k \in PlaceKinds : Placed(cloud', k) <= lost'
      BY <2>1, <2>4, <3>2, <3>3
    <3>11. "vpc" \in AwsPrepare /\ "vpcMake" \in AwsPrepare
      BY DEF AwsPrepare, AwsIam, AwsBuild, AwsSubnets, AwsAddress, AwsTables, AwsGroups
    <3>10. "vpcMake" \notin AwsSubnets /\ "vpcMake" \notin AwsAddress
               /\ "vpcMake" \notin AwsBuild \cup AwsInVpc
      BY DEF AwsBuild, AwsSubnets, AwsAddress, AwsTables, AwsGroups, AwsInVpc, AwsReleased
    <3>16. /\ \A k \in PlaceKinds : Placed(cloud', k) = Placed(cloud, k)
                  /\ Placed(cloud, k) \in Nat
          /\ \A k \in AwsHome : Count(cloud', k) = Count(cloud, k) /\ Count(cloud, k) \in Nat
          /\ lost \in Nat /\ lost' \in Nat /\ lost <= lost'
      BY <2>2, <3>1, <3>11, AwsAhead
    <3>12. /\ \A k \in PlaceKinds : Placed(cloud', k) <= 1 + lost'
          /\ Count(cloud', "nat") <= 1 + lost'
          /\ \A k \in {"subnet-public", "subnet-private"} : Count(cloud', k) <= 1
      BY <2>2, <3>1, <3>11, AwsAhead
    <3>13. AwsKnown'
      BY <2>4, <3>10 DEF AwsKnown
    <3>14. AwsPaid'
      BY <2>4, <3>4, <3>10, <3>12 DEF AwsPaid
    <3> QED
      BY <2>2, <3>1, <3>11, <3>13, <3>14, AwsAhead DEF AwsInv
  <2> QED
    BY <2>1, <2>3, <2>4
<1>51. CASE Aws!setupVpc
  <2>1. /\ Moves("vpcMake", "vpcTag") /\ lost' = lost
        /\ \/ pc' = "idle" /\ cloud' = cloud
           \/ /\ FreshIds("vpc") # {} /\ pc' = "vpcTag" /\ cur' = FreshId("vpc")
              /\ cloud' = Making(cloud, "vpc", FreshId("vpc"), 0, {})
    BY <1>0, <1>51, AwsSame DEF Aws!setupVpc, Aws!Make, Aws!Resource, Aws!Return, Walks, Moves,
        Making, StoreTypes
  <2>2. /\ AwsKeeps(cloud, cloud') /\ (Complete(cloud', "eip") => Complete(cloud, "eip"))
        /\ pc' # "idle" => /\ Blank(cloud', "vpc", cur', 0)
                           /\ Chain(cloud) => \A i : Vpc(cloud', i) => i < cur'
    BY <1>0, <2>1, MadeVpc
  <2>9. CASE pc' = "idle"
    <3>1. "vpcMake" \in AwsPrepare /\ "vpcTag" \in AwsPrepare
      BY DEF AwsPrepare, AwsIam, AwsBuild, AwsSubnets, AwsAddress, AwsTables, AwsGroups
    <3> QED
      BY <2>1, <2>2, <2>9, <3>1, AwsReturns
  <2>10. CASE pc' = "vpcTag"
    <3>1. Chain(cloud) /\ pc = "vpcMake"
      BY <2>1 DEF AwsInv, Phased, Moves, AwsPrepare, AwsIam, AwsBuild, AwsSubnets, AwsAddress,
          AwsTables, AwsGroups
    <3>11. "vpcMake" \in AwsPrepare /\ "vpcTag" \in AwsPrepare
      BY DEF AwsPrepare, AwsIam, AwsBuild, AwsSubnets, AwsAddress, AwsTables, AwsGroups
    <3>10. "vpcTag" \notin AwsSubnets /\ "vpcTag" \notin AwsAddress
               /\ "vpcTag" \notin AwsBuild \cup AwsInVpc
      BY DEF AwsBuild, AwsSubnets, AwsAddress, AwsTables, AwsGroups, AwsInVpc, AwsReleased
    <3>16. /\ \A k \in PlaceKinds : Placed(cloud', k) = Placed(cloud, k)
                  /\ Placed(cloud, k) \in Nat
          /\ \A k \in AwsHome : Count(cloud', k) = Count(cloud, k) /\ Count(cloud, k) \in Nat
          /\ lost \in Nat /\ lost' \in Nat /\ lost <= lost'
      BY <2>1, <2>2, <3>11, AwsAhead
    <3>12. /\ \A k \in PlaceKinds : Placed(cloud', k) <= 1 + lost'
          /\ Count(cloud', "nat") <= 1 + lost'
          /\ \A k \in {"subnet-public", "subnet-private"} : Count(cloud', k) <= 1
      BY <2>1, <2>2, <3>11, AwsAhead
    <3>13. AwsKnown'
      <4>1. Blank(cloud', "vpc", cur', 0) /\ \A i : Vpc(cloud', i) => i < cur'
        BY <2>2, <2>10, <3>1
      <4> QED
        BY <2>10, <3>10, <4>1 DEF AwsKnown
    <3>14. AwsPaid'
      <4>1. Count(cloud, "nat") <= lost /\ \A k \in PlaceKinds : Placed(cloud, k) <= lost
        BY <3>1 DEF AwsInv, AwsPaid
      <4>2. Count(cloud', "nat") <= lost' /\ \A k \in PlaceKinds : Placed(cloud', k) <= lost'
        BY <2>1, <3>16, <4>1 DEF AwsHome
      <4> QED
        BY <2>10, <3>10, <3>12, <4>2 DEF AwsPaid
    <3> QED
      BY <2>1, <2>2, <3>11, <3>13, <3>14, AwsAhead DEF AwsInv
  <2> QED
    BY <2>1, <2>9, <2>10
<1>52. CASE Aws!ensureVPC
  <2>1. Moves("vpcKnown", "subnets") /\ cloud' = cloud /\ lost' = lost /\ pc = "vpcKnown"
            /\ pc' = "subnets" /\ net' = cur
    BY <1>0, <1>52 DEF Aws!ensureVPC, Moves, StoreTypes
  <2>2. AwsKeeps(cloud, cloud') /\ (Complete(cloud', "eip") => Complete(cloud, "eip"))
    BY <1>0, <2>1
  <2>11. "vpcKnown" \in AwsPrepare /\ "subnets" \in AwsPrepare
    BY DEF AwsPrepare, AwsIam, AwsBuild, AwsSubnets, AwsAddress, AwsTables, AwsGroups
  <2>10. "subnets" \in AwsSubnets /\ "subnets" \notin AwsAddress
             /\ "subnets" \in AwsBuild \cup AwsInVpc
    BY DEF AwsBuild, AwsSubnets, AwsAddress, AwsTables, AwsGroups, AwsInVpc, AwsReleased
  <2>16. /\ \A k \in PlaceKinds : Placed(cloud', k) = Placed(cloud, k) /\ Placed(cloud, k) \in Nat
        /\ \A k \in AwsHome : Count(cloud', k) = Count(cloud, k) /\ Count(cloud, k) \in Nat
        /\ lost \in Nat /\ lost' \in Nat /\ lost <= lost'
    BY <2>1, <2>2, <2>11, AwsAhead
  <2>12. /\ \A k \in PlaceKinds : Placed(cloud', k) <= 1 + lost'
        /\ Count(cloud', "nat") <= 1 + lost'
        /\ \A k \in {"subnet-public", "subnet-private"} : Count(cloud', k) <= 1
    BY <2>1, <2>2, <2>11, AwsAhead
  <2>13. AwsKnown'
    BY <2>1, <2>10 DEF AwsInv, AwsKnown
  <2>14. AwsPaid'
    <3>1. (\E i : Vpc(cloud', i) /\ i < net') => Count(cloud', "nat") <= lost'
      BY <2>1 DEF AwsInv, AwsPaid
    <3> QED
      BY <2>1, <2>10, <2>12, <3>1 DEF AwsPaid
  <2> QED
    BY <2>1, <2>2, <2>11, <2>13, <2>14, AwsAhead DEF AwsInv
<1>53. CASE Aws!createSubnet("subnet-public", "publicMake", "publicAttr")
  <2>1. /\ Walks("publicMake", "publicAttr") /\ lost' = lost /\ pc = "publicMake"
        /\ \/ pc' = "idle" /\ cloud' = cloud
           \/ /\ FreshIds("subnet-public") # {} /\ pc' = "publicAttr"
                     /\ Aws!In(First(Aws!Vpcs), Only("subnet-public")) = {}
              /\ cloud' = Making(cloud, "subnet-public", FreshId("subnet-public"),
                     First(Aws!Vpcs), {})
    BY <1>0, <1>53, AwsSame DEF Aws!createSubnet, Aws!SubnetVpc, Aws!Make, Aws!Resource,
        Aws!Return, Walks, Moves, Making, StoreTypes
  <2>2. Moves("publicMake", "publicAttr")
    BY <2>1 DEF Walks
  <2>3. db.phase = "Pending" /\ Settled(cloud) /\ Chain(cloud) /\ Vpc(cloud, net)
    BY <1>a, <2>1 DEF AwsInv, Phased, AwsPrepare, AwsIam, AwsBuild, AwsSubnets, AwsAddress,
        AwsTables, AwsGroups
  <2>9. CASE pc' = "idle"
    <3>1. "publicMake" \in AwsPrepare /\ "publicAttr" \in AwsPrepare /\ cloud' = cloud
      BY <2>1, <2>9 DEF AwsPrepare, AwsIam, AwsBuild, AwsSubnets, AwsAddress, AwsTables, AwsGroups
    <3> QED
      BY <1>0, <2>2, <2>9, <3>1, AwsReturns
  <2>10. CASE pc' = "publicAttr"
    <3>1. Vpc(cloud, First(Aws!Vpcs)) /\ First(Aws!Vpcs) \in Nat /\ \A i : Vpc(cloud, i)
              => First(Aws!Vpcs) <= i
      BY <1>0, <2>3, AwsReads
    <3>2. \A r \in cloud : r.kind = "subnet-public" => r.in # First(Aws!Vpcs)
      BY <2>1, <2>10 DEF Aws!In, Only, All
    <3>3. FreshIds("subnet-public") # {}
              /\ cloud' = Making(cloud, "subnet-public", FreshId("subnet-public"),
                     First(Aws!Vpcs), {}) /\ net' = net
      BY <2>1, <2>10 DEF Walks
    <3>4. /\ AwsSees(cloud, cloud') /\ Settled(cloud') /\ Chain(cloud')
          /\ Count(cloud', "subnet-public") = 1 /\ \A x : x # "subnet-public"
                 => Count(cloud', x) = Count(cloud, x)
      BY <1>0, <2>3, <3>1, <3>2, <3>3, MadeSubnet
    <3>5. AwsSound(cloud') /\ (\A i : Vpc(cloud', i) <=> Vpc(cloud, i))
              /\ \A x \in PlaceKinds : Placed(cloud', x) = Placed(cloud, x)
      BY <3>4 DEF AwsSees
    <3>6. /\ StoreTypes' /\ Phased(AwsPrepare, AwsDelete)' /\ AwsGone'
      <4>1. "publicMake" \in AwsPrepare /\ "publicAttr" \in AwsPrepare
        BY DEF AwsPrepare, AwsIam, AwsBuild, AwsSubnets, AwsAddress, AwsTables, AwsGroups
      <4>2. lost = 0 => \A i, j : Vpc(cloud', i) /\ Vpc(cloud', j) => i = j
        BY <3>5 DEF AwsInv, AwsGone
      <4> QED
        BY <2>2, <2>3, <3>4, <3>5, <4>1, <4>2, AwsForward
    <3>7. AwsKnown'
      BY <2>3, <2>10, <3>3, <3>5 DEF AwsKnown, AwsPrepare, AwsIam, AwsBuild, AwsSubnets,
          AwsAddress, AwsTables, AwsGroups, AwsInVpc, AwsReleased
    <3>8. AwsPaid'
      <4>1. \A x : Placed(cloud, x) \in Nat /\ Count(cloud, x) \in Nat
        BY <1>0, AwsCounted
      <4>2. /\ \A x \in PlaceKinds : Placed(cloud', x) <= 1 + lost'
            /\ Count(cloud', "nat") <= 1 + lost'
            /\ \A x \in {"subnet-public", "subnet-private"} : Count(cloud', x) <= 1
            /\ (\E i : Vpc(cloud', i) /\ i < net') => Count(cloud', "nat") <= lost'
        BY <2>1, <3>3, <3>4, <3>5, <4>1 DEF AwsInv, AwsPaid, AwsSubnets
      <4> QED
        BY <2>10, <4>2 DEF AwsPaid, AwsPrepare, AwsIam, AwsBuild, AwsSubnets, AwsAddress,
            AwsTables, AwsGroups, AwsInVpc, AwsReleased
    <3> QED
      BY <2>3, <3>4, <3>5, <3>6, <3>7, <3>8 DEF AwsInv
  <2> QED
    BY <2>1, <2>9, <2>10
<1>54. CASE Aws!createSubnet("subnet-private", "privateMake", "privateTag")
  <2>1. /\ Walks("privateMake", "privateTag") /\ lost' = lost /\ pc = "privateMake"
        /\ \/ pc' = "idle" /\ cloud' = cloud
           \/ /\ FreshIds("subnet-private") # {} /\ pc' = "privateTag"
                     /\ Aws!In(First(Aws!Vpcs), Only("subnet-private")) = {}
              /\ cloud' = Making(cloud, "subnet-private", FreshId("subnet-private"),
                     First(Aws!Vpcs), {})
    BY <1>0, <1>54, AwsSame DEF Aws!createSubnet, Aws!SubnetVpc, Aws!Make, Aws!Resource,
        Aws!Return, Walks, Moves, Making, StoreTypes
  <2>2. Moves("privateMake", "privateTag")
    BY <2>1 DEF Walks
  <2>3. db.phase = "Pending" /\ Settled(cloud) /\ Chain(cloud) /\ Vpc(cloud, net)
    BY <1>a, <2>1 DEF AwsInv, Phased, AwsPrepare, AwsIam, AwsBuild, AwsSubnets, AwsAddress,
        AwsTables, AwsGroups
  <2>9. CASE pc' = "idle"
    <3>1. "privateMake" \in AwsPrepare /\ "privateTag" \in AwsPrepare /\ cloud' = cloud
      BY <2>1, <2>9 DEF AwsPrepare, AwsIam, AwsBuild, AwsSubnets, AwsAddress, AwsTables, AwsGroups
    <3> QED
      BY <1>0, <2>2, <2>9, <3>1, AwsReturns
  <2>10. CASE pc' = "privateTag"
    <3>1. Vpc(cloud, First(Aws!Vpcs)) /\ First(Aws!Vpcs) \in Nat /\ \A i : Vpc(cloud, i)
              => First(Aws!Vpcs) <= i
      BY <1>0, <2>3, AwsReads
    <3>2. \A r \in cloud : r.kind = "subnet-private" => r.in # First(Aws!Vpcs)
      BY <2>1, <2>10 DEF Aws!In, Only, All
    <3>3. FreshIds("subnet-private") # {}
              /\ cloud' = Making(cloud, "subnet-private", FreshId("subnet-private"),
                     First(Aws!Vpcs), {}) /\ net' = net
      BY <2>1, <2>10 DEF Walks
    <3>4. /\ AwsSees(cloud, cloud') /\ Settled(cloud') /\ Chain(cloud')
          /\ Count(cloud', "subnet-private") = 1 /\ \A x : x # "subnet-private"
                 => Count(cloud', x) = Count(cloud, x)
      BY <1>0, <2>3, <3>1, <3>2, <3>3, MadeSubnet
    <3>5. AwsSound(cloud') /\ (\A i : Vpc(cloud', i) <=> Vpc(cloud, i))
              /\ \A x \in PlaceKinds : Placed(cloud', x) = Placed(cloud, x)
      BY <3>4 DEF AwsSees
    <3>6. /\ StoreTypes' /\ Phased(AwsPrepare, AwsDelete)' /\ AwsGone'
      <4>1. "privateMake" \in AwsPrepare /\ "privateTag" \in AwsPrepare
        BY DEF AwsPrepare, AwsIam, AwsBuild, AwsSubnets, AwsAddress, AwsTables, AwsGroups
      <4>2. lost = 0 => \A i, j : Vpc(cloud', i) /\ Vpc(cloud', j) => i = j
        BY <3>5 DEF AwsInv, AwsGone
      <4> QED
        BY <2>2, <2>3, <3>4, <3>5, <4>1, <4>2, AwsForward
    <3>7. AwsKnown'
      BY <2>3, <2>10, <3>3, <3>5 DEF AwsKnown, AwsPrepare, AwsIam, AwsBuild, AwsSubnets,
          AwsAddress, AwsTables, AwsGroups, AwsInVpc, AwsReleased
    <3>8. AwsPaid'
      <4>1. \A x : Placed(cloud, x) \in Nat /\ Count(cloud, x) \in Nat
        BY <1>0, AwsCounted
      <4>2. /\ \A x \in PlaceKinds : Placed(cloud', x) <= 1 + lost'
            /\ Count(cloud', "nat") <= 1 + lost'
            /\ \A x \in {"subnet-public", "subnet-private"} : Count(cloud', x) <= 1
            /\ (\E i : Vpc(cloud', i) /\ i < net') => Count(cloud', "nat") <= lost'
        BY <2>1, <3>3, <3>4, <3>5, <4>1 DEF AwsInv, AwsPaid, AwsSubnets
      <4> QED
        BY <2>10, <4>2 DEF AwsPaid, AwsPrepare, AwsIam, AwsBuild, AwsSubnets, AwsAddress,
            AwsTables, AwsGroups, AwsInVpc, AwsReleased
    <3> QED
      BY <2>3, <3>4, <3>5, <3>6, <3>7, <3>8 DEF AwsInv
  <2> QED
    BY <2>1, <2>9, <2>10
<1>55. CASE Aws!setupInternetGateway
  <2>1. /\ Walks("igwMake", "igwAttach") /\ lost' = lost /\ pc = "igwMake"
        /\ \/ pc' = "idle" /\ cloud' = cloud
           \/ /\ FreshIds("igw") # {} /\ pc' = "igwAttach" /\ cur' = FreshId("igw")
              /\ cloud' = Making(cloud, "igw", FreshId("igw"), net, {})
    BY <1>0, <1>55, AwsSame DEF Aws!setupInternetGateway, Aws!Make, Aws!Resource, Aws!Return,
        Walks, Moves, Making, StoreTypes
  <2>2. "igw" \in AwsKinds \ (AwsHome \cup {"vpc"}) /\ {} \in SUBSET AllMarks
    BY DEF AwsKinds, AwsHome
  <2>3. net \in Nat /\ Vpc(cloud, net)
    BY <1>a, <2>1 DEF AwsBuild, AwsSubnets
  <2>4. AwsKeeps(cloud, cloud') /\ (pc' # "idle" => Blank(cloud', "igw", cur', net))
    BY <1>0, <2>1, <2>2, <2>3, MadeAside
  <2>5. Moves("igwMake", "igwAttach") /\ \E i : Vpc(cloud, i)
    BY <2>1, <2>3 DEF Walks
  <2>9. CASE pc' = "idle"
    <3>1. "igwMake" \in AwsPrepare /\ "igwAttach" \in AwsPrepare
      BY DEF AwsPrepare, AwsIam, AwsBuild, AwsSubnets, AwsAddress, AwsTables, AwsGroups
    <3> QED
      BY <2>4, <2>5, <2>9, <3>1, AwsReturns
  <2>10. CASE pc' = "igwAttach"
    <3>1. net' = net /\ Vpc(cloud', net)
      BY <2>1, <2>3, <2>4, <2>10 DEF Walks, AwsKeeps, AwsSees
    <3>11. "igwMake" \in AwsPrepare /\ "igwAttach" \in AwsPrepare
      BY DEF AwsPrepare, AwsIam, AwsBuild, AwsSubnets, AwsAddress, AwsTables, AwsGroups
    <3>10. "igwAttach" \in AwsSubnets /\ "igwAttach" \notin AwsAddress
               /\ "igwAttach" \in AwsBuild \cup AwsInVpc
      BY DEF AwsBuild, AwsSubnets, AwsAddress, AwsTables, AwsGroups, AwsInVpc, AwsReleased
    <3>16. /\ \A k \in PlaceKinds : Placed(cloud', k) = Placed(cloud, k)
                  /\ Placed(cloud, k) \in Nat
          /\ \A k \in AwsHome : Count(cloud', k) = Count(cloud, k) /\ Count(cloud, k) \in Nat
          /\ lost \in Nat /\ lost' \in Nat /\ lost <= lost'
      BY <2>4, <2>5, <3>11, AwsAhead
    <3>12. /\ \A k \in PlaceKinds : Placed(cloud', k) <= 1 + lost'
          /\ Count(cloud', "nat") <= 1 + lost'
          /\ \A k \in {"subnet-public", "subnet-private"} : Count(cloud', k) <= 1
      BY <2>4, <2>5, <3>11, AwsAhead
    <3>13. AwsKnown'
      BY <2>4, <2>10, <3>1, <3>10 DEF AwsKnown
    <3>14. AwsPaid'
      <4>1. \A i : Vpc(cloud', i) <=> Vpc(cloud, i)
        BY <2>4 DEF AwsKeeps, AwsSees
      <4>2. (\E i : Vpc(cloud, i) /\ i < net) => Count(cloud, "nat") <= lost
        BY <2>1 DEF AwsInv, AwsPaid, AwsSubnets
      <4>3. (\E i : Vpc(cloud', i) /\ i < net') => Count(cloud', "nat") <= lost'
        BY <2>1, <3>1, <3>16, <4>1, <4>2 DEF AwsHome
      <4> QED
        BY <2>10, <3>10, <3>12, <4>3 DEF AwsPaid
    <3> QED
      BY <2>4, <2>5, <3>11, <3>13, <3>14, AwsAhead DEF AwsInv
  <2> QED
    BY <2>1, <2>9, <2>10
<1>56. CASE Aws!getRouteTable("rt-public", "rtPublic", "rtPrivate", "rtPubMake")
  <2>1. /\ cloud' = cloud
        /\ \/ Walks("rtPublic", "rtPrivate")
           \/ /\ Walks("rtPublic", "rtPubMake") /\ pc' = "rtPubMake"
              /\ Aws!In(net, Aws!Tagged(Aws!Only("rt-public"))) = {} \/ lost' = lost + 1
    BY <1>0, <1>56, AwsCalls DEF Aws!getRouteTable
  <2>2. AwsKeeps(cloud, cloud') /\ (Complete(cloud', "eip") => Complete(cloud, "eip"))
    BY <1>0, <2>1
  <2>3. CASE Walks("rtPublic", "rtPrivate")
    <3>1. AwsStays("rtPublic", "rtPrivate")
      BY DEF AwsStays, AwsTables
    <3> QED
      BY <2>2, <2>3, <3>1, AwsPrepares
  <2>4. CASE /\ Walks("rtPublic", "rtPubMake") /\ pc' = "rtPubMake"
             /\ Aws!In(net, Aws!Tagged(Aws!Only("rt-public"))) = {} \/ lost' = lost + 1
    <3>1. Moves("rtPublic", "rtPubMake") /\ net' = net /\ pc = "rtPublic"
      BY <2>4 DEF Walks, Moves
    <3>2. Vpc(cloud, net)
      BY <1>a, <3>1 DEF AwsBuild, AwsTables
    <3>3. ~Table(cloud, "rt-public", net) \/ lost' = lost + 1
      BY <1>0, <2>4, AwsReads
    <3>4. Table(cloud', "rt-public", net') => Placed(cloud', "rt-public") <= lost'
      BY <1>0, <2>1, <3>1, <3>3 DEF StoreTypes, AwsInv, AwsPaid, PlaceKinds
    <3>11. "rtPublic" \in AwsPrepare /\ "rtPubMake" \in AwsPrepare
      BY DEF AwsPrepare, AwsIam, AwsBuild, AwsSubnets, AwsAddress, AwsTables, AwsGroups
    <3>10. "rtPubMake" \notin AwsSubnets /\ "rtPubMake" \notin AwsAddress
               /\ "rtPubMake" \in AwsBuild \cup AwsInVpc
      BY DEF AwsBuild, AwsSubnets, AwsAddress, AwsTables, AwsGroups, AwsInVpc, AwsReleased
    <3>16. /\ \A k \in PlaceKinds : Placed(cloud', k) = Placed(cloud, k)
                  /\ Placed(cloud, k) \in Nat
          /\ \A k \in AwsHome : Count(cloud', k) = Count(cloud, k) /\ Count(cloud, k) \in Nat
          /\ lost \in Nat /\ lost' \in Nat /\ lost <= lost'
      BY <2>2, <3>1, <3>11, AwsAhead
    <3>12. /\ \A k \in PlaceKinds : Placed(cloud', k) <= 1 + lost'
          /\ Count(cloud', "nat") <= 1 + lost'
          /\ \A k \in {"subnet-public", "subnet-private"} : Count(cloud', k) <= 1
      BY <2>2, <3>1, <3>11, AwsAhead
    <3>13. AwsKnown'
      BY <2>1, <2>4, <3>1, <3>2, <3>10 DEF AwsKnown
    <3>14. AwsPaid'
      BY <2>4, <3>4, <3>10, <3>12 DEF AwsPaid
    <3> QED
      BY <2>2, <3>1, <3>11, <3>13, <3>14, AwsAhead DEF AwsInv
  <2> QED
    BY <2>1, <2>3, <2>4
<1>57. CASE Aws!createRouteTable("rt-public", "rtPubMake", "rtPubTag")
  <2>1. /\ Walks("rtPubMake", "rtPubTag") /\ lost' = lost /\ pc = "rtPubMake"
        /\ \/ pc' = "idle" /\ cloud' = cloud
           \/ /\ FreshIds("rt-public") # {} /\ pc' = "rtPubTag" /\ cur' = FreshId("rt-public")
              /\ cloud' = Making(cloud, "rt-public", FreshId("rt-public"), net, {})
    BY <1>0, <1>57, AwsSame DEF Aws!createRouteTable, Aws!Make, Aws!Resource, Aws!Return, Walks,
        Moves, Making, StoreTypes
  <2>2. "rt-public" \in AwsKinds \ (AwsHome \cup {"vpc"}) /\ {} \in SUBSET AllMarks
    BY DEF AwsKinds, AwsHome
  <2>3. net \in Nat /\ Vpc(cloud, net)
    BY <1>a, <2>1 DEF AwsBuild, AwsTables
  <2>4. AwsKeeps(cloud, cloud') /\ (pc' # "idle" => Blank(cloud', "rt-public", cur', net))
    BY <1>0, <2>1, <2>2, <2>3, MadeAside
  <2>5. Moves("rtPubMake", "rtPubTag") /\ \E i : Vpc(cloud, i)
    BY <2>1, <2>3 DEF Walks
  <2>9. CASE pc' = "idle"
    <3>1. "rtPubMake" \in AwsPrepare /\ "rtPubTag" \in AwsPrepare
      BY DEF AwsPrepare, AwsIam, AwsBuild, AwsSubnets, AwsAddress, AwsTables, AwsGroups
    <3> QED
      BY <2>4, <2>5, <2>9, <3>1, AwsReturns
  <2>10. CASE pc' = "rtPubTag"
    <3>1. net' = net /\ Vpc(cloud', net)
      BY <2>1, <2>3, <2>4, <2>10 DEF Walks, AwsKeeps, AwsSees
    <3>11. "rtPubMake" \in AwsPrepare /\ "rtPubTag" \in AwsPrepare
      BY DEF AwsPrepare, AwsIam, AwsBuild, AwsSubnets, AwsAddress, AwsTables, AwsGroups
    <3>10. "rtPubTag" \notin AwsSubnets /\ "rtPubTag" \notin AwsAddress
               /\ "rtPubTag" \in AwsBuild \cup AwsInVpc
      BY DEF AwsBuild, AwsSubnets, AwsAddress, AwsTables, AwsGroups, AwsInVpc, AwsReleased
    <3>16. /\ \A k \in PlaceKinds : Placed(cloud', k) = Placed(cloud, k)
                  /\ Placed(cloud, k) \in Nat
          /\ \A k \in AwsHome : Count(cloud', k) = Count(cloud, k) /\ Count(cloud, k) \in Nat
          /\ lost \in Nat /\ lost' \in Nat /\ lost <= lost'
      BY <2>4, <2>5, <3>11, AwsAhead
    <3>12. /\ \A k \in PlaceKinds : Placed(cloud', k) <= 1 + lost'
          /\ Count(cloud', "nat") <= 1 + lost'
          /\ \A k \in {"subnet-public", "subnet-private"} : Count(cloud', k) <= 1
      BY <2>4, <2>5, <3>11, AwsAhead
    <3>13. AwsKnown'
      BY <2>4, <2>10, <3>1, <3>10 DEF AwsKnown
    <3>14. AwsPaid'
      <4>1. Table(cloud', "rt-public", net') <=> Table(cloud, "rt-public", net)
        BY <2>4, <3>1 DEF AwsKeeps, AwsSees, PlaceKinds
      <4>2. Table(cloud, "rt-public", net) => Placed(cloud, "rt-public") <= lost
        BY <2>1 DEF AwsInv, AwsPaid
      <4>3. Table(cloud', "rt-public", net') => Placed(cloud', "rt-public") <= lost'
        BY <2>1, <3>16, <4>1, <4>2 DEF PlaceKinds
      <4> QED
        BY <2>10, <3>10, <3>12, <4>3 DEF AwsPaid
    <3> QED
      BY <2>4, <2>5, <3>11, <3>13, <3>14, AwsAhead DEF AwsInv
  <2> QED
    BY <2>1, <2>9, <2>10
<1>58. CASE Aws!createRoute("rt-public", "rtPubRoute", "rtPubAssoc")
  <2>1. /\ Walks("rtPubRoute", "rtPubAssoc")
        /\ \/ cloud' = cloud
           \/ \E m \in {{"route"}} : cloud' = Marking(cloud, Current("rt-public"), m)
    BY <1>0, <1>58, AwsSame DEF Aws!createRoute, Aws!Mark, Aws!Decide, Aws!Continue, Aws!Return,
        Walks, Moves, StoreTypes
  <2>2. {{"route"}} \subseteq SUBSET AllMarks
    BY DEF AllMarks
  <2>3. /\ \A m \in {{"route"}} : \A r \in Current("rt-public") :
               AwsTags \subseteq (r.has \cup m) => AwsTags \subseteq r.has
        /\ "rt-public" # "igw"
    BY DEF AwsTags
  <2>4. AwsKeeps(cloud, cloud')
    <3>1. ASSUME NEW m \in {{"route"}}
          PROVE  AwsKeeps(cloud, Marking(cloud, Current("rt-public"), m))
      BY <1>0, <2>2, <2>3, MarkedCurrent
    <3> QED
      BY <1>0, <2>1, <3>1
  <2>5. pc = "rtPubRoute" => \E i : Vpc(cloud, i)
    BY <1>a DEF AwsBuild, AwsTables
  <2>8. AwsStays("rtPubRoute", "rtPubAssoc")
    BY DEF AwsStays, AwsTables
  <2> QED
    BY <2>1, <2>4, <2>5, <2>8, AwsPrepares DEF Walks, Moves
<1>59. CASE Aws!associate("rt-public", "subnet-public", "rtPubAssoc", "rtPrivate")
  <2>1. /\ Walks("rtPubAssoc", "rtPrivate")
        /\ \/ cloud' = cloud
           \/ \E m \in {{"assoc"}} : cloud' = Marking(cloud, Current("rt-public"), m)
    BY <1>0, <1>59, AwsSame DEF Aws!associate, Aws!Mark, Aws!Decide, Aws!Continue, Aws!Return,
        Walks, Moves, StoreTypes
  <2>2. {{"assoc"}} \subseteq SUBSET AllMarks
    BY DEF AllMarks
  <2>3. /\ \A m \in {{"assoc"}} : \A r \in Current("rt-public") :
               AwsTags \subseteq (r.has \cup m) => AwsTags \subseteq r.has
        /\ "rt-public" # "igw"
    BY DEF AwsTags
  <2>4. AwsKeeps(cloud, cloud')
    <3>1. ASSUME NEW m \in {{"assoc"}}
          PROVE  AwsKeeps(cloud, Marking(cloud, Current("rt-public"), m))
      BY <1>0, <2>2, <2>3, MarkedCurrent
    <3> QED
      BY <1>0, <2>1, <3>1
  <2>5. pc = "rtPubAssoc" => \E i : Vpc(cloud, i)
    BY <1>a DEF AwsBuild, AwsTables
  <2>8. AwsStays("rtPubAssoc", "rtPrivate")
    BY DEF AwsStays, AwsTables
  <2> QED
    BY <2>1, <2>4, <2>5, <2>8, AwsPrepares DEF Walks, Moves
<1>60. CASE Aws!getRouteTable("rt-private", "rtPrivate", "sg", "rtPrivMake")
  <2>1. /\ cloud' = cloud
        /\ \/ Walks("rtPrivate", "sg")
           \/ /\ Walks("rtPrivate", "rtPrivMake") /\ pc' = "rtPrivMake"
              /\ Aws!In(net, Aws!Tagged(Aws!Only("rt-private"))) = {} \/ lost' = lost + 1
    BY <1>0, <1>60, AwsCalls DEF Aws!getRouteTable
  <2>2. AwsKeeps(cloud, cloud') /\ (Complete(cloud', "eip") => Complete(cloud, "eip"))
    BY <1>0, <2>1
  <2>3. CASE Walks("rtPrivate", "sg")
    <3>1. AwsStays("rtPrivate", "sg")
      BY DEF AwsStays, AwsTables, AwsGroups
    <3> QED
      BY <2>2, <2>3, <3>1, AwsPrepares
  <2>4. CASE /\ Walks("rtPrivate", "rtPrivMake") /\ pc' = "rtPrivMake"
             /\ Aws!In(net, Aws!Tagged(Aws!Only("rt-private"))) = {} \/ lost' = lost + 1
    <3>1. Moves("rtPrivate", "rtPrivMake") /\ net' = net /\ pc = "rtPrivate"
      BY <2>4 DEF Walks, Moves
    <3>2. Vpc(cloud, net)
      BY <1>a, <3>1 DEF AwsBuild, AwsTables
    <3>3. ~Table(cloud, "rt-private", net) \/ lost' = lost + 1
      BY <1>0, <2>4, AwsReads
    <3>4. Table(cloud', "rt-private", net') => Placed(cloud', "rt-private") <= lost'
      BY <1>0, <2>1, <3>1, <3>3 DEF StoreTypes, AwsInv, AwsPaid, PlaceKinds
    <3>11. "rtPrivate" \in AwsPrepare /\ "rtPrivMake" \in AwsPrepare
      BY DEF AwsPrepare, AwsIam, AwsBuild, AwsSubnets, AwsAddress, AwsTables, AwsGroups
    <3>10. "rtPrivMake" \notin AwsSubnets /\ "rtPrivMake" \notin AwsAddress
               /\ "rtPrivMake" \in AwsBuild \cup AwsInVpc
      BY DEF AwsBuild, AwsSubnets, AwsAddress, AwsTables, AwsGroups, AwsInVpc, AwsReleased
    <3>16. /\ \A k \in PlaceKinds : Placed(cloud', k) = Placed(cloud, k)
                  /\ Placed(cloud, k) \in Nat
          /\ \A k \in AwsHome : Count(cloud', k) = Count(cloud, k) /\ Count(cloud, k) \in Nat
          /\ lost \in Nat /\ lost' \in Nat /\ lost <= lost'
      BY <2>2, <3>1, <3>11, AwsAhead
    <3>12. /\ \A k \in PlaceKinds : Placed(cloud', k) <= 1 + lost'
          /\ Count(cloud', "nat") <= 1 + lost'
          /\ \A k \in {"subnet-public", "subnet-private"} : Count(cloud', k) <= 1
      BY <2>2, <3>1, <3>11, AwsAhead
    <3>13. AwsKnown'
      BY <2>1, <2>4, <3>1, <3>2, <3>10 DEF AwsKnown
    <3>14. AwsPaid'
      BY <2>4, <3>4, <3>10, <3>12 DEF AwsPaid
    <3> QED
      BY <2>2, <3>1, <3>11, <3>13, <3>14, AwsAhead DEF AwsInv
  <2> QED
    BY <2>1, <2>3, <2>4
<1>61. CASE Aws!createRouteTable("rt-private", "rtPrivMake", "rtPrivTag")
  <2>1. /\ Walks("rtPrivMake", "rtPrivTag") /\ lost' = lost /\ pc = "rtPrivMake"
        /\ \/ pc' = "idle" /\ cloud' = cloud
           \/ /\ FreshIds("rt-private") # {} /\ pc' = "rtPrivTag" /\ cur' = FreshId("rt-private")
              /\ cloud' = Making(cloud, "rt-private", FreshId("rt-private"), net, {})
    BY <1>0, <1>61, AwsSame DEF Aws!createRouteTable, Aws!Make, Aws!Resource, Aws!Return, Walks,
        Moves, Making, StoreTypes
  <2>2. "rt-private" \in AwsKinds \ (AwsHome \cup {"vpc"}) /\ {} \in SUBSET AllMarks
    BY DEF AwsKinds, AwsHome
  <2>3. net \in Nat /\ Vpc(cloud, net)
    BY <1>a, <2>1 DEF AwsBuild, AwsTables
  <2>4. AwsKeeps(cloud, cloud') /\ (pc' # "idle" => Blank(cloud', "rt-private", cur', net))
    BY <1>0, <2>1, <2>2, <2>3, MadeAside
  <2>5. Moves("rtPrivMake", "rtPrivTag") /\ \E i : Vpc(cloud, i)
    BY <2>1, <2>3 DEF Walks
  <2>9. CASE pc' = "idle"
    <3>1. "rtPrivMake" \in AwsPrepare /\ "rtPrivTag" \in AwsPrepare
      BY DEF AwsPrepare, AwsIam, AwsBuild, AwsSubnets, AwsAddress, AwsTables, AwsGroups
    <3> QED
      BY <2>4, <2>5, <2>9, <3>1, AwsReturns
  <2>10. CASE pc' = "rtPrivTag"
    <3>1. net' = net /\ Vpc(cloud', net)
      BY <2>1, <2>3, <2>4, <2>10 DEF Walks, AwsKeeps, AwsSees
    <3>11. "rtPrivMake" \in AwsPrepare /\ "rtPrivTag" \in AwsPrepare
      BY DEF AwsPrepare, AwsIam, AwsBuild, AwsSubnets, AwsAddress, AwsTables, AwsGroups
    <3>10. "rtPrivTag" \notin AwsSubnets /\ "rtPrivTag" \notin AwsAddress
               /\ "rtPrivTag" \in AwsBuild \cup AwsInVpc
      BY DEF AwsBuild, AwsSubnets, AwsAddress, AwsTables, AwsGroups, AwsInVpc, AwsReleased
    <3>16. /\ \A k \in PlaceKinds : Placed(cloud', k) = Placed(cloud, k)
                  /\ Placed(cloud, k) \in Nat
          /\ \A k \in AwsHome : Count(cloud', k) = Count(cloud, k) /\ Count(cloud, k) \in Nat
          /\ lost \in Nat /\ lost' \in Nat /\ lost <= lost'
      BY <2>4, <2>5, <3>11, AwsAhead
    <3>12. /\ \A k \in PlaceKinds : Placed(cloud', k) <= 1 + lost'
          /\ Count(cloud', "nat") <= 1 + lost'
          /\ \A k \in {"subnet-public", "subnet-private"} : Count(cloud', k) <= 1
      BY <2>4, <2>5, <3>11, AwsAhead
    <3>13. AwsKnown'
      BY <2>4, <2>10, <3>1, <3>10 DEF AwsKnown
    <3>14. AwsPaid'
      <4>1. Table(cloud', "rt-private", net') <=> Table(cloud, "rt-private", net)
        BY <2>4, <3>1 DEF AwsKeeps, AwsSees, PlaceKinds
      <4>2. Table(cloud, "rt-private", net) => Placed(cloud, "rt-private") <= lost
        BY <2>1 DEF AwsInv, AwsPaid
      <4>3. Table(cloud', "rt-private", net') => Placed(cloud', "rt-private") <= lost'
        BY <2>1, <3>16, <4>1, <4>2 DEF PlaceKinds
      <4> QED
        BY <2>10, <3>10, <3>12, <4>3 DEF AwsPaid
    <3> QED
      BY <2>4, <2>5, <3>11, <3>13, <3>14, AwsAhead DEF AwsInv
  <2> QED
    BY <2>1, <2>9, <2>10
<1>62. CASE Aws!createRoute("rt-private", "rtPrivRoute", "rtPrivAssoc")
  <2>1. /\ Walks("rtPrivRoute", "rtPrivAssoc")
        /\ \/ cloud' = cloud
           \/ \E m \in {{"route"}} : cloud' = Marking(cloud, Current("rt-private"), m)
    BY <1>0, <1>62, AwsSame DEF Aws!createRoute, Aws!Mark, Aws!Decide, Aws!Continue, Aws!Return,
        Walks, Moves, StoreTypes
  <2>2. {{"route"}} \subseteq SUBSET AllMarks
    BY DEF AllMarks
  <2>3. /\ \A m \in {{"route"}} : \A r \in Current("rt-private") :
               AwsTags \subseteq (r.has \cup m) => AwsTags \subseteq r.has
        /\ "rt-private" # "igw"
    BY DEF AwsTags
  <2>4. AwsKeeps(cloud, cloud')
    <3>1. ASSUME NEW m \in {{"route"}}
          PROVE  AwsKeeps(cloud, Marking(cloud, Current("rt-private"), m))
      BY <1>0, <2>2, <2>3, MarkedCurrent
    <3> QED
      BY <1>0, <2>1, <3>1
  <2>5. pc = "rtPrivRoute" => \E i : Vpc(cloud, i)
    BY <1>a DEF AwsBuild, AwsTables
  <2>8. AwsStays("rtPrivRoute", "rtPrivAssoc")
    BY DEF AwsStays, AwsTables
  <2> QED
    BY <2>1, <2>4, <2>5, <2>8, AwsPrepares DEF Walks, Moves
<1>63. CASE Aws!associate("rt-private", "subnet-private", "rtPrivAssoc", "sg")
  <2>1. /\ Walks("rtPrivAssoc", "sg")
        /\ \/ cloud' = cloud
           \/ \E m \in {{"assoc"}} : cloud' = Marking(cloud, Current("rt-private"), m)
    BY <1>0, <1>63, AwsSame DEF Aws!associate, Aws!Mark, Aws!Decide, Aws!Continue, Aws!Return,
        Walks, Moves, StoreTypes
  <2>2. {{"assoc"}} \subseteq SUBSET AllMarks
    BY DEF AllMarks
  <2>3. /\ \A m \in {{"assoc"}} : \A r \in Current("rt-private") :
               AwsTags \subseteq (r.has \cup m) => AwsTags \subseteq r.has
        /\ "rt-private" # "igw"
    BY DEF AwsTags
  <2>4. AwsKeeps(cloud, cloud')
    <3>1. ASSUME NEW m \in {{"assoc"}}
          PROVE  AwsKeeps(cloud, Marking(cloud, Current("rt-private"), m))
      BY <1>0, <2>2, <2>3, MarkedCurrent
    <3> QED
      BY <1>0, <2>1, <3>1
  <2>5. pc = "rtPrivAssoc" => \E i : Vpc(cloud, i)
    BY <1>a DEF AwsBuild, AwsTables
  <2>8. AwsStays("rtPrivAssoc", "sg")
    BY DEF AwsStays, AwsTables, AwsGroups
  <2> QED
    BY <2>1, <2>4, <2>5, <2>8, AwsPrepares DEF Walks, Moves
<1>64. CASE Aws!attachGateway
  <2>1. /\ Walks("igwAttach", "igwTag")
        /\ \/ cloud' = cloud
           \/ \E m \in {{"attached"}} : cloud' = Marking(cloud, Current("igw"), m)
    BY <1>0, <1>64, AwsSame DEF Aws!attachGateway, Aws!Mark, Aws!Decide, Aws!Continue,
        Aws!Return, Walks, Moves, StoreTypes
  <2>2. {{"attached"}} \subseteq SUBSET AllMarks
    BY DEF AllMarks
  <2>6. pc = "igwAttach" => Blank(cloud, "igw", cur, net) /\ Vpc(cloud, net)
    BY <1>a DEF AwsInv, AwsKnown, AwsBuild, AwsSubnets
  <2>7. \A r \in Current("igw") : r \in cloud /\ r.kind = "igw" /\ r.id = cur
    BY DEF Current, Only, All
  <2>3. "igw" \notin AwsPlacing /\ \A r \in Current("igw") : Vpc(cloud, r.in)
    BY <1>0, <2>1, <2>6, <2>7 DEF AwsPlacing, Blank, AwsSound, Distinct, Walks, Moves
  <2>4. AwsKeeps(cloud, cloud')
    <3>1. ASSUME NEW m \in {{"attached"}} PROVE AwsKeeps(cloud, Marking(cloud, Current("igw"), m))
      BY <1>0, <2>2, <2>3, MarkedCurrent
    <3> QED
      BY <1>0, <2>1, <3>1
  <2>5. pc = "igwAttach" => \E i : Vpc(cloud, i)
    BY <1>a DEF AwsBuild, AwsSubnets
  <2>8. AwsStays("igwAttach", "igwTag")
    BY DEF AwsStays, AwsSubnets
  <2> QED
    BY <2>1, <2>4, <2>5, <2>8, AwsPrepares DEF Walks, Moves
<1>65. CASE Aws!tagVpc
  <2>1. /\ Walks("vpcTag", "vpcKnown") /\ Moves("vpcTag", "vpcKnown") /\ lost' = lost
               /\ pc = "vpcTag"
        /\ \/ pc' = "vpcKnown" /\ cur' = cur /\ cloud' = Marking(cloud, Current("vpc"), AwsTags)
           \/ /\ pc' = "idle"
              /\ \E some \in (SUBSET AwsTags) \ {AwsTags} :
                     cloud' = Marking(cloud, Current("vpc"), some)
    BY <1>0, <1>65, AwsCalls, AwsSame DEF Aws!tagVpc, Aws!Tags, AwsTags, Walks, Moves
  <2>2. PICK r \in cloud : r.kind = "vpc" /\ r.id = cur /\ r.in = 0 /\ r.has = {}
    BY <2>1 DEF AwsInv, AwsKnown, Blank
  <2>3. Current("vpc") = {r}
    BY <1>0, <2>2 DEF Current, Only, All, AwsSound, Distinct
  <2>4. ASSUME NEW some \in (SUBSET AwsTags) \ {AwsTags},
               cloud' = Marking(cloud, Current("vpc"), some)
        PROVE  AwsKeeps(cloud, cloud') /\ (Complete(cloud', "eip") => Complete(cloud, "eip"))
    <3>1. some \in SUBSET AllMarks /\ "vpc" # "igw"
      BY DEF AwsTags, AllMarks
    <3>2. \A q \in Current("vpc") : AwsTags \subseteq (q.has \cup some) => AwsTags \subseteq q.has
      BY <2>2, <2>3
    <3>3. AwsKeeps(cloud, cloud')
      BY <1>0, <2>4, <3>1, <3>2, MarkedCurrent
    <3>4. Complete(cloud', "eip") => Complete(cloud, "eip")
      BY <1>0, <2>2, <2>3, <2>4, MarkedEip
    <3> QED
      BY <3>3, <3>4
  <2> DEFINE n == [r EXCEPT !.has = r.has \cup AwsTags]
  <2>5. /\ n \in Resources(AwsKinds) /\ n.kind = "vpc" /\ n.id = r.id /\ n.in = r.in
               /\ AwsTags \subseteq n.has
        /\ Marking(cloud, Current("vpc"), AwsTags) = (cloud \ {r}) \cup {n}
    <3>1. AwsTags \in SUBSET AllMarks /\ r \in Resources(AwsKinds)
      BY <1>0 DEF AwsSound, Distinct, AwsTags, AllMarks
    <3>2. /\ n \in Resources(AwsKinds) /\ n.kind = r.kind /\ n.id = r.id /\ n.in = r.in
          /\ n.has = r.has \cup AwsTags
      BY <3>1 DEF Resources
    <3>3. Marking(cloud, Current("vpc"), AwsTags) = (cloud \ {r}) \cup {n}
      BY <2>3 DEF Marking
    <3> QED
      BY <2>2, <3>2, <3>3
  <2> HIDE DEF n
  <2>6. db.phase = "Pending" /\ Settled(cloud) /\ Chain(cloud)
    BY <2>1 DEF AwsInv, Phased, AwsPrepare, AwsIam, AwsBuild, AwsSubnets, AwsAddress, AwsTables,
        AwsGroups
  <2>7. "vpcTag" \in AwsPrepare /\ "vpcKnown" \in AwsPrepare
    BY DEF AwsPrepare, AwsIam, AwsBuild, AwsSubnets, AwsAddress, AwsTables, AwsGroups
  <2>8. lost \in Nat /\ \A x : Placed(cloud, x) \in Nat /\ Count(cloud, x) \in Nat
    BY <1>0, AwsCounted DEF StoreTypes
  <2>10. "vpcKnown" \notin AwsSubnets /\ "vpcKnown" \notin AwsAddress
             /\ "vpcKnown" \notin AwsBuild \cup AwsInVpc
    BY DEF AwsBuild, AwsSubnets, AwsAddress, AwsTables, AwsGroups, AwsInVpc, AwsReleased
  <2>11. CASE pc' = "idle"
    BY <2>1, <2>4, <2>7, <2>11, AwsReturns
  <2>12. CASE pc' = "vpcKnown"
    <3>1. cloud' = (cloud \ {r}) \cup {n} /\ cur' = cur
      BY <2>1, <2>5, <2>12
    <3>2. \A i : Vpc(cloud, i) => i < r.id
      BY <2>1, <2>2 DEF AwsInv, AwsKnown
    <3>3. /\ AwsSound(cloud')
          /\ \A i : Vpc(cloud', i) <=> Vpc(cloud, i) \/ i = r.id
          /\ \A k \in PlaceKinds : Placed(cloud', k) <= Placed(cloud, k) + 1
          /\ \A k : Count(cloud', k) = Count(cloud, k)
          /\ Settled(cloud') /\ Chain(cloud')
      <4>1. /\ AwsSound(cloud) /\ r \in cloud /\ n \in Resources(AwsKinds)
            /\ cloud' = (cloud \ {r}) \cup {n} /\ n.kind = "vpc" /\ r.kind = "vpc" /\ n.id = r.id
            /\ AwsTags \subseteq n.has
        BY <1>0, <2>2, <2>5, <3>1
      <4>2. AwsSound(cloud') /\ \A i : Vpc(cloud', i) <=> Vpc(cloud, i) \/ i = r.id
        BY <4>1, TaggedVpc
      <4>3. \A k \in PlaceKinds : Placed(cloud', k) <= Placed(cloud, k) + 1
        BY <4>1, TaggedVpc
      <4>4. (\A k : Count(cloud', k) = Count(cloud, k)) /\ Chain(cloud')
        BY <2>6, <4>1, TaggedVpc
      <4>5. Settled(cloud')
        BY <2>6, <3>2, <4>1, TaggedVpc
      <4> QED
        BY <4>2, <4>3, <4>4, <4>5
    <3>4. Count(cloud, "nat") <= lost /\ \A k \in PlaceKinds : Placed(cloud, k) <= lost
      BY <2>1 DEF AwsInv, AwsPaid
    <3>5. lost = 0 => \A i : ~Vpc(cloud, i)
      BY <1>0, <2>8, <3>4, AwsCounted DEF PlaceKinds
    <3>6. StoreTypes' /\ Phased(AwsPrepare, AwsDelete)' /\ AwsGone' /\ db'.phase = "Pending"
      BY <2>1, <2>7, <3>3, <3>5, AwsForward
    <3>7. AwsKnown'
      BY <2>2, <2>10, <2>12, <3>1, <3>3 DEF AwsKnown
    <3>8. AwsPaid'
      <4>1. \A k : Placed(cloud', k) \in Nat
        BY <3>3, AwsCounted
      <4>2. /\ \A k \in PlaceKinds : Placed(cloud', k) <= 1 + lost'
            /\ Count(cloud', "nat") <= lost' /\ Count(cloud', "nat") <= 1 + lost'
        BY <2>1, <2>8, <3>3, <3>4, <4>1
      <4>3. \A k \in {"subnet-public", "subnet-private"} : Count(cloud', k) <= 1
        BY <3>3 DEF AwsInv, AwsPaid
      <4> QED
        BY <2>10, <2>12, <4>2, <4>3 DEF AwsPaid
    <3> QED
      BY <3>3, <3>6, <3>7, <3>8 DEF AwsInv
  <2> QED
    BY <2>1, <2>11, <2>12
<1>66. CASE Aws!Tag("rtPubTag", Aws!Current("rt-public"), Aws!Tags, "rtPubRoute")
  <2>1. /\ Walks("rtPubTag", "rtPubRoute") /\ Moves("rtPubTag", "rtPubRoute") /\ lost' = lost
               /\ pc = "rtPubTag"
        /\ \/ pc' = "rtPubRoute" /\ cur' = cur
                  /\ cloud' = Marking(cloud, Current("rt-public"), AwsTags)
           \/ /\ pc' = "idle"
              /\ \E some \in (SUBSET AwsTags) \ {AwsTags} :
                     cloud' = Marking(cloud, Current("rt-public"), some)
    BY <1>0, <1>66, AwsCalls, AwsSame DEF Aws!Tags, AwsTags, Walks, Moves
  <2>2. PICK r \in cloud : r.kind = "rt-public" /\ r.id = cur /\ r.in = net /\ r.has = {}
    BY <2>1 DEF AwsInv, AwsKnown, Blank
  <2>3. Current("rt-public") = {r}
    BY <1>0, <2>2 DEF Current, Only, All, AwsSound, Distinct
  <2>4. ASSUME NEW some \in (SUBSET AwsTags) \ {AwsTags},
               cloud' = Marking(cloud, Current("rt-public"), some)
        PROVE  AwsKeeps(cloud, cloud') /\ (Complete(cloud', "eip") => Complete(cloud, "eip"))
    <3>1. some \in SUBSET AllMarks /\ "rt-public" # "igw"
      BY DEF AwsTags, AllMarks
    <3>2. \A q \in Current("rt-public") : AwsTags \subseteq (q.has \cup some)
              => AwsTags \subseteq q.has
      BY <2>2, <2>3
    <3>3. AwsKeeps(cloud, cloud')
      BY <1>0, <2>4, <3>1, <3>2, MarkedCurrent
    <3>4. Complete(cloud', "eip") => Complete(cloud, "eip")
      BY <1>0, <2>2, <2>3, <2>4, MarkedEip
    <3> QED
      BY <3>3, <3>4
  <2> DEFINE n == [r EXCEPT !.has = r.has \cup AwsTags]
  <2>5. /\ n \in Resources(AwsKinds) /\ n.kind = "rt-public" /\ n.id = r.id /\ n.in = r.in
               /\ AwsTags \subseteq n.has
        /\ Marking(cloud, Current("rt-public"), AwsTags) = (cloud \ {r}) \cup {n}
    <3>1. AwsTags \in SUBSET AllMarks /\ r \in Resources(AwsKinds)
      BY <1>0 DEF AwsSound, Distinct, AwsTags, AllMarks
    <3>2. /\ n \in Resources(AwsKinds) /\ n.kind = r.kind /\ n.id = r.id /\ n.in = r.in
          /\ n.has = r.has \cup AwsTags
      BY <3>1 DEF Resources
    <3>3. Marking(cloud, Current("rt-public"), AwsTags) = (cloud \ {r}) \cup {n}
      BY <2>3 DEF Marking
    <3> QED
      BY <2>2, <3>2, <3>3
  <2> HIDE DEF n
  <2>6. db.phase = "Pending" /\ Settled(cloud) /\ Chain(cloud)
    BY <2>1 DEF AwsInv, Phased, AwsPrepare, AwsIam, AwsBuild, AwsSubnets, AwsAddress, AwsTables,
        AwsGroups
  <2>7. "rtPubTag" \in AwsPrepare /\ "rtPubRoute" \in AwsPrepare
    BY DEF AwsPrepare, AwsIam, AwsBuild, AwsSubnets, AwsAddress, AwsTables, AwsGroups
  <2>8. lost \in Nat /\ \A x : Placed(cloud, x) \in Nat /\ Count(cloud, x) \in Nat
    BY <1>0, AwsCounted DEF StoreTypes
  <2>10. "rtPubRoute" \notin AwsSubnets /\ "rtPubRoute" \notin AwsAddress
             /\ "rtPubRoute" \in AwsBuild \cup AwsInVpc
    BY DEF AwsBuild, AwsSubnets, AwsAddress, AwsTables, AwsGroups, AwsInVpc, AwsReleased
  <2>11. CASE pc' = "idle"
    BY <2>1, <2>4, <2>7, <2>11, AwsReturns
  <2>12. CASE pc' = "rtPubRoute"
    <3>1. cloud' = (cloud \ {r}) \cup {n} /\ net' = net /\ Vpc(cloud, net)
      BY <1>a, <2>1, <2>5, <2>12 DEF Walks, AwsBuild, AwsTables
    <3>2. /\ AwsSound(cloud')
          /\ \A i : Vpc(cloud', i) <=> Vpc(cloud, i)
          /\ \A x \in PlaceKinds : x # "rt-public" => Placed(cloud', x) = Placed(cloud, x)
          /\ Placed(cloud', "rt-public") <= Placed(cloud, "rt-public") + 1
          /\ ~Table(cloud, "rt-public", net)
                 => Placed(cloud', "rt-public") <= Placed(cloud, "rt-public")
          /\ \A x : Count(cloud', x) = Count(cloud, x)
          /\ Settled(cloud') /\ Chain(cloud')
      BY <1>0, <2>2, <2>5, <2>6, <3>1, TaggedTable
    <3>3. Table(cloud, "rt-public", net) => Placed(cloud, "rt-public") <= lost
      BY <2>1 DEF AwsInv, AwsPaid
    <3>4. StoreTypes' /\ Phased(AwsPrepare, AwsDelete)' /\ AwsGone' /\ db'.phase = "Pending"
      <4>1. lost = 0 => \A i, j : Vpc(cloud', i) /\ Vpc(cloud', j) => i = j
        BY <3>2 DEF AwsInv, AwsGone
      <4>2. \E i : Vpc(cloud', i)
        BY <3>1, <3>2
      <4> QED
        BY <2>1, <2>7, <3>2, <4>1, <4>2, AwsForward
    <3>5. AwsKnown'
      BY <2>10, <2>12, <3>1, <3>2 DEF AwsKnown
    <3>6. AwsPaid'
      <4>1. \A x : Placed(cloud', x) \in Nat
        BY <3>2, AwsCounted
      <4>2. /\ \A x \in PlaceKinds : Placed(cloud, x) <= 1 + lost
            /\ Count(cloud, "nat") <= 1 + lost
            /\ \A x \in {"subnet-public", "subnet-private"} : Count(cloud, x) <= 1
        BY DEF AwsInv, AwsPaid
      <4>3. Placed(cloud', "rt-public") <= 1 + lost'
        BY <2>1, <2>8, <3>2, <3>3, <4>1, <4>2 DEF PlaceKinds
      <4>4. \A x \in PlaceKinds : Placed(cloud', x) <= 1 + lost'
        BY <2>1, <3>2, <4>2, <4>3
      <4>5. /\ Count(cloud', "nat") <= 1 + lost'
            /\ \A x \in {"subnet-public", "subnet-private"} : Count(cloud', x) <= 1
        BY <2>1, <3>2, <4>2
      <4> QED
        BY <2>10, <2>12, <4>4, <4>5 DEF AwsPaid
    <3> QED
      BY <3>2, <3>4, <3>5, <3>6 DEF AwsInv
  <2> QED
    BY <2>1, <2>11, <2>12
<1>67. CASE /\ pc = "rtPubTag" /\ lost < MaxLost /\ lost' = lost + 1
            /\ \E some \in (SUBSET Aws!Tags) \ {Aws!Tags} :
                  cloud' = Aws!Marked(Aws!Current("rt-public"), some)
            /\ Aws!Continue("rtPrivate")
            /\ UNCHANGED <<db, sets, torn, aborts>>
  <2>1. /\ Walks("rtPubTag", "rtPrivate") /\ Moves("rtPubTag", "rtPrivate") /\ pc = "rtPubTag"
        /\ \E some \in (SUBSET AwsTags) \ {AwsTags} :
               cloud' = Marking(cloud, Current("rt-public"), some)
    BY <1>0, <1>67, AwsSame DEF Aws!Tags, AwsTags, Walks, Moves, StoreTypes, Aws!Continue
  <2>2. PICK r \in cloud : r.kind = "rt-public" /\ r.id = cur /\ r.in = net /\ r.has = {}
    BY <2>1 DEF AwsInv, AwsKnown, Blank
  <2>3. Current("rt-public") = {r}
    BY <1>0, <2>2 DEF Current, Only, All, AwsSound, Distinct
  <2>4. ASSUME NEW some \in (SUBSET AwsTags) \ {AwsTags},
               cloud' = Marking(cloud, Current("rt-public"), some)
        PROVE  AwsKeeps(cloud, cloud') /\ (Complete(cloud', "eip") => Complete(cloud, "eip"))
    <3>1. some \in SUBSET AllMarks /\ "rt-public" # "igw"
      BY DEF AwsTags, AllMarks
    <3>2. \A q \in Current("rt-public") : AwsTags \subseteq (q.has \cup some)
              => AwsTags \subseteq q.has
      BY <2>2, <2>3
    <3>3. AwsKeeps(cloud, cloud')
      BY <1>0, <2>4, <3>1, <3>2, MarkedCurrent
    <3>4. Complete(cloud', "eip") => Complete(cloud, "eip")
      BY <1>0, <2>2, <2>3, <2>4, MarkedEip
    <3> QED
      BY <3>3, <3>4
  <2>5. AwsStays("rtPubTag", "rtPrivate")
    BY DEF AwsStays, AwsTables
  <2> QED
    BY <2>1, <2>4, <2>5, AwsPrepares
<1>68. CASE Aws!Tag("rtPrivTag", Aws!Current("rt-private"), Aws!Tags, "rtPrivRoute")
  <2>1. /\ Walks("rtPrivTag", "rtPrivRoute") /\ Moves("rtPrivTag", "rtPrivRoute")
               /\ lost' = lost /\ pc = "rtPrivTag"
        /\ \/ pc' = "rtPrivRoute" /\ cur' = cur
                  /\ cloud' = Marking(cloud, Current("rt-private"), AwsTags)
           \/ /\ pc' = "idle"
              /\ \E some \in (SUBSET AwsTags) \ {AwsTags} :
                     cloud' = Marking(cloud, Current("rt-private"), some)
    BY <1>0, <1>68, AwsCalls, AwsSame DEF Aws!Tags, AwsTags, Walks, Moves
  <2>2. PICK r \in cloud : r.kind = "rt-private" /\ r.id = cur /\ r.in = net /\ r.has = {}
    BY <2>1 DEF AwsInv, AwsKnown, Blank
  <2>3. Current("rt-private") = {r}
    BY <1>0, <2>2 DEF Current, Only, All, AwsSound, Distinct
  <2>4. ASSUME NEW some \in (SUBSET AwsTags) \ {AwsTags},
               cloud' = Marking(cloud, Current("rt-private"), some)
        PROVE  AwsKeeps(cloud, cloud') /\ (Complete(cloud', "eip") => Complete(cloud, "eip"))
    <3>1. some \in SUBSET AllMarks /\ "rt-private" # "igw"
      BY DEF AwsTags, AllMarks
    <3>2. \A q \in Current("rt-private") : AwsTags \subseteq (q.has \cup some)
              => AwsTags \subseteq q.has
      BY <2>2, <2>3
    <3>3. AwsKeeps(cloud, cloud')
      BY <1>0, <2>4, <3>1, <3>2, MarkedCurrent
    <3>4. Complete(cloud', "eip") => Complete(cloud, "eip")
      BY <1>0, <2>2, <2>3, <2>4, MarkedEip
    <3> QED
      BY <3>3, <3>4
  <2> DEFINE n == [r EXCEPT !.has = r.has \cup AwsTags]
  <2>5. /\ n \in Resources(AwsKinds) /\ n.kind = "rt-private" /\ n.id = r.id /\ n.in = r.in
               /\ AwsTags \subseteq n.has
        /\ Marking(cloud, Current("rt-private"), AwsTags) = (cloud \ {r}) \cup {n}
    <3>1. AwsTags \in SUBSET AllMarks /\ r \in Resources(AwsKinds)
      BY <1>0 DEF AwsSound, Distinct, AwsTags, AllMarks
    <3>2. /\ n \in Resources(AwsKinds) /\ n.kind = r.kind /\ n.id = r.id /\ n.in = r.in
          /\ n.has = r.has \cup AwsTags
      BY <3>1 DEF Resources
    <3>3. Marking(cloud, Current("rt-private"), AwsTags) = (cloud \ {r}) \cup {n}
      BY <2>3 DEF Marking
    <3> QED
      BY <2>2, <3>2, <3>3
  <2> HIDE DEF n
  <2>6. db.phase = "Pending" /\ Settled(cloud) /\ Chain(cloud)
    BY <2>1 DEF AwsInv, Phased, AwsPrepare, AwsIam, AwsBuild, AwsSubnets, AwsAddress, AwsTables,
        AwsGroups
  <2>7. "rtPrivTag" \in AwsPrepare /\ "rtPrivRoute" \in AwsPrepare
    BY DEF AwsPrepare, AwsIam, AwsBuild, AwsSubnets, AwsAddress, AwsTables, AwsGroups
  <2>8. lost \in Nat /\ \A x : Placed(cloud, x) \in Nat /\ Count(cloud, x) \in Nat
    BY <1>0, AwsCounted DEF StoreTypes
  <2>10. "rtPrivRoute" \notin AwsSubnets /\ "rtPrivRoute" \notin AwsAddress
             /\ "rtPrivRoute" \in AwsBuild \cup AwsInVpc
    BY DEF AwsBuild, AwsSubnets, AwsAddress, AwsTables, AwsGroups, AwsInVpc, AwsReleased
  <2>11. CASE pc' = "idle"
    BY <2>1, <2>4, <2>7, <2>11, AwsReturns
  <2>12. CASE pc' = "rtPrivRoute"
    <3>1. cloud' = (cloud \ {r}) \cup {n} /\ net' = net /\ Vpc(cloud, net)
      BY <1>a, <2>1, <2>5, <2>12 DEF Walks, AwsBuild, AwsTables
    <3>2. /\ AwsSound(cloud')
          /\ \A i : Vpc(cloud', i) <=> Vpc(cloud, i)
          /\ \A x \in PlaceKinds : x # "rt-private" => Placed(cloud', x) = Placed(cloud, x)
          /\ Placed(cloud', "rt-private") <= Placed(cloud, "rt-private") + 1
          /\ ~Table(cloud, "rt-private", net)
                 => Placed(cloud', "rt-private") <= Placed(cloud, "rt-private")
          /\ \A x : Count(cloud', x) = Count(cloud, x)
          /\ Settled(cloud') /\ Chain(cloud')
      BY <1>0, <2>2, <2>5, <2>6, <3>1, TaggedTable
    <3>3. Table(cloud, "rt-private", net) => Placed(cloud, "rt-private") <= lost
      BY <2>1 DEF AwsInv, AwsPaid
    <3>4. StoreTypes' /\ Phased(AwsPrepare, AwsDelete)' /\ AwsGone' /\ db'.phase = "Pending"
      <4>1. lost = 0 => \A i, j : Vpc(cloud', i) /\ Vpc(cloud', j) => i = j
        BY <3>2 DEF AwsInv, AwsGone
      <4>2. \E i : Vpc(cloud', i)
        BY <3>1, <3>2
      <4> QED
        BY <2>1, <2>7, <3>2, <4>1, <4>2, AwsForward
    <3>5. AwsKnown'
      BY <2>10, <2>12, <3>1, <3>2 DEF AwsKnown
    <3>6. AwsPaid'
      <4>1. \A x : Placed(cloud', x) \in Nat
        BY <3>2, AwsCounted
      <4>2. /\ \A x \in PlaceKinds : Placed(cloud, x) <= 1 + lost
            /\ Count(cloud, "nat") <= 1 + lost
            /\ \A x \in {"subnet-public", "subnet-private"} : Count(cloud, x) <= 1
        BY DEF AwsInv, AwsPaid
      <4>3. Placed(cloud', "rt-private") <= 1 + lost'
        BY <2>1, <2>8, <3>2, <3>3, <4>1, <4>2 DEF PlaceKinds
      <4>4. \A x \in PlaceKinds : Placed(cloud', x) <= 1 + lost'
        BY <2>1, <3>2, <4>2, <4>3
      <4>5. /\ Count(cloud', "nat") <= 1 + lost'
            /\ \A x \in {"subnet-public", "subnet-private"} : Count(cloud', x) <= 1
        BY <2>1, <3>2, <4>2
      <4> QED
        BY <2>10, <2>12, <4>4, <4>5 DEF AwsPaid
    <3> QED
      BY <3>2, <3>4, <3>5, <3>6 DEF AwsInv
  <2> QED
    BY <2>1, <2>11, <2>12
<1>69. CASE /\ pc = "rtPrivTag" /\ lost < MaxLost /\ lost' = lost + 1
            /\ \E some \in (SUBSET Aws!Tags) \ {Aws!Tags} :
                  cloud' = Aws!Marked(Aws!Current("rt-private"), some)
            /\ Aws!Continue("sg")
            /\ UNCHANGED <<db, sets, torn, aborts>>
  <2>1. /\ Walks("rtPrivTag", "sg") /\ Moves("rtPrivTag", "sg") /\ pc = "rtPrivTag"
        /\ \E some \in (SUBSET AwsTags) \ {AwsTags} :
               cloud' = Marking(cloud, Current("rt-private"), some)
    BY <1>0, <1>69, AwsSame DEF Aws!Tags, AwsTags, Walks, Moves, StoreTypes, Aws!Continue
  <2>2. PICK r \in cloud : r.kind = "rt-private" /\ r.id = cur /\ r.in = net /\ r.has = {}
    BY <2>1 DEF AwsInv, AwsKnown, Blank
  <2>3. Current("rt-private") = {r}
    BY <1>0, <2>2 DEF Current, Only, All, AwsSound, Distinct
  <2>4. ASSUME NEW some \in (SUBSET AwsTags) \ {AwsTags},
               cloud' = Marking(cloud, Current("rt-private"), some)
        PROVE  AwsKeeps(cloud, cloud') /\ (Complete(cloud', "eip") => Complete(cloud, "eip"))
    <3>1. some \in SUBSET AllMarks /\ "rt-private" # "igw"
      BY DEF AwsTags, AllMarks
    <3>2. \A q \in Current("rt-private") : AwsTags \subseteq (q.has \cup some)
              => AwsTags \subseteq q.has
      BY <2>2, <2>3
    <3>3. AwsKeeps(cloud, cloud')
      BY <1>0, <2>4, <3>1, <3>2, MarkedCurrent
    <3>4. Complete(cloud', "eip") => Complete(cloud, "eip")
      BY <1>0, <2>2, <2>3, <2>4, MarkedEip
    <3> QED
      BY <3>3, <3>4
  <2>5. AwsStays("rtPrivTag", "sg")
    BY DEF AwsStays, AwsTables, AwsGroups
  <2> QED
    BY <2>1, <2>4, <2>5, AwsPrepares
<1>70. CASE Aws!getNatGateway
  <2>1. /\ cloud' = cloud
        /\ \/ Walks("nat", "natKnown")
           \/ Walks("nat", "eipMake") /\ pc' = "eipMake"
                  /\ (Aws!In(net, Only("nat")) = {} \/ lost' = lost + 1)
    BY <1>0, <1>70, AwsCalls, AwsSame DEF Aws!getNatGateway
  <2>2. AwsKeeps(cloud, cloud') /\ (Complete(cloud', "eip") => Complete(cloud, "eip"))
    BY <1>0, <2>1
  <2>3. CASE Walks("nat", "natKnown")
    <3>1. AwsStays("nat", "natKnown")
      BY DEF AwsStays, AwsSubnets
    <3> QED
      BY <2>2, <2>3, <3>1, AwsPrepares
  <2>4. CASE Walks("nat", "eipMake") /\ pc' = "eipMake"
                 /\ (Aws!In(net, Only("nat")) = {} \/ lost' = lost + 1)
    <3>1. Moves("nat", "eipMake") /\ net' = net /\ pc = "nat"
      BY <2>4 DEF Walks, Moves
    <3>2. Vpc(cloud, net) /\ net \in Nat
      BY <1>a, <3>1 DEF AwsBuild, AwsSubnets
    <3>3. Settled(cloud) /\ lost \in Nat
      BY <1>0, <3>1 DEF AwsInv, Phased, StoreTypes, AwsPrepare, AwsIam, AwsBuild, AwsSubnets,
          AwsAddress, AwsTables, AwsGroups
    <3>4. Count(cloud, "nat") \in Nat /\ Count(cloud, "nat") <= 1 + lost
      BY <1>0, AwsCounted DEF AwsInv, AwsPaid
    <3>5. ASSUME Aws!In(net, Only("nat")) = {} PROVE Count(cloud, "nat") <= lost
      <4>1. CASE \E i : Vpc(cloud, i) /\ i < net
        BY <3>1, <4>1 DEF AwsInv, AwsPaid, AwsSubnets
      <4>2. CASE ~ \E i : Vpc(cloud, i) /\ i < net
        <5>1. \A r \in cloud : r.kind = "nat" => FALSE
          <6> SUFFICES ASSUME NEW r \in cloud, r.kind = "nat" PROVE FALSE
            OBVIOUS
          <6>1. Vpc(cloud, r.in) /\ r.in \in Nat /\ r.in <= net
            BY <1>0, <3>2, <3>3 DEF AwsSound, Anchored, AwsContents, Distinct, Resources,
                Settled, AwsHome
          <6>2. r.in = net
            BY <3>2, <4>2, <6>1
          <6> QED
            BY <3>5, <6>2 DEF Aws!In, Only, All
        <5>2. Count(cloud, "nat") = 0
          BY <1>0, <5>1, AwsCounted DEF There
        <5> QED
          BY <3>3, <5>2
      <4> QED
        BY <4>1, <4>2
    <3>6. Count(cloud', "nat") <= lost'
      <4>1. lost' \in Nat /\ lost <= lost' /\ (Count(cloud, "nat") <= lost \/ lost' = lost + 1)
        BY <2>4, <3>1, <3>5 DEF Moves
      <4> QED
        BY <2>1, <3>3, <3>4, <4>1
    <3>11. "nat" \in AwsPrepare /\ "eipMake" \in AwsPrepare
      BY DEF AwsPrepare, AwsIam, AwsBuild, AwsSubnets, AwsAddress, AwsTables, AwsGroups
    <3>10. "eipMake" \notin AwsSubnets /\ "eipMake" \in AwsAddress
               /\ "eipMake" \in AwsBuild \cup AwsInVpc
      BY DEF AwsBuild, AwsSubnets, AwsAddress, AwsTables, AwsGroups, AwsInVpc, AwsReleased
    <3>16. /\ \A k \in PlaceKinds : Placed(cloud', k) = Placed(cloud, k)
                  /\ Placed(cloud, k) \in Nat
          /\ \A k \in AwsHome : Count(cloud', k) = Count(cloud, k) /\ Count(cloud, k) \in Nat
          /\ lost \in Nat /\ lost' \in Nat /\ lost <= lost'
      BY <2>2, <3>1, <3>11, AwsAhead
    <3>12. /\ \A k \in PlaceKinds : Placed(cloud', k) <= 1 + lost'
          /\ Count(cloud', "nat") <= 1 + lost'
          /\ \A k \in {"subnet-public", "subnet-private"} : Count(cloud', k) <= 1
      BY <2>2, <3>1, <3>11, AwsAhead
    <3>13. AwsKnown'
      BY <2>1, <2>4, <3>1, <3>2, <3>10 DEF AwsKnown
    <3>14. AwsPaid'
      BY <2>4, <3>6, <3>10, <3>12 DEF AwsPaid
    <3> QED
      BY <2>2, <3>1, <3>11, <3>13, <3>14, AwsAhead DEF AwsInv
  <2> QED
    BY <2>1, <2>3, <2>4
<1>71. CASE Aws!setupNatGateway
  <2>1. /\ Walks("natMake", "natTag") /\ Moves("natMake", "natTag") /\ lost' = lost
               /\ pc = "natMake"
        /\ \/ pc' = "idle" /\ cloud' = cloud
           \/ /\ pc' = "natTag" /\ FreshIds("nat") # {}
              /\ \E s \in With("subnet-public", "name") :
                    cloud' = (cloud \ Current("eip"))
                        \cup {[r EXCEPT !.in = FreshId("nat")] : r \in Current("eip")}
                        \cup {[kind |-> "nat", id |-> FreshId("nat"), in |-> s.in, has |-> {}]}
    BY <1>0, <1>71, AwsSame DEF Aws!setupNatGateway, Aws!Resource, Aws!Return, Walks, Moves,
        StoreTypes
  <2>2. "natMake" \in AwsPrepare /\ "natTag" \in AwsPrepare
    BY DEF AwsPrepare, AwsIam, AwsBuild, AwsSubnets, AwsAddress, AwsTables, AwsGroups
  <2>3. Vpc(cloud, net) /\ Settled(cloud) /\ Chain(cloud)
    BY <1>a, <2>1, <2>2 DEF AwsInv, Phased, AwsBuild, AwsAddress
  <2>4. CASE pc' = "idle"
    <3>1. cloud' = cloud
      BY <2>1, <2>4
    <3> QED
      BY <1>0, <2>1, <2>2, <2>4, <3>1, AwsReturns
  <2>5. CASE pc' = "natTag"
    <3>1. PICK s \in With("subnet-public", "name") :
                 cloud' = (cloud \ Current("eip"))
                        \cup {[r EXCEPT !.in = FreshId("nat")] : r \in Current("eip")}
                        \cup {[kind |-> "nat", id |-> FreshId("nat"), in |-> s.in, has |-> {}]}
      BY <2>1, <2>5
    <3>2. s \in cloud /\ s.kind = "subnet-public" /\ FreshIds("nat") # {} /\ net' = net
      BY <2>1, <2>5 DEF With, Only, All, Walks
    <3>3. /\ AwsSees(cloud, cloud') /\ Settled(cloud') /\ Chain(cloud')
          /\ Count(cloud', "nat") = Count(cloud, "nat") + 1
          /\ \A k \in {"subnet-public", "subnet-private"} : Count(cloud', k) = Count(cloud, k)
      BY <1>0, <2>3, <3>1, <3>2, MadeNat
    <3>4. /\ AwsSound(cloud') /\ \A i : Vpc(cloud', i) <=> Vpc(cloud, i)
          /\ \A k \in PlaceKinds : Placed(cloud', k) = Placed(cloud, k)
      BY <3>3 DEF AwsSees
    <3>5. StoreTypes' /\ Phased(AwsPrepare, AwsDelete)' /\ AwsGone' /\ db'.phase = "Pending"
      <4>1. lost = 0 => \A i, j : Vpc(cloud', i) /\ Vpc(cloud', j) => i = j
        BY <3>4 DEF AwsInv, AwsGone
      <4>2. \E i : Vpc(cloud', i)
        BY <2>3, <3>4
      <4> QED
        BY <2>1, <2>2, <3>3, <3>4, <4>1, <4>2, AwsForward
    <3>6. "natTag" \in AwsBuild \cup AwsInVpc /\ "natTag" \notin AwsSubnets
              /\ "natTag" \notin AwsAddress
      BY DEF AwsBuild, AwsTables, AwsSubnets, AwsAddress
    <3>7. AwsKnown'
      BY <2>3, <2>5, <3>2, <3>4, <3>6 DEF AwsKnown
    <3>8. AwsPaid'
      <4>1. lost \in Nat /\ Count(cloud, "nat") \in Nat /\ Count(cloud, "nat") <= lost
        BY <1>0, <2>1, AwsCounted DEF AwsInv, AwsPaid, AwsAddress, StoreTypes
      <4>2. Count(cloud', "nat") <= 1 + lost'
        BY <2>1, <3>3, <4>1
      <4>3. /\ \A k \in PlaceKinds : Placed(cloud', k) <= 1 + lost'
            /\ \A k \in {"subnet-public", "subnet-private"} : Count(cloud', k) <= 1
        BY <2>1, <3>3, <3>4 DEF AwsInv, AwsPaid
      <4> QED
        BY <2>5, <3>6, <4>2, <4>3 DEF AwsPaid
    <3> QED
      BY <3>3, <3>4, <3>5, <3>7, <3>8 DEF AwsInv
  <2> QED
    BY <2>1, <2>4, <2>5
<1>72. CASE Aws!ensureNatGateway
  <2>1. /\ pc = "natKnown" /\ pc' = "rtPublic"
        /\ mem' = [phase |-> mem.phase, del |-> mem.del, endp |-> mem.endp, ids |-> {cur}]
        /\ UNCHANGED <<db, cloud, net, cur, sets, torn, aborts, lost>>
    BY <1>0, <1>72 DEF Aws!ensureNatGateway, StoreTypes, IsCluster
  <2>2. IsCluster(mem') /\ mem'.phase = mem.phase /\ mem'.del = mem.del
    BY <1>0, <2>1 DEF StoreTypes, IsCluster
  <2>3. StoreTypes'
    BY <1>0, <2>1, <2>2 DEF StoreTypes
  <2>4. /\ "natKnown" \in AwsPrepare /\ "rtPublic" \in AwsPrepare /\ "natKnown" \in AwsBuild
               /\ "rtPublic" \in AwsBuild
        /\ "rtPublic" \notin AwsDelete \cup AwsSubnets \cup AwsAddress
    BY DEF AwsPrepare, AwsIam, AwsBuild, AwsSubnets, AwsAddress, AwsTables, AwsGroups,
        AwsDelete, AwsMaster, AwsNode, AwsBalancer, AwsInVpc, AwsReleased
  <2>5. Phased(AwsPrepare, AwsDelete)'
    BY <2>1, <2>4 DEF AwsInv, Phased
  <2>6. AwsKnown'
    BY <2>1, <2>4 DEF AwsInv, AwsKnown
  <2>7. AwsPaid'
    BY <2>1, <2>4 DEF AwsInv, AwsPaid
  <2>8. AwsGone'
    BY <2>1, <2>4 DEF AwsInv, AwsGone, AwsDelete, AwsMaster, AwsNode, AwsBalancer, AwsInVpc
  <2> QED
    BY <2>1, <2>3, <2>5, <2>6, <2>7, <2>8 DEF AwsInv
<1>73. CASE Aws!Apply
  <2>1. /\ StoreTypes' /\ UNCHANGED <<db, cloud, torn, lost>> /\ lost <= lost'
        /\ pc' = "connect" /\ db.phase \in {"Pending", "Deleting"}
    BY <1>0, <1>73, AwsCommand, ApplyStore DEF StoreTypes
  <2>7. Phased(AwsPrepare, AwsDelete)'
    BY <1>0, <2>1 DEF AwsInv, Phased, StoreTypes, Moves, AwsPrepare, AwsIam, AwsBuild,
        AwsSubnets, AwsAddress, AwsTables, AwsGroups, AwsDelete, AwsMaster, AwsNode,
        AwsBalancer, AwsInVpc, AwsReleased
  <2> QED
    BY <1>0, <2>1, <2>7, AwsRests DEF AwsResting
<1>74. CASE Aws!DeleteCluster
  <2>1. /\ StoreTypes' /\ UNCHANGED <<cloud, torn, lost>> /\ lost <= lost'
        /\ pc' = "idle" /\ db'.phase = "Deleting"
    BY <1>0, <1>74, AwsCommand, DeleteStore DEF StoreTypes
  <2>7. Phased(AwsPrepare, AwsDelete)'
    BY <1>0, <2>1 DEF AwsInv, Phased, StoreTypes, Moves, AwsPrepare, AwsIam, AwsBuild,
        AwsSubnets, AwsAddress, AwsTables, AwsGroups, AwsDelete, AwsMaster, AwsNode,
        AwsBalancer, AwsInVpc, AwsReleased
  <2> QED
    BY <1>0, <2>1, <2>7, AwsRests DEF AwsResting
<1>75. CASE Aws!Abort
  <2>1. Moves(pc, "idle") /\ pc # "idle" /\ pc' = "idle" /\ UNCHANGED <<cloud, lost>>
    BY <1>0, <1>75, AwsCalls
  <2>2. StoreTypes' /\ UNCHANGED <<db, torn>> /\ lost <= lost'
    BY <1>0, <2>1, MovesStore DEF Moves
  <2>7. Phased(AwsPrepare, AwsDelete)'
    BY <1>0, <2>1, <2>2 DEF AwsInv, Phased, StoreTypes, Moves, AwsPrepare, AwsIam, AwsBuild,
        AwsSubnets, AwsAddress, AwsTables, AwsGroups, AwsDelete, AwsMaster, AwsNode,
        AwsBalancer, AwsInVpc, AwsReleased
  <2> QED
    BY <1>0, <2>1, <2>2, <2>7, AwsRests DEF AwsResting
<1>76. CASE Aws!newconnector
  <2>1. Walks("connect", IF mem.phase = "Pending" THEN "iam" ELSE "dworkers")
            /\ UNCHANGED <<cloud, lost>>
    BY <1>0, <1>76, AwsCalls DEF Aws!newconnector, Aws!Connect
  <2>2. /\ Moves("connect", IF mem.phase = "Pending" THEN "iam" ELSE "dworkers") /\ pc = "connect"
        /\ pc' \in {"idle", IF mem.phase = "Pending" THEN "iam" ELSE "dworkers"}
        /\ UNCHANGED <<db, torn>> /\ lost <= lost'
    BY <2>1 DEF Walks, Moves
  <2>3. StoreTypes'
    BY <1>0, <2>2, MovesStore
  <2>4. pc' \in AwsResting /\ pc' \notin {"master", "ready"}
    BY <2>2 DEF AwsResting
  <2>7. Phased(AwsPrepare, AwsDelete)'
    BY <1>0, <2>2 DEF AwsInv, Phased, StoreTypes, AwsPrepare, AwsIam, AwsBuild, AwsSubnets,
        AwsAddress, AwsTables, AwsGroups, AwsDelete, AwsMaster, AwsNode, AwsBalancer, AwsInVpc,
        AwsReleased
  <2> QED
    BY <1>0, <2>1, <2>2, <2>3, <2>4, <2>7, AwsRests DEF AwsResting
<1>77. CASE Aws!PrepareCloud
  <2>1. PICK endp \in BOOLEAN : Save("save", endp, {}, "master")
    BY <1>0, <1>77, AwsCommand DEF Aws!PrepareCloud, StoreTypes, IsCluster
  <2>2. /\ StoreTypes' /\ UNCHANGED <<cloud, torn, lost, net>>
        /\ pc = "save" /\ pc' = "master" /\ db'.phase = db.phase
    BY <1>0, <2>1, SaveStore
  <2>4. lost <= lost'
    BY <1>0, <2>2 DEF StoreTypes
  <2>3. Vpc(cloud, net')
    BY <1>a, <2>2 DEF AwsBuild, AwsGroups
  <2>7. Phased(AwsPrepare, AwsDelete)'
    BY <1>0, <2>2 DEF AwsInv, Phased, AwsPrepare, AwsIam, AwsBuild, AwsSubnets, AwsAddress,
        AwsTables, AwsGroups, AwsDelete, AwsMaster, AwsNode, AwsBalancer, AwsInVpc, AwsReleased
  <2> QED
    BY <1>0, <2>2, <2>3, <2>4, <2>7, AwsRests DEF AwsResting
<1>78. CASE Aws!EnsureMaster
  <2>1. PICK endp \in BOOLEAN : Save("masterSave", endp, {}, "ready")
    BY <1>0, <1>78, AwsCommand DEF Aws!EnsureMaster, StoreTypes, IsCluster
  <2>2. /\ StoreTypes' /\ UNCHANGED <<cloud, torn, lost, net>>
        /\ pc = "masterSave" /\ pc' = "ready" /\ db'.phase = db.phase
    BY <1>0, <2>1, SaveStore
  <2>4. lost <= lost'
    BY <1>0, <2>2 DEF StoreTypes
  <2>3. Vpc(cloud, net')
    BY <1>a, <2>2 DEF AwsBuild, AwsGroups
  <2>7. Phased(AwsPrepare, AwsDelete)'
    BY <1>0, <2>2 DEF AwsInv, Phased, AwsPrepare, AwsIam, AwsBuild, AwsSubnets, AwsAddress,
        AwsTables, AwsGroups, AwsDelete, AwsMaster, AwsNode, AwsBalancer, AwsInVpc, AwsReleased
  <2> QED
    BY <1>0, <2>2, <2>3, <2>4, <2>7, AwsRests DEF AwsResting
<1>79. CASE Aws!MarkReady("ready", Aws!Reachable)
  <2>0. db.phase = "Pending"
    BY <1>79 DEF AwsInv, Phased, Aws!MarkReady, AwsPrepare, AwsIam, AwsBuild, AwsSubnets,
        AwsAddress, AwsTables, AwsGroups
  <2>1. /\ StoreTypes' /\ UNCHANGED <<cloud, torn, lost>> /\ lost <= lost' /\ pc' = "idle"
    BY <1>0, <1>79, <2>0, AwsCommand, ReadyStore DEF StoreTypes
  <2>7. Phased(AwsPrepare, AwsDelete)'
    BY <2>1 DEF Phased, AwsPrepare, AwsIam, AwsBuild, AwsSubnets, AwsAddress, AwsTables,
        AwsGroups, AwsDelete, AwsMaster, AwsNode, AwsBalancer, AwsInVpc, AwsReleased
  <2> QED
    BY <1>0, <2>0, <2>1, <2>7, AwsRests DEF AwsResting
<1>80. CASE Aws!StartDelete("dworkers", Aws!Reachable, "dmaster")
  <2>0. db.phase = "Deleting"
    BY <1>80 DEF AwsInv, Phased, Aws!StartDelete, AwsDelete, AwsMaster, AwsNode, AwsBalancer,
        AwsInVpc, AwsReleased
  <2>1. StoreTypes' /\ UNCHANGED <<cloud, torn, db>> /\ lost <= lost' /\ pc' = "dmaster"
    BY <1>0, <1>80, <2>0, AwsCommand, StartStore
  <2>7. Phased(AwsPrepare, AwsDelete)'
    BY <2>0, <2>1 DEF Phased, AwsPrepare, AwsIam, AwsBuild, AwsSubnets, AwsAddress, AwsTables,
        AwsGroups, AwsDelete, AwsMaster, AwsNode, AwsBalancer, AwsInVpc, AwsReleased
  <2> QED
    BY <1>0, <2>0, <2>1, <2>7, AwsRests DEF AwsResting
<1>81. CASE Aws!Finish("dend", db.phase)
  <2>0. db.phase = "Deleting" /\ pc = "dend"
    BY <1>81 DEF AwsInv, Phased, Aws!Finish, AwsDelete, AwsMaster, AwsNode, AwsBalancer,
        AwsInVpc, AwsReleased
  <2>1. /\ StoreTypes' /\ UNCHANGED <<cloud, lost>> /\ lost <= lost' /\ pc' = "idle" /\ torn'
        /\ db'.phase = "Deleting"
    BY <1>0, <1>81, <2>0, AwsCommand, FinishStore DEF StoreTypes
  <2>2. lost' = 0 => pc \in AwsBalancer /\ \A i : ~Vpc(cloud, i)
    BY <2>0, <2>1 DEF AwsInv, AwsGone, AwsBalancer
  <2>7. Phased(AwsPrepare, AwsDelete)'
    BY <2>1 DEF Phased, AwsPrepare, AwsIam, AwsBuild, AwsSubnets, AwsAddress, AwsTables,
        AwsGroups, AwsDelete, AwsMaster, AwsNode, AwsBalancer, AwsInVpc, AwsReleased
  <2> QED
    BY <1>0, <2>0, <2>1, <2>2, <2>7, AwsRests DEF AwsResting
<1>82. CASE Aws!Vpcs = {} /\ Aws!Finish("dvpc", db.phase)
  <2>0. db.phase = "Deleting" /\ pc = "dvpc"
    BY <1>82 DEF AwsInv, Phased, Aws!Finish, AwsDelete, AwsMaster, AwsNode, AwsBalancer,
        AwsInVpc, AwsReleased
  <2>1. /\ StoreTypes' /\ UNCHANGED <<cloud, lost>> /\ lost <= lost' /\ pc' = "idle" /\ torn'
        /\ db'.phase = "Deleting"
    BY <1>0, <1>82, <2>0, AwsCommand, FinishStore DEF StoreTypes
  <2>2. lost' = 0 => pc \in AwsBalancer /\ \A i : ~Vpc(cloud, i)
    BY <1>0, <1>82, <2>0, AwsReads DEF AwsBalancer
  <2>7. Phased(AwsPrepare, AwsDelete)'
    BY <2>1 DEF Phased, AwsPrepare, AwsIam, AwsBuild, AwsSubnets, AwsAddress, AwsTables,
        AwsGroups, AwsDelete, AwsMaster, AwsNode, AwsBalancer, AwsInVpc, AwsReleased
  <2> QED
    BY <1>0, <2>0, <2>1, <2>2, <2>7, AwsRests DEF AwsResting
<1>83. CASE /\ Aws!Vpcs # {} /\ lost < MaxLost /\ lost' = lost + 1
            /\ pc = "dvpc" /\ torn' = TRUE /\ Aws!Return
            /\ UNCHANGED <<db, cloud, sets, aborts>>
  <2>0. db.phase = "Deleting"
    BY <1>83 DEF AwsInv, Phased, AwsDelete, AwsMaster, AwsNode, AwsBalancer, AwsInVpc, AwsReleased
  <2>1. /\ pc' = "idle" /\ mem' = NewCluster /\ torn' = TRUE /\ lost' = lost + 1 /\ cloud' = cloud
        /\ UNCHANGED <<db, sets, aborts>>
    BY <1>83, AwsSame DEF Aws!Return
  <2>2. StoreTypes'
    BY <1>0, <2>0, <2>1, NewIsCluster DEF StoreTypes
  <2>3. lost <= lost' /\ lost' # 0
    BY <1>0, <2>1 DEF StoreTypes
  <2>7. Phased(AwsPrepare, AwsDelete)'
    BY <2>1 DEF Phased, AwsPrepare, AwsIam, AwsBuild, AwsSubnets, AwsAddress, AwsTables,
        AwsGroups, AwsDelete, AwsMaster, AwsNode, AwsBalancer, AwsInVpc, AwsReleased
  <2> QED
    BY <1>0, <2>0, <2>1, <2>2, <2>3, <2>7, AwsRests DEF AwsResting
<1>84. CASE /\ pc = "dvpc" /\ Aws!Vpcs # {}
            /\ pc' = "dsg" /\ net' = Aws!First(Aws!Vpcs)
            /\ UNCHANGED <<db, mem, cloud, cur, sets, torn, aborts, lost>>
  <2>1. Moves("dvpc", "dsg") /\ cloud' = cloud /\ torn' = torn /\ lost' = lost /\ pc = "dvpc"
            /\ pc' = "dsg"
    BY <1>0, <1>84 DEF Moves, StoreTypes
  <2>2. Vpc(cloud', net')
    BY <1>0, <1>84, <2>1, AwsSame, AwsReads
  <2>3. AwsFewer(cloud, cloud')
    BY <1>0, <2>1, KeepsFewer
  <2>4. /\ "dvpc" \in AwsDelete /\ "dsg" \in AwsDelete /\ "dvpc" \in AwsBalancer
               /\ "dvpc" \in AwsNode
        /\ "dvpc" \in AwsMaster /\ "dsg" \notin AwsReleased
    BY DEF AwsDelete, AwsMaster, AwsNode, AwsBalancer, AwsInVpc, AwsReleased
  <2>5. AwsGone'
    BY <2>1, <2>4 DEF AwsInv, AwsGone
  <2> QED
    BY <2>1, <2>2, <2>3, <2>4, <2>5, AwsDeletes
<1>85. CASE Aws!Boot({"master", "bastion"}, "masterWait")
  <2>1. PICK r \in cloud : r.kind \in {"master", "bastion"}
            /\ cloud' = Marking(cloud, {r}, {"running"})
    BY <1>85, AwsSame DEF Aws!Boot, All
  <2>2. Steady /\ net' = net /\ pc \in {"idle", "masterWait", "dmaster"}
    BY <1>0, <1>85 DEF Aws!Boot, Steady, StoreTypes
  <2>3. {"running"} \in SUBSET AllMarks
            /\ r.kind \notin AwsPlacing \cup AwsHome \cup {"igw", "eip"}
    BY <2>1 DEF AllMarks, AwsPlacing, AwsHome
  <2>4. AwsKeeps(cloud, cloud')
    BY <1>0, <2>1, <2>3, MarkedAside
  <2>5. Complete(cloud', "eip") => Complete(cloud, "eip")
    BY <1>0, <2>1, <2>3, MarkedEip
  <2>6. \A k : There(cloud', k) => There(cloud, k)
    BY <1>0, <2>1, MarkedThere
  <2>7. AwsFewer(cloud, cloud') /\ \A i : Vpc(cloud', i) <=> Vpc(cloud, i)
    BY <1>0, <2>4, KeepsFewer
  <2>8. (Settled(cloud) => Settled(cloud')) /\ (Chain(cloud) => Chain(cloud'))
    BY <2>4 DEF AwsKeeps
  <2> QED
    BY <2>2, <2>5, <2>6, <2>7, <2>8, AwsSteady
<1>86. CASE Aws!ControllerScale(Aws!With("master", "running"), "dmaster")
  <2> DEFINE m == CHOOSE q \in With("master", "running") : TRUE
             w == [kind |-> "worker", id |-> 1, in |-> m.in, has |-> {"owner", "running"}]
  <2>1. /\ Steady /\ net' = net /\ pc \in {"idle", "masterWait", "dmaster"}
        /\ With("master", "running") # {}
        /\ \/ Only("worker") = {} /\ cloud' = cloud \cup {w}
           \/ cloud' = cloud \ Only("worker")
    BY <1>0, <1>86, AwsSame DEF Aws!ControllerScale, Aws!Resource, Steady, StoreTypes
  <2>2. m \in cloud /\ m.kind = "master"
    BY <2>1 DEF With, Only, All
  <2> HIDE DEF m
  <2>3. m.in \in Nat /\ Vpc(cloud, m.in)
    BY <1>0, <2>2 DEF AwsSound, Anchored, AwsContents, Distinct, Resources
  <2>4. CASE Only("worker") = {} /\ cloud' = cloud \cup {w}
    <3>1. /\ w \in Resources(AwsKinds) /\ w.kind = "worker" /\ w.id = 1 /\ w.in = m.in
          /\ w.has = {"owner", "running"}
      BY <2>3 DEF Resources, AwsKinds, AllMarks
    <3> HIDE DEF w
    <3>2. /\ ~Id(cloud, w.kind, w.id) /\ (w.kind \in AwsContents => Vpc(cloud, w.in))
          /\ w.kind # "igw" /\ w.kind \notin AwsPlacing /\ w.kind \notin AwsHome /\ w.kind # "vpc"
      BY <2>3, <2>4, <3>1 DEF Id, Only, All, AwsPlacing, AwsHome
    <3>3. /\ AwsSees(cloud, cloud')
          /\ \A k : k # w.kind => Count(cloud', k) = Count(cloud, k)
          /\ Settled(cloud) => Settled(cloud')
          /\ Chain(cloud) => Chain(cloud')
      BY <1>0, <2>4, <3>1, <3>2, AddedOne
    <3>4. AwsKeeps(cloud, cloud')
      BY <3>1, <3>3 DEF AwsKeeps, AwsHome
    <3>5. AwsFewer(cloud, cloud') /\ \A i : Vpc(cloud', i) <=> Vpc(cloud, i)
      BY <1>0, <3>4, KeepsFewer
    <3>6. /\ \A k \in {"key", "iam-master", "iam-node"} : There(cloud', k) => There(cloud, k)
          /\ Complete(cloud', "eip") => Complete(cloud, "eip")
      BY <2>4, <3>1 DEF There, Complete
    <3> QED
      BY <2>1, <3>3, <3>5, <3>6, AwsSteady
  <2>5. CASE cloud' = cloud \ Only("worker")
    <3>1. cloud' \subseteq cloud /\ \A r \in cloud : r \notin cloud' <=> r.kind = "worker"
      BY <2>5 DEF Only, All
    <3>2. \A r \in cloud : r \notin cloud' => r.kind \notin AwsPlacing
      BY <3>1 DEF AwsPlacing
    <3>3. AwsFewer(cloud, cloud') /\ \A i : Vpc(cloud', i) <=> Vpc(cloud, i)
      BY <1>0, <3>1, <3>2, DroppedAside
    <3>4. Settled(cloud) => Settled(cloud')
      BY <3>1, <3>3 DEF Settled
    <3>5. Chain(cloud) => Chain(cloud')
      BY <3>1 DEF Chain, Id
    <3>6. /\ \A k \in {"key", "iam-master", "iam-node"} : There(cloud', k) => There(cloud, k)
          /\ Complete(cloud', "eip") => Complete(cloud, "eip")
      BY <3>1 DEF There, Complete
    <3> QED
      BY <2>1, <3>3, <3>4, <3>5, <3>6, AwsSteady
  <2> QED
    BY <2>1, <2>4, <2>5
<1>87. CASE Aws!deleteMasters
  <2>1. /\ Walks("dmaster", "dkey")
        /\ \/ cloud' = cloud \ Aws!Owned(Only("master"))
           \/ lost' = lost + 1 /\ cloud' = cloud
    BY <1>0, <1>87, AwsCalls, AwsSame DEF Aws!deleteMasters
  <2>2. Aws!Owned(Only("master")) \subseteq cloud
            /\ \A r \in Aws!Owned(Only("master")) : r.kind \notin AwsPlacing
    BY AwsSame DEF AwsPlacing, Only, All, Aws!Owned
  <2>3. AwsFewer(cloud, cloud') /\ \A i : Vpc(cloud', i) <=> Vpc(cloud, i)
    BY <1>0, <2>1, <2>2, DroppedAside
  <2>4. (\A k : There(cloud', k) => There(cloud, k))
            /\ (Complete(cloud', "eip") => Complete(cloud, "eip"))
    BY <2>1 DEF There, Complete
  <2>5. "dmaster" \in AwsDelete /\ "dkey" \in AwsDelete
            /\ ("dkey" \in AwsInVpc => "dmaster" \in AwsInVpc)
    BY DEF AwsDelete, AwsMaster, AwsNode, AwsBalancer, AwsInVpc, AwsReleased
  <2>6. lost' = 0 /\ pc' # "idle" => AwsSure("dmaster", "dkey", cloud')
    BY DEF AwsSure, AwsDelete, AwsMaster, AwsNode, AwsBalancer, AwsInVpc, AwsReleased
  <2> QED
    BY <2>1, <2>3, <2>4, <2>5, <2>6, AwsTakes
<1>88. CASE Aws!deleteSSHKey
  <2>1. /\ Walks("dkey", "diamMaster")
        /\ \/ cloud' = cloud \ Only("key")
           \/ lost' = lost + 1 /\ cloud' = cloud
    BY <1>0, <1>88, AwsCalls, AwsSame DEF Aws!deleteSSHKey
  <2>2. Only("key") \subseteq cloud /\ \A r \in Only("key") : r.kind \notin AwsPlacing
    BY AwsSame DEF AwsPlacing, Only, All
  <2>3. AwsFewer(cloud, cloud') /\ \A i : Vpc(cloud', i) <=> Vpc(cloud, i)
    BY <1>0, <2>1, <2>2, DroppedAside
  <2>4. (\A k : There(cloud', k) => There(cloud, k))
            /\ (Complete(cloud', "eip") => Complete(cloud, "eip"))
    BY <2>1 DEF There, Complete
  <2>5. "dkey" \in AwsDelete /\ "diamMaster" \in AwsDelete
            /\ ("diamMaster" \in AwsInVpc => "dkey" \in AwsInVpc)
    BY DEF AwsDelete, AwsMaster, AwsNode, AwsBalancer, AwsInVpc, AwsReleased
  <2>6. lost' = 0 /\ pc' # "idle" => AwsSure("dkey", "diamMaster", cloud')
    <3>1. lost' = 0 => ~There(cloud', "key")
      BY <1>0, <2>1 DEF StoreTypes, There, Only, All
    <3> QED
      BY <3>1 DEF AwsSure, AwsDelete, AwsMaster, AwsNode, AwsBalancer, AwsInVpc, AwsReleased
  <2> QED
    BY <2>1, <2>3, <2>4, <2>5, <2>6, AwsTakes
<1>89. CASE Aws!deleteRolePolicy("iam-master", "diamMaster", "diamNode")
  <2>1. /\ Walks("diamMaster", "diamNode")
        /\ \/ cloud' = cloud \ Only("iam-master")
           \/ lost' = lost + 1 /\ cloud' = cloud
    BY <1>0, <1>89, AwsCalls, AwsSame DEF Aws!deleteRolePolicy
  <2>2. Only("iam-master") \subseteq cloud
            /\ \A r \in Only("iam-master") : r.kind \notin AwsPlacing
    BY AwsSame DEF AwsPlacing, Only, All
  <2>3. AwsFewer(cloud, cloud') /\ \A i : Vpc(cloud', i) <=> Vpc(cloud, i)
    BY <1>0, <2>1, <2>2, DroppedAside
  <2>4. (\A k : There(cloud', k) => There(cloud, k))
            /\ (Complete(cloud', "eip") => Complete(cloud, "eip"))
    BY <2>1 DEF There, Complete
  <2>5. "diamMaster" \in AwsDelete /\ "diamNode" \in AwsDelete
            /\ ("diamNode" \in AwsInVpc => "diamMaster" \in AwsInVpc)
    BY DEF AwsDelete, AwsMaster, AwsNode, AwsBalancer, AwsInVpc, AwsReleased
  <2>6. lost' = 0 /\ pc' # "idle" => AwsSure("diamMaster", "diamNode", cloud')
    <3>1. lost' = 0 => ~There(cloud', "iam-master")
      BY <1>0, <2>1 DEF StoreTypes, There, Only, All
    <3> QED
      BY <3>1 DEF AwsSure, AwsDelete, AwsMaster, AwsNode, AwsBalancer, AwsInVpc, AwsReleased
  <2> QED
    BY <2>1, <2>3, <2>4, <2>5, <2>6, AwsTakes
<1>90. CASE Aws!deleteRolePolicy("iam-node", "diamNode", "dlb")
  <2>1. /\ Walks("diamNode", "dlb")
        /\ \/ cloud' = cloud \ Only("iam-node")
           \/ lost' = lost + 1 /\ cloud' = cloud
    BY <1>0, <1>90, AwsCalls, AwsSame DEF Aws!deleteRolePolicy
  <2>2. Only("iam-node") \subseteq cloud /\ \A r \in Only("iam-node") : r.kind \notin AwsPlacing
    BY AwsSame DEF AwsPlacing, Only, All
  <2>3. AwsFewer(cloud, cloud') /\ \A i : Vpc(cloud', i) <=> Vpc(cloud, i)
    BY <1>0, <2>1, <2>2, DroppedAside
  <2>4. (\A k : There(cloud', k) => There(cloud, k))
            /\ (Complete(cloud', "eip") => Complete(cloud, "eip"))
    BY <2>1 DEF There, Complete
  <2>5. "diamNode" \in AwsDelete /\ "dlb" \in AwsDelete
            /\ ("dlb" \in AwsInVpc => "diamNode" \in AwsInVpc)
    BY DEF AwsDelete, AwsMaster, AwsNode, AwsBalancer, AwsInVpc, AwsReleased
  <2>6. lost' = 0 /\ pc' # "idle" => AwsSure("diamNode", "dlb", cloud')
    <3>1. lost' = 0 => ~There(cloud', "iam-node")
      BY <1>0, <2>1 DEF StoreTypes, There, Only, All
    <3> QED
      BY <3>1 DEF AwsSure, AwsDelete, AwsMaster, AwsNode, AwsBalancer, AwsInVpc, AwsReleased
  <2> QED
    BY <2>1, <2>3, <2>4, <2>5, <2>6, AwsTakes
<1>91. CASE Aws!deleteLoadBalancer
  <2>1. /\ Walks("dlb", "dbastion")
        /\ \/ cloud' = cloud \ Only("lb")
           \/ pc' = "idle" /\ cloud' = cloud
    BY <1>0, <1>91, AwsCalls, AwsSame DEF Aws!deleteLoadBalancer, Aws!Remove, Aws!Decide,
        Aws!Continue, Aws!Return, Walks, Moves, StoreTypes
  <2>2. Only("lb") \subseteq cloud /\ \A r \in Only("lb") : r.kind \notin AwsPlacing
    BY AwsSame DEF AwsPlacing, Only, All
  <2>3. AwsFewer(cloud, cloud') /\ \A i : Vpc(cloud', i) <=> Vpc(cloud, i)
    BY <1>0, <2>1, <2>2, DroppedAside
  <2>4. (\A k : There(cloud', k) => There(cloud, k))
            /\ (Complete(cloud', "eip") => Complete(cloud, "eip"))
    BY <2>1 DEF There, Complete
  <2>5. "dlb" \in AwsDelete /\ "dbastion" \in AwsDelete
            /\ ("dbastion" \in AwsInVpc => "dlb" \in AwsInVpc)
    BY DEF AwsDelete, AwsMaster, AwsNode, AwsBalancer, AwsInVpc, AwsReleased
  <2>6. lost' = 0 /\ pc' # "idle" => AwsSure("dlb", "dbastion", cloud')
    BY DEF AwsSure, AwsDelete, AwsMaster, AwsNode, AwsBalancer, AwsInVpc, AwsReleased
  <2> QED
    BY <2>1, <2>3, <2>4, <2>5, <2>6, AwsTakes
<1>92. CASE Aws!deleteBastion
  <2>1. /\ Walks("dbastion", "dvpc")
        /\ \/ cloud' = cloud \ Aws!Owned(Only("bastion"))
           \/ pc' = "idle" /\ cloud' = cloud
    BY <1>0, <1>92, AwsCalls, AwsSame DEF Aws!deleteBastion, Aws!Remove, Aws!Decide,
        Aws!Continue, Aws!Return, Walks, Moves, StoreTypes
  <2>2. Aws!Owned(Only("bastion")) \subseteq cloud
            /\ \A r \in Aws!Owned(Only("bastion")) : r.kind \notin AwsPlacing
    BY AwsSame DEF AwsPlacing, Only, All, Aws!Owned
  <2>3. AwsFewer(cloud, cloud') /\ \A i : Vpc(cloud', i) <=> Vpc(cloud, i)
    BY <1>0, <2>1, <2>2, DroppedAside
  <2>4. (\A k : There(cloud', k) => There(cloud, k))
            /\ (Complete(cloud', "eip") => Complete(cloud, "eip"))
    BY <2>1 DEF There, Complete
  <2>5. "dbastion" \in AwsDelete /\ "dvpc" \in AwsDelete
            /\ ("dvpc" \in AwsInVpc => "dbastion" \in AwsInVpc)
    BY DEF AwsDelete, AwsMaster, AwsNode, AwsBalancer, AwsInVpc, AwsReleased
  <2>6. lost' = 0 /\ pc' # "idle" => AwsSure("dbastion", "dvpc", cloud')
    BY DEF AwsSure, AwsDelete, AwsMaster, AwsNode, AwsBalancer, AwsInVpc, AwsReleased
  <2> QED
    BY <2>1, <2>3, <2>4, <2>5, <2>6, AwsTakes
<1>93. CASE Aws!deleteSecurityGroup
  <2>1. /\ lost' = lost
        /\ \/ Walks("dsg", "drt") /\ cloud' = cloud
           \/ Walks("dsg", "dsg")
                  /\ \E r \in Aws!Owned(Aws!InVpc(Aws!Groups)) : cloud' = cloud \ {r}
    BY <1>0, <1>93, AwsCalls DEF Aws!deleteSecurityGroup
  <2>2. \A r \in Aws!Owned(Aws!InVpc(Aws!Groups)) : r \in cloud /\ r.kind \notin AwsPlacing
    BY AwsSame DEF AwsPlacing, Aws!Owned, Aws!InVpc, Aws!In, All, Aws!Groups
  <2>3. AwsFewer(cloud, cloud') /\ \A i : Vpc(cloud', i) <=> Vpc(cloud, i)
    <3>1. CASE cloud' = cloud
      BY <1>0, <3>1, KeepsFewer
    <3>2. ASSUME NEW r \in Aws!Owned(Aws!InVpc(Aws!Groups)), cloud' = cloud \ {r}
          PROVE  AwsFewer(cloud, cloud') /\ \A i : Vpc(cloud', i) <=> Vpc(cloud, i)
      BY <1>0, <2>2, <3>2, DroppedAside
    <3> QED
      BY <2>1, <3>1, <3>2
  <2>4. (\A k : There(cloud', k) => There(cloud, k))
            /\ (Complete(cloud', "eip") => Complete(cloud, "eip"))
    BY <2>1 DEF There, Complete
  <2>5. "dsg" \in AwsDelete /\ "drt" \in AwsDelete /\ ("drt" \in AwsInVpc => "dsg" \in AwsInVpc)
    BY DEF AwsDelete, AwsMaster, AwsNode, AwsBalancer, AwsInVpc, AwsReleased
  <2>6. AwsSure("dsg", "drt", cloud') /\ AwsSure("dsg", "dsg", cloud')
    BY DEF AwsSure, AwsDelete, AwsMaster, AwsNode, AwsBalancer, AwsInVpc, AwsReleased
  <2> QED
    BY <2>1, <2>3, <2>4, <2>5, <2>6, AwsTakes
<1>94. CASE Aws!deleteRouteTable
  <2>1. /\ lost' = lost
        /\ \/ Walks("drt", "dnat") /\ cloud' = cloud
           \/ Walks("drt", "drt")
                  /\ \E r \in Aws!Owned(Aws!InVpc(Aws!Tables)) : cloud' = cloud \ {r}
    BY <1>0, <1>94, AwsCalls DEF Aws!deleteRouteTable
  <2>2. \A r \in Aws!Owned(Aws!InVpc(Aws!Tables)) : r \in cloud
            /\ r.kind \in {"rt-public", "rt-private"}
    BY AwsSame DEF AwsPlacing, Aws!Owned, Aws!InVpc, Aws!In, All, Aws!Tables
  <2>3. AwsFewer(cloud, cloud') /\ \A i : Vpc(cloud', i) <=> Vpc(cloud, i)
    <3>1. CASE cloud' = cloud
      BY <1>0, <3>1, KeepsFewer
    <3>2. ASSUME NEW r \in Aws!Owned(Aws!InVpc(Aws!Tables)), cloud' = cloud \ {r}
          PROVE  AwsFewer(cloud, cloud') /\ \A i : Vpc(cloud', i) <=> Vpc(cloud, i)
      BY <1>0, <2>2, <3>2, DroppedTable
    <3> QED
      BY <2>1, <3>1, <3>2
  <2>4. (\A k : There(cloud', k) => There(cloud, k))
            /\ (Complete(cloud', "eip") => Complete(cloud, "eip"))
    BY <2>1 DEF There, Complete
  <2>5. "drt" \in AwsDelete /\ "dnat" \in AwsDelete /\ ("dnat" \in AwsInVpc => "drt" \in AwsInVpc)
    BY DEF AwsDelete, AwsMaster, AwsNode, AwsBalancer, AwsInVpc, AwsReleased
  <2>6. AwsSure("drt", "dnat", cloud') /\ AwsSure("drt", "drt", cloud')
    BY DEF AwsSure, AwsDelete, AwsMaster, AwsNode, AwsBalancer, AwsInVpc, AwsReleased
  <2> QED
    BY <2>1, <2>3, <2>4, <2>5, <2>6, AwsTakes
<1>95. CASE Aws!deleteSubnetID
  <2>1. /\ lost' = lost
        /\ \/ Walks("dsubnet", "dvpcDelete") /\ cloud' = cloud
           \/ Walks("dsubnet", "dsubnet")
                  /\ \E r \in Aws!Owned(Aws!InVpc(Aws!Subnets)) : cloud' = cloud \ {r}
    BY <1>0, <1>95, AwsCalls DEF Aws!deleteSubnetID
  <2>2. \A r \in Aws!Owned(Aws!InVpc(Aws!Subnets)) : r \in cloud /\ r.kind \notin AwsPlacing
    BY AwsSame DEF AwsPlacing, Aws!Owned, Aws!InVpc, Aws!In, All, Aws!Subnets
  <2>3. AwsFewer(cloud, cloud') /\ \A i : Vpc(cloud', i) <=> Vpc(cloud, i)
    <3>1. CASE cloud' = cloud
      BY <1>0, <3>1, KeepsFewer
    <3>2. ASSUME NEW r \in Aws!Owned(Aws!InVpc(Aws!Subnets)), cloud' = cloud \ {r}
          PROVE  AwsFewer(cloud, cloud') /\ \A i : Vpc(cloud', i) <=> Vpc(cloud, i)
      BY <1>0, <2>2, <3>2, DroppedAside
    <3> QED
      BY <2>1, <3>1, <3>2
  <2>4. (\A k : There(cloud', k) => There(cloud, k))
            /\ (Complete(cloud', "eip") => Complete(cloud, "eip"))
    BY <2>1 DEF There, Complete
  <2>5. "dsubnet" \in AwsDelete /\ "dvpcDelete" \in AwsDelete
            /\ ("dvpcDelete" \in AwsInVpc => "dsubnet" \in AwsInVpc)
    BY DEF AwsDelete, AwsMaster, AwsNode, AwsBalancer, AwsInVpc, AwsReleased
  <2>6. AwsSure("dsubnet", "dvpcDelete", cloud') /\ AwsSure("dsubnet", "dsubnet", cloud')
    BY DEF AwsSure, AwsDelete, AwsMaster, AwsNode, AwsBalancer, AwsInVpc, AwsReleased
  <2> QED
    BY <2>1, <2>3, <2>4, <2>5, <2>6, AwsTakes
<1>96. CASE Aws!deleteNatGateway
  <2>1. /\ Walks("dnat", "deip")
        /\ cloud' \subseteq cloud /\ \A r \in cloud : r \notin cloud' => r.kind = "nat"
    BY <1>0, <1>96, AwsSame DEF Aws!deleteNatGateway, Aws!Check, Aws!Remove, Aws!Decide,
        Aws!Continue, Aws!Return, Walks, Moves, StoreTypes, Only, All
  <2>2. \A r \in cloud : r \notin cloud' => r.kind \notin AwsPlacing
    BY <2>1 DEF AwsPlacing
  <2>3. AwsFewer(cloud, cloud') /\ \A i : Vpc(cloud', i) <=> Vpc(cloud, i)
    BY <1>0, <2>1, <2>2, DroppedAside
  <2>4. (\A k : There(cloud', k) => There(cloud, k))
            /\ (Complete(cloud', "eip") => Complete(cloud, "eip"))
    BY <2>1 DEF There, Complete
  <2>5. "dnat" \in AwsDelete /\ "deip" \in AwsDelete
            /\ ("deip" \in AwsInVpc => "dnat" \in AwsInVpc)
    BY DEF AwsDelete, AwsMaster, AwsNode, AwsBalancer, AwsInVpc, AwsReleased
  <2>6. AwsSure("dnat", "deip", cloud')
    BY DEF AwsSure, AwsDelete, AwsMaster, AwsNode, AwsBalancer, AwsInVpc, AwsReleased
  <2> QED
    BY <2>1, <2>3, <2>4, <2>5, <2>6, AwsTakes
<1>97. CASE Aws!releaseReservedIP
  <2> DEFINE ips == {r \in cloud : r.kind = "eip" /\ AwsTags \subseteq r.has}
  <2>1. /\ Walks("deip", "digw")
        /\ cloud' \subseteq cloud /\ \A r \in cloud : r \notin cloud' => r.kind = "eip"
        /\ pc' # "idle" => cloud' = cloud \ ips
    <3>1. Aws!Tagged(Aws!Only("eip")) = ips
      BY AwsSame DEF Aws!Tagged, Aws!Tags, AwsTags, Only, All
    <3> DEFINE one == {r \in ips : r.id = Aws!First(ips)}
               free == \A r \in one : r.in = 0 \/ \A n \in Aws!Only("nat") : n.id # r.in
    <3>2. /\ pc = "deip"
          /\ IF ips # {} /\ free THEN cloud' = cloud \ one ELSE UNCHANGED cloud
          /\ Aws!Decide(ips = {} \/ (free /\ ips = one), "digw")
          /\ UNCHANGED <<db, sets, torn, aborts, lost>>
      BY <1>97, <3>1 DEF Aws!releaseReservedIP
    <3>3. \A r \in one : r \in cloud /\ r.kind = "eip"
      OBVIOUS
    <3> HIDE DEF one, free, ips
    <3>4. Walks("deip", "digw")
      BY <1>0, <3>2, AwsSame DEF Aws!Decide, Aws!Continue, Aws!Return, Walks, Moves, StoreTypes
    <3>5. cloud' \subseteq cloud /\ \A r \in cloud : r \notin cloud' => r.kind = "eip"
      BY <3>2, <3>3
    <3>6. pc' # "idle" => ips = {} \/ (free /\ ips = one)
      BY <3>2 DEF Aws!Decide, Aws!Return
    <3>7. pc' # "idle" => cloud' = cloud \ ips
      BY <3>2, <3>6
    <3> QED
      BY <3>4, <3>5, <3>7
  <2>2. \A r \in cloud : r \notin cloud' => r.kind \notin AwsPlacing
    BY <2>1 DEF AwsPlacing
  <2>3. AwsFewer(cloud, cloud') /\ \A i : Vpc(cloud', i) <=> Vpc(cloud, i)
    BY <1>0, <2>1, <2>2, DroppedAside
  <2>4. (\A k : There(cloud', k) => There(cloud, k))
            /\ (Complete(cloud', "eip") => Complete(cloud, "eip"))
    BY <2>1 DEF There, Complete
  <2>5. "deip" \in AwsDelete /\ "digw" \in AwsDelete
            /\ ("digw" \in AwsInVpc => "deip" \in AwsInVpc)
    BY DEF AwsDelete, AwsMaster, AwsNode, AwsBalancer, AwsInVpc, AwsReleased
  <2>6. pc' # "idle" => AwsSure("deip", "digw", cloud')
    <3>1. pc' # "idle" => ~Complete(cloud', "eip")
      BY <2>1 DEF Complete
    <3> QED
      BY <3>1 DEF AwsSure, AwsDelete, AwsMaster, AwsNode, AwsBalancer, AwsInVpc, AwsReleased
  <2> QED
    BY <2>1, <2>3, <2>4, <2>5, <2>6, AwsTakes
<1>98. CASE Aws!Attached(net) = {} /\ Aws!Check("digw", TRUE, "dsubnet")
  <2>1. Walks("digw", "dsubnet") /\ cloud' = cloud
    BY <1>0, <1>98, AwsCalls
  <2>3. AwsFewer(cloud, cloud') /\ \A i : Vpc(cloud', i) <=> Vpc(cloud, i)
    BY <1>0, <2>1, KeepsFewer
  <2>5. "digw" \in AwsDelete /\ "dsubnet" \in AwsDelete
            /\ ("dsubnet" \in AwsInVpc => "digw" \in AwsInVpc)
    BY DEF AwsDelete, AwsMaster, AwsNode, AwsBalancer, AwsInVpc, AwsReleased
  <2>6. AwsSure("digw", "dsubnet", cloud')
    BY DEF AwsSure, AwsDelete, AwsMaster, AwsNode, AwsBalancer, AwsInVpc, AwsReleased
  <2> QED
    BY <2>1, <2>3, <2>5, <2>6, AwsTakes
<1>99. CASE /\ Aws!Attached(net) # {} /\ pc = "digw"
            /\ IF Aws!InVpc({"nat", "bastion"}) = {}
               THEN /\ pc' = "digwDelete" /\ cur' = Aws!First(Aws!Attached(net))
                   /\ UNCHANGED <<mem, net>>
                    /\ cloud' = Detaching(cloud, Aws!Attached(net), Aws!First(Aws!Attached(net)))
               ELSE Aws!Return /\ UNCHANGED cloud
            /\ UNCHANGED <<db, sets, torn, aborts, lost>>
  <2> DEFINE S == Aws!Attached(net)
  <2>0. /\ Walks("digw", "digwDelete") /\ S # {}
        /\ cloud' = cloud \/ cloud' = Detaching(cloud, S, Aws!First(S))
    <3>1. pc = "digw" /\ UNCHANGED <<db, sets, torn, aborts, lost>> /\ S # {}
      BY <1>99
    <3>2. cloud' = cloud \/ cloud' = Detaching(cloud, S, Aws!First(S))
      BY <1>99
    <3>3. (pc' = "digwDelete" /\ UNCHANGED <<mem, net>>) \/ Aws!Return
      BY <1>99
    <3>4. Aws!Return => pc' = "idle" /\ mem' = NewCluster
      BY AwsSame DEF Aws!Return
    <3>5. Walks("digw", "digwDelete")
      BY <1>0, <3>1, <3>3, <3>4 DEF Walks, Moves, StoreTypes
    <3> QED
      BY <3>1, <3>2, <3>5
  <2> DEFINE g(r) == IF r \in S /\ r.id = Aws!First(S)
                     THEN [r EXCEPT !.in = 0, !.has = @ \ {"attached"}] ELSE r
  <2>1. /\ Walks("digw", "digwDelete") /\ S # {}
        /\ cloud' = cloud \/ cloud' = {g(r) : r \in cloud}
    BY <2>0 DEF Detaching
  <2>2. S \subseteq cloud /\ \A r \in S : r.kind = "igw"
    BY AwsSame DEF Aws!Attached, Aws!In, With, Only, All
  <2> HIDE DEF S
  <2>7. PICK q \in S : q.id = Aws!First(S)
    BY <1>0, <2>1, <2>2, AwsSame, Oldest
  <2> DEFINE n == [q EXCEPT !.in = 0, !.has = @ \ {"attached"}]
  <2>8. n \in Resources(AwsKinds) /\ n.kind = "igw" /\ n.id = q.id /\ "attached" \notin n.has
    BY <1>0, <2>2 DEF AwsSound, Distinct, Resources
  <2>9. {g(r) : r \in cloud} = (cloud \ {q}) \cup {n}
    <3>1. \A r \in cloud : r \in S /\ r.id = Aws!First(S) <=> r = q
      BY <1>0, <2>2, <2>7 DEF AwsSound, Distinct
    <3>2. \A r \in cloud : g(r) = IF r = q THEN n ELSE r
      BY <3>1
    <3> HIDE DEF g, n
    <3> QED
      BY <2>2, <3>2
  <2> HIDE DEF g, n
  <2>10. AwsKeeps(cloud, cloud')
    <3>1. CASE cloud' = cloud
      BY <1>0, <3>1
    <3>2. CASE cloud' = (cloud \ {q}) \cup {n}
      <4>1. q \in cloud /\ q.kind = "igw" /\ n.kind = q.kind /\ n.kind \notin AwsPlacing
        BY <2>2, <2>8 DEF AwsPlacing
      <4> QED
        BY <1>0, <2>8, <3>2, <4>1, Touched
    <3> QED
      BY <2>1, <2>9, <3>1, <3>2
  <2>3. AwsFewer(cloud, cloud') /\ \A i : Vpc(cloud', i) <=> Vpc(cloud, i)
    BY <1>0, <2>10, KeepsFewer
  <2>4. (\A k : There(cloud', k) => There(cloud, k))
            /\ (Complete(cloud', "eip") => Complete(cloud, "eip"))
    BY <2>1, <2>2, <2>8, <2>9 DEF There, Complete
  <2>5. "digw" \in AwsDelete /\ "digwDelete" \in AwsDelete
            /\ ("digwDelete" \in AwsInVpc => "digw" \in AwsInVpc)
    BY DEF AwsDelete, AwsMaster, AwsNode, AwsBalancer, AwsInVpc, AwsReleased
  <2>6. AwsSure("digw", "digwDelete", cloud')
    BY DEF AwsSure, AwsDelete, AwsMaster, AwsNode, AwsBalancer, AwsInVpc, AwsReleased
  <2> QED
    BY <2>1, <2>3, <2>4, <2>5, <2>6, AwsTakes
<1>100. CASE Aws!Remove("digwDelete", TRUE, Aws!Current("igw"), "digw")
  <2>1. /\ Walks("digwDelete", "digw")
        /\ \/ cloud' = cloud \ Current("igw")
           \/ pc' = "idle" /\ cloud' = cloud
    BY <1>0, <1>100, AwsCalls, AwsSame DEF Aws!Remove, Aws!Decide, Aws!Continue, Aws!Return,
        Walks, Moves, StoreTypes
  <2>2. Current("igw") \subseteq cloud /\ \A r \in Current("igw") : r.kind \notin AwsPlacing
    BY AwsSame DEF AwsPlacing, Current, Only, All
  <2>3. AwsFewer(cloud, cloud') /\ \A i : Vpc(cloud', i) <=> Vpc(cloud, i)
    BY <1>0, <2>1, <2>2, DroppedAside
  <2>4. (\A k : There(cloud', k) => There(cloud, k))
            /\ (Complete(cloud', "eip") => Complete(cloud, "eip"))
    BY <2>1 DEF There, Complete
  <2>5. "digwDelete" \in AwsDelete /\ "digw" \in AwsDelete
            /\ ("digw" \in AwsInVpc => "digwDelete" \in AwsInVpc)
    BY DEF AwsDelete, AwsMaster, AwsNode, AwsBalancer, AwsInVpc, AwsReleased
  <2>6. lost' = 0 /\ pc' # "idle" => AwsSure("digwDelete", "digw", cloud')
    BY DEF AwsSure, AwsDelete, AwsMaster, AwsNode, AwsBalancer, AwsInVpc, AwsReleased
  <2> QED
    BY <2>1, <2>3, <2>4, <2>5, <2>6, AwsTakes
<1>101. CASE Aws!deleteVpc
  <2>1. /\ Walks("dvpcDelete", "dend") /\ Moves("dvpcDelete", "dend") /\ lost' = lost
               /\ torn' = torn
        /\ pc = "dvpcDelete"
        /\ \/ pc' = "idle" /\ cloud' = cloud
           \/ /\ Aws!InVpc(Aws!Contents) = {} /\ Aws!Attached(net) = {}
              /\ pc' = "dend" /\ cloud' = cloud \ {r \in cloud : r.kind = "vpc" /\ r.id = net}
    BY <1>0, <1>101, AwsSame DEF Aws!deleteVpc, Aws!Remove, Aws!Decide, Aws!Continue,
        Aws!Return, Walks, Moves, StoreTypes, Only, All
  <2>2. /\ "dvpcDelete" \in AwsDelete /\ "dend" \in AwsDelete /\ "dend" \notin AwsInVpc
        /\ "dvpcDelete" \in AwsMaster /\ "dvpcDelete" \in AwsNode /\ "dvpcDelete" \in AwsBalancer
        /\ "dvpcDelete" \in AwsReleased /\ "idle" \notin AwsMaster \cup AwsNode \cup AwsBalancer
        /\ "dvpcDelete" \in AwsInVpc /\ "idle" \notin AwsReleased /\ "idle" \notin AwsInVpc
        /\ "dend" \notin AwsReleased
    BY DEF AwsDelete, AwsMaster, AwsNode, AwsBalancer, AwsInVpc, AwsReleased
  <2>3. CASE pc' = "idle" /\ cloud' = cloud
    <3>1. AwsGone'
      BY <2>1, <2>2, <2>3 DEF AwsInv, AwsGone
    <3>2. AwsFewer(cloud, cloud')
      BY <1>0, <2>3, KeepsFewer
    <3> QED
      BY <2>1, <2>2, <2>3, <3>1, <3>2, AwsDeletes
  <2>4. CASE /\ Aws!InVpc(Aws!Contents) = {} /\ Aws!Attached(net) = {}
             /\ pc' = "dend" /\ cloud' = cloud \ {r \in cloud : r.kind = "vpc" /\ r.id = net}
    <3>1. \A r \in cloud : r.kind \in AwsContents => r.in # net
      BY <2>4, AwsSame DEF Aws!InVpc, Aws!In, Aws!Contents, Aws!Instances, Aws!Groups,
          Aws!Subnets,
         Aws!Tables, AwsContents, All
    <3>2. \A r \in cloud : r.kind = "igw" /\ "attached" \in r.has => r.in # net
      BY <2>4, AwsSame DEF Aws!Attached, Aws!In, With, Only, All
    <3>3. AwsFewer(cloud, cloud') /\ \A i : Vpc(cloud', i) <=> Vpc(cloud, i) /\ i # net
      <4>1. \A r \in cloud : r.kind \in AwsContents \/ (r.kind = "igw" /\ "attached" \in r.has)
                => r.in # net
        BY <3>1, <3>2
      <4>2. cloud' = cloud \ {r \in cloud : r.kind = "vpc" /\ r.id = net}
        BY <2>4
      <4>3. AwsFewer(cloud, cloud')
        BY <1>0, <4>1, <4>2, DroppedVpc
      <4>4. \A i : Vpc(cloud', i) <=> Vpc(cloud, i) /\ i # net
        BY <1>0, <4>1, <4>2, DroppedVpc
      <4> QED
        BY <4>3, <4>4
    <3>4. lost = 0 => \A i : ~Vpc(cloud', i)
      BY <1>a, <2>1, <2>2, <3>3 DEF AwsInv, AwsGone
    <3>5. (\A k : There(cloud', k) => There(cloud, k))
              /\ (Complete(cloud', "eip") => Complete(cloud, "eip"))
      BY <2>4 DEF There, Complete
    <3>6. AwsGone'
      BY <2>1, <2>2, <2>4, <3>4, <3>5 DEF AwsInv, AwsGone
    <3> QED
      BY <2>1, <2>2, <2>4, <3>3, <3>6, AwsDeletes
  <2> QED
    BY <2>1, <2>3, <2>4
<1> QED
  BY <1>1, <1>2, <1>3, <1>4, <1>5, <1>6, <1>7, <1>8, <1>9, <1>10, <1>11, <1>12, <1>13, <1>14,
     <1>15, <1>16, <1>17, <1>18, <1>19, <1>20, <1>21, <1>22, <1>23, <1>24, <1>25, <1>26,
     <1>27, <1>28, <1>29, <1>30, <1>31, <1>32, <1>33, <1>34, <1>35, <1>36, <1>37, <1>38,
     <1>39, <1>40, <1>41, <1>42, <1>43, <1>44, <1>45, <1>46, <1>47, <1>48, <1>49, <1>50,
     <1>51, <1>52, <1>53, <1>54, <1>55, <1>56, <1>57, <1>58, <1>59, <1>60, <1>61, <1>62,
     <1>63, <1>64, <1>65, <1>66, <1>67, <1>68, <1>69, <1>70, <1>71, <1>72, <1>73, <1>74,
     <1>75, <1>76, <1>77, <1>78, <1>79, <1>80, <1>81, <1>82, <1>83, <1>84, <1>85, <1>86,
     <1>87, <1>88, <1>89, <1>90, <1>91, <1>92, <1>93, <1>94, <1>95, <1>96, <1>97, <1>98,
     <1>99, <1>100, <1>101
  DEF Aws!Next, Aws!Step, Aws!Environment, Aws!Prepare, Aws!Master, Aws!Teardown, Aws!IamMaster,
      Aws!IamNode, Aws!setupPublicSubnet, Aws!setupPrivateSubnet, Aws!ensureRouteTable,
      Aws!setupRouteTable, Aws!tagRouteTable, Aws!setupSecurityGroups, Aws!createSecurityGroup,
      Aws!deleteIAMProfile,
      Aws!ApplyDelete, Aws!deleteInternetGateway, Detaching

-----------------------------------------------------------------------------
(* All providers *)

\* A new cluster, in an empty cloud.
LEMMA SelfHostedInit == GetCloudManager => SelfHostedInv
<1> SUFFICES ASSUME GetCloudManager PROVE SelfHostedInv
  OBVIOUS
<1>1. /\ pc = "idle" /\ db = NewCluster /\ mem = NewCluster /\ cloud = {} /\ ctl = "none"
      /\ sets = FALSE /\ torn = FALSE /\ aborts = 0 /\ lost = 0
      /\ provider \in {"aws", "azure", "gce", "linode", "packet"}
  BY DEF GetCloudManager, Init
<1>2. /\ NewCluster.phase = "Pending" /\ NewCluster.del = FALSE /\ NewCluster.endp = FALSE
      /\ NewCluster.ids = {}
  BY DEF NewCluster, Cluster
<1>3. StoreTypes
  BY <1>1, <1>2, NewIsCluster DEF StoreTypes
<1>4. \A k, m, i : ~There(cloud, k) /\ ~Has(cloud, k, m) /\ ~Id(cloud, k, i)
  BY <1>1 DEF There, Has, Id
<1>5. \A kinds : Sound(cloud, kinds)
  BY <1>1 DEF Sound, Unique
<1>6. \A kinds : Distinct(cloud, kinds)
  BY <1>1, FS_EmptySet DEF Distinct
<1>7. \A k : Count(cloud, k) = 0
  BY <1>4, <1>6, Counted
<1>8. AzureInv
  BY <1>1, <1>3, <1>4, <1>5
  DEF AzureInv, Phased, AzureGone, AzurePrepare, AzureDelete
<1>9. GceInv
  BY <1>1, <1>3, <1>4, <1>5
  DEF GceInv, Phased, GceGone, GcePrepare, GceDelete, GceCluster, GceSsh, GceApi, GceDisk,
      GceBalancer
<1>10. LinodeInv
  BY <1>1, <1>2, <1>3, <1>4, <1>5
  DEF LinodeInv, Phased, LinodeKnown, LinodeGone, LinodePrepare, LinodeDelete, LinodeMaster,
      LinodeBalancer
<1>11. PacketInv
  <2>1. PacketPaid
    BY <1>1, <1>7 DEF PacketPaid
  <2>2. PacketKnown /\ PacketGone
    BY <1>1, <1>2, <1>4 DEF PacketKnown, PacketGone, PacketDelete
  <2>3. Phased(PacketPrepare, PacketDelete)
    BY <1>1 DEF Phased, PacketPrepare, PacketDelete
  <2> QED
    BY <1>3, <1>6, <2>1, <2>2, <2>3 DEF PacketInv
<1>12. AwsInv
  <2>1. \A i : ~Vpc(cloud, i)
    BY <1>1 DEF Vpc
  <2>2. AwsSound(cloud)
    BY <1>1, <1>6 DEF AwsSound, Anchored
  <2>3. \A k \in PlaceKinds : Placed(cloud, k) = 0
    BY <2>1, <2>2, AwsCounted
  <2>4. /\ pc \notin AwsPrepare /\ pc \notin AwsDelete /\ pc \notin AwsBuild \cup AwsInVpc
        /\ pc \notin AwsSubnets /\ pc \notin AwsAddress /\ pc \notin AwsMaster
               /\ pc \notin AwsNode
        /\ pc \notin AwsBalancer /\ pc \notin AwsReleased
    BY <1>1 DEF AwsPrepare, AwsIam, AwsBuild, AwsSubnets, AwsAddress, AwsTables, AwsGroups,
       AwsDelete, AwsMaster, AwsNode, AwsBalancer, AwsInVpc, AwsReleased
  <2>5. AwsKnown
    BY <1>1, <2>4 DEF AwsKnown
  <2>6. AwsPaid
    BY <1>1, <1>7, <2>3, <2>4 DEF AwsPaid
  <2>7. AwsGone
    BY <1>1, <2>1, <2>4 DEF AwsGone, Complete
  <2>8. Phased(AwsPrepare, AwsDelete)
    BY <1>1, <2>4 DEF Phased
  <2>9. Settled(cloud) /\ Chain(cloud)
    BY <1>1 DEF Settled, Chain
  <2> QED
    BY <1>3, <2>2, <2>5, <2>6, <2>7, <2>8, <2>9 DEF AwsInv
<1> QED
  BY <1>1, <1>8, <1>9, <1>10, <1>11, <1>12 DEF SelfHostedInv

\* Whatever the provider, every step keeps the invariant.
LEMMA SelfHostedStep == SelfHostedInv /\ [Next]_allVars => SelfHostedInv'
<1> SUFFICES ASSUME SelfHostedInv, [Next]_allVars PROVE SelfHostedInv'
  OBVIOUS
<1>1. CASE Next
  <2>1. provider' = provider
    BY <1>1 DEF Next, Is, OnlyCmd
  <2>2. CASE provider = "aws" /\ Aws!Next
    BY <2>1, <2>2, AwsStep DEF SelfHostedInv
  <2>3. CASE provider = "azure" /\ Azure!Next
    BY <2>1, <2>3, AzureStep DEF SelfHostedInv
  <2>4. CASE provider = "gce" /\ Gce!Next
    BY <2>1, <2>4, GceStep DEF SelfHostedInv
  <2>5. CASE provider = "linode" /\ Linode!Next
    BY <2>1, <2>5, LinodeStep DEF SelfHostedInv
  <2>6. CASE provider = "packet" /\ Packet!Next
    BY <2>1, <2>6, PacketStep DEF SelfHostedInv
  <2> QED
    BY <1>1, <2>2, <2>3, <2>4, <2>5, <2>6 DEF Next, Is, OnlyCmd
<1>2. CASE UNCHANGED allVars
  <2>1. /\ UNCHANGED <<pc, db, mem, cloud, net, cur, sets, torn, aborts, lost>>
        /\ UNCHANGED <<provider, ctl>>
    BY <1>2 DEF allVars, vars
  <2>2. StoreTypes => StoreTypes'
    BY <2>1 DEF StoreTypes
  <2>3. AzureInv => AzureInv'
    BY <2>1, <2>2 DEF AzureInv, Phased, AzureGone
  <2>4. GceInv => GceInv'
    BY <2>1, <2>2 DEF GceInv, Phased, GceGone
  <2>5. LinodeInv => LinodeInv'
    BY <2>1, <2>2 DEF LinodeInv, Phased, LinodeKnown, LinodeGone
  <2>6. PacketInv => PacketInv'
    BY <2>1, <2>2 DEF PacketInv, Phased, PacketPaid, PacketKnown, PacketGone
  <2>7. AwsInv => AwsInv'
    BY <2>1, <2>2 DEF AwsInv, Phased, AwsKnown, AwsPaid, AwsGone
  <2> QED
    BY <2>1, <2>3, <2>4, <2>5, <2>6, <2>7 DEF SelfHostedInv
<1> QED
  BY <1>1, <1>2

\* One of a kind.
LEMMA UniqueCount ==
    ASSUME NEW c, Unique(c), NEW k
    PROVE  Cardinality(Of(c, k)) <= 1
<1>1. CASE Of(c, k) = {}
  BY <1>1, FS_EmptySet
<1>2. CASE Of(c, k) # {}
  <2>1. PICK r : r \in Of(c, k)
    BY <1>2
  <2>2. Of(c, k) = {r}
    BY <2>1 DEF Of, Unique
  <2>3. Cardinality({r}) = 1
    BY FS_Singleton, Zenon
  <2>4. Cardinality(Of(c, k)) = 1
    BY <2>2, <2>3, Zenon
  <2> QED
    BY <2>4
<1> QED
  BY <1>1, <1>2

\* The modules of the providers count alike.
LEMMA SameCount ==
    \A S : /\ Aws!Cardinality(S) = Cardinality(S) /\ Azure!Cardinality(S) = Cardinality(S)
           /\ Packet!Cardinality(S) = Cardinality(S)
BY Zenon DEF Aws!Cardinality, Azure!Cardinality, Packet!Cardinality, Cardinality

\* The invariant implies that nothing exists twice that was not paid for.
LEMMA InvNoTwins == SelfHostedInv => NoTwins
<1> SUFFICES ASSUME SelfHostedInv PROVE NoTwins
  OBVIOUS
<1>1. ASSUME provider = "azure" PROVE Azure!NoTwins
  <2>1. Unique(cloud)
    BY <1>1 DEF SelfHostedInv, AzureInv, Sound
  <2>2. \A k : Azure!Only(k) = Of(cloud, k)
    BY AzureSame DEF Only, All, Of
  <2> QED
    BY <2>1, <2>2, UniqueCount, SameCount DEF Azure!NoTwins
<1>2. ASSUME provider = "gce" PROVE Gce!NoTwins
  BY <1>2 DEF SelfHostedInv, GceInv, Sound, Unique, Gce!NoTwins
<1>3. ASSUME provider = "linode" PROVE Linode!NoTwins
  BY <1>3 DEF SelfHostedInv, LinodeInv, Sound, Unique, Linode!NoTwins
<1>4. ASSUME provider = "packet" PROVE Packet!NoTwins
  <2>1. PacketPaid /\ Distinct(cloud, PacketKinds) /\ lost \in Nat
    BY <1>4 DEF SelfHostedInv, PacketInv, StoreTypes
  <2>2. \A k : Packet!Only(k) = Of(cloud, k)
    BY PacketSame DEF Only, All, Of
  <2>3. \A k : Count(cloud, k) \in Nat
    BY <2>1, Counted
  <2>4. \A k \in {"key", "master", "worker"} : Count(cloud, k) <= 1 + lost
    BY <2>1, <2>3 DEF PacketPaid
  <2> QED
    BY <2>2, <2>4, SameCount DEF Packet!NoTwins, Count
<1>5. ASSUME provider = "aws" PROVE Aws!NoTwins
  <2>1. AwsPaid /\ AwsSound(cloud) /\ lost \in Nat
    BY <1>5 DEF SelfHostedInv, AwsInv, StoreTypes
  <2>2. /\ \A k : Aws!Only(k) = Of(cloud, k)
        /\ \A k : Aws!Tagged(Aws!Only(k)) = {r \in cloud : r.kind = k /\ AwsTags \subseteq r.has}
    BY AwsSame DEF Aws!Tagged, Aws!Tags, AwsTags, Only, All, Of
  <2>3. Cardinality(Aws!Only("nat")) <= 1 + lost
    BY <2>1, <2>2 DEF AwsPaid, Count
  <2>4. ASSUME NEW k \in {"subnet-public", "subnet-private"}
        PROVE  Cardinality(Aws!Tagged(Aws!Only(k))) <= 1 + lost
    <3>1. IsFiniteSet(Of(cloud, k))
      BY <2>1, Counted DEF AwsSound
    <3>2. Aws!Tagged(Aws!Only(k)) \in SUBSET Of(cloud, k)
      BY <2>2 DEF Of
    <3>3. /\ Cardinality(Aws!Tagged(Aws!Only(k))) <= Cardinality(Of(cloud, k))
          /\ IsFiniteSet(Aws!Tagged(Aws!Only(k)))
      BY <3>1, <3>2, FS_Subset
    <3>4. Cardinality(Aws!Tagged(Aws!Only(k))) \in Nat /\ Cardinality(Of(cloud, k)) \in Nat
      BY <3>1, <3>3, FS_CardinalityType
    <3>5. Cardinality(Of(cloud, k)) <= 1
      BY <2>1 DEF AwsPaid, Count
    <3> QED
      BY <2>1, <3>3, <3>4, <3>5
  <2>5. ASSUME NEW k \in {"vpc", "rt-public", "rt-private"}
        PROVE  Cardinality(Aws!Tagged(Aws!Only(k))) <= 1 + lost
    <3> DEFINE p == IF k = "vpc" THEN "none" ELSE k
    <3>1. p \in PlaceKinds
      BY DEF PlaceKinds
    <3>2. Aws!Tagged(Aws!Only(k)) \in SUBSET Places(cloud, p)
      <4>1. \A i : ~Table(cloud, "none", i)
        BY <2>1 DEF Table, AwsSound, Distinct, Resources, AwsKinds
      <4> QED
        BY <2>2, <4>1 DEF Places
    <3> HIDE DEF p
    <3>3. IsFiniteSet(Places(cloud, p)) /\ Placed(cloud, p) \in Nat
              /\ Placed(cloud, p) <= 1 + lost
      BY <2>1, <3>1, PlacesFinite DEF AwsPaid
    <3>4. /\ Cardinality(Aws!Tagged(Aws!Only(k))) <= Placed(cloud, p)
          /\ IsFiniteSet(Aws!Tagged(Aws!Only(k)))
      BY <3>2, <3>3, FS_Subset DEF Placed
    <3>5. Cardinality(Aws!Tagged(Aws!Only(k))) \in Nat
      BY <3>4, FS_CardinalityType
    <3> QED
      BY <2>1, <3>3, <3>4, <3>5
  <2> QED
    BY <2>3, <2>4, <2>5, SameCount DEF Aws!NoTwins
<1> QED
  BY <1>1, <1>2, <1>3, <1>4, <1>5 DEF NoTwins

\* The invariant implies that a deletion that has succeeded leaves no network.
LEMMA InvNetworkGone == SelfHostedInv => NetworkGone
<1> SUFFICES ASSUME SelfHostedInv PROVE NetworkGone
  OBVIOUS
<1>1. ASSUME provider = "azure" PROVE Azure!NetworkGone
  <2>1. AzureGone
    BY <1>1 DEF SelfHostedInv, AzureInv
  <2>2. Has(cloud, "rg", "deleting") => Azure!With("rg", "deleting") # {}
    BY AzureSame DEF Has, With, Only, All
  <2> QED
    BY <2>1, <2>2 DEF AzureGone, Azure!NetworkGone, There
<1>2. ASSUME provider = "gce" PROVE Gce!NetworkGone
  <2>1. GceGone /\ cloud \subseteq Resources(GceKinds)
    BY <1>2 DEF SelfHostedInv, GceInv, Sound
  <2>2. \A r \in cloud : r.kind \in GceKinds
    BY <2>1 DEF Resources
  <2> QED
    BY <2>1, <2>2 DEF GceGone, There, GceKinds, Gce!NetworkGone, Gce!Project, Gce!Balancer
<1>3. ASSUME provider = "linode" PROVE Linode!NetworkGone
  <2>1. LinodeGone /\ \A r \in cloud : r.kind \in LinodeKinds
    BY <1>3 DEF SelfHostedInv, LinodeInv, Sound, Resources
  <2> QED
    BY <2>1 DEF LinodeGone, There, LinodeKinds, Linode!NetworkGone
<1>4. ASSUME provider = "packet" PROVE Packet!NetworkGone
  <2>1. PacketGone /\ \A r \in cloud : r.kind \in PacketKinds
    BY <1>4 DEF SelfHostedInv, PacketInv, Distinct, Resources
  <2> QED
    BY <2>1 DEF PacketGone, There, PacketKinds, Packet!NetworkGone
<1>5. ASSUME provider = "aws" PROVE Aws!NetworkGone
  <2> SUFFICES ASSUME torn, lost = 0, NEW r \in cloud
               PROVE  \/ r.kind = "vpc" /\ ~(AwsTags \subseteq r.has)
                      \/ r.kind = "igw" /\ "attached" \notin r.has
                      \/ r.kind = "eip" /\ ~(AwsTags \subseteq r.has)
    BY DEF Aws!NetworkGone, Aws!Tags, AwsTags
  <2>1. AwsGone /\ Anchored(cloud) /\ r.kind \in AwsKinds
    BY <1>5 DEF SelfHostedInv, AwsInv, AwsSound, Distinct, Resources
  <2>2. /\ \A i : ~Vpc(cloud, i)
        /\ ~There(cloud, "key") /\ ~There(cloud, "iam-master") /\ ~There(cloud, "iam-node")
        /\ ~Complete(cloud, "eip")
    BY <2>1 DEF AwsGone
  <2>3. r.kind \notin AwsContents /\ r.kind \notin {"key", "iam-master", "iam-node"}
    BY <2>1, <2>2 DEF Anchored, There
  <2>4. r.kind \in {"vpc", "igw", "eip"}
    BY <2>1, <2>3 DEF AwsKinds, AwsContents
  <2>5. r.kind = "igw" => "attached" \notin r.has
    BY <2>1, <2>2 DEF Anchored
  <2>6. r.kind = "vpc" => ~(AwsTags \subseteq r.has)
    BY <2>2 DEF Vpc
  <2>7. r.kind = "eip" => ~(AwsTags \subseteq r.has)
    BY <2>2 DEF Complete
  <2> QED
    BY <2>4, <2>5, <2>6, <2>7
<1> QED
  BY <1>1, <1>2, <1>3, <1>4, <1>5 DEF NetworkGone

\* Every state that commands, failures and actuators can reach is one in which
\* the cloud holds what the step that PrepareCloud, EnsureMaster or ApplyDelete
\* has reached says.
THEOREM SelfHostedInvariant == Spec => []SelfHostedInv
BY SelfHostedInit, SelfHostedStep, PTL DEF Spec

\* Whatever fails and however often apply is run again, for any bounds: on
\* Azure, GCE and Linode nothing is built twice; on Packet and AWS two of a kind
\* that look-ups can see need an error that the code has only logged, one for
\* each.
THEOREM SelfHostedNoTwins == Spec => []NoTwins
BY SelfHostedInvariant, InvNoTwins, PTL

\* When ApplyDelete has marked the cluster Deleted and no error was only logged
\* on the way (on Azure, whatever was logged), what PrepareCloud and
\* EnsureMaster have made is gone or on its way out, except what the module of
\* the provider names.
THEOREM SelfHostedNetworkGone == Spec => []NetworkGone
BY SelfHostedInvariant, InvNetworkGone, PTL
=============================================================================
