------------------------------ MODULE Versions ------------------------------
(***************************************************************************)
(* GetAvailableUpgrades: which Kubernetes versions a cluster can go to.    *)
(* The answer is put together from the versions that the cluster reports   *)
(* and from two files on a release server, "stable" and "stable-1.x", that *)
(* are fetched one after the other while releases go on, and that may be   *)
(* out of reach.                                                           *)
(*                                                                         *)
(* A version 1.minor.patch is a number that is ordered as the version is;  *)
(* a pre-release 1.minor.0-rc comes right before 1.minor.0.                *)
(***************************************************************************)
EXTENDS Integers, FiniteSetsExt

CONSTANTS
    Minors,    \* minor versions
    MaxPatch,  \* bound: patch releases of a minor version
    Nodes

ASSUME VersionsAssumption == Minors \in (SUBSET Nat) \ {{}} /\ MaxPatch \in 0..8
ASSUME NodesAssumption    == IsFiniteSet(Nodes)

VARIABLES
    released,  \* versions on the release server
    plan       \* the call of GetAvailableUpgrades

versionVars == <<released, plan>>

NoVersion == -1
V(minor, patch)  == 10 * minor + patch + 1
Prerelease(minor) == 10 * minor
Branch(v) == v \div 10

Releases    == {V(m, p) : m \in Minors, p \in 0..MaxPatch}
Prereleases == {Prerelease(m) : m \in Minors}

Plan(pc, c, k, l) ==
    [pc |-> pc, cluster |-> c, kubeadm |-> k, kubelets |-> l, stable |-> NoVersion,
     seen |-> {}, later |-> {}, upgrades |-> {}]

NotPlanning == Plan("idle", NoVersion, NoVersion, <<>>)

-----------------------------------------------------------------------------
(* The release server *)

Newest(versions) == IF versions = {} THEN NoVersion ELSE Max(versions)

\* The files "stable" and "stable-1.x"; the latter is missing before 1.x.0.
StableVersion      == Newest(released)
StableOf(branch)   == Newest({v \in released : Branch(v) = branch})

\* Branches are maintained in parallel; patches of one come in order.
Release ==
    /\ \E v \in Releases \ released :
         /\ v - 1 \in released \cup Prereleases
         /\ released' = released \cup {v}
    /\ UNCHANGED plan

-----------------------------------------------------------------------------
(* GetAvailableUpgrades *)

Known == released \cup Prereleases

\* What the cluster reports: version of the API server, annotation of the first
\* master, and kubelets of the nodes.  Without the annotation there is no plan.
ClusterVersion == Known
KubeadmVersion == Known \cup {NoVersion}
KubeletVersions == [Nodes -> Known]

ReadCluster ==
    /\ plan.pc = "idle"
    /\ \E c \in ClusterVersion, k \in KubeadmVersion, l \in KubeletVersions :
         plan' = IF k = NoVersion THEN NotPlanning ELSE Plan("stable", c, k, l)
    /\ UNCHANGED released

patchVersionBranchExists(cluster, stable) == stable >= cluster
patchUpgradePossible(cluster, patch)      == cluster < patch

\* Mutant: a patch release that is the stable version is a minor upgrade, too.
minorUpgradePossibleAlways(stable, patch) == patch <= stable
minorUpgradePossibleWithPatchRelease(stable, patch) == patch < stable

\* An upgrade, with what PrintAvailableUpgrades tells about it: the kubeadm that
\* is needed, and whether kubelets will have to follow.
computeKubeletVersions(kubelets) == {kubelets[n] : n \in DOMAIN kubelets}

CanUpgradeKubelets(kubelets, to) ==
    LET versions == computeKubeletVersions(kubelets) IN
    \/ Cardinality(versions) > 1
    \/ Cardinality(versions) = 1 /\ to \notin versions

Upgrade(p, to, kubeadm) ==
    [to |-> to, kubeadm |-> kubeadm, kubelets |-> CanUpgradeKubelets(p.kubelets, to)]

MinorUpgrade(p) == Upgrade(p, p.stable, p.stable)
PatchUpgrade(p, patch) ==
    Upgrade(p, patch, IF p.kubeadm >= patch THEN p.kubeadm ELSE patch)

\* The stable version; when it cannot be fetched that of kubeadm is taken for it.
\* Without a branch for patches the only upgrade would be to the stable version.
VersionFromCILabel ==
    /\ plan.pc = "stable"
    /\ \E stable \in {StableVersion, plan.kubeadm} :
         LET p == [plan EXCEPT !.stable = stable, !.seen = released] IN
         plan' = IF patchVersionBranchExists(p.cluster, stable)
                 THEN [p EXCEPT !.pc = "patch"]
                 ELSE [p EXCEPT !.pc = "done",
                                !.upgrades = IF p.cluster < stable
                                             THEN {MinorUpgrade(p)} ELSE {}]
    /\ UNCHANGED released

\* The newest patch of the cluster's own branch.
getBranchFromVersion(v) == Branch(v)

GetAvailableUpgrades ==
    /\ plan.pc = "patch"
    /\ LET patch == StableOf(getBranchFromVersion(plan.cluster)) IN
       plan' = IF patch = NoVersion THEN NotPlanning
               ELSE [plan EXCEPT
                       !.pc = "done", !.later = released,
                       !.upgrades =
                         {PatchUpgrade(plan, v) : v \in
                             {v \in {patch} : patchUpgradePossible(plan.cluster, v)}}
                         \cup
                         {MinorUpgrade(plan) : v \in
                             {v \in {patch} : minorUpgradePossibleWithPatchRelease(plan.stable, v)}}]
    /\ UNCHANGED released

\* The second file cannot be fetched: the call returns the error.
FetchFails ==
    /\ plan.pc = "patch"
    /\ plan' = NotPlanning
    /\ UNCHANGED released

\* The upgrades are printed and forgotten.
PrintAvailableUpgrades ==
    /\ plan.pc = "done"
    /\ plan' = NotPlanning
    /\ UNCHANGED released

VersionInit ==
    /\ released = {V(Min(Minors), 0)}
    /\ plan = NotPlanning

VersionNext ==
    \/ Release
    \/ ReadCluster \/ VersionFromCILabel \/ GetAvailableUpgrades \/ FetchFails
    \/ PrintAvailableUpgrades

-----------------------------------------------------------------------------

\* The upgrades that are offered are the right ones, whatever is released while
\* the two files are fetched: the newest patch of the cluster's branch, if the
\* cluster does not run it, and the newest stable version (kubeadm's, if that is
\* not known), if it is of a later branch.  None leads to an older version, no
\* two to the same branch, none asks for a kubeadm older than the target, and
\* kubelets are mentioned if and only if one of them is not at the target.
UpgradesOffered ==
    plan.pc = "done" =>
        LET inBranch == {v \in plan.later : Branch(v) = Branch(plan.cluster)}
            fetched  == {Newest(plan.seen), plan.kubeadm}
            targets  == {u.to : u \in plan.upgrades}
        IN /\ targets \cap {v \in Known : Branch(v) = Branch(plan.cluster)} =
                {v \in {Newest(inBranch)} : v > plan.cluster}
           /\ targets \ {v \in Known : Branch(v) = Branch(plan.cluster)} =
                {v \in {plan.stable} \cap fetched : Branch(v) > Branch(plan.cluster)}
           /\ \A u \in plan.upgrades :
                /\ u.kubeadm >= u.to
                /\ u.kubelets <=> \E n \in Nodes : plan.kubelets[n] # u.to

=============================================================================
