---------------------------- MODULE AksProvider -----------------------------
(***************************************************************************)
(* The AKS provider: a resource group and a managed cluster, created or    *)
(* updated with its agent pool in one request.                             *)
(***************************************************************************)
EXTENDS ManagedProvider

newconnector == Connect("rg", "dsets") /\ UNCHANGED store

-----------------------------------------------------------------------------
(* PrepareCloud *)

getResourceGroup    == Find("rg", Only("rg"), "upsert", "rgMake") /\ UNCHANGED store
ensureResourceGroup ==
    IF Only("rg") = {}
    THEN Make("rgMake", TRUE, "rg", 0, {}, "upsert") /\ UNCHANGED store
    ELSE Check("rgMake", Going("rg") = {}, "upsert") /\ UNCHANGED store

\* Mutant: the cluster is only created.
createAKS(from, to) ==
    Make(from, Only("aks") = {}, "aks", 0, {}, to) /\ UNCHANGED store

\* Creates the cluster, or updates one that is there: a failed one is tried again.
upsertAKS(from, to) ==
    /\ pc = from /\ Continue(to)
    /\ cloud' = (cloud \ Only("aks")) \cup {Resource("aks", 1, 0, {})}
    /\ UNCHANGED <<db, sets, torn, aborts, lost, ng, pki>>

\* Polls until the state is Succeeded, or times out.
WaitForClusterOperation(from, to) == WaitFor(from, Only("aks"), to)

GetAKSAdminClient == Check("client", Up("aks") # {}, "ready") /\ UNCHANGED store

PrepareCloud == upsertAKS("upsert", "wait") \/ WaitForClusterOperation("wait", "client")

\* Reads the cluster and adds the agent pools that are missing or have another size.
\* The one node group here was an argument of upsertAKS and its size never changes:
\* the pool is found, and the only effect left is an error of the read, which Kill
\* covers.  A marked node group is left as it is, and nothing is stored.
ApplyScale == Done("scale")

-----------------------------------------------------------------------------
(* ApplyDelete: two requests, neither waited for; the phase stays Deleting *)

deleteAKS ==
    Mark("daks", Only("rg") # {}, Only("aks"), {"deleting"}, "drg") /\ UNCHANGED store

deleteResourceGroup ==
    Mark("drg", Only("rg") # {}, Only("rg"), {"deleting"}, "dend") /\ UNCHANGED store

Deleted == Finish("dend", db.phase) /\ UNCHANGED store

-----------------------------------------------------------------------------

Prepare ==
    \/ getResourceGroup \/ ensureResourceGroup \/ PrepareCloud \/ GetAKSAdminClient
    \/ ApplyCreate("ready", Up("aks") # {}, "scale") \/ ApplyScale

Step ==
    newconnector \/ Prepare \/ ApplyDelete("daks") \/ deleteAKS \/ deleteResourceGroup \/ Deleted

\* External: the group goes with all that is in it.
Environment ==
    \/ Provision({"aks"})
    \/ Withdraw(Going("aks"))
    \/ Withdraw(IF Going("rg") = {} THEN {} ELSE cloud)

Next == runApplyCmd \/ deleteCluster \/ DeleteMachineSet \/ Step \/ Kill \/ Environment

Spec == ManagedInit /\ [][Next]_managedVars

-----------------------------------------------------------------------------
(* Properties *)

NoTwins == \A r, q \in cloud : r.kind = q.kind => r = q

\* Nothing lives outside a group that Azure is deleting.
NetworkGone == torn /\ cloud # {} => Going("rg") # {}

\* The credentials are asked of the cloud.
GetKubeConfig == Up("aks") # {}
Served == GetKubeConfig

\* Every request can be repeated.
Resumable == NoFaultsLeft

\* Without the group both requests are refused, and the cluster stays Deleting.
Deletable == Only("rg") # {} /\ Going("rg") = {} /\ NoFaultsLeft
=============================================================================
