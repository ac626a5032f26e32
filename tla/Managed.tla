------------------------------ MODULE Managed -------------------------------
(***************************************************************************)
(* The managed providers behind the interface that cloud.Apply calls.      *)
(***************************************************************************)
EXTENDS ManagedProvider

VARIABLES
    provider    \* the cluster's cloud provider

allVars == <<managedVars, provider>>

Eks    == INSTANCE EksProvider
Gke    == INSTANCE GkeProvider
Aks    == INSTANCE AksProvider
Dokube == INSTANCE DokubeProvider

Is(p) == provider = p /\ UNCHANGED provider

GetCloudManager == ManagedInit /\ provider \in {"eks", "gke", "aks", "dokube"}

Next ==
    \/ Is("eks") /\ Eks!Next
    \/ Is("gke") /\ Gke!Next
    \/ Is("aks") /\ Aks!Next
    \/ Is("dokube") /\ Dokube!Next

Step ==
    \/ Is("eks") /\ Eks!Step
    \/ Is("gke") /\ Gke!Step
    \/ Is("aks") /\ Aks!Step
    \/ Is("dokube") /\ Dokube!Step

Environment ==
    \/ Is("eks") /\ Eks!Environment
    \/ Is("gke") /\ Gke!Environment
    \/ Is("aks") /\ Aks!Environment
    \/ Is("dokube") /\ Dokube!Environment

Spec == GetCloudManager /\ [][Next]_allVars

\* The command goes on until it returns, somebody runs apply again and again,
\* and the cloud ends every operation it has begun.
FairSpec ==
    /\ Spec
    /\ WF_allVars(Step)
    /\ SF_allVars(runApplyCmd /\ UNCHANGED provider)
    /\ SF_allVars(Environment)

-----------------------------------------------------------------------------
(* Properties, spelt out in the modules of the providers *)

\* Running apply again, after any failure, does not build things twice.
NoTwins ==
    /\ provider = "eks" => Eks!NoTwins
    /\ provider = "gke" => Gke!NoTwins
    /\ provider = "aks" => Aks!NoTwins
    /\ provider = "dokube" => Dokube!NoTwins

\* When ApplyDelete reports success, what the cluster was made of is gone, or
\* will be, except what the module of the provider names.
NetworkGone ==
    /\ provider = "eks" => Eks!NetworkGone
    /\ provider = "gke" => Gke!NetworkGone
    /\ provider = "aks" => Aks!NetworkGone
    /\ provider = "dokube" => Dokube!NetworkGone

\* The phase Ready is stored before ApplyScale has run.  When the command has
\* ended without a failure, the node group is there and the store holds what
\* GetKubeConfig needs.
Served ==
    db.phase = "Ready" /\ pc = "idle" /\ aborts = 0 /\ lost = 0 =>
        /\ provider = "eks" => Eks!Served
        /\ provider = "gke" => Gke!Served
        /\ provider = "aks" => Aks!Served
        /\ provider = "dokube" => Dokube!Served

Resumable ==
    \/ provider = "eks" /\ Eks!Resumable
    \/ provider = "gke" /\ Gke!Resumable
    \/ provider = "aks" /\ Aks!Resumable
    \/ provider = "dokube" /\ Dokube!Resumable

\* From every state that a provider can resume from, whatever failures have led
\* there, apply repeated makes the cluster Ready.
CreateConverges ==
    db.phase = "Pending" /\ Resumable /\ pc = "idle" ~> db.phase # "Pending"

Deletable ==
    \/ provider = "eks" /\ Eks!Deletable
    \/ provider = "gke" /\ Gke!Deletable
    \/ provider = "aks" /\ Aks!Deletable
    \/ provider = "dokube" /\ Dokube!Deletable

\* From every state that a provider's ApplyDelete can finish from, apply
\* repeated finishes it.
DeleteConverges ==
    db.del /\ Deletable /\ pc = "idle" ~> torn
=============================================================================
