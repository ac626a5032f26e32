----------------------------- MODULE SelfHosted -----------------------------
(***************************************************************************)
(* The providers that pharmer builds clusters with from machines, behind   *)
(* the interface that cloud.Apply calls: GetCloudManager picks one by the  *)
(* cluster's provider name, once and for all.  DigitalOcean has a module   *)
(* of its own, ClusterLifecycle.                                           *)
(***************************************************************************)
EXTENDS CloudProvider

CONSTANTS
    AwsAborts   \* bound: MaxAborts for AWS, which takes the most steps

ASSUME AwsAbortsAssumption == AwsAborts \in Nat

VARIABLES
    provider,   \* the cluster's cloud provider
    ctl         \* machine actuator of Linode and Packet

allVars == <<vars, provider, ctl>>

Aws    == INSTANCE AwsProvider WITH MaxAborts <- AwsAborts
Azure  == INSTANCE AzureProvider
Gce    == INSTANCE GceProvider
Linode == INSTANCE LinodeProvider
Packet == INSTANCE PacketProvider

Is(p)      == provider = p /\ UNCHANGED provider
OnlyCmd(p) == Is(p) /\ UNCHANGED ctl

GetCloudManager ==
    /\ Init /\ ctl = "none"
    /\ provider \in {"aws", "azure", "gce", "linode", "packet"}

Next ==
    \/ OnlyCmd("aws") /\ Aws!Next
    \/ OnlyCmd("azure") /\ Azure!Next
    \/ OnlyCmd("gce") /\ Gce!Next
    \/ Is("linode") /\ Linode!Next
    \/ Is("packet") /\ Packet!Next

Step ==
    \/ OnlyCmd("aws") /\ Aws!Step
    \/ OnlyCmd("azure") /\ Azure!Step
    \/ OnlyCmd("gce") /\ Gce!Step
    \/ OnlyCmd("linode") /\ Linode!Step
    \/ OnlyCmd("packet") /\ Packet!Step

Environment ==
    \/ OnlyCmd("aws") /\ Aws!Environment
    \/ OnlyCmd("azure") /\ Azure!Environment
    \/ OnlyCmd("gce") /\ Gce!Environment
    \/ Is("linode") /\ Linode!Environment
    \/ Is("packet") /\ Packet!Environment

Spec == GetCloudManager /\ [][Next]_allVars

\* The command goes on until it returns, somebody runs apply again and again,
\* and the cloud and the controllers in the cluster do their part.
FairSpec ==
    /\ Spec
    /\ WF_allVars(Step)
    /\ SF_allVars(Apply /\ UNCHANGED <<provider, ctl>>)
    /\ SF_allVars(Environment)

-----------------------------------------------------------------------------
(* Properties.  Each states a promise of the interface; what it amounts to   *)
(* for a provider is said in the provider's module.                          *)

\* Running apply again, after any failure, does not build things twice.
NoTwins ==
    /\ provider = "aws" => Aws!NoTwins
    /\ provider = "azure" => Azure!NoTwins
    /\ provider = "gce" => Gce!NoTwins
    /\ provider = "linode" => Linode!NoTwins
    /\ provider = "packet" => Packet!NoTwins

\* When ApplyDelete reports success, what the cluster was made of is gone.
NetworkGone ==
    /\ provider = "aws" => Aws!NetworkGone
    /\ provider = "azure" => Azure!NetworkGone
    /\ provider = "gce" => Gce!NetworkGone
    /\ provider = "linode" => Linode!NetworkGone
    /\ provider = "packet" => Packet!NetworkGone

Resumable ==
    \/ provider = "aws" /\ Aws!Resumable
    \/ provider = "azure" /\ Azure!Resumable
    \/ provider = "gce" /\ Gce!Resumable
    \/ provider = "linode" /\ Linode!Resumable
    \/ provider = "packet" /\ Packet!Resumable

\* From every state that a provider can resume from, whatever failures have led
\* there, apply repeated makes the cluster Ready.
CreateConverges ==
    db.phase = "Pending" /\ Resumable /\ pc = "idle" ~> db.phase # "Pending"

Deletable ==
    \/ provider = "aws" /\ Aws!Deletable
    \/ provider = "azure" /\ Azure!Deletable
    \/ provider = "gce" /\ Gce!Deletable
    \/ provider = "linode" /\ Linode!Deletable
    \/ provider = "packet" /\ Packet!Deletable

\* From every state that a provider's ApplyDelete can finish from, apply
\* repeated finishes it.
DeleteConverges ==
    db.del /\ Deletable /\ pc = "idle" ~> torn
=============================================================================
