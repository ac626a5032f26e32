-------------------------- MODULE ClusterLifecycle --------------------------
(***************************************************************************)
(* The life of one cluster: the pharmer commands that create, apply, edit  *)
(* and delete it, run by processes (CLI invocations or apiserver handlers) *)
(* against the vfs object store, with the DigitalOcean provider below      *)
(* cloud.Apply.                                                            *)
(*                                                                         *)
(* A process holds an in-memory copy of the cluster (scope.Cluster) and    *)
(* moves through the steps of its command; one action per call that        *)
(* changes persistent state.  A call that fails makes the command return   *)
(* an error and a process can be killed at any point: both are Abort, as   *)
(* both leave the store and the cloud as they are.  Errors that the code   *)
(* only logs are explicit alternatives, counted in `lost'.                 *)
(*                                                                         *)
(* One call of a store method is one atomic step.                          *)
(***************************************************************************)
EXTENDS Naturals, FiniteSets

CONSTANTS
    Workers,      \* processes running pharmer commands
    Serial,       \* TRUE: commands are run one at a time
    NodeGroups,   \* names of machine sets
    Versions,     \* values of the part of the spec that a user edits
    MasterCount,  \* Spec.Config.MasterCount
    MaxVMs,       \* bound: leader droplets that exist at once
    MaxAborts,    \* bound: commands that fail or are killed half way
    MaxLost       \* bound: cloud or kube API errors that are only logged

ASSUME ConstantsAssumption ==
    /\ Serial \in BOOLEAN
    /\ MasterCount \in Nat
    /\ MaxVMs \in Nat
    /\ MaxAborts \in Nat
    /\ MaxLost \in Nat

VARIABLES
    db,        \* the stored cluster object
    certs,     \* how many of the key pairs (see NumCerts) are stored
    machines,  \* how many master Machine objects are stored
    msets,     \* the stored MachineSet objects
    infra,     \* cloud: which of the SSH key and the load balancer exist
    vms,       \* cloud: number of droplets named <cluster>-master-0
    nodes,     \* cloud: node groups that have worker droplets
    addon,     \* kube: the cluster-api controller is deployed
    ksets,     \* kube: MachineSet objects inside the cluster
    pc,        \* next step of each process
    mem,       \* each process's scope.Cluster
    ix,        \* index of each process's current loop
    sets,      \* machine sets each process has yet to handle
    aborts,    \* commands that ended with an error or were killed
    lost       \* errors that were only logged

storeVars == <<db, certs, machines, msets>>
cloudVars == <<infra, vms, nodes>>
kubeVars  == <<addon, ksets>>
procVars  == <<pc, mem, ix, sets>>
vars == <<storeVars, cloudVars, kubeVars, procVars, aborts, lost>>

-----------------------------------------------------------------------------
(* Data *)

\* ClusterPhase; "None" stands for a cluster that is not in the store.
Phases == {"None", "Pending", "Ready", "Deleting", "Deleted"}

NoVersion == "none"

\* The parts of api.Cluster that the control flow looks at: Status.Phase,
\* DeletionTimestamp, whether Spec.ClusterAPI.Status.APIEndpoints is filled
\* in, and the user-editable rest of the spec.
Clusters == [phase : Phases, del : BOOLEAN, endp : BOOLEAN,
             ver : Versions \cup {NoVersion}]

NoCluster == [phase |-> "None", del |-> FALSE, endp |-> FALSE,
              ver |-> NoVersion]

\* A stored MachineSet: absent, present, or present with a DeletionTimestamp.
SetStates == {"absent", "stored", "deleting"}

NoSets == [g \in NodeGroups |-> "absent"]

\* ca, front-proxy-ca, sa, etcd-ca and the ssh key, created in this order.
NumCerts == 5

CreateSteps == {"store", "certs", "update", "masters", "nodes"}
ApplySteps  == {"key", "lb", "sku", "vm", "create", "save", "wait", "addon",
                "provider", "ready", "scale"}
DeleteSteps == {"dsets", "dworkers", "dstatus", "dmaster", "dkey", "dlb",
                "dsave"}
Steps == {"idle", "delete", "edit", "applied"} \cup CreateSteps
           \cup ApplySteps \cup DeleteSteps

-----------------------------------------------------------------------------
(* The cluster store (vfs): what each method writes *)

Stored == db.phase # "None"

\* Update overwrites the whole object, whatever is stored.
Update(obj) == obj

\* UpdateStatus re-reads the object and replaces its Status only.
UpdateStatus(obj) == [db EXCEPT !.phase = obj.phase]

\* Mutant of CertExists: CreateCertsKeys accepts the key pairs of an earlier
\* cluster of the same name.
CertOverwritten(i) == FALSE

\* certificateFileStore.Create and sshKeyFileStore.Create refuse a name that
\* is already stored.
CertExists(i) == i <= certs

AllCerts == certs = NumCerts

\* The same holds for Machine number i and for MachineSet g.
MachineExists(i) == i < machines
SetExists(g) == msets[g] # "absent"

-----------------------------------------------------------------------------
(* Processes *)

CanStart(w) == /\ pc[w] = "idle"
               /\ Serial => \A v \in Workers : pc[v] = "idle"

Goto(w, step) == pc' = [pc EXCEPT ![w] = step]

\* The command returns; whatever it held in memory is gone.
Stop(w) == /\ pc' = [pc EXCEPT ![w] = "idle"]
           /\ mem' = [mem EXCEPT ![w] = NoCluster]
           /\ ix' = [ix EXCEPT ![w] = 0]
           /\ sets' = [sets EXCEPT ![w] = NoSets]

\* A call fails and its error is returned, or the process is killed.
Abort(w) == /\ pc[w] # "idle"
            /\ aborts < MaxAborts
            /\ aborts' = aborts + 1
            /\ Stop(w)
            /\ UNCHANGED <<storeVars, cloudVars, kubeVars, lost>>

\* The process is done with machine set g.
Handled(w, g) == sets' = [sets EXCEPT ![w] = [@ EXCEPT ![g] = "absent"]]

\* An error is only logged and the command goes on.
Lose == lost < MaxLost /\ lost' = lost + 1

-----------------------------------------------------------------------------
(* pharmer create cluster: CreateCluster, then CreateMachineSets *)

\* setDefaultCluster resets the object to a fresh Pending one, then the store
\* is asked whether the cluster exists already.
CreateCluster(w) ==
    /\ CanStart(w)
    /\ \E v \in Versions, gs \in SUBSET NodeGroups :
         /\ mem' = [mem EXCEPT ![w] = [phase |-> "Pending", del |-> FALSE,
                                       endp |-> FALSE, ver |-> v]]
         /\ sets' = [sets EXCEPT ![w] =
                       [g \in NodeGroups |-> IF g \in gs THEN "stored" ELSE "absent"]]
    /\ ix' = [ix EXCEPT ![w] = 1]
    /\ Goto(w, IF Stored THEN "certs" ELSE "store")
    /\ UNCHANGED <<storeVars, cloudVars, kubeVars, aborts, lost>>

StoreCluster(w) ==
    /\ pc[w] = "store"
    /\ ~Stored
    /\ db' = mem[w]
    /\ Goto(w, "certs")
    /\ UNCHANGED <<certs, machines, msets, cloudVars, kubeVars, mem, ix, sets,
                   aborts, lost>>

\* CreateCertsKeys, one key pair at a time.
CreateCert(w) ==
    /\ pc[w] = "certs"
    /\ ~CertExists(ix[w])
    /\ certs' = ix[w]
    /\ \/ /\ ix[w] < NumCerts
          /\ ix' = [ix EXCEPT ![w] = @ + 1]
          /\ UNCHANGED pc
       \/ /\ ix[w] = NumCerts
          /\ ix' = [ix EXCEPT ![w] = 0]
          /\ Goto(w, "update")
    /\ UNCHANGED <<db, machines, msets, cloudVars, kubeVars, mem, sets, aborts, lost>>

\* createCluster: the provider's defaults, then the whole object is written.
SaveNewCluster(w) ==
    /\ pc[w] = "update"
    /\ db' = Update(mem[w])
    /\ Goto(w, "masters")
    /\ UNCHANGED <<certs, machines, msets, cloudVars, kubeVars, mem, ix, sets,
                   aborts, lost>>

\* createMasterMachines: Machine objects 0 .. MasterCount-1.
CreateMaster(w) ==
    /\ pc[w] = "masters"
    /\ ix[w] < MasterCount
    /\ ~MachineExists(ix[w])
    /\ machines' = ix[w] + 1
    /\ ix' = [ix EXCEPT ![w] = @ + 1]
    /\ UNCHANGED <<db, certs, msets, cloudVars, kubeVars, pc, mem, sets, aborts, lost>>

MastersCreated(w) ==
    /\ pc[w] = "masters"
    /\ ix[w] = MasterCount
    /\ Goto(w, "nodes")
    /\ UNCHANGED <<storeVars, cloudVars, kubeVars, mem, ix, sets, aborts, lost>>

\* pharmer create nodegroup: CreateMachineSets on its own.  getMachineSet needs
\* a cloud manager, which loads every certificate.
CreateNodeGroups(w) ==
    /\ CanStart(w)
    /\ Stored
    /\ AllCerts
    /\ \E gs \in SUBSET NodeGroups \ {{}} :
         sets' = [sets EXCEPT ![w] =
                    [g \in NodeGroups |-> IF g \in gs THEN "stored" ELSE "absent"]]
    /\ Goto(w, "nodes")
    /\ UNCHANGED <<storeVars, cloudVars, kubeVars, mem, ix, aborts, lost>>

\* One MachineSet, in the order of a Go map.
CreateMachineSet(w, g) ==
    /\ pc[w] = "nodes"
    /\ sets[w][g] # "absent"
    /\ ~SetExists(g)
    /\ msets' = [msets EXCEPT ![g] = "stored"]
    /\ Handled(w, g)
    /\ UNCHANGED <<db, certs, machines, cloudVars, kubeVars, pc, mem, ix, aborts, lost>>

MachineSetsCreated(w) ==
    /\ pc[w] = "nodes"
    /\ sets[w] = NoSets
    /\ Stop(w)
    /\ UNCHANGED <<storeVars, cloudVars, kubeVars, aborts, lost>>

-----------------------------------------------------------------------------
(* pharmer delete cluster, delete nodegroup, edit cluster *)

\* Mutants of Delete: the phase is not set; the object written has a name and
\* nothing else.
DeleteTimestampOnly(w) ==
    /\ CanStart(w)
    /\ Stored
    /\ mem' = [mem EXCEPT ![w] = [db EXCEPT !.del = TRUE]]
    /\ Goto(w, "delete")
    /\ UNCHANGED <<storeVars, cloudVars, kubeVars, ix, sets, aborts, lost>>

DeleteSkeleton(w) ==
    /\ CanStart(w)
    /\ Stored
    /\ mem' = [mem EXCEPT ![w] = [NoCluster EXCEPT !.del = TRUE, !.phase = "Deleting"]]
    /\ Goto(w, "delete")
    /\ UNCHANGED <<storeVars, cloudVars, kubeVars, ix, sets, aborts, lost>>

\* cloud.Delete: Get, then Update of the whole object read.  The current phase
\* is not looked at.
Delete(w) ==
    /\ CanStart(w)
    /\ Stored
    /\ mem' = [mem EXCEPT ![w] = [db EXCEPT !.del = TRUE, !.phase = "Deleting"]]
    /\ Goto(w, "delete")
    /\ UNCHANGED <<storeVars, cloudVars, kubeVars, ix, sets, aborts, lost>>

SaveDelete(w) ==
    /\ pc[w] = "delete"
    /\ db' = Update(mem[w])
    /\ Stop(w)
    /\ UNCHANGED <<certs, machines, msets, cloudVars, kubeVars, aborts, lost>>

\* DeleteMachineSet only marks the stored object.
DeleteNodeGroup(w) ==
    /\ CanStart(w)
    /\ \E g \in NodeGroups : /\ msets[g] # "absent"
                             /\ msets' = [msets EXCEPT ![g] = "deleting"]
    /\ UNCHANGED <<db, certs, machines, cloudVars, kubeVars, procVars, aborts, lost>>

\* The object is read, then edited in an editor: the preconditions of
\* UpdateCluster let the user change the spec, not metadata or status.
EditCluster(w) ==
    /\ CanStart(w)
    /\ Stored
    /\ \E v \in Versions \ {db.ver} : mem' = [mem EXCEPT ![w] = [db EXCEPT !.ver = v]]
    /\ Goto(w, "edit")
    /\ UNCHANGED <<storeVars, cloudVars, kubeVars, ix, sets, aborts, lost>>

\* Mutant of SaveEdit: the edited object is written with fresh metadata.
SaveEditFreshMeta(w) ==
    /\ pc[w] = "edit"
    /\ db' = Update([mem[w] EXCEPT !.phase = db.phase, !.del = FALSE])
    /\ Stop(w)
    /\ UNCHANGED <<certs, machines, msets, cloudVars, kubeVars, aborts, lost>>

\* updateGeneration takes the status from a fresh read, and everything else
\* (the DeletionTimestamp too) from the edited object.
SaveEdit(w) ==
    /\ pc[w] = "edit"
    /\ db' = Update([mem[w] EXCEPT !.phase = db.phase])
    /\ Stop(w)
    /\ UNCHANGED <<certs, machines, msets, cloudVars, kubeVars, aborts, lost>>

-----------------------------------------------------------------------------
(* pharmer apply *)

\* Get, GetPharmerCerts, and the tests on the phase with which Apply begins.
\* Apply returns at once for a Deleted cluster, and reaches its end without
\* doing anything for one that is neither Pending nor being deleted.
Apply(w) ==
    /\ CanStart(w)
    /\ Stored
    /\ AllCerts
    /\ mem' = [mem EXCEPT ![w] = db]
    /\ sets' = [sets EXCEPT ![w] = msets]
    /\ Goto(w, CASE db.phase = "Deleted" -> "applied"
                 [] db.phase = "Pending" -> "key"
                 [] db.phase \notin {"Deleted", "Pending"} /\ db.del -> "dsets"
                 [] OTHER -> "applied")
    /\ UNCHANGED <<storeVars, cloudVars, kubeVars, ix, aborts, lost>>

Applied(w) == /\ pc[w] = "applied"
              /\ Stop(w)
              /\ UNCHANGED <<storeVars, cloudVars, kubeVars, aborts, lost>>

\* PrepareCloud: the SSH key and the tag are looked up, and created if absent.
ImportPublicKey(w) ==
    /\ pc[w] = "key"
    /\ infra' = infra \cup {"key"}
    /\ Goto(w, "lb")
    /\ UNCHANGED <<storeVars, vms, nodes, kubeVars, mem, ix, sets, aborts, lost>>

\* Mutant of CreateLoadBalancer: the endpoint is set only when the balancer is
\* created, not when it is found.
EndpointOfNewBalancer(w) ==
    /\ pc[w] = "lb"
    /\ infra' = infra \cup {"lb"}
    /\ mem' = [mem EXCEPT ![w].endp = @ \/ "lb" \notin infra]
    /\ Goto(w, "sku")
    /\ UNCHANGED <<storeVars, vms, nodes, kubeVars, ix, sets, aborts, lost>>

\* PrepareCloud: the load balancer is looked up, or created and waited for; its
\* address becomes the API endpoint of the object in memory.
CreateLoadBalancer(w) ==
    /\ pc[w] = "lb"
    /\ infra' = infra \cup {"lb"}
    /\ mem' = [mem EXCEPT ![w].endp = TRUE]
    /\ Goto(w, "sku")
    /\ UNCHANGED <<storeVars, vms, nodes, kubeVars, ix, sets, aborts, lost>>

\* Mutant of GetLeaderMachine: its error is ignored.
AnyLeaderMachine(w) ==
    /\ pc[w] = "sku"
    /\ Goto(w, "vm")
    /\ UNCHANGED <<storeVars, cloudVars, kubeVars, mem, ix, sets, aborts, lost>>

\* Every stored machine gets a provider spec (whose value is not modelled) and is
\* written again: no machine is added or removed.
setMasterSKU == UNCHANGED machines

\* getLeaderMachine fails when <cluster>-master-0 is not stored.
GetLeaderMachine(w) ==
    /\ pc[w] = "sku"
    /\ setMasterSKU
    /\ MachineExists(0)
    /\ Goto(w, "vm")
    /\ UNCHANGED <<db, certs, msets, cloudVars, kubeVars, mem, ix, sets, aborts, lost>>

\* Mutant of InstanceIfExists: the droplet is not looked up.
AlwaysCreate(w) ==
    /\ pc[w] = "vm"
    /\ Goto(w, "create")
    /\ UNCHANGED <<storeVars, cloudVars, kubeVars, mem, ix, sets, aborts, lost>>

\* EnsureMaster: `if d, _ := instanceIfExists(leader); d == nil' - an error of
\* the look-up counts as "no such droplet".
InstanceIfExists(w) ==
    /\ pc[w] = "vm"
    /\ \/ vms > 0 /\ Goto(w, "save") /\ UNCHANGED lost
       \/ vms = 0 /\ Goto(w, "create") /\ UNCHANGED lost
       \/ vms > 0 /\ Goto(w, "create") /\ Lose
    /\ UNCHANGED <<storeVars, cloudVars, kubeVars, mem, ix, sets, aborts>>

CreateInstance(w) ==
    /\ pc[w] = "create"
    /\ vms < MaxVMs
    /\ vms' = vms + 1
    /\ Goto(w, "save")
    /\ UNCHANGED <<storeVars, infra, nodes, kubeVars, mem, ix, sets, aborts, lost>>

\* EnsureMaster: the whole object, now with its endpoint, is written.
SaveMaster(w) ==
    /\ pc[w] = "save"
    /\ db' = Update(mem[w])
    /\ Goto(w, "wait")
    /\ UNCHANGED <<certs, machines, msets, cloudVars, kubeVars, mem, ix, sets,
                   aborts, lost>>

\* The poll succeeds once the droplet runs the control plane.
WaitForReadyMaster(w) ==
    /\ pc[w] = "wait"
    /\ vms > 0
    /\ Goto(w, "addon")
    /\ UNCHANGED <<storeVars, cloudVars, kubeVars, mem, ix, sets, aborts, lost>>

\* CreateCredentials, CreateMachineController and ApplyCluster: everything is
\* created inside the cluster, what is there already is left alone.
CreateMachineController(w) ==
    /\ pc[w] = "addon"
    /\ vms > 0
    /\ addon' = "deployed"
    /\ Goto(w, "provider")
    /\ UNCHANGED <<storeVars, cloudVars, ksets, mem, ix, sets, aborts, lost>>

\* updateProviderStatus, once the controller has filled in the status: the
\* whole object is written again.  The Machine objects created after it do not
\* change what is modelled.
UpdateProviderStatus(w) ==
    /\ pc[w] = "provider"
    /\ addon = "deployed"
    /\ db' = Update(mem[w])
    /\ Goto(w, "ready")
    /\ UNCHANGED <<certs, machines, msets, cloudVars, kubeVars, mem, ix, sets,
                   aborts, lost>>

\* Mutant of MarkReady: the status is written without setting the phase.
MarkNothing(w) ==
    /\ pc[w] = "ready"
    /\ db' = UpdateStatus(mem[w])
    /\ sets' = [sets EXCEPT ![w] = msets]
    /\ Goto(w, "scale")
    /\ UNCHANGED <<certs, machines, msets, cloudVars, kubeVars, mem, ix, aborts, lost>>

\* UpdateUUID checks that the object exists; then the phase is set.
MarkReady(w) ==
    /\ pc[w] = "ready"
    /\ mem' = [mem EXCEPT ![w].phase = "Ready"]
    /\ db' = UpdateStatus(mem'[w])
    /\ sets' = [sets EXCEPT ![w] = msets]
    /\ Goto(w, "scale")
    /\ UNCHANGED <<certs, machines, msets, cloudVars, kubeVars, ix, aborts, lost>>

\* ApplyScale on the machine sets listed at its start.  One that is marked for
\* deletion ends it with an error (see Refused): getMachineSet gives a MachineSet
\* no namespace, and the client refuses to delete by name without one.
ApplyMachineSet(w, g) ==
    /\ pc[w] = "scale"
    /\ sets[w][g] = "stored"
    /\ addon = "deployed"
    /\ ksets' = ksets \cup {g}
    /\ Handled(w, g)
    /\ UNCHANGED <<storeVars, cloudVars, addon, pc, mem, ix, aborts, lost>>

\* Mutant of ScaleApplied: the test of the DeletionTimestamp is missing.
ScaleThenDelete(w) ==
    /\ pc[w] = "scale"
    /\ sets[w] = NoSets
    /\ sets' = [sets EXCEPT ![w] = msets]
    /\ Goto(w, "dsets")
    /\ UNCHANGED <<storeVars, cloudVars, kubeVars, mem, ix, aborts, lost>>

\* Back in Apply, which goes on to the deletion if the object asks for it.
ScaleApplied(w) ==
    /\ pc[w] = "scale"
    /\ sets[w] = NoSets
    /\ sets' = [sets EXCEPT ![w] = msets]
    /\ Goto(w, IF mem[w].del THEN "dsets" ELSE "applied")
    /\ UNCHANGED <<storeVars, cloudVars, kubeVars, mem, ix, aborts, lost>>

-----------------------------------------------------------------------------
(* pharmer apply of a cluster that has a DeletionTimestamp *)

\* Every stored machine set gets zero replicas and a DeletionTimestamp.
MarkMachineSet(w, g) ==
    /\ pc[w] = "dsets"
    /\ sets[w][g] # "absent"
    /\ msets' = [msets EXCEPT ![g] = "deleting"]
    /\ Handled(w, g)
    /\ UNCHANGED <<db, certs, machines, cloudVars, kubeVars, pc, mem, ix, aborts, lost>>

MachineSetsMarked(w) ==
    /\ pc[w] = "dsets"
    /\ sets[w] = NoSets
    /\ Goto(w, "dworkers")
    /\ UNCHANGED <<storeVars, cloudVars, kubeVars, mem, ix, sets, aborts, lost>>

\* deleteAllWorkerMachines: waits until the machine sets are gone from the
\* cluster, but not for the machines; all its errors are only logged.
DeleteAllWorkerMachines(w) ==
    /\ pc[w] = "dworkers"
    /\ \/ /\ ~mem[w].endp \/ vms = 0
          /\ UNCHANGED <<ksets, lost>>
       \/ /\ mem[w].endp /\ vms > 0
          /\ ksets' = {}
          /\ UNCHANGED lost
       \/ /\ mem[w].endp /\ vms > 0
          /\ Lose
          /\ ksets' \in SUBSET ksets
    /\ Goto(w, "dstatus")
    /\ UNCHANGED <<storeVars, cloudVars, addon, mem, ix, sets, aborts>>

\* ApplyDelete: a Ready cluster becomes Deleting; the status is written.
SaveDeleting(w) ==
    /\ pc[w] = "dstatus"
    /\ mem' = [mem EXCEPT ![w].phase = IF @ = "Ready" THEN "Deleting" ELSE @]
    /\ db' = UpdateStatus(mem'[w])
    /\ Goto(w, "dmaster")
    /\ UNCHANGED <<certs, machines, msets, cloudVars, kubeVars, ix, sets, aborts, lost>>

\* Mutants of DeleteDroplets: nothing is deleted by tag; an error of the list of
\* masters is returned instead of logged.
DeleteMastersOnly(w) ==
    /\ pc[w] = "dmaster"
    /\ mem[w].endp
    /\ vms' = 0
    /\ addon' = "absent" /\ ksets' = {}
    /\ Goto(w, "dkey")
    /\ UNCHANGED <<storeVars, infra, nodes, mem, ix, sets, aborts, lost>>

DeleteListedDroplets(w) ==
    /\ pc[w] = "dmaster"
    /\ mem[w].endp
    /\ \/ vms > 0 /\ Goto(w, "dkey") /\ UNCHANGED <<mem, ix, sets>>
       \/ vms = 0 /\ Stop(w)
    /\ vms' = 0 /\ nodes' = {}
    /\ addon' = "absent" /\ ksets' = {}
    /\ UNCHANGED <<storeVars, infra, aborts, lost>>

\* The provider's ApplyDelete: GetAdminClient fails without an endpoint; the
\* droplets are deleted by id and by tag, errors are only logged.  The state
\* kept inside the cluster goes with its master.
DeleteDroplets(w) ==
    /\ pc[w] = "dmaster"
    /\ mem[w].endp
    /\ \/ vms' = 0 /\ nodes' = {} /\ UNCHANGED lost
       \/ vms' \in 0 .. vms /\ nodes' = nodes /\ Lose
    /\ addon' = IF vms' > 0 THEN addon ELSE "absent"
    /\ ksets' = IF vms' > 0 THEN ksets ELSE {}
    /\ Goto(w, "dkey")
    /\ UNCHANGED <<storeVars, infra, mem, ix, sets, aborts>>

DeleteSSHKey(w) ==
    /\ pc[w] = "dkey"
    /\ infra' = infra \ {"key"}
    /\ Goto(w, "dlb")
    /\ UNCHANGED <<storeVars, vms, nodes, kubeVars, mem, ix, sets, aborts, lost>>

\* Mutant of DeleteLoadBalancer: a failure to delete it is ignored.
KeepLoadBalancer(w) ==
    /\ pc[w] = "dlb"
    /\ Goto(w, "dsave")
    /\ UNCHANGED <<storeVars, cloudVars, kubeVars, mem, ix, sets, aborts, lost>>

DeleteLoadBalancer(w) ==
    /\ pc[w] = "dlb"
    /\ infra' = infra \ {"lb"}
    /\ Goto(w, "dsave")
    /\ UNCHANGED <<storeVars, vms, nodes, kubeVars, mem, ix, sets, aborts, lost>>

MarkDeleted(w) ==
    /\ pc[w] = "dsave"
    /\ mem' = [mem EXCEPT ![w].phase = "Deleted"]
    /\ db' = UpdateStatus(mem'[w])
    /\ Goto(w, "applied")
    /\ UNCHANGED <<certs, machines, msets, cloudVars, kubeVars, ix, sets, aborts, lost>>

-----------------------------------------------------------------------------
(* Calls that return an error because of the state they find *)

Refused(w) ==
    \/ pc[w] = "store" /\ Stored
    \/ pc[w] = "certs" /\ CertExists(ix[w])
    \/ pc[w] = "masters" /\ ix[w] < MasterCount /\ MachineExists(ix[w])
    \/ pc[w] = "nodes" /\ \E g \in NodeGroups : sets[w][g] # "absent" /\ SetExists(g)
    \/ pc[w] = "sku" /\ ~MachineExists(0)
    \/ pc[w] = "scale" /\ \E g \in NodeGroups : sets[w][g] = "deleting"
    \/ pc[w] = "dmaster" /\ ~mem[w].endp

Refuse(w) == /\ Refused(w)
             /\ Stop(w)
             /\ UNCHANGED <<storeVars, cloudVars, kubeVars, aborts, lost>>

-----------------------------------------------------------------------------
(* The machine controller inside the cluster (external to pharmer apply) *)

ControllerScaleUp(g) ==
    /\ addon = "deployed" /\ vms > 0
    /\ g \in ksets \ nodes
    /\ nodes' = nodes \cup {g}
    /\ UNCHANGED <<storeVars, infra, vms, kubeVars, procVars, aborts, lost>>

ControllerScaleDown(g) ==
    /\ addon = "deployed" /\ vms > 0
    /\ g \in nodes \ ksets
    /\ nodes' = nodes \ {g}
    /\ UNCHANGED <<storeVars, infra, vms, kubeVars, procVars, aborts, lost>>

-----------------------------------------------------------------------------

Init ==
    /\ db = NoCluster
    /\ certs = 0
    /\ machines = 0
    /\ msets = NoSets
    /\ infra = {}
    /\ vms = 0
    /\ nodes = {}
    /\ addon = "absent"
    /\ ksets = {}
    /\ pc = [w \in Workers |-> "idle"]
    /\ mem = [w \in Workers |-> NoCluster]
    /\ ix = [w \in Workers |-> 0]
    /\ sets = [w \in Workers |-> NoSets]
    /\ aborts = 0
    /\ lost = 0

\* A command that a user starts.
Command(w) == \/ CreateCluster(w) \/ CreateNodeGroups(w) \/ Delete(w)
              \/ DeleteNodeGroup(w) \/ EditCluster(w) \/ Apply(w)

CreateStep(w) == \/ StoreCluster(w) \/ CreateCert(w) \/ SaveNewCluster(w)
                 \/ CreateMaster(w) \/ MastersCreated(w) \/ MachineSetsCreated(w)
                 \/ \E g \in NodeGroups : CreateMachineSet(w, g)

ApplyStep(w) == \/ ImportPublicKey(w) \/ CreateLoadBalancer(w)
                \/ GetLeaderMachine(w) \/ InstanceIfExists(w)
                \/ CreateInstance(w) \/ SaveMaster(w)
                \/ WaitForReadyMaster(w) \/ CreateMachineController(w)
                \/ UpdateProviderStatus(w) \/ MarkReady(w)
                \/ \E g \in NodeGroups : ApplyMachineSet(w, g)
                \/ ScaleApplied(w) \/ Applied(w)

DeleteStep(w) == \/ \E g \in NodeGroups : MarkMachineSet(w, g)
                 \/ MachineSetsMarked(w) \/ DeleteAllWorkerMachines(w)
                 \/ SaveDeleting(w) \/ DeleteDroplets(w) \/ DeleteSSHKey(w)
                 \/ DeleteLoadBalancer(w) \/ MarkDeleted(w)

\* The rest of a command that has been started.
Step(w) == \/ CreateStep(w) \/ ApplyStep(w) \/ DeleteStep(w)
           \/ SaveDelete(w) \/ SaveEdit(w) \/ Refuse(w)

Controller == \E g \in NodeGroups : ControllerScaleUp(g) \/ ControllerScaleDown(g)

Next == \/ \E w \in Workers : Command(w) \/ Step(w) \/ Abort(w)
        \/ Controller

Spec == Init /\ [][Next]_vars

\* A command that was started goes on (the operating system runs it), and the
\* user runs `pharmer apply' again as often as it takes.
FairSpec == /\ Spec
            /\ \A w \in Workers : WF_vars(Step(w)) /\ SF_vars(Apply(w))

-----------------------------------------------------------------------------
(* Properties *)

\* Every variable holds a value of its type.
TypeOK ==
    /\ db \in Clusters
    /\ certs \in 0 .. NumCerts
    /\ machines \in 0 .. MasterCount
    /\ msets \in [NodeGroups -> SetStates]
    /\ infra \in SUBSET {"key", "lb"}
    /\ vms \in 0 .. MaxVMs
    /\ nodes \in SUBSET NodeGroups
    /\ addon \in {"absent", "deployed"}
    /\ ksets \in SUBSET NodeGroups
    /\ pc \in [Workers -> Steps]
    /\ mem \in [Workers -> Clusters]
    /\ ix \in [Workers -> Nat]
    /\ sets \in [Workers -> [NodeGroups -> SetStates]]
    /\ aborts \in 0 .. MaxAborts
    /\ lost \in 0 .. MaxLost

\* A Ready cluster can be managed and torn down: all key pairs, the leader's
\* Machine object and the API endpoint are in the store, the SSH key, the load
\* balancer and the leader droplet are in the cloud.  However often
\* CreateCluster and Apply were interrupted and run again.
ReadyIsComplete ==
    db.phase = "Ready" => /\ AllCerts /\ machines > 0 /\ db.endp
                          /\ infra = {"key", "lb"} /\ vms > 0

\* The DeletionTimestamp and the phase agree: a cluster is Deleting or Deleted
\* exactly when its deletion was requested (cloud.Delete sets both, every later
\* write of either has to keep them together).
DeletionIntent == db.del <=> db.phase \in {"Deleting", "Deleted"}

\* The SSH key and the load balancer in the cloud always belong to a stored
\* cluster that Apply will still work on: never to one whose phase is Deleted
\* (Apply ignores it) or that is not stored.
NoOrphanInfra == infra # {} => db.phase \in {"Pending", "Ready", "Deleting"}

\* When the provider's ApplyDelete writes Deleted, nothing of the cluster is
\* left in the cloud unless an API error was only logged on the way.
TeardownComplete ==
    db.phase = "Deleted" /\ lost = 0 =>
        vms = 0 /\ nodes = {} /\ infra = {}

\* Worker droplets exist only while the store knows the API endpoint, without
\* which ApplyDelete gives up before it deletes any droplet.
WorkersReachable == nodes # {} => db.endp

\* EnsureMaster run again after a crash finds the leader droplet: there is a
\* second one only if an error of the look-up was swallowed.
SingleLeader == vms <= 1 + lost

\* A cluster whose teardown is complete never comes back: no CreateCluster gets
\* past its old certificates, and Apply ignores it.
NoResurrection ==
    [][db.phase = "Deleted" => db'.phase \in {"Deleted", "Deleting"}]_vars

\* A leader droplet exists only for a cluster whose key pairs and leader Machine
\* are all stored: however creating and applying overlap, Apply never builds on
\* a half-created cluster.
MasterHasKeys == vms > 0 => AllCerts /\ machines > 0

\* However commands overlap, cloud resources are released only by a process
\* whose copy of the cluster carries the DeletionTimestamp of a delete command.
TeardownOnlyOnRequest ==
    [][(vms' < vms \/ ~(infra \subseteq infra'))
          => \E w \in Workers : mem[w].del]_vars

\* Process w will write its whole copy of the cluster, unless it is stopped.
WillWrite(w) == pc[w] \in {"edit", "delete", "update"} \cup
                           (ApplySteps \ {"ready", "scale"})

\* A CreateCluster has created every key pair itself and is about to write a new
\* cluster over a leftover one.
StartsOver == \E w \in Workers : pc[w] = "certs" /\ pc'[w] = "update"

Marked == Stored /\ db.del /\ \A w \in Workers : WillWrite(w) => mem[w].del

\* A requested deletion is not forgotten, however commands overlap, once no
\* process is left that read the cluster before the mark was stored and will
\* write all of it: only a CreateCluster that starts over takes the mark away.
DeletionRemembered == [][Marked => Marked' \/ StartsOver]_vars

Settled == Stored /\ \A w \in Workers : WillWrite(w) => mem[w].ver = db.ver

\* The spec that the store and every copy agree on stays, in both, until a user
\* edits it again or a CreateCluster starts over: no delete, apply or status
\* write, overlapping as they like, brings an earlier spec back.
EditKept ==
    [][Settled => \/ Settled' /\ db'.ver = db.ver
                  \/ StartsOver
                  \/ \E w \in Workers : pc[w] = "idle" /\ pc'[w] = "edit"]_vars

\* Whatever was interrupted, running apply again brings a fully stored Pending
\* cluster to Ready (unless it is deleted meanwhile).
CreateConverges ==
    (db.phase = "Pending" /\ AllCerts /\ machines > 0)
        ~> (db.phase = "Ready" \/ db.del)

\* Whatever was interrupted, running apply again completes the deletion of a
\* cluster that has its endpoint in the store.
DeleteConverges ==
    (db.phase = "Deleting" /\ AllCerts /\ db.endp) ~> db.phase = "Deleted"

-----------------------------------------------------------------------------
(* What the documentation says and the code does not do *)

\* hack/gendocs/doc.md: after `pharmer delete cluster', `pharmer apply' applies
\* the delete operation of the cluster.
DeleteApplied == (db.del /\ AllCerts) ~> db.phase = "Deleted"

\* hack/gendocs/doc.md: the deletionTimestamp is set by the delete command, the
\* configuration of a created cluster is modified by edit cluster, and apply then
\* applies them.  So no other command, except a CreateCluster, takes a mark away or
\* changes the configuration.
IntentStays ==
    [][/\ db.del => db'.del \/ \E w \in Workers : pc[w] = "update"
       /\ db'.ver # db.ver =>
            db'.del \/ \E w \in Workers : pc[w] \in {"edit"} \cup CreateSteps]_vars
=============================================================================
