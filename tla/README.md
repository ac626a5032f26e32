# Formal verification of pharmer

Pharmer creates, changes and deletes Kubernetes clusters on cloud providers. A
cluster is described by objects in a store (files, or a Postgres database); a
command line tool and a message-driven server work on those objects and on the
cloud. Nothing locks a cluster, nothing is transactional, and a command may be
interrupted at any point and run again: what makes pharmer correct is that the
stored objects, the cloud resources and the objects inside the new cluster stay
consistent through all of this.

This directory holds TLA+ models of that logic, the TLC configurations that
check them on small instances, and TLAPS proofs for instances of every size.
`PROJECT.json` lists, for every definition, the source lines it models.

## 1. Inventory

| Component | State it keeps | Operations | What is hard about it |
|---|---|---|---|
| Cluster lifecycle (`cloud/apply.go`, `create.go`, `delete.go`, `clusterapi.go`, `scope.go`) | `scope.Cluster`, a copy of the stored cluster in the memory of one command | CreateCluster, CreateMachineSets, Apply (ApplyCreate, ApplyScale, ApplyDelete), Delete | a dozen steps, each of which can fail; must be repeatable; whole objects written back long after they were read |
| Provider (`cloud/providers/<name>`) | resources in the cloud, found again by name or tag | PrepareCloud, EnsureMaster, ApplyDelete | look-ups that fail, creation in several calls, errors only logged |
| Stores (`store/providers/vfs`, `xorm`) | clusters, machines, machine sets, certificates, SSH keys, credentials, operations | Get, Create, Update, UpdateStatus, Delete | no transactions, no versions; ORM updates that skip zero values; rows selected without their owner |
| Certificates (`cloud/utils/certificates`) | five key pairs per cluster | CreateCertsKeys, GetPharmerCerts | created one by one, refuses to create one twice |
| Commands (`cmds/cloud`, `cmds/credential`) | temporary files of the editor | create, apply, edit, delete, get, use, ssh | edits of an object that others change meanwhile |
| Apiserver (`apiserver`, `cmds/server.go`) | operation rows, messages | handlers of create-, delete- and retry-cluster | redelivery, acks, crashes, several servers |
| Actuators (`machine_actuator.go`, `cluster_actuator.go` of each provider) | droplets, annotations and status of Machine objects | Create, Update, Delete, Exists, Reconcile | retried by a controller that only sees errors |
| Machine sets and node groups | MachineSet objects in the store and in the cluster | create, mark deleted, scale | two copies, one of which only Apply of a Pending cluster updates |
| Upgrades and versions (`cloud/upm.go`, `version.go`) | none | which upgrades are allowed | version arithmetic; ApplyUpgrade is never called |
| Kubeconfig (`cloud/use.go`) | a kubeconfig file | merge, switch context | file shared with other tools |
| Managed providers (`gke`, `aks`, `eks`, `dokube`) | cluster and node pools in the cloud | Apply, delete | long-running cloud operations |

How they interact: a command reads the cluster from the store, makes a scope
from it, and calls the lifecycle functions; these call the provider (through
`cloud.Interface`), the store, and the API of the new cluster. Inside the
cluster a machine controller, which is pharmer too (`pharmer controller`), works
on the MachineSet and Machine objects through the provider's actuators. The
server runs the same lifecycle functions on behalf of messages.

What has to hold, per component:

* Lifecycle: a Ready cluster is complete; a requested deletion is not forgotten,
  and carried out in the end; a Deleted cluster has left nothing in the cloud and
  does not come back; apply may be repeated until it succeeds, without making
  anything twice.
* Apiserver: an operation runs once; a request that was acked is not lost; an
  operation that was applied is recorded as done.
* Stores: two objects that belong together are written together; what one
  owner writes no other owner sees.
* Actuators: one instance per Machine; none without a Machine.
* Providers: apply may be repeated after any failure and ends with a cluster, not
  two; a deletion that reports success has left nothing behind.
* Commands: an edit does not undo what others did meanwhile, and what a user has
  typed or had in his kubeconfig is not lost; the upgrades that are offered exist.

The hazards behind these are listed in `PROJECT.json`, each at its line.

## 2. Modules

| Module | Models |
|---|---|
| `ClusterLifecycle`, `_proofs`, `MCClusterLifecycle` | the commands on one cluster, step by step, with an atomic store and the DigitalOcean provider |
| `Apiserver`, `_proofs` | the NATS handlers of several servers on one cluster |
| `MachineActuator`, `_proofs` | the DigitalOcean machine actuator inside the cluster, under the cluster-api controller |
| `CloudProvider` | what the self-hosted providers share: the command, the calls of a cloud, resources with marks |
| `AwsProvider`, `AzureProvider`, `GceProvider`, `LinodeProvider`, `PacketProvider` | PrepareCloud, EnsureMaster and ApplyDelete of each, call by call; the actuators of Linode and Packet |
| `SelfHosted`, `_proofs` | the five behind the interface that `cloud.Apply` calls, and the promises of that interface |
| `ManagedProvider` | what the managed providers share, extends `CloudProvider` |
| `EksProvider`, `GkeProvider`, `AksProvider`, `DokubeProvider` | PrepareCloud, ApplyScale, node groups and ApplyDelete of each |
| `Managed`, `_proofs` | the four behind the same interface |
| `ObjectStore` | abstract: every call of a store happens at once or not at all |
| `VfsStore`, `_proofs` | the file store, file operation by file operation; implements `ObjectStore` |
| `XormStore`, `_proofs`, `MCXormStore` | the Postgres store with owners, indexes and updates by name |
| `EditCommands` | the three edit commands beside deletions and other edits |
| `UseCommand` | `pharmer use cluster` on a shared kubeconfig |
| `Versions` | GetAvailableUpgrades while releases go on |
| `Commands`, `_proofs`, `MCCommands` | the last three side by side; they share no state |

### ClusterLifecycle

State. `db` is the stored cluster reduced to what control flow depends on: the
phase, whether there is a DeletionTimestamp, whether the API endpoint is set, and
`ver`, which stands for everything a user edits. `certs` and `machines` count the
key pairs and Machine objects, which are created in a fixed order; `msets` are
the stored MachineSets. The cloud is `infra` (SSH key, load balancer), `vms`
(droplets with the name of the first master) and `nodes` (node groups with worker
droplets); inside the cluster there are `addon` (the machine controller) and
`ksets` (MachineSets). Each process has a program counter `pc`, its copy `mem` of
the cluster, a loop index and the machine sets it has still to handle.

Actions. One per call that changes something outside the process; the name of
the step says where the process is in `CreateCluster`, `ApplyCreate`,
`ApplyScale` or `ApplyDelete`.

* `CreateCluster` ... `MachineSetsCreated`: `pharmer create cluster`. The object
  is reset by `setDefaultCluster` *before* the store is asked whether it exists;
  key pairs are created one by one.
* `Delete`, `SaveDelete`; `EditCluster`, `SaveEdit`: a read and a write of the
  whole object with time in between.
* `Apply` ... `ScaleApplied`: `pharmer apply` of a Pending cluster: key, load
  balancer, leader, save, wait, addon, provider status, Ready, scale.
* `MarkMachineSet` ... `MarkDeleted`: apply of a cluster with a
  DeletionTimestamp.
* `Refuse`: calls that return an error because of the state they find (object
  exists already, no endpoint, no leader Machine, machine set without a
  namespace).
* `Abort`: any call fails for another reason, or the process is killed. Both
  leave everything but the process as it is.
* `ControllerScaleUp`, `ControllerScaleDown`: the machine controller (external).

Errors that the code only logs are alternatives of the action, counted in
`lost`.

Abstractions. One call of a store method is one step. `setMasterSKU` writes the
machine type into stored Machines, whose contents are left out: it changes nothing
here. `deleteMachines` also deletes the Machine objects of
masters; that the controller may then remove a master early is not modelled. The
tag of the droplets is informational and left out. Machines other than the
leader are created inside the cluster later and have no droplets here. That a
call of the store is one step is what `VfsStore` examines.

### Apiserver

State. `op` and `msg` are the rows and messages of the operations, `db` and
`keys` the cluster row and its key pairs; every handler (a server and a subject)
has a step, the operation it works on, the state it read and its copy of the
cluster. `runs` and `stale` are history variables, read by properties only: how often
a create operation ran, and whether some handler held an unmarked copy of the row,
which it may still write, when the last deletion mark was stored.

Actions. `Deliver` puts a copy of an unacked message (the first or a later one) into
the inbox of a server, where it may wait until after the message was acked; `Receive`
is the call of a handler with `Apiserver.Init`. A create operation is claimed if it
was read as Pending, then acked, then created and applied (the row is there already,
stored by the service that publishes the operation; `setDefaultCluster` resets its
status and keeps its DeletionTimestamp, so that a create received after a delete
builds the cluster and tears it down in the same Apply); a delete marks the cluster
first; a retry acks at once. `cloud.CreateCluster` and `cloud.Apply` are reduced to
their writes of the cluster object. `Fail` is an error after which the handler
returns; `CreateFails` one that is only logged; `Crash` kills a server, its messages
are delivered again.

`UpdateState` models xorm's `Update`: fields with the zero value are left out,
and `OperationDone` is zero.

### MachineActuator

State. `obj` is each Machine object inside the cluster (`new` before the
controller has added its finalizer), `ready` the machines whose status holds a
droplet id, `inst` the number of droplets of each name; `pc` and `cur` say what
the controller is doing. It reconciles one machine at a time.

Actions. `Exists`, `Update`, `Create` and `Delete` each look for the droplet
before they go on; `Found` and `NotFound` are the outcomes of
`instanceIfExists`. A look-up that misses an existing droplet (an error, or a
droplet beyond the one page that is read) and a deletion that fails are only
logged in the code and counted in `lost`. Calls that return an error and crashes
are `Abort`: the controller comes back to the machine later. What the vendored
controller does (finalizer, choice of the call) is external.

The actuators of Packet and Linode are in `PacketProvider` and `LinodeProvider`,
where they run together with the commands.

### CloudProvider and the self-hosted providers

State. A resource in the cloud is a kind, an id, the network it is in, and a set
of marks: tags, an attachment, rules, a registration with the balancer, "running".
A creating call makes a resource with no marks, later calls add them, and look-ups
are conditions on marks. This is the one idea of these modules: a command that
ends between two calls leaves a resource with some of its marks, and the next
command finds it, misses it, or finds it unusable. `db` is the stored cluster
(phase, DeletionTimestamp, endpoint, recorded ids), `mem` the command's copy,
`sets` says that the machine sets are inside the cluster. `torn` is a history
variable: ApplyDelete has reported success.

Actions. One per call of the cloud or of the store, named after the function of
the source that makes it. The operators of `CloudProvider` are the shapes of these
calls: `Find` (a look-up whose error is logged and taken for "not found"),
`Make`, `Mark`, `Tag` (one tag after the other, any of them may fail), `Remove`,
`RemoveLogged`, `Save`. `Abort` ends the command at any point; `Boot` and
`ControllerScale` are external. Refusals that the state of the cloud decides
(a name that is taken, a network that is in use, an address that a rule uses) are
the `ok` of the call.

Abstractions. `MarkReady` is one step: the phase Ready and `ApplyScale` after it are
taken apart in `ClusterLifecycle` only. The Linode machine actuator works on workers;
its branch for control plane machines, which EnsureMaster has made already, is left
out.

What each adds: AWS finds everything by tags; Azure creates idempotently, but
asynchronously, and finds what it failed to provision; GCE names are unique, so that
a second attempt is an error the code accepts; Linode builds a balancer in
several calls, keeps a script per role, and a machine actuator and a cluster
actuator work at the same time as the commands; Packet has no balancer, and knows
the endpoint only in the run that creates the master.

### ManagedProvider and the managed providers

The same, with clouds that go on working after the call returned: a resource
becomes "done", "failed" or "deleting" and then disappears. `ng` is the stored
node group, `pki` the stored certificates, which GKE and DigitalOcean Kubernetes
replace by those of the cloud. Ready is stored before `ApplyScale`, which is why
`Served` speaks of commands that have ended. `ApplyScale` of AKS compares the agent
pools with the stored node groups and adds what differs; with one node group whose
size never changes there is nothing to add, so only its end is modelled.

### VfsStore and ObjectStore

State. The file, or the two files, of one object of one kind; the call that each
command is in, and the object as the call found it; which accidents happened
(`spoilt`: overlapping calls, calls killed half way).

Actions. A call looks for the file (`Item`), truncates and writes it (`Put`, two
steps), or removes it; pairs do this twice. `Kill` ends a command inside a call.
`machineDelete` removes nothing, because it passes a name where a path is needed.

Refinement. `StoredObject` is what the store holds for an observer: the object as
the running call found it until the call is through, then what the files hold, and
`Lost` after an accident. `Atomic` says that under this mapping the file store
implements `ObjectStore`: every other module that takes a store call as one step
relies on it, and on no accident having happened.

### XormStore

State. Rows of clusters (owner, uuid, who made and who wrote them) and of the
things that belong to a cluster id. Commands have an owner, 0 meaning none, for
which xorm leaves the condition out.

Actions. The statements of each method, `Kill` in between. `Set` is an UPDATE: zero
fields are left out, and it is refused as a whole if an index is violated. That
is what keeps owners apart, since `Update` selects by the name alone. The uuid is
unique too and empty at first, so there is one new cluster at a time.

### EditCommands, UseCommand, Versions

`EditCommands`: a session reads the object, keeps it while the editor is open (or
takes it from flags or from a file), compares, and writes the whole object; for
clusters the status is read again before the write. `tmp` are the files the editor
left. The comparison protects name, status and metadata; the keys of
`GetConditionalPreconditionFunc` that are meant for the specification do not
occur in the object. `edit cluster -f` cannot be called (its validation asks for an
argument and refuses one), so it is not among the `Ways`. A session is `Behind` when it
holds a copy without the deletion mark that it may still store.

`UseCommand`: load, create the backup, copy, truncate, write; a backup per minute.
Another tool writes the file at any time, also between these steps. `accident` is a
history variable: since that tool last wrote, a command met a truncated file; or a
command had already loaded the file when it wrote.

`Versions`: a version is a number with the order of versions, a pre-release right
before its release. The two labels are fetched in two steps, releases happen in
between, and the first falls back to the version of kubeadm.

## 3. Runs

| Run | Instance | Result |
|---|---|---|
| `lifecycle_serial` | 1 process, 2 node groups, 2 masters, 3 interruptions, 1 logged error, fair | all invariants hold, a Deleted cluster does not come back; create and delete converge |
| `lifecycle_concurrent` | 2 overlapping processes, 1 interruption | what holds without any coordination: keys before masters, teardown only on request, and marks and edits stay once no older copy is about to be written |
| `lifecycle_delete_stuck` | 1 interruption, fair | violated: no endpoint stored, deletion impossible |
| `lifecycle_intent_lost` | 2 overlapping processes, fair | violated: a command that read the cluster earlier writes over a deletion mark or an edit stored meanwhile |
| `apiserver` | 1 server, 1 create, 1 delete, 1 retry, 1 crash, 1 error, fair | no create runs twice; every delete is served, and its mark is lost only to a copy read before it; orphans explained |
| `apiserver_done` | 1 server, 1 create | violated: Done is not stored |
| `actuator` | 2 machines, 4 swallowed errors, 2 crashes, fair | duplicates and leaks are bounded by the swallowed errors; machines get droplets, deleted machines go away |
| `selfhosted` | 5 providers, up to 3 of a kind, 2 interruptions (AWS 1), 1 logged error, fair | what is built twice, what a deletion leaves, what apply can resume |
| `managed` | 4 providers, up to 4 of a kind, 2 interruptions or failed operations, 1 logged error, fair | the same, and what a Ready cluster serves |
| `vfs` | 2 commands, 2 values, 1 kill, all kinds of objects | pairs match, reads are whole, the store is atomic, up to the accidents that are named |
| `xorm` | 3 commands of 2 owners and of none, 2 rows per table | owners apart; duplicates only by overlap |
| `commands` | 2 edits, 3 kinds, 2 time stamps; 2 users, 2 minutes; 2 minor versions with 2 patches, 2 nodes | a deletion mark stays once no session is behind; saved text is in a file after a failure; a foreign context is lost only by the two accidents named; upgrades are right |

Why the bounds are enough. One interruption puts any prefix of one command before
another command; three of them, with commands started freely in between, reach every
combination of half-done create, half-done apply and half-done delete. Two node groups
tell a loop that was interrupted between its elements; two masters likewise. Two
leader droplets are needed to see a duplicate. One logged error shows what it leads
to; `MaxLost` is one more than what `SingleLeader` allows without it. The third
droplet of one name costs four swallowed errors, so the run `actuator` sees a
duplicate of a duplicate. The three handlers of one server run at the same time, and
copies of a message pile up in its inbox, so a crash, an error and a redelivery meet
every pair of steps of two operations; for several servers there are the proofs.
`MaxTwins` is three in `selfhosted` because with two AWS could run out of ids, and a
creation would fail that the cloud does not refuse; AWS has sixty steps, and its
second interruption is left out. In `managed` it is four: a cluster per interruption,
one more, and one that is going. Two files and two values are what it takes for a pair
that does not match; two owners and one command without an owner are all the cases of
a look-up. Two minutes let a backup survive the next command.

What the convergence properties say. A provider's `Resumable` and `Deletable` name
the states from which repeated apply gets through; what they leave out are states
where the code is stuck, and the comment at each says which. All failures have
happened by then (`aborts = MaxAborts`): a state reached with fewer is also
reached with more, by an apply that fails at once. So `CreateConverges` of
`SelfHosted` and `Managed` is the list of what an operator has to repair by hand:

* AWS: a role without its profile, an untagged subnet, some but not all security
  groups, a route table without route, a master that is not registered.
* Azure: a resource that failed to provision, a deletion of the group that was
  accepted by an earlier attempt.
* Linode: a balancer without configuration, a master that is not a backend.
* Packet: a master whose address was not stored.
* EKS: a stack that failed. GKE: a cluster without its certificates in the store.
  AKS: a group that is gone already. DigitalOcean Kubernetes: a cluster whose id was
  not stored; with its certificate stored, each apply makes one more cluster.

What the exceptions of the other properties say. Several hazards are not prevented by
the code; the properties then delimit them, and the note of the hazard in
`PROJECT.json` says so. `Served` speaks of commands without a failure, because a crash
between Ready and `ApplyScale` leaves a cluster without node groups for good.
`TeardownComplete` and `NetworkGone` hold for `lost = 0`. The store properties except
overlapping calls and calls killed half way. `DeletionRemembered`, `EditKept`,
`DeletionKept` and `DeletionSurvives` hold for any interleaving, but begin only when
no process is left with an older copy that it will write: before that moment the mark
or the edit can be lost, which `lifecycle_intent_lost` shows (either half of
`IntentStays` fails alone: an edit drops a mark, EnsureMaster drops an edit).
`BackedUp` excepts, by name, what another tool writes between the load and the
replacement of the kubeconfig, and a truncated file that a second command meets.

The violated runs are disagreements between what the code does and what its
documentation, messages or comments say; `PROJECT.json` quotes the lines under
`findings`. More facts that the models show: with overlapping commands `SingleLeader`
and `ReadyIsComplete` fail; a logged error of ApplyDelete leaves droplets
of a Deleted cluster, which apply ignores; deleteMachines does not wait, so
workers exist when the masters go; node groups that change on a Ready cluster are
never applied; with two servers `CreateRunsOnce` fails, because a message
that is redelivered (after 30 s without an ack, the client's default) between the
read of the state and the write of Running is claimed twice.

Fairness. `lifecycle_serial`: a command that was started goes on (weak fairness
of its steps: it is a sequential program whose polls have timeouts), and the
user, or an operator's script, runs `pharmer apply` again until it succeeds
(strong fairness, because other commands may be started in between). Failures are
bounded: this is what "until it succeeds" means. `selfhosted` and `managed` assume
the same, and that the cloud ends what it has begun and the controllers inside the
cluster, which requeue, do their part (strong fairness, because they stop while a
command goes on). `apiserver`: handlers
go on, NATS streaming redelivers what is not acked (weak fairness of Deliver) and
the client calls the handler (strong fairness of Receive, because the handler may
be busy and a copy is lost with a server that crashes).
`actuator`: the controller goes on and
comes back to every machine that needs it (errors are requeued, changes are
watched), in any order.

Deadlock is checked in the lifecycle and actuator runs. Elsewhere the system may
stop: the server has nothing to do once all messages are handled, a Deleted cluster
is left alone, and bounds on time stamps, rows and releases end the other runs.

## 4. Proofs

TLAPS checks, for all values of the constants, the theorems below. Each inductive
invariant was checked by TLC before it was proved.

Life cycle (`ClusterLifecycle_proofs`):

* `TypeCorrect`: `TypeOK` is inductive with one addition, the range of the loop index
  at each step.
* `SerialSafety` (assuming `Serial`): the six safety invariants. They are not
  inductive alone. The strengthening says what a process that is in the middle of a
  command has achieved so far: at most one process is busy; its copy agrees with the
  store except for what the command has changed; at each step of apply the key
  pairs, the leader Machine, the endpoint, the infrastructure and the droplet are
  there as far as the step requires; at each step of the teardown, the
  DeletionTimestamp is set and what was released is gone. One by one they are
  `SerialDeletionIntent`, `SerialNoOrphanInfra`, `SerialTeardownComplete`,
  `SerialWorkersReachable` and `SerialSingleLeader`.
* `SerialNoResurrection` (assuming `Serial`): from the same invariant.
* `OverlapWrites`: `DeletionRemembered` and `EditKept` for any interleaving. The
  agreement of the store with the copies that will be written is kept step by step: a
  copy that is read later has the mark, or the spec, of the store, and a copy that a
  process works on is one of a stored cluster (`CopiesInv`), so that writing it does
  not remove the cluster. `OverlapEditKept` states the second alone.
* `OverlapSafety`: `MasterHasKeys` and `TeardownOnlyOnRequest` for any interleaving;
  the invariant only speaks of facts that no process can undo (key pairs and
  Machines are never removed) and of the process's own copy.
  `OverlapTeardownOnRequest` states the second alone.

API server (`Apiserver_proofs`):

* `TypeCorrect`.
* `RequestsKept`: `DeletionKept` and `OrphanedByFailure` for any number of servers.
  Needs that a handler works on operations of its own subject, that what a delete
  handler is about to ack is in the cluster row, and that, unless `stale`, every copy
  that a handler may write has the mark once the row has it: reading keeps it, and so
  does `setDefaultCluster`. `OrphansExplained` states `OrphanedByFailure` alone.
* `RunsOnce`: `CreateRunsOnce` for one server. Needs that the state a handler read is
  still the stored one when it claims, which is what fails with two servers.

Machine actuator (`MachineActuator_proofs`):

* `TypeCorrect`.
* `DropletsCounted`: `DuplicateNeedsTwoErrors` and `LeakExplained`. The invariant
  counts, at each step of a reconciliation, the swallowed errors that have been paid
  so far for the droplet the step is about to make or to leave, and uses that the
  finalizer keeps the object of the machine that is being reconciled.
  `LeaksExplained` states the second alone.

File store (`VfsStore_proofs`):

* `VfsAtomic`: the file store implements `ObjectStore`. The invariant (`VfsWhole`)
  says that, before anything has gone wrong, one command writes at a time, what it
  has found is what the files held when it began, and at each step of its call which
  of the files are truncated, written or removed. The object that the interface
  speaks of is what the writer has found until its change is complete; every step is
  then a call of the interface, a fault, or invisible.
* `VfsPairsMatch`: `PairsMatch`, which also holds after a Create was killed and
  therefore needs an invariant of its own: the second file is never there without
  the first, and never holds another key.
* `VfsReadsWhole`: `ReadsWhole`; until something happens the commands take turns, and
  a Get sees one object.

Postgres store (`XormStore_proofs`), for any commands, owners and rows:

* `XormOwnersApart`. The invariant (`StoreInv`) adds that ids are not given out twice,
  and that the row a command has read (its bean) belongs to a stored row of the same
  id and owner, the command's own unless the command has none. The argument turns on
  one lemma (`SetKeeps`): an UPDATE from a bean leaves every row with its id and its
  owner, because one that reaches two rows would give both the same values, which the
  UNIQUE constraints refuse.
* `XormPartsAtHome` (`HomeInv`: a part names an existing cluster of its writer's owner)
  and `XormNoDuplicates` (`DupInv`: until two commands overlap, no part exists that a
  command is about to insert, and no two commands are about to insert for one
  cluster).

Commands (`Commands_proofs`):

* `EditWorkKept`, `EditDeletionSurvives`: `WorkKept` and `DeletionSurvives` for any
  number of edit sessions, from what each session holds of the stored object and of
  its temporary files (`SessionInv`). The second is a step property: every step that
  gives a session something to store takes it from a copy with the mark, because the
  comparison refuses an object whose mark is not that of the other one.
* `UseBackedUp`: `BackedUp`. Unless a command had loaded the file when the other
  tool wrote, and until a command meets a truncated file, the other context is in the
  kubeconfig, or the file is truncated and some backup has it; and what a command has
  read, and the backup it is copying, has it too (`KeptInv`).
* `VersionsUpgradesOffered`: `UpgradesOffered` for every set of branches and every
  finite set of nodes. That the release server has a newest version, overall and in
  every branch, is carried as an invariant (`ServerInv`), because it cannot be derived
  by induction over a finite set here; `PlanInv` says what the files fetched so far
  have shown.

Managed providers (`Managed_proofs`), for any bounds on failures, logged errors and
ids:

* `ManagedNoTwins`, `ManagedNetworkGone`, `ManagedServed`: the three invariants of the
  run `managed`, over all four providers. Resources of EKS, GKE and AKS are found by
  name, so that there is one of a kind and a cloud is known by the kinds that exist
  and the marks on them; lemmas say what each call does in these terms
  (`CloudMake`, `CloudMark`, `CloudDrop`, ...). The invariant of a provider has a part
  for what has gone at each step of the deletion, one for what a cluster that is not
  being deleted has, and one for the node group before anything has failed. That no
  resource is made twice rests on the clouds refusing a name that is taken.
  DigitalOcean clusters have ids: there the invariant is a count (`DokubePaid`), in
  which every cluster whose id is not stored is paid for with a failure; a cluster
  that failed to come up pays at "get" for the command that returns at "kubeconfig".
  `NoTwins` of DigitalOcean excepts the states in which the admin certificate is stored
  and the id is not, because of one step: a command that finds the certificate in the
  store at "adminPut" returns, and has paid nothing for the cluster it made.

Providers that build a cluster from machines (`SelfHosted_proofs`), for any bounds on
failures, logged errors and ids:

* `SelfHostedInvariant`, `SelfHostedNoTwins`, `SelfHostedNetworkGone`: the two
  invariants of the run `selfhosted`, over all five providers, from one inductive
  invariant with a part per provider. All parts say how far the command can be for the
  stored phase (`Phased`), and what has gone at each step of the deletion and stays
  away because no step of a Deleting cluster makes it (`AzureGone`, `GceGone`, ...).
* Azure, GCE and Linode find resources by name, so there is one of a kind (`Sound`);
  lemmas say what each call does to the kinds that exist and their marks. On Linode
  the deletion goes through the API server of the cluster, so the invariant also
  carries that a stored endpoint stands for a balancer and a running master behind it
  until ApplyDelete removes the master.
* Packet devices have ids: `PacketPaid` counts them against the errors that were
  logged. A command at "masterMake" and an actuator at "make" have paid in advance for
  what they are about to make, or nothing of that kind exists.
* AWS finds resources by tags that are set after the creation. The tables of a kind
  cannot be counted alone, because a VPC whose table is missing will get one: the
  invariant counts places (`Places`), the complete tables and the complete VPCs without
  one. `AwsPaid` bounds the places of each kind and the NAT gateways by one more than
  the logged errors, and by the logged errors alone where a command is about to add
  one. Look-ups return the oldest VPC; a command that works in another one has missed
  it, and `Settled` says that subnets and gateways are in the oldest one. That the
  deletion leaves nothing but incomplete resources needs that what is in a VPC is in
  a complete one (`Anchored`), because EC2 refuses to delete a VPC with contents.

Assumptions on the constants are in the modules (`ConstantsAssumption`,
`OperationsAssumption`, `BoundsAssumption`, `ActuatorAssumption`,
`ContentAssumption`, `OwnerAssumption`, `MaxRowsAssumption`, `MaxClockAssumption`,
`MaxMinutesAssumption`, `VersionsAssumption`, `NodesAssumption`, `ProviderBounds`,
`AwsAbortsAssumption`):
bounds and owner ids are natural numbers, an operation has one kind,
what is stored is told apart from a missing and from a truncated file, there is a
branch of Kubernetes, and there are finitely many nodes. `TypeOK` of the first three
modules is proved and therefore not checked by a run.

Only model-checked: the liveness properties and everything that needs `ENABLED`. Every
invariant of a passing run is stated by a theorem.

## 5. Not modelled

Not modelled: contents of certificates, scripts and manifests (much of
`clusterapi.go` of AWS, Azure and GCE is manifests as text), terminal output, prompts
and the configuration file, generated and vendored code. ApplyUpgrade and the
upgrades of masters and nodes have no caller, and look for the machine
`<cluster>-master` where machines are named `<cluster>-master-0`. The machine set
store of Postgres is empty in the code. The machine controllers of AWS, Azure and
GCE come from other repositories; here they are external actions.
