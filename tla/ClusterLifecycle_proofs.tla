----------------------- MODULE ClusterLifecycle_proofs -----------------------
(***************************************************************************)
(* Proofs about ClusterLifecycle, for any set of processes and node groups *)
(* and any bounds.  Type correctness holds however the commands interleave; *)
(* the safety properties are proved for commands that are run one at a time *)
(* (Serial), each of which may fail or be killed at every step.            *)
(***************************************************************************)
EXTENDS ClusterLifecycle, TLAPS

-----------------------------------------------------------------------------
(* The inductive invariant *)

\* The loop over the key pairs stays within its bounds.
CertIndex == \A w \in Workers : pc[w] \in {"store", "certs"} => ix[w] \in 1 .. NumCerts

TypeInv == TypeOK /\ CertIndex

\* Commands do not overlap.
Exclusive ==
    \A v, w \in Workers : v # w => pc[v] = "idle" \/ pc[w] = "idle"

NoInfra == infra = {} /\ vms = 0 /\ nodes = {} /\ addon = "absent" /\ ksets = {}

\* Nothing is built before the cluster and all of its key pairs are stored:
\* the last certificate is what CreateCluster and Apply synchronise on.
CertsFirst ==
    /\ db.phase = "None" => certs = 0 /\ machines = 0
    /\ ~AllCerts => NoInfra /\ db.phase \notin {"Ready", "Deleted"}

\* Machine sets live inside a cluster whose endpoint is stored.
SetsReachable == ksets # {} => db.endp

\* CreateCluster holds a fresh object until it has overwritten the stored one,
\* and by then there is nothing in the cloud that the old one stood for.
CreateInv(w) ==
    /\ pc[w] \in {"store", "certs", "update"} =>
         mem[w].phase = "Pending" /\ ~mem[w].del /\ ~mem[w].endp
    /\ pc[w] = "store" => db.phase = "None"
    /\ pc[w] = "certs" => Stored
    /\ pc[w] = "update" => AllCerts /\ NoInfra /\ db.phase \in {"Pending", "Deleting"}
    /\ pc[w] = "masters" => Stored

\* Delete and edit hold what is stored, but for what they change.
ChangeInv(w) ==
    /\ pc[w] = "delete" => /\ Stored
                           /\ mem[w].phase = "Deleting" /\ mem[w].del
                           /\ mem[w].endp = db.endp /\ mem[w].ver = db.ver
    /\ pc[w] = "edit" => /\ Stored
                         /\ mem[w].endp = db.endp /\ mem[w].del = db.del

\* Apply of a Pending cluster: what each step has established.
ApplyInv(w) ==
    /\ pc[w] \in ApplySteps => AllCerts /\ ~mem[w].del /\ mem[w].ver = db.ver
    /\ pc[w] \in ApplySteps \ {"scale"} =>
         db.phase = "Pending" /\ mem[w].phase = "Pending"
    /\ pc[w] \in ApplySteps \ {"key"} => "key" \in infra
    /\ pc[w] \in ApplySteps \ {"key", "lb"} => "lb" \in infra /\ mem[w].endp
    /\ pc[w] \in ApplySteps \ {"key", "lb", "sku"} => machines > 0
    /\ pc[w] \in ApplySteps \ {"key", "lb", "sku", "vm", "create"} => vms > 0
    /\ pc[w] = "create" => vms <= lost
    /\ pc[w] \in {"wait", "addon", "provider", "ready", "scale"} => db.endp
    /\ pc[w] = "scale" => db.phase = "Ready"

\* Apply of a cluster that is being deleted: what each step has released.
DeleteInv(w) ==
    /\ pc[w] \in DeleteSteps =>
         /\ AllCerts
         /\ db.phase = "Deleting" /\ mem[w].phase = "Deleting"
         /\ mem[w].endp = db.endp
    /\ pc[w] \in {"dkey", "dlb", "dsave"} /\ lost = 0 => vms = 0 /\ nodes = {}
    /\ pc[w] \in {"dlb", "dsave"} => "key" \notin infra
    /\ pc[w] = "dsave" => "lb" \notin infra

LocalInv(w) == CreateInv(w) /\ ChangeInv(w) /\ ApplyInv(w) /\ DeleteInv(w)

\* The properties of ClusterLifecycle that this module proves.
Safety == /\ ReadyIsComplete /\ DeletionIntent /\ NoOrphanInfra
          /\ TeardownComplete /\ WorkersReachable /\ SingleLeader

IInv == /\ TypeInv
        /\ Exclusive
        /\ CertsFirst
        /\ SetsReachable
        /\ Safety
        /\ \A w \in Workers : LocalInv(w)

-----------------------------------------------------------------------------
(* Type correctness, for any interleaving of commands *)

\* The empty table of machine sets, which a returning command leaves behind.
LEMMA NoSetsType == NoSets \in [NodeGroups -> SetStates]
  BY DEF NoSets, SetStates

\* The value that stands for "no cluster" has the type of a cluster.
LEMMA NoClusterType == NoCluster \in Clusters
  BY DEF NoCluster, Clusters, Phases

\* Base of the induction for TypeInv.
LEMMA TypeInit == Init => TypeInv
  <1> SUFFICES ASSUME Init PROVE TypeInv
    OBVIOUS
  <1> USE ConstantsAssumption, NoSetsType, NoClusterType DEF Init
  <1>1. TypeOK
    BY DEF ConstantsAssumption, TypeOK, NumCerts, Steps
  <1>2. CertIndex
    BY DEF CertIndex
  <1>3. QED
    BY <1>1, <1>2 DEF TypeInv

\* No step, of whatever process, takes a variable out of its type.
LEMMA TypeStep == TypeInv /\ [Next]_vars => TypeInv'
  <1> SUFFICES ASSUME TypeInv, [Next]_vars PROVE TypeInv'
    OBVIOUS
  <1> USE ConstantsAssumption, NoSetsType, NoClusterType
  <1> USE DEF TypeInv, TypeOK, CertIndex, SetStates, NumCerts,
              Steps, CreateSteps, ApplySteps, DeleteSteps
  <1> USE DEF storeVars, cloudVars, kubeVars, procVars, Goto, Stop
  <1>1. ASSUME NEW w \in Workers, CreateCluster(w) PROVE TypeInv'
    BY <1>1 DEF CreateCluster, Clusters, Phases
  <1>2. ASSUME NEW w \in Workers, CreateNodeGroups(w) PROVE TypeInv'
    BY <1>2 DEF CreateNodeGroups
  <1>3. ASSUME NEW w \in Workers, Delete(w) PROVE TypeInv'
    BY <1>3 DEF Delete, Clusters, Phases
  <1>4. ASSUME NEW w \in Workers, DeleteNodeGroup(w) PROVE TypeInv'
    BY <1>4 DEF DeleteNodeGroup
  <1>5. ASSUME NEW w \in Workers, EditCluster(w) PROVE TypeInv'
    <2>1. ASSUME NEW v \in Versions PROVE [db EXCEPT !.ver = v] \in Clusters
      BY DEF Clusters
    <2>2. mem' \in [Workers -> Clusters]
      BY <1>5, <2>1 DEF EditCluster
    <2>3. QED
      BY <1>5, <2>2 DEF EditCluster
  <1>6. ASSUME NEW w \in Workers, Apply(w) PROVE TypeInv'
    BY <1>6 DEF Apply
  <1>7. ASSUME NEW w \in Workers, StoreCluster(w) PROVE TypeInv'
    BY <1>7 DEF StoreCluster
  <1>8. ASSUME NEW w \in Workers, CreateCert(w) PROVE TypeInv'
    <2>1. ix[w] \in 1 .. NumCerts
      BY <1>8 DEF CreateCert
    <2>2. certs' \in 0 .. NumCerts /\ ix' \in [Workers -> Nat] /\ pc' \in [Workers -> Steps]
      BY <1>8, <2>1 DEF CreateCert
    <2>3. TypeOK'
      BY <1>8, <2>2 DEF CreateCert
    <2>4. CertIndex'
      BY <1>8, <2>1 DEF CreateCert
    <2>5. QED
      BY <2>3, <2>4
  <1>9. ASSUME NEW w \in Workers, SaveNewCluster(w) PROVE TypeInv'
    BY <1>9 DEF SaveNewCluster, Update
  <1>10. ASSUME NEW w \in Workers, CreateMaster(w) PROVE TypeInv'
    BY <1>10 DEF CreateMaster
  <1>11. ASSUME NEW w \in Workers, MastersCreated(w) PROVE TypeInv'
    BY <1>11 DEF MastersCreated
  <1>12. ASSUME NEW w \in Workers, NEW g \in NodeGroups, CreateMachineSet(w, g) PROVE TypeInv'
    BY <1>12 DEF CreateMachineSet, Handled
  <1>13. ASSUME NEW w \in Workers, MachineSetsCreated(w) PROVE TypeInv'
    BY <1>13 DEF MachineSetsCreated
  <1>14. ASSUME NEW w \in Workers, SaveDelete(w) PROVE TypeInv'
    BY <1>14 DEF SaveDelete, Update
  <1>15. ASSUME NEW w \in Workers, SaveEdit(w) PROVE TypeInv'
    BY <1>15 DEF SaveEdit, Update, Clusters
  <1>16. ASSUME NEW w \in Workers, ImportPublicKey(w) PROVE TypeInv'
    BY <1>16 DEF ImportPublicKey
  <1>17. ASSUME NEW w \in Workers, CreateLoadBalancer(w) PROVE TypeInv'
    BY <1>17 DEF CreateLoadBalancer, Clusters
  <1>18. ASSUME NEW w \in Workers, GetLeaderMachine(w) PROVE TypeInv'
    BY <1>18 DEF GetLeaderMachine, setMasterSKU
  <1>19. ASSUME NEW w \in Workers, CreateInstance(w) PROVE TypeInv'
    BY <1>19 DEF CreateInstance
  <1>20. ASSUME NEW w \in Workers, SaveMaster(w) PROVE TypeInv'
    BY <1>20 DEF SaveMaster, Update
  <1>21. ASSUME NEW w \in Workers, WaitForReadyMaster(w) PROVE TypeInv'
    BY <1>21 DEF WaitForReadyMaster
  <1>22. ASSUME NEW w \in Workers, CreateMachineController(w) PROVE TypeInv'
    BY <1>22 DEF CreateMachineController
  <1>23. ASSUME NEW w \in Workers, UpdateProviderStatus(w) PROVE TypeInv'
    BY <1>23 DEF UpdateProviderStatus, Update
  <1>24. ASSUME NEW w \in Workers, MarkReady(w) PROVE TypeInv'
    BY <1>24 DEF MarkReady, UpdateStatus, Clusters, Phases
  <1>25. ASSUME NEW w \in Workers, NEW g \in NodeGroups, ApplyMachineSet(w, g) PROVE TypeInv'
    BY <1>25 DEF ApplyMachineSet, Handled
  <1>26. ASSUME NEW w \in Workers, InstanceIfExists(w) PROVE TypeInv'
    BY <1>26 DEF InstanceIfExists, Lose
  <1>27. ASSUME NEW w \in Workers, ScaleApplied(w) PROVE TypeInv'
    BY <1>27 DEF ScaleApplied
  <1>28. ASSUME NEW w \in Workers, Applied(w) PROVE TypeInv'
    BY <1>28 DEF Applied
  <1>29. ASSUME NEW w \in Workers, NEW g \in NodeGroups, MarkMachineSet(w, g) PROVE TypeInv'
    BY <1>29 DEF MarkMachineSet, Handled
  <1>30. ASSUME NEW w \in Workers, MachineSetsMarked(w) PROVE TypeInv'
    BY <1>30 DEF MachineSetsMarked
  <1>31. ASSUME NEW w \in Workers, DeleteAllWorkerMachines(w) PROVE TypeInv'
    BY <1>31 DEF DeleteAllWorkerMachines, Lose
  <1>32. ASSUME NEW w \in Workers, SaveDeleting(w) PROVE TypeInv'
    BY <1>32 DEF SaveDeleting, UpdateStatus, Clusters, Phases
  <1>33. ASSUME NEW w \in Workers, DeleteDroplets(w) PROVE TypeInv'
    BY <1>33 DEF DeleteDroplets, Lose
  <1>34. ASSUME NEW w \in Workers, DeleteSSHKey(w) PROVE TypeInv'
    BY <1>34 DEF DeleteSSHKey
  <1>35. ASSUME NEW w \in Workers, DeleteLoadBalancer(w) PROVE TypeInv'
    BY <1>35 DEF DeleteLoadBalancer
  <1>36. ASSUME NEW w \in Workers, MarkDeleted(w) PROVE TypeInv'
    BY <1>36 DEF MarkDeleted, UpdateStatus, Clusters, Phases
  <1>37. ASSUME NEW w \in Workers, Refuse(w) PROVE TypeInv'
    BY <1>37 DEF Refuse
  <1>38. ASSUME NEW w \in Workers, Abort(w) PROVE TypeInv'
    BY <1>38 DEF Abort
  <1>39. ASSUME NEW g \in NodeGroups, ControllerScaleUp(g) \/ ControllerScaleDown(g) PROVE TypeInv'
    BY <1>39 DEF ControllerScaleUp, ControllerScaleDown
  <1>40. CASE UNCHANGED vars
    BY <1>40 DEF vars
  <1>41. QED
    BY <1>1, <1>2, <1>3, <1>4, <1>5, <1>6, <1>7, <1>8, <1>9, <1>10, <1>11, <1>12, <1>13,
       <1>14, <1>15, <1>16, <1>17, <1>18, <1>19, <1>20, <1>21, <1>22, <1>23, <1>24, <1>25,
       <1>26, <1>27, <1>28, <1>29, <1>30, <1>31, <1>32, <1>33, <1>34, <1>35, <1>36, <1>37,
       <1>38, <1>39, <1>40
       DEF Next, Command, Step, CreateStep, ApplyStep, DeleteStep, Controller

\* Every variable keeps its type in every behaviour, however the commands of
\* any number of processes interleave.
THEOREM TypeCorrect == Spec => []TypeOK
  <1>1. Spec => []TypeInv
    BY TypeInit, TypeStep, PTL DEF Spec
  <1>2. TypeInv => TypeOK
    BY DEF TypeInv
  <1>3. QED
    BY <1>1, <1>2, PTL

-----------------------------------------------------------------------------
(* Safety of commands that run one at a time *)

\* The part of the invariant that does not mention the processes.
GlobalInv == CertsFirst /\ SetsReachable /\ Safety

\* Base of the induction for IInv.
LEMMA IInvInit == Init => IInv
  <1> SUFFICES ASSUME Init PROVE IInv
    OBVIOUS
  <1>1. TypeInv
    BY TypeInit
  <1>2. Exclusive /\ \A w \in Workers : LocalInv(w)
    BY DEF Init, Exclusive, LocalInv, CreateInv, ChangeInv, ApplyInv, DeleteInv,
           ApplySteps, DeleteSteps
  <1>3. CertsFirst /\ SetsReachable /\ WorkersReachable /\ NoOrphanInfra /\ DeletionIntent
    BY DEF Init, CertsFirst, SetsReachable, WorkersReachable, NoOrphanInfra, DeletionIntent,
           NoCluster, NoInfra, AllCerts, NumCerts
  <1>4. ReadyIsComplete /\ TeardownComplete /\ SingleLeader
    BY DEF Init, NoCluster, ReadyIsComplete, TeardownComplete, SingleLeader
  <1>5. QED
    BY <1>1, <1>2, <1>3, <1>4 DEF IInv, Safety

\* While one process acts the others are idle, so its own invariant is enough.
LEMMA OneAtATime ==
  ASSUME NEW w \in Workers, TypeInv,
         \A v \in Workers \ {w} : pc[v] = "idle",
         \E step \in Steps : pc' = [pc EXCEPT ![w] = step],
         LocalInv(w)'
  PROVE  Exclusive' /\ \A v \in Workers : LocalInv(v)'
  <1>1. \A v \in Workers \ {w} : pc'[v] = "idle"
    BY DEF TypeInv, TypeOK
  <1>2. Exclusive'
    BY <1>1 DEF Exclusive
  <1>3. \A v \in Workers \ {w} : LocalInv(v)'
    BY <1>1 DEF LocalInv, CreateInv, ChangeInv, ApplyInv, DeleteInv, ApplySteps, DeleteSteps
  <1>4. QED
    BY <1>2, <1>3

\* The state after a step of process w, and what w knows then.
LEMMA StepInv ==
  ASSUME IInv, NEW w \in Workers, Command(w) \/ Step(w) \/ Abort(w), Serial
  PROVE  GlobalInv' /\ LocalInv(w)'
  <1> USE ConstantsAssumption
  <1> USE DEF IInv, GlobalInv, TypeInv, TypeOK, Clusters, Phases, ApplySteps, DeleteSteps,
              NumCerts, AllCerts, Stored, storeVars, cloudVars, kubeVars, procVars, Goto, Stop
  <1> USE DEF CertsFirst, SetsReachable, NoInfra, Safety, ReadyIsComplete, DeletionIntent,
              NoOrphanInfra, TeardownComplete, WorkersReachable, SingleLeader
  <1> USE DEF LocalInv, CreateInv, ChangeInv, ApplyInv, DeleteInv
  <1>1. CASE CreateCluster(w)
    <2>1. GlobalInv'
      BY <1>1 DEF CreateCluster, CanStart
    <2>2. LocalInv(w)'
      BY <1>1 DEF CreateCluster, CanStart
    <2>3. QED
      BY <2>1, <2>2
  <1>2. CASE CreateNodeGroups(w)
    <2>1. GlobalInv'
      BY <1>2 DEF CreateNodeGroups, CanStart
    <2>2. LocalInv(w)'
      BY <1>2 DEF CreateNodeGroups, CanStart
    <2>3. QED
      BY <2>1, <2>2
  <1>3. CASE Delete(w)
    <2>1. GlobalInv'
      BY <1>3 DEF Delete, CanStart
    <2>2. LocalInv(w)'
      BY <1>3 DEF Delete, CanStart
    <2>3. QED
      BY <2>1, <2>2
  <1>4. CASE DeleteNodeGroup(w)
    <2>1. GlobalInv'
      BY <1>4 DEF DeleteNodeGroup, CanStart
    <2>2. LocalInv(w)'
      BY <1>4 DEF DeleteNodeGroup, CanStart
    <2>3. QED
      BY <2>1, <2>2
  <1>5. CASE EditCluster(w)
    <2>1. GlobalInv'
      BY <1>5 DEF EditCluster, CanStart
    <2>2. LocalInv(w)'
      BY <1>5 DEF EditCluster, CanStart
    <2>3. QED
      BY <2>1, <2>2
  <1>6. CASE Apply(w)
    <2>1. GlobalInv'
      BY <1>6 DEF Apply, CanStart
    <2>2. LocalInv(w)'
      BY <1>6 DEF Apply, CanStart
    <2>3. QED
      BY <2>1, <2>2
  <1>7. CASE StoreCluster(w)
    <2>1. GlobalInv'
      BY <1>7 DEF StoreCluster
    <2>2. LocalInv(w)'
      BY <1>7 DEF StoreCluster
    <2>3. QED
      BY <2>1, <2>2
  <1>8. CASE CreateCert(w)
    <2>1. GlobalInv'
      BY <1>8 DEF CreateCert, CertExists
    <2>2. LocalInv(w)'
      BY <1>8 DEF CreateCert, CertExists
    <2>3. QED
      BY <2>1, <2>2
  <1>9. CASE SaveNewCluster(w)
    <2>1. GlobalInv'
      BY <1>9 DEF SaveNewCluster, Update
    <2>2. LocalInv(w)'
      BY <1>9 DEF SaveNewCluster, Update
    <2>3. QED
      BY <2>1, <2>2
  <1>10. CASE CreateMaster(w)
    <2>1. GlobalInv'
      BY <1>10 DEF CreateMaster
    <2>2. LocalInv(w)'
      BY <1>10 DEF CreateMaster
    <2>3. QED
      BY <2>1, <2>2
  <1>11. CASE MastersCreated(w)
    <2>1. GlobalInv'
      BY <1>11 DEF MastersCreated
    <2>2. LocalInv(w)'
      BY <1>11 DEF MastersCreated
    <2>3. QED
      BY <2>1, <2>2
  <1>12. ASSUME NEW g \in NodeGroups, CreateMachineSet(w, g)
        PROVE  GlobalInv' /\ LocalInv(w)'
    <2>1. GlobalInv'
      BY <1>12 DEF CreateMachineSet, Handled
    <2>2. LocalInv(w)'
      BY <1>12 DEF CreateMachineSet, Handled
    <2>3. QED
      BY <2>1, <2>2
  <1>13. CASE MachineSetsCreated(w)
    <2>1. GlobalInv'
      BY <1>13 DEF MachineSetsCreated
    <2>2. LocalInv(w)'
      BY <1>13 DEF MachineSetsCreated
    <2>3. QED
      BY <2>1, <2>2
  <1>14. CASE SaveDelete(w)
    <2>1. GlobalInv'
      BY <1>14 DEF SaveDelete, Update
    <2>2. LocalInv(w)'
      BY <1>14 DEF SaveDelete, Update
    <2>3. QED
      BY <2>1, <2>2
  <1>15. CASE SaveEdit(w)
    <2>1. GlobalInv'
      BY <1>15 DEF SaveEdit, Update
    <2>2. LocalInv(w)'
      BY <1>15 DEF SaveEdit, Update
    <2>3. QED
      BY <2>1, <2>2
  <1>16. CASE ImportPublicKey(w)
    <2>1. GlobalInv'
      BY <1>16 DEF ImportPublicKey
    <2>2. LocalInv(w)'
      BY <1>16 DEF ImportPublicKey
    <2>3. QED
      BY <2>1, <2>2
  <1>17. CASE CreateLoadBalancer(w)
    <2>1. GlobalInv'
      BY <1>17 DEF CreateLoadBalancer
    <2>2. LocalInv(w)'
      BY <1>17 DEF CreateLoadBalancer
    <2>3. QED
      BY <2>1, <2>2
  <1>18. CASE GetLeaderMachine(w)
    <2>1. GlobalInv'
      BY <1>18 DEF GetLeaderMachine, setMasterSKU, MachineExists
    <2>2. LocalInv(w)'
      BY <1>18 DEF GetLeaderMachine, setMasterSKU, MachineExists
    <2>3. QED
      BY <2>1, <2>2
  <1>19. CASE CreateInstance(w)
    <2>1. GlobalInv'
      BY <1>19 DEF CreateInstance
    <2>2. LocalInv(w)'
      BY <1>19 DEF CreateInstance
    <2>3. QED
      BY <2>1, <2>2
  <1>20. CASE SaveMaster(w)
    <2>1. GlobalInv'
      BY <1>20 DEF SaveMaster, Update
    <2>2. LocalInv(w)'
      BY <1>20 DEF SaveMaster, Update
    <2>3. QED
      BY <2>1, <2>2
  <1>21. CASE WaitForReadyMaster(w)
    <2>1. GlobalInv'
      BY <1>21 DEF WaitForReadyMaster
    <2>2. LocalInv(w)'
      BY <1>21 DEF WaitForReadyMaster
    <2>3. QED
      BY <2>1, <2>2
  <1>22. CASE CreateMachineController(w)
    <2>1. GlobalInv'
      BY <1>22 DEF CreateMachineController
    <2>2. LocalInv(w)'
      BY <1>22 DEF CreateMachineController
    <2>3. QED
      BY <2>1, <2>2
  <1>23. CASE UpdateProviderStatus(w)
    <2>1. GlobalInv'
      BY <1>23 DEF UpdateProviderStatus, Update
    <2>2. LocalInv(w)'
      BY <1>23 DEF UpdateProviderStatus, Update
    <2>3. QED
      BY <2>1, <2>2
  <1>24. CASE MarkReady(w)
    <2>a. db' = [db EXCEPT !.phase = "Ready"]
      BY <1>24 DEF MarkReady, UpdateStatus
    <2>b. infra = {"key", "lb"} /\ vms > 0 /\ machines > 0
      BY <1>24 DEF MarkReady
    <2>c. db.endp /\ ~db.del /\ AllCerts /\ db.phase = "Pending"
      BY <1>24 DEF MarkReady
    <2>1. GlobalInv'
      BY <1>24, <2>a, <2>b, <2>c DEF MarkReady
    <2>2. LocalInv(w)'
      BY <1>24 DEF MarkReady, UpdateStatus
    <2>3. QED
      BY <2>1, <2>2
  <1>25. ASSUME NEW g \in NodeGroups, ApplyMachineSet(w, g)
        PROVE  GlobalInv' /\ LocalInv(w)'
    <2>1. GlobalInv'
      BY <1>25 DEF ApplyMachineSet, Handled
    <2>2. LocalInv(w)'
      BY <1>25 DEF ApplyMachineSet, Handled
    <2>3. QED
      BY <2>1, <2>2
  <1>26. CASE InstanceIfExists(w)
    <2>1. GlobalInv'
      BY <1>26 DEF InstanceIfExists, Lose
    <2>2. LocalInv(w)'
      BY <1>26 DEF InstanceIfExists, Lose
    <2>3. QED
      BY <2>1, <2>2
  <1>27. CASE ScaleApplied(w)
    <2>1. GlobalInv'
      BY <1>27 DEF ScaleApplied
    <2>2. LocalInv(w)'
      BY <1>27 DEF ScaleApplied
    <2>3. QED
      BY <2>1, <2>2
  <1>28. CASE Applied(w)
    <2>1. GlobalInv'
      BY <1>28 DEF Applied
    <2>2. LocalInv(w)'
      BY <1>28 DEF Applied
    <2>3. QED
      BY <2>1, <2>2
  <1>29. ASSUME NEW g \in NodeGroups, MarkMachineSet(w, g)
        PROVE  GlobalInv' /\ LocalInv(w)'
    <2>1. GlobalInv'
      BY <1>29 DEF MarkMachineSet, Handled
    <2>2. LocalInv(w)'
      BY <1>29 DEF MarkMachineSet, Handled
    <2>3. QED
      BY <2>1, <2>2
  <1>30. CASE MachineSetsMarked(w)
    <2>1. GlobalInv'
      BY <1>30 DEF MachineSetsMarked
    <2>2. LocalInv(w)'
      BY <1>30 DEF MachineSetsMarked
    <2>3. QED
      BY <2>1, <2>2
  <1>31. CASE DeleteAllWorkerMachines(w)
    <2>1. GlobalInv'
      BY <1>31 DEF DeleteAllWorkerMachines, Lose
    <2>2. LocalInv(w)'
      BY <1>31 DEF DeleteAllWorkerMachines, Lose
    <2>3. QED
      BY <2>1, <2>2
  <1>32. CASE SaveDeleting(w)
    <2>1. GlobalInv'
      BY <1>32 DEF SaveDeleting, UpdateStatus
    <2>2. LocalInv(w)'
      BY <1>32 DEF SaveDeleting, UpdateStatus
    <2>3. QED
      BY <2>1, <2>2
  <1>33. CASE DeleteDroplets(w)
    <2>1. GlobalInv'
      BY <1>33 DEF DeleteDroplets, Lose
    <2>2. LocalInv(w)'
      BY <1>33 DEF DeleteDroplets, Lose
    <2>3. QED
      BY <2>1, <2>2
  <1>34. CASE DeleteSSHKey(w)
    <2>1. GlobalInv'
      BY <1>34 DEF DeleteSSHKey
    <2>2. LocalInv(w)'
      BY <1>34 DEF DeleteSSHKey
    <2>3. QED
      BY <2>1, <2>2
  <1>35. CASE DeleteLoadBalancer(w)
    <2>1. GlobalInv'
      BY <1>35 DEF DeleteLoadBalancer
    <2>2. LocalInv(w)'
      BY <1>35 DEF DeleteLoadBalancer
    <2>3. QED
      BY <2>1, <2>2
  <1>36. CASE MarkDeleted(w)
    <2>0. infra = {}
      BY <1>36 DEF MarkDeleted
    <2>1. GlobalInv'
      BY <1>36, <2>0 DEF MarkDeleted, UpdateStatus
    <2>2. LocalInv(w)'
      BY <1>36 DEF MarkDeleted, UpdateStatus
    <2>3. QED
      BY <2>1, <2>2
  <1>37. CASE Refuse(w)
    <2>1. GlobalInv'
      BY <1>37 DEF Refuse, CertExists
    <2>2. LocalInv(w)'
      BY <1>37 DEF Refuse, CertExists
    <2>3. QED
      BY <2>1, <2>2
  <1>38. CASE Abort(w)
    <2>1. GlobalInv'
      BY <1>38 DEF Abort
    <2>2. LocalInv(w)'
      BY <1>38 DEF Abort
    <2>3. QED
      BY <2>1, <2>2
  <1>39. QED
    BY <1>1, <1>2, <1>3, <1>4, <1>5, <1>6, <1>7, <1>8, <1>9, <1>10, <1>11, <1>12, <1>13,
       <1>14, <1>15, <1>16, <1>17, <1>18, <1>19, <1>20, <1>21, <1>22, <1>23, <1>24, <1>25,
       <1>26, <1>27, <1>28, <1>29, <1>30, <1>31, <1>32, <1>33, <1>34, <1>35, <1>36, <1>37,
       <1>38
       DEF Command, Step, CreateStep, ApplyStep, DeleteStep

\* A process that is in the middle of a command is not idle.
LEMMA StepBusy == ASSUME NEW w \in Workers, Step(w) \/ Abort(w) PROVE pc[w] # "idle"
  <1>1. CASE StoreCluster(w)
    BY <1>1 DEF StoreCluster
  <1>2. CASE CreateCert(w)
    BY <1>2 DEF CreateCert
  <1>3. CASE SaveNewCluster(w)
    BY <1>3 DEF SaveNewCluster
  <1>4. CASE CreateMaster(w)
    BY <1>4 DEF CreateMaster
  <1>5. CASE MastersCreated(w)
    BY <1>5 DEF MastersCreated
  <1>6. ASSUME NEW g \in NodeGroups, CreateMachineSet(w, g) PROVE pc[w] # "idle"
    BY <1>6 DEF CreateMachineSet
  <1>7. CASE MachineSetsCreated(w)
    BY <1>7 DEF MachineSetsCreated
  <1>8. CASE SaveDelete(w)
    BY <1>8 DEF SaveDelete
  <1>9. CASE SaveEdit(w)
    BY <1>9 DEF SaveEdit
  <1>10. CASE ImportPublicKey(w)
    BY <1>10 DEF ImportPublicKey
  <1>11. CASE CreateLoadBalancer(w)
    BY <1>11 DEF CreateLoadBalancer
  <1>12. CASE GetLeaderMachine(w)
    BY <1>12 DEF GetLeaderMachine, setMasterSKU
  <1>13. CASE CreateInstance(w)
    BY <1>13 DEF CreateInstance
  <1>14. CASE SaveMaster(w)
    BY <1>14 DEF SaveMaster
  <1>15. CASE WaitForReadyMaster(w)
    BY <1>15 DEF WaitForReadyMaster
  <1>16. CASE CreateMachineController(w)
    BY <1>16 DEF CreateMachineController
  <1>17. CASE UpdateProviderStatus(w)
    BY <1>17 DEF UpdateProviderStatus
  <1>18. CASE MarkReady(w)
    BY <1>18 DEF MarkReady
  <1>19. ASSUME NEW g \in NodeGroups, ApplyMachineSet(w, g) PROVE pc[w] # "idle"
    BY <1>19 DEF ApplyMachineSet
  <1>20. CASE InstanceIfExists(w)
    BY <1>20 DEF InstanceIfExists
  <1>21. CASE ScaleApplied(w)
    BY <1>21 DEF ScaleApplied
  <1>22. CASE Applied(w)
    BY <1>22 DEF Applied
  <1>23. ASSUME NEW g \in NodeGroups, MarkMachineSet(w, g) PROVE pc[w] # "idle"
    BY <1>23 DEF MarkMachineSet
  <1>24. CASE MachineSetsMarked(w)
    BY <1>24 DEF MachineSetsMarked
  <1>25. CASE DeleteAllWorkerMachines(w)
    BY <1>25 DEF DeleteAllWorkerMachines
  <1>26. CASE SaveDeleting(w)
    BY <1>26 DEF SaveDeleting
  <1>27. CASE DeleteDroplets(w)
    BY <1>27 DEF DeleteDroplets
  <1>28. CASE DeleteSSHKey(w)
    BY <1>28 DEF DeleteSSHKey
  <1>29. CASE DeleteLoadBalancer(w)
    BY <1>29 DEF DeleteLoadBalancer
  <1>30. CASE MarkDeleted(w)
    BY <1>30 DEF MarkDeleted
  <1>31. CASE Refuse(w)
    BY <1>31 DEF Refuse, Refused
  <1>32. CASE Abort(w)
    BY <1>32 DEF Abort
  <1>33. QED
    BY <1>1, <1>2, <1>3, <1>4, <1>5, <1>6, <1>7, <1>8, <1>9, <1>10, <1>11, <1>12, <1>13,
       <1>14, <1>15, <1>16, <1>17, <1>18, <1>19, <1>20, <1>21, <1>22, <1>23, <1>24, <1>25,
       <1>26, <1>27, <1>28, <1>29, <1>30, <1>31, <1>32
       DEF Step, CreateStep, ApplyStep, DeleteStep

\* A step moves no process but its own.
LEMMA OnlyOwnStep ==
  ASSUME TypeInv, NEW w \in Workers, Command(w) \/ Step(w) \/ Abort(w)
  PROVE  \E step \in Steps : pc' = [pc EXCEPT ![w] = step]
  <1> USE DEF TypeInv, TypeOK, Steps, CreateSteps, ApplySteps, DeleteSteps, Goto, Stop, procVars
  <1>1. CASE CreateCluster(w)
    BY <1>1 DEF CreateCluster
  <1>2. CASE CreateNodeGroups(w)
    BY <1>2 DEF CreateNodeGroups
  <1>3. CASE Delete(w)
    BY <1>3 DEF Delete
  <1>4. CASE DeleteNodeGroup(w)
    BY <1>4 DEF DeleteNodeGroup
  <1>5. CASE EditCluster(w)
    BY <1>5 DEF EditCluster
  <1>6. CASE Apply(w)
    BY <1>6 DEF Apply
  <1>7. CASE StoreCluster(w)
    BY <1>7 DEF StoreCluster
  <1>8. CASE CreateCert(w)
    BY <1>8 DEF CreateCert
  <1>9. CASE SaveNewCluster(w)
    BY <1>9 DEF SaveNewCluster
  <1>10. CASE CreateMaster(w)
    BY <1>10 DEF CreateMaster
  <1>11. CASE MastersCreated(w)
    BY <1>11 DEF MastersCreated
  <1>12. ASSUME NEW g \in NodeGroups, CreateMachineSet(w, g)
        PROVE  \E step \in Steps : pc' = [pc EXCEPT ![w] = step]
    BY <1>12 DEF CreateMachineSet
  <1>13. CASE MachineSetsCreated(w)
    BY <1>13 DEF MachineSetsCreated
  <1>14. CASE SaveDelete(w)
    BY <1>14 DEF SaveDelete
  <1>15. CASE SaveEdit(w)
    BY <1>15 DEF SaveEdit
  <1>16. CASE ImportPublicKey(w)
    BY <1>16 DEF ImportPublicKey
  <1>17. CASE CreateLoadBalancer(w)
    BY <1>17 DEF CreateLoadBalancer
  <1>18. CASE GetLeaderMachine(w)
    BY <1>18 DEF GetLeaderMachine, setMasterSKU
  <1>19. CASE CreateInstance(w)
    BY <1>19 DEF CreateInstance
  <1>20. CASE SaveMaster(w)
    BY <1>20 DEF SaveMaster
  <1>21. CASE WaitForReadyMaster(w)
    BY <1>21 DEF WaitForReadyMaster
  <1>22. CASE CreateMachineController(w)
    BY <1>22 DEF CreateMachineController
  <1>23. CASE UpdateProviderStatus(w)
    BY <1>23 DEF UpdateProviderStatus
  <1>24. CASE MarkReady(w)
    BY <1>24 DEF MarkReady
  <1>25. ASSUME NEW g \in NodeGroups, ApplyMachineSet(w, g)
        PROVE  \E step \in Steps : pc' = [pc EXCEPT ![w] = step]
    BY <1>25 DEF ApplyMachineSet
  <1>26. CASE InstanceIfExists(w)
    BY <1>26 DEF InstanceIfExists
  <1>27. CASE ScaleApplied(w)
    BY <1>27 DEF ScaleApplied
  <1>28. CASE Applied(w)
    BY <1>28 DEF Applied
  <1>29. ASSUME NEW g \in NodeGroups, MarkMachineSet(w, g)
        PROVE  \E step \in Steps : pc' = [pc EXCEPT ![w] = step]
    BY <1>29 DEF MarkMachineSet
  <1>30. CASE MachineSetsMarked(w)
    BY <1>30 DEF MachineSetsMarked
  <1>31. CASE DeleteAllWorkerMachines(w)
    BY <1>31 DEF DeleteAllWorkerMachines
  <1>32. CASE SaveDeleting(w)
    BY <1>32 DEF SaveDeleting
  <1>33. CASE DeleteDroplets(w)
    BY <1>33 DEF DeleteDroplets
  <1>34. CASE DeleteSSHKey(w)
    BY <1>34 DEF DeleteSSHKey
  <1>35. CASE DeleteLoadBalancer(w)
    BY <1>35 DEF DeleteLoadBalancer
  <1>36. CASE MarkDeleted(w)
    BY <1>36 DEF MarkDeleted
  <1>37. CASE Refuse(w)
    BY <1>37 DEF Refuse
  <1>38. CASE Abort(w)
    BY <1>38 DEF Abort
  <1>39. QED
    BY <1>1, <1>2, <1>3, <1>4, <1>5, <1>6, <1>7, <1>8, <1>9, <1>10, <1>11, <1>12, <1>13,
       <1>14, <1>15, <1>16, <1>17, <1>18, <1>19, <1>20, <1>21, <1>22, <1>23, <1>24, <1>25,
       <1>26, <1>27, <1>28, <1>29, <1>30, <1>31, <1>32, <1>33, <1>34, <1>35, <1>36, <1>37,
       <1>38
       DEF Command, Step, CreateStep, ApplyStep, DeleteStep

\* The controller inside the cluster only touches worker droplets.
LEMMA ControllerInv == ASSUME IInv, Controller PROVE IInv'
  <1> PICK g \in NodeGroups : ControllerScaleUp(g) \/ ControllerScaleDown(g)
    BY DEF Controller
  <1> USE DEF storeVars, kubeVars, procVars
  <1>1. TypeInv'
    BY TypeStep DEF IInv, Next, Controller
  <1>2. Exclusive'
    BY DEF IInv, Exclusive, ControllerScaleUp, ControllerScaleDown
  <1>3. GlobalInv'
    BY DEF IInv, TypeInv, TypeOK, GlobalInv, Safety, ControllerScaleUp, ControllerScaleDown,
           CertsFirst, SetsReachable, NoInfra, AllCerts, ReadyIsComplete, DeletionIntent,
           NoOrphanInfra, TeardownComplete, WorkersReachable, SingleLeader
  <1>4. ASSUME NEW w \in Workers PROVE LocalInv(w)'
    BY DEF IInv, TypeInv, TypeOK, LocalInv, CreateInv, ChangeInv, ApplyInv, DeleteInv,
           ControllerScaleUp, ControllerScaleDown, NoInfra, AllCerts, Stored
  <1>5. QED
    BY <1>1, <1>2, <1>3, <1>4 DEF IInv, GlobalInv

\* Serial steps, interruptions included, preserve the inductive invariant.
LEMMA IInvStep == ASSUME Serial PROVE IInv /\ [Next]_vars => IInv'
  <1> SUFFICES ASSUME IInv, [Next]_vars PROVE IInv'
    OBVIOUS
  <1>1. ASSUME NEW w \in Workers, Command(w) \/ Step(w) \/ Abort(w) PROVE IInv'
    <2>1. GlobalInv' /\ LocalInv(w)'
      BY <1>1, StepInv
    <2>2. TypeInv'
      BY TypeStep DEF IInv
    <2>3. \A v \in Workers \ {w} : pc[v] = "idle"
      <3>1. CASE Command(w)
        BY <3>1 DEF Command, CreateCluster, CreateNodeGroups, Delete, DeleteNodeGroup,
                    EditCluster, Apply, CanStart
      <3>2. CASE Step(w) \/ Abort(w)
        <4>1. pc[w] # "idle"
          BY <3>2, StepBusy
        <4>2. QED
          BY <4>1 DEF IInv, Exclusive
      <3>3. QED
        BY <1>1, <3>1, <3>2
    <2>4. \E step \in Steps : pc' = [pc EXCEPT ![w] = step]
      BY <1>1, <2>2, OnlyOwnStep DEF IInv
    <2>5. QED
      BY <2>1, <2>2, <2>3, <2>4, OneAtATime DEF IInv, GlobalInv
  <1>2. CASE Controller
    BY <1>2, ControllerInv
  <1>3. CASE UNCHANGED vars
    BY <1>3 DEF vars, storeVars, cloudVars, kubeVars, procVars, IInv, TypeInv, TypeOK, CertIndex,
           Exclusive, CertsFirst, SetsReachable, NoInfra, Safety, ReadyIsComplete, DeletionIntent,
           NoOrphanInfra, TeardownComplete, WorkersReachable, SingleLeader, AllCerts, Stored,
           LocalInv, CreateInv, ChangeInv, ApplyInv, DeleteInv
  <1>4. QED
    BY <1>1, <1>2, <1>3 DEF Next

\* With commands run one at a time, and each of them interrupted at any point,
\* however often: a Ready cluster is complete, phase and DeletionTimestamp
\* agree, no infrastructure is orphaned, Deleted means released (unless an API
\* error was only logged), workers are reachable and the leader is unique.
THEOREM SerialSafety ==
  ASSUME Serial
  PROVE  Spec => [](/\ ReadyIsComplete /\ DeletionIntent /\ NoOrphanInfra
                    /\ TeardownComplete /\ WorkersReachable /\ SingleLeader)
  <1>1. Spec => []IInv
    BY IInvInit, IInvStep, PTL DEF Spec
  <1>2. IInv => /\ ReadyIsComplete /\ DeletionIntent /\ NoOrphanInfra
                /\ TeardownComplete /\ WorkersReachable /\ SingleLeader
    BY DEF IInv, Safety
  <1>3. QED
    BY <1>1, <1>2, PTL

\* The DeletionTimestamp and the phase, which are written at different places,
\* never disagree in the store.
THEOREM SerialDeletionIntent ==
  ASSUME Serial
  PROVE  Spec => []DeletionIntent
  BY SerialSafety, PTL

\* The SSH key and the load balancer in the cloud belong to a stored cluster that
\* Apply still works on, wherever a command was interrupted.
THEOREM SerialNoOrphanInfra ==
  ASSUME Serial
  PROVE  Spec => []NoOrphanInfra
  BY SerialSafety, PTL

\* A cluster that ApplyDelete has written Deleted has left nothing in the cloud,
\* unless an API error was only logged.
THEOREM SerialTeardownComplete ==
  ASSUME Serial
  PROVE  Spec => []TeardownComplete
  BY SerialSafety, PTL

\* ApplyDelete can reach every worker droplet: the store knows the API endpoint.
THEOREM SerialWorkersReachable ==
  ASSUME Serial
  PROVE  Spec => []WorkersReachable
  BY SerialSafety, PTL

\* However often EnsureMaster is run again, a second leader droplet costs an error
\* that the look-up swallowed.
THEOREM SerialSingleLeader ==
  ASSUME Serial
  PROVE  Spec => []SingleLeader
  BY SerialSafety, PTL

-----------------------------------------------------------------------------
(* What no command may do to the stored cluster, when run one at a time *)

\* The commands' steps that write the cluster object; any other leaves it alone.
LEMMA OtherStepsKeepDb ==
  ASSUME NEW w \in Workers, Command(w) \/ Step(w) \/ Abort(w),
         ~StoreCluster(w), ~SaveNewCluster(w), ~SaveDelete(w), ~SaveEdit(w),
         ~SaveMaster(w), ~UpdateProviderStatus(w), ~MarkReady(w),
         ~SaveDeleting(w), ~MarkDeleted(w)
  PROVE  db' = db
  <1> USE DEF storeVars
  <1>1. CASE Command(w)
    BY <1>1 DEF Command, CreateCluster, CreateNodeGroups, Delete, DeleteNodeGroup,
                EditCluster, Apply
  <1>2. CASE CreateStep(w)
    BY <1>2 DEF CreateStep, CreateCert, CreateMaster, MastersCreated, CreateMachineSet,
                MachineSetsCreated
  <1>3. CASE ApplyStep(w)
    BY <1>3 DEF ApplyStep, ImportPublicKey, CreateLoadBalancer, GetLeaderMachine, setMasterSKU,
                InstanceIfExists, CreateInstance, WaitForReadyMaster,
                CreateMachineController, ApplyMachineSet, ScaleApplied, Applied
  <1>4. CASE DeleteStep(w)
    BY <1>4 DEF DeleteStep, MarkMachineSet, MachineSetsMarked, DeleteAllWorkerMachines,
                DeleteDroplets, DeleteSSHKey, DeleteLoadBalancer
  <1>5. CASE Refuse(w) \/ Abort(w)
    BY <1>5 DEF Refuse, Abort
  <1>6. QED
    BY <1>1, <1>2, <1>3, <1>4, <1>5 DEF Step

\* What a step does to a stored object that is Deleted.
KeepsDeleted == db.phase = "Deleted" => db'.phase \in {"Deleted", "Deleting"}

\* Every write of the object by a serial command keeps a Deleted cluster so.
LEMMA StepKeeps ==
  ASSUME IInv, NEW w \in Workers, Command(w) \/ Step(w) \/ Abort(w)
  PROVE  KeepsDeleted
  <1> USE DEF KeepsDeleted, Stored
  <1> USE DEF IInv, TypeInv, TypeOK, Clusters, Phases, Safety, DeletionIntent,
              LocalInv, CreateInv, ChangeInv, ApplyInv, DeleteInv, ApplySteps, DeleteSteps
  <1>1. CASE StoreCluster(w)
    BY <1>1 DEF StoreCluster
  <1>2. CASE SaveNewCluster(w)
    BY <1>2 DEF SaveNewCluster, Update
  <1>3. CASE SaveDelete(w)
    BY <1>3 DEF SaveDelete, Update
  <1>4. CASE SaveEdit(w)
    BY <1>4 DEF SaveEdit, Update
  <1>5. CASE SaveMaster(w)
    BY <1>5 DEF SaveMaster, Update
  <1>6. CASE UpdateProviderStatus(w)
    BY <1>6 DEF UpdateProviderStatus, Update
  <1>7. CASE MarkReady(w)
    BY <1>7 DEF MarkReady, UpdateStatus
  <1>8. CASE SaveDeleting(w)
    BY <1>8 DEF SaveDeleting, UpdateStatus
  <1>9. CASE MarkDeleted(w)
    BY <1>9 DEF MarkDeleted, UpdateStatus
  <1>10. QED
    BY <1>1, <1>2, <1>3, <1>4, <1>5, <1>6, <1>7, <1>8, <1>9, OtherStepsKeepDb

\* With commands run one at a time, a Deleted cluster does not come back: every
\* CreateCluster is stopped by the old key pairs, and Apply ignores it.
THEOREM SerialNoResurrection ==
  ASSUME Serial
  PROVE  Spec => NoResurrection
  <1>1. Spec => []IInv
    BY IInvInit, IInvStep, PTL DEF Spec
  <1>2. ASSUME IInv, [Next]_vars
        PROVE  [db.phase = "Deleted" => db'.phase \in {"Deleted", "Deleting"}]_vars
    <2>1. ASSUME NEW w \in Workers, Command(w) \/ Step(w) \/ Abort(w)
          PROVE  KeepsDeleted
      BY <1>2, <2>1, StepKeeps
    <2>2. CASE Controller
      BY <2>2 DEF Controller, ControllerScaleUp, ControllerScaleDown, storeVars
    <2>3. CASE UNCHANGED vars
      BY <2>3
    <2>4. QED
      BY <1>2, <2>1, <2>2, <2>3 DEF Next, KeepsDeleted
  <1>3. QED
    BY <1>1, <1>2, PTL DEF Spec, NoResurrection

-----------------------------------------------------------------------------
(* Safety of commands that overlap in any way *)

\* What a process knows whatever the others do: key pairs and machines are only
\* ever added, and its own copy of the cluster asks for the deletion it runs.
OwnInv(w) ==
    /\ pc[w] \in ApplySteps => AllCerts
    /\ pc[w] \in ApplySteps \ {"key", "lb", "sku"} => machines > 0
    /\ pc[w] \in DeleteSteps => mem[w].del

OverlapInv == TypeInv /\ MasterHasKeys /\ \A w \in Workers : OwnInv(w)

\* A step releases cloud resources only for a process that was asked to.
ReleasesOnRequest ==
    (vms' < vms \/ ~(infra \subseteq infra')) => \E w \in Workers : mem[w].del

\* Any step of any process, between any steps of the others.
LEMMA OverlapStep ==
  ASSUME OverlapInv, [Next]_vars
  PROVE  MasterHasKeys' /\ (\A v \in Workers : OwnInv(v)') /\ ReleasesOnRequest
  <1> DEFINE Goal == MasterHasKeys' /\ (\A v \in Workers : OwnInv(v)') /\ ReleasesOnRequest
  <1> USE ConstantsAssumption
  <1> USE DEF OverlapInv, TypeInv, TypeOK, CertIndex, Clusters, NumCerts, AllCerts, ApplySteps,
              DeleteSteps, MasterHasKeys, OwnInv, ReleasesOnRequest
  <1> USE DEF storeVars, cloudVars, kubeVars, procVars, Goto, Stop
  <1>1. ASSUME NEW w \in Workers, CreateCluster(w) PROVE Goal
    BY <1>1 DEF CreateCluster
  <1>2. ASSUME NEW w \in Workers, CreateNodeGroups(w) PROVE Goal
    BY <1>2 DEF CreateNodeGroups
  <1>3. ASSUME NEW w \in Workers, Delete(w) PROVE Goal
    BY <1>3 DEF Delete
  <1>4. ASSUME NEW w \in Workers, DeleteNodeGroup(w) PROVE Goal
    BY <1>4 DEF DeleteNodeGroup
  <1>5. ASSUME NEW w \in Workers, EditCluster(w) PROVE Goal
    BY <1>5 DEF EditCluster
  <1>6. ASSUME NEW w \in Workers, Apply(w) PROVE Goal
    BY <1>6 DEF Apply
  <1>7. ASSUME NEW w \in Workers, StoreCluster(w) PROVE Goal
    BY <1>7 DEF StoreCluster
  <1>8. ASSUME NEW w \in Workers, CreateCert(w) PROVE Goal
    BY <1>8 DEF CreateCert, CertExists
  <1>9. ASSUME NEW w \in Workers, SaveNewCluster(w) PROVE Goal
    BY <1>9 DEF SaveNewCluster
  <1>10. ASSUME NEW w \in Workers, CreateMaster(w) PROVE Goal
    BY <1>10 DEF CreateMaster, MachineExists
  <1>11. ASSUME NEW w \in Workers, MastersCreated(w) PROVE Goal
    BY <1>11 DEF MastersCreated
  <1>12. ASSUME NEW w \in Workers, NEW g \in NodeGroups, CreateMachineSet(w, g) PROVE Goal
    BY <1>12 DEF CreateMachineSet
  <1>13. ASSUME NEW w \in Workers, MachineSetsCreated(w) PROVE Goal
    BY <1>13 DEF MachineSetsCreated
  <1>14. ASSUME NEW w \in Workers, SaveDelete(w) PROVE Goal
    BY <1>14 DEF SaveDelete
  <1>15. ASSUME NEW w \in Workers, SaveEdit(w) PROVE Goal
    BY <1>15 DEF SaveEdit
  <1>16. ASSUME NEW w \in Workers, ImportPublicKey(w) PROVE Goal
    BY <1>16 DEF ImportPublicKey
  <1>17. ASSUME NEW w \in Workers, CreateLoadBalancer(w) PROVE Goal
    BY <1>17 DEF CreateLoadBalancer
  <1>18. ASSUME NEW w \in Workers, GetLeaderMachine(w) PROVE Goal
    BY <1>18 DEF GetLeaderMachine, setMasterSKU, MachineExists
  <1>19. ASSUME NEW w \in Workers, InstanceIfExists(w) PROVE Goal
    BY <1>19 DEF InstanceIfExists, Lose
  <1>20. ASSUME NEW w \in Workers, CreateInstance(w) PROVE Goal
    BY <1>20 DEF CreateInstance
  <1>21. ASSUME NEW w \in Workers, SaveMaster(w) PROVE Goal
    BY <1>21 DEF SaveMaster
  <1>22. ASSUME NEW w \in Workers, WaitForReadyMaster(w) PROVE Goal
    BY <1>22 DEF WaitForReadyMaster
  <1>23. ASSUME NEW w \in Workers, CreateMachineController(w) PROVE Goal
    BY <1>23 DEF CreateMachineController
  <1>24. ASSUME NEW w \in Workers, UpdateProviderStatus(w) PROVE Goal
    BY <1>24 DEF UpdateProviderStatus
  <1>25. ASSUME NEW w \in Workers, MarkReady(w) PROVE Goal
    BY <1>25 DEF MarkReady
  <1>26. ASSUME NEW w \in Workers, NEW g \in NodeGroups, ApplyMachineSet(w, g) PROVE Goal
    BY <1>26 DEF ApplyMachineSet
  <1>27. ASSUME NEW w \in Workers, ScaleApplied(w) PROVE Goal
    BY <1>27 DEF ScaleApplied
  <1>28. ASSUME NEW w \in Workers, Applied(w) PROVE Goal
    BY <1>28 DEF Applied
  <1>29. ASSUME NEW w \in Workers, NEW g \in NodeGroups, MarkMachineSet(w, g) PROVE Goal
    BY <1>29 DEF MarkMachineSet
  <1>30. ASSUME NEW w \in Workers, MachineSetsMarked(w) PROVE Goal
    BY <1>30 DEF MachineSetsMarked
  <1>31. ASSUME NEW w \in Workers, DeleteAllWorkerMachines(w) PROVE Goal
    BY <1>31 DEF DeleteAllWorkerMachines, Lose
  <1>32. ASSUME NEW w \in Workers, SaveDeleting(w) PROVE Goal
    BY <1>32 DEF SaveDeleting
  <1>33. ASSUME NEW w \in Workers, DeleteDroplets(w) PROVE Goal
    BY <1>33 DEF DeleteDroplets, Lose
  <1>34. ASSUME NEW w \in Workers, DeleteSSHKey(w) PROVE Goal
    BY <1>34 DEF DeleteSSHKey
  <1>35. ASSUME NEW w \in Workers, DeleteLoadBalancer(w) PROVE Goal
    BY <1>35 DEF DeleteLoadBalancer
  <1>36. ASSUME NEW w \in Workers, MarkDeleted(w) PROVE Goal
    BY <1>36 DEF MarkDeleted
  <1>37. ASSUME NEW w \in Workers, Refuse(w) PROVE Goal
    BY <1>37 DEF Refuse
  <1>38. ASSUME NEW w \in Workers, Abort(w) PROVE Goal
    BY <1>38 DEF Abort
  <1>39. CASE Controller
    BY <1>39 DEF Controller, ControllerScaleUp, ControllerScaleDown
  <1>40. CASE UNCHANGED vars
    BY <1>40 DEF vars
  <1>41. QED
    BY <1>1, <1>2, <1>3, <1>4, <1>5, <1>6, <1>7, <1>8, <1>9, <1>10, <1>11,
       <1>12, <1>13, <1>14, <1>15, <1>16, <1>17, <1>18, <1>19, <1>20,
       <1>21, <1>22, <1>23, <1>24, <1>25, <1>26, <1>27, <1>28, <1>29,
       <1>30, <1>31, <1>32, <1>33, <1>34, <1>35, <1>36, <1>37, <1>38,
       <1>39, <1>40
       DEF Next, Command, Step, CreateStep, ApplyStep, DeleteStep

\* However commands overlap: no leader droplet without its key pairs and Machine
\* object, and nothing is torn down without a deletion having been requested.
THEOREM OverlapSafety == Spec => []MasterHasKeys /\ TeardownOnlyOnRequest
  <1>1. Init => OverlapInv
    <2>1. ASSUME Init PROVE MasterHasKeys /\ \A w \in Workers : OwnInv(w)
      BY <2>1 DEF Init, MasterHasKeys, OwnInv, ApplySteps, DeleteSteps
    <2>2. QED
      BY <2>1, TypeInit DEF OverlapInv
  <1>2. OverlapInv /\ [Next]_vars => OverlapInv'
    BY OverlapStep, TypeStep DEF OverlapInv
  <1>3. OverlapInv /\ [Next]_vars =>
          [(vms' < vms \/ ~(infra \subseteq infra')) => \E w \in Workers : mem[w].del]_vars
    BY OverlapStep DEF ReleasesOnRequest
  <1>4. OverlapInv => MasterHasKeys
    BY DEF OverlapInv
  <1>5. QED
    BY <1>1, <1>2, <1>3, <1>4, PTL DEF Spec, TeardownOnlyOnRequest

\* Droplets, SSH key and load balancer are released only by a process whose copy
\* of the cluster carries a DeletionTimestamp, however commands overlap.
THEOREM OverlapTeardownOnRequest == Spec => TeardownOnlyOnRequest
  BY OverlapSafety, PTL

-----------------------------------------------------------------------------
(* What overlapping commands may do to the deletion mark and to the spec *)

\* A copy of the cluster that a process works on is one of a stored cluster.
HasPhase(w) ==
    pc[w] \in {"store", "certs", "update", "edit", "delete"} \cup ApplySteps \cup DeleteSteps
        => mem[w].phase # "None"

CopiesInv == TypeInv /\ \A w \in Workers : HasPhase(w)

\* What a step may do to a mark, or to a spec, that store and copies agree on.
KeepsMark == Marked => Marked' \/ StartsOver
KeepsSpec == Settled => \/ Settled' /\ db'.ver = db.ver
                        \/ StartsOver
                        \/ \E w \in Workers : pc[w] = "idle" /\ pc'[w] = "edit"

\* Any step of any process: only a new copy with another mark or spec, made by a
\* CreateCluster or by the user's edit, can spoil the agreement.
LEMMA CopiesStep ==
  ASSUME CopiesInv, [Next]_vars
  PROVE  (\A v \in Workers : HasPhase(v)') /\ KeepsMark /\ KeepsSpec
  <1> DEFINE Goal == (\A v \in Workers : HasPhase(v)') /\ KeepsMark /\ KeepsSpec
  <1> USE ConstantsAssumption
  <1> USE DEF CopiesInv, TypeInv, TypeOK, Clusters, Phases, Stored, ApplySteps, DeleteSteps,
              HasPhase, KeepsMark, KeepsSpec, Marked, Settled, StartsOver, WillWrite,
              Update, UpdateStatus, NoCluster
  <1> USE DEF storeVars, cloudVars, kubeVars, procVars, Goto, Stop, CanStart
  <1>1. ASSUME NEW w \in Workers, CreateCluster(w) PROVE Goal
    BY <1>1 DEF CreateCluster
  <1>2. ASSUME NEW w \in Workers, CreateNodeGroups(w) PROVE Goal
    BY <1>2 DEF CreateNodeGroups
  <1>3. ASSUME NEW w \in Workers, Delete(w) PROVE Goal
    BY <1>3 DEF Delete
  <1>4. ASSUME NEW w \in Workers, DeleteNodeGroup(w) PROVE Goal
    BY <1>4 DEF DeleteNodeGroup
  <1>5. ASSUME NEW w \in Workers, EditCluster(w) PROVE Goal
    BY <1>5 DEF EditCluster
  <1>6. ASSUME NEW w \in Workers, Apply(w) PROVE Goal
    BY <1>6 DEF Apply
  <1>7. ASSUME NEW w \in Workers, StoreCluster(w) PROVE Goal
    BY <1>7 DEF StoreCluster
  <1>8. ASSUME NEW w \in Workers, CreateCert(w) PROVE Goal
    BY <1>8 DEF CreateCert, CertExists
  <1>9. ASSUME NEW w \in Workers, SaveNewCluster(w) PROVE Goal
    BY <1>9 DEF SaveNewCluster
  <1>10. ASSUME NEW w \in Workers, CreateMaster(w) PROVE Goal
    BY <1>10 DEF CreateMaster, MachineExists
  <1>11. ASSUME NEW w \in Workers, MastersCreated(w) PROVE Goal
    BY <1>11 DEF MastersCreated
  <1>12. ASSUME NEW w \in Workers, NEW g \in NodeGroups, CreateMachineSet(w, g) PROVE Goal
    BY <1>12 DEF CreateMachineSet
  <1>13. ASSUME NEW w \in Workers, MachineSetsCreated(w) PROVE Goal
    BY <1>13 DEF MachineSetsCreated
  <1>14. ASSUME NEW w \in Workers, SaveDelete(w) PROVE Goal
    BY <1>14 DEF SaveDelete
  <1>15. ASSUME NEW w \in Workers, SaveEdit(w) PROVE Goal
    BY <1>15 DEF SaveEdit
  <1>16. ASSUME NEW w \in Workers, ImportPublicKey(w) PROVE Goal
    BY <1>16 DEF ImportPublicKey
  <1>17. ASSUME NEW w \in Workers, CreateLoadBalancer(w) PROVE Goal
    BY <1>17 DEF CreateLoadBalancer
  <1>18. ASSUME NEW w \in Workers, GetLeaderMachine(w) PROVE Goal
    BY <1>18 DEF GetLeaderMachine, setMasterSKU, MachineExists
  <1>19. ASSUME NEW w \in Workers, InstanceIfExists(w) PROVE Goal
    <2>1. PICK step \in {"save", "create"} : pc' = [pc EXCEPT ![w] = step]
      BY <1>19 DEF InstanceIfExists
    <2>2. pc[w] = "vm" /\ UNCHANGED <<db, mem>>
      BY <1>19 DEF InstanceIfExists
    <2>3. QED
      BY <2>1, <2>2
  <1>20. ASSUME NEW w \in Workers, CreateInstance(w) PROVE Goal
    BY <1>20 DEF CreateInstance
  <1>21. ASSUME NEW w \in Workers, SaveMaster(w) PROVE Goal
    BY <1>21 DEF SaveMaster
  <1>22. ASSUME NEW w \in Workers, WaitForReadyMaster(w) PROVE Goal
    BY <1>22 DEF WaitForReadyMaster
  <1>23. ASSUME NEW w \in Workers, CreateMachineController(w) PROVE Goal
    BY <1>23 DEF CreateMachineController
  <1>24. ASSUME NEW w \in Workers, UpdateProviderStatus(w) PROVE Goal
    BY <1>24 DEF UpdateProviderStatus
  <1>25. ASSUME NEW w \in Workers, MarkReady(w) PROVE Goal
    BY <1>25 DEF MarkReady
  <1>26. ASSUME NEW w \in Workers, NEW g \in NodeGroups, ApplyMachineSet(w, g) PROVE Goal
    BY <1>26 DEF ApplyMachineSet
  <1>27. ASSUME NEW w \in Workers, ScaleApplied(w) PROVE Goal
    BY <1>27 DEF ScaleApplied
  <1>28. ASSUME NEW w \in Workers, Applied(w) PROVE Goal
    BY <1>28 DEF Applied
  <1>29. ASSUME NEW w \in Workers, NEW g \in NodeGroups, MarkMachineSet(w, g) PROVE Goal
    BY <1>29 DEF MarkMachineSet
  <1>30. ASSUME NEW w \in Workers, MachineSetsMarked(w) PROVE Goal
    BY <1>30 DEF MachineSetsMarked
  <1>31. ASSUME NEW w \in Workers, DeleteAllWorkerMachines(w) PROVE Goal
    BY <1>31 DEF DeleteAllWorkerMachines, Lose
  <1>32. ASSUME NEW w \in Workers, SaveDeleting(w) PROVE Goal
    BY <1>32 DEF SaveDeleting
  <1>33. ASSUME NEW w \in Workers, DeleteDroplets(w) PROVE Goal
    BY <1>33 DEF DeleteDroplets, Lose
  <1>34. ASSUME NEW w \in Workers, DeleteSSHKey(w) PROVE Goal
    BY <1>34 DEF DeleteSSHKey
  <1>35. ASSUME NEW w \in Workers, DeleteLoadBalancer(w) PROVE Goal
    BY <1>35 DEF DeleteLoadBalancer
  <1>36. ASSUME NEW w \in Workers, MarkDeleted(w) PROVE Goal
    BY <1>36 DEF MarkDeleted
  <1>37. ASSUME NEW w \in Workers, Refuse(w) PROVE Goal
    BY <1>37 DEF Refuse
  <1>38. ASSUME NEW w \in Workers, Abort(w) PROVE Goal
    BY <1>38 DEF Abort
  <1>39. CASE Controller
    BY <1>39 DEF Controller, ControllerScaleUp, ControllerScaleDown
  <1>40. CASE UNCHANGED vars
    BY <1>40 DEF vars
  <1>41. QED
    BY <1>1, <1>2, <1>3, <1>4, <1>5, <1>6, <1>7, <1>8, <1>9, <1>10, <1>11,
       <1>12, <1>13, <1>14, <1>15, <1>16, <1>17, <1>18, <1>19, <1>20,
       <1>21, <1>22, <1>23, <1>24, <1>25, <1>26, <1>27, <1>28, <1>29,
       <1>30, <1>31, <1>32, <1>33, <1>34, <1>35, <1>36, <1>37, <1>38,
       <1>39, <1>40
       DEF Next, Command, Step, CreateStep, ApplyStep, DeleteStep

\* However commands overlap, once a cluster is marked as deleted and no process
\* holds an older copy that it will write, only a CreateCluster that starts over
\* takes the mark away; and a spec that the store and those copies agree on is
\* changed only by a CreateCluster or by the next edit.
THEOREM OverlapWrites == Spec => DeletionRemembered /\ EditKept
  <1>1. Init => CopiesInv
    <2>1. ASSUME Init PROVE \A w \in Workers : HasPhase(w)
      BY <2>1 DEF Init, HasPhase, ApplySteps, DeleteSteps
    <2>2. QED
      BY <2>1, TypeInit DEF CopiesInv
  <1>2. CopiesInv /\ [Next]_vars => CopiesInv'
    BY CopiesStep, TypeStep DEF CopiesInv
  <1>3. CopiesInv /\ [Next]_vars =>
          /\ [Marked => Marked' \/ StartsOver]_vars
          /\ [Settled => \/ Settled' /\ db'.ver = db.ver
                         \/ StartsOver
                         \/ \E w \in Workers : pc[w] = "idle" /\ pc'[w] = "edit"]_vars
    BY CopiesStep DEF KeepsMark, KeepsSpec
  <1>4. QED
    BY <1>1, <1>2, <1>3, PTL DEF Spec, DeletionRemembered, EditKept

\* However commands overlap, no delete, apply or status write brings an earlier
\* spec back once the store and every copy that will be written agree.
THEOREM OverlapEditKept == Spec => EditKept
  BY OverlapWrites, PTL
=============================================================================
