---------------------------- MODULE GkeProvider -----------------------------
(***************************************************************************)
(* The GKE provider: a network, and a cluster that is created together     *)
(* with its node pool.  The certificates that the cloud has made for the   *)
(* cluster go into the store, in the run that creates the cluster.         *)
(***************************************************************************)
EXTENDS ManagedProvider

newconnector == Connect("net", "dsets") /\ UNCHANGED store

-----------------------------------------------------------------------------
(* PrepareCloud *)

getNetworks    == Find("net", Only("network"), "get", "netMake") /\ UNCHANGED store
ensureNetworks == Make("netMake", Only("network") = {}, "network", 0, {}, "get") /\ UNCHANGED store

\* An error of the look-up is taken for a missing cluster.
getCluster == Find("get", Only("cluster"), "endpoint", "make") /\ UNCHANGED store

\* The node group is in the request, marked for deletion or not.
encodeCluster == IF ng = "none" THEN {} ELSE {Resource("pool", 1, 0, {})}

createCluster ==
    /\ pc = "make"
    /\ IF Only("cluster") = {}
       THEN Continue("wait") /\ cloud' = cloud \cup {Resource("cluster", 1, 0, {})} \cup encodeCluster
       ELSE Return /\ UNCHANGED cloud
    /\ UNCHANGED <<db, sets, torn, aborts, lost, ng, pki>>

\* The operation ends whether or not it has succeeded, or the wait times out:
\* Kill.
waitForZoneOperation(kind, from, to) ==
    /\ \A r \in Only(kind) : r.has \cap {"done", "failed"} # {}
    /\ Check(from, TRUE, to) /\ UNCHANGED store

\* A cluster that failed has no certificates to store.
getCreated == Check("created", Up("cluster") # {}, "caDelete") /\ UNCHANGED store

\* The endpoint is empty while the cluster is being made.
retrieveClusterStatus ==
    /\ pc = "endpoint" /\ pc' = "client"
    /\ mem' = [mem EXCEPT !.endp = @ \/ Up("cluster") # {}]
    /\ UNCHANGED <<db, cloud, net, cur, sets, torn, aborts, lost, ng, pki>>

NewGKEAdminClient == Check("client", "admin" \in pki /\ mem.endp, "ready") /\ UNCHANGED store

Reachable == Up("cluster") # {} /\ {"cloud", "admin"} \subseteq pki

-----------------------------------------------------------------------------
(* ApplyScale *)

\* Mutant: the end of ApplyScale without storing the cluster.
scaleWithoutUpdate ==
    \/ Check("scale", TRUE, IF ng = "none" THEN "end" ELSE "ng") /\ UNCHANGED store
    \/ Done("scaled")
    \/ Done("end")

ApplyScale ==
    \/ Check("scale", TRUE, IF ng = "none" THEN "scaled" ELSE "ng") /\ UNCHANGED store
    \/ Update("scaled", "end")
    \/ Done("end")

getNodePool == Find("ng", Only("pool"), "ngFound", "ngMake") /\ UNCHANGED store

addNodePool    == Make("ngMake", Only("pool") = {}, "pool", 0, {}, "ngWait") /\ UNCHANGED store
deleteNoodPool == Remove("ngDelete", TRUE, Only("pool"), "ngForget") /\ UNCHANGED store
adjustNodePool == Check("ngAdjust", Only("pool") # {}, "ngStatus") /\ UNCHANGED store

NodeGroup ==
    \/ getNodePool \/ addNodePool \/ waitForZoneOperation("pool", "ngWait", "ngStatus")
    \/ Check("ngFound", TRUE, IF ng = "marked" THEN "ngDelete" ELSE "ngAdjust") /\ UNCHANGED store
    \/ deleteNoodPool \/ Forget("ngForget", "scaled")
    \/ adjustNodePool \/ UpdateStatus("ngStatus", "scaled")

-----------------------------------------------------------------------------
(* ApplyDelete: the phase stays Deleting *)

\* Refused for a cluster that is not there or is on its way out.
requestDelete ==
    Mark("dcluster", Only("cluster") # {} /\ Going("cluster") = {}, Only("cluster"), {"deleting"}, "dwait")
    /\ UNCHANGED store

\* Mutant: the operation is not waited for.
deleteWithoutWait == Finish("dwait", db.phase) /\ UNCHANGED store

\* The operation ends when the cluster is gone, or has failed to go.
waitForDelete ==
    /\ Going("cluster") = {}
    /\ Finish("dwait", db.phase) /\ UNCHANGED store

-----------------------------------------------------------------------------

Prepare ==
    \/ getNetworks \/ ensureNetworks \/ getCluster \/ createCluster
    \/ waitForZoneOperation("cluster", "wait", "created") \/ getCreated
    \/ StoreCertificate("endpoint") \/ retrieveClusterStatus \/ NewGKEAdminClient
    \/ ApplyCreate("ready", Reachable, "scale")

Step ==
    \/ newconnector \/ Prepare \/ ApplyScale \/ NodeGroup
    \/ ApplyDelete("dcluster") \/ requestDelete \/ waitForDelete

\* External: the deletion of a cluster takes its node pools along, or fails.
deleteFails ==
    /\ Going("cluster") # {} /\ lost < MaxLost /\ lost' = lost + 1
    /\ cloud' = (cloud \ Only("cluster")) \cup
                {[r EXCEPT !.has = @ \ {"deleting"}] : r \in Only("cluster")}
    /\ UNCHANGED <<pc, db, mem, net, cur, sets, torn, aborts, ng, pki>>

Environment ==
    \/ Provision({"cluster", "pool"})
    \/ Withdraw(IF Going("cluster") = {} THEN {} ELSE All({"cluster", "pool"}))
    \/ deleteFails

Next == runApplyCmd \/ deleteCluster \/ DeleteMachineSet \/ Step \/ Kill \/ Environment

Spec == ManagedInit /\ [][Next]_managedVars

-----------------------------------------------------------------------------
(* Properties *)

NoTwins == \A r, q \in cloud : r.kind = q.kind => r = q

\* When ApplyDelete reports success, the cluster and its node pools are gone,
\* unless the operation it waited for has failed.
NetworkGone == torn /\ lost = 0 => All({"cluster", "pool"}) = {}

\* The node pool runs, and the stored endpoint and certificates are enough for
\* GetKubeConfig.
GetKubeConfig == db.endp /\ Reachable
Served == (ng = "wanted" => Only("pool") # {}) /\ GetKubeConfig

\* The certificates are stored only by the run that creates the cluster: a
\* cluster without them in the store stays Pending, and without a ca no command
\* works on it any more.
Resumable ==
    /\ Only("cluster") # {} => {"ca", "cloud", "admin"} \subseteq pki
    /\ "ca" \in pki /\ ("admin" \in pki => Only("cluster") # {})
    /\ \A r \in cloud : "failed" \notin r.has
    /\ NoFaultsLeft

\* ApplyDelete needs the cluster: one that was never made, or is gone already,
\* is an error, and the cluster stays Deleting.
Deletable == "ca" \in pki /\ Only("cluster") # {} /\ Going("cluster") = {} /\ NoFaultsLeft
=============================================================================
