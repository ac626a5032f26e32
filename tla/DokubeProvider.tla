--------------------------- MODULE DokubeProvider ---------------------------
(***************************************************************************)
(* The DigitalOcean Kubernetes provider: a cluster that is known by the id *)
(* that PrepareCloud stores once everything else has worked.  Checking the *)
(* credential creates a tag and deletes it again.                          *)
(***************************************************************************)
EXTENDS ManagedProvider

newconnector ==
    \/ Make("connect", TRUE, "tag", 0, {}, "untag") /\ UNCHANGED store
    \/ Remove("untag", TRUE, Current("tag"), "connected") /\ UNCHANGED store
    \/ /\ Check("connected", TRUE, IF mem.phase = "Pending" THEN "known" ELSE "dsets")
       /\ UNCHANGED store

-----------------------------------------------------------------------------
(* PrepareCloud *)

\* Mutant: the stored id is not looked at.
clusterUnknown == Check("known", TRUE, "make") /\ UNCHANGED store

clusterKnown == Check("known", TRUE, IF mem.ids = {} THEN "make" ELSE "client") /\ UNCHANGED store

\* External: DigitalOcean may or may not accept a name that is taken.
createCluster ==
    \/ Make("make", TRUE, "doks", 0, {}, "wait") /\ UNCHANGED store
    \/ Only("doks") # {} /\ Check("make", FALSE, "wait") /\ UNCHANGED store

\* Polls until the cluster is no longer being provisioned: running, or failed.
waitForClusterCreation ==
    /\ \A r \in Current("doks") : r.has \cap {"done", "failed"} # {}
    /\ Check("wait", TRUE, "get") /\ UNCHANGED store

\* The id and the endpoint, in memory.
retrieveClusterStatus ==
    /\ pc = "get" /\ pc' = "kubeconfig"
    /\ mem' = [mem EXCEPT !.ids = {cur}, !.endp = \E r \in Current("doks") : "done" \in r.has]
    /\ UNCHANGED <<db, cloud, net, cur, sets, torn, aborts, lost, ng, pki>>

\* A cluster that failed has no kubeconfig.
getKubeConfigYAML == Check("kubeconfig", mem.endp, "caDelete") /\ UNCHANGED store

PrepareCloud == Save("save", mem.endp, {}, "client") /\ UNCHANGED store

Known(c) == {r \in Only("doks") : r.id \in c.ids}

NewDokubeAdminClient == Check("client", "admin" \in pki /\ mem.endp, "ready") /\ UNCHANGED store

Reachable(c) == (\E r \in Known(c) : "done" \in r.has) /\ {"cloud", "admin"} \subseteq pki

-----------------------------------------------------------------------------
(* ApplyScale: a pool that is not there is an error, never created *)

ApplyScale ==
    \/ Check("scale", TRUE, IF ng = "none" THEN "scaled" ELSE "ng") /\ UNCHANGED store
    \/ Update("scaled", "end")
    \/ Done("end")

getNodePool ==
    Check("ng", Known(mem) # {}, IF ng = "marked" THEN "ngDelete" ELSE "ngAdjust") /\ UNCHANGED store

adjustNodePool == Check("ngAdjust", Known(mem) # {}, "ngStatus") /\ UNCHANGED store
deleteNodePool == Mark("ngDelete", TRUE, Known(mem), {"nopool"}, "ngForget") /\ UNCHANGED store

\* After the set was deleted its status cannot be stored.
NodeGroup ==
    \/ getNodePool \/ adjustNodePool \/ deleteNodePool
    \/ Forget("ngForget", "ngStatus") \/ UpdateStatus("ngStatus", "scaled")

-----------------------------------------------------------------------------
(* ApplyDelete *)

\* Refused for an id that is empty or unknown.
requestDelete ==
    Mark("ddoks", Known(mem) # {} /\ \A r \in Known(mem) : "deleting" \notin r.has,
         Known(mem), {"deleting"}, "dend") /\ UNCHANGED store

Deleted == Finish("dend", "Deleted") /\ UNCHANGED store

-----------------------------------------------------------------------------

Prepare ==
    \/ clusterKnown \/ createCluster \/ waitForClusterCreation \/ retrieveClusterStatus
    \/ getKubeConfigYAML \/ StoreCertificate("save") \/ PrepareCloud
    \/ NewDokubeAdminClient \/ ApplyCreate("ready", Reachable(mem), "scale")

Step ==
    \/ newconnector \/ Prepare \/ ApplyScale \/ NodeGroup
    \/ ApplyDelete("ddoks") \/ requestDelete \/ Deleted

Environment == Provision({"doks"}) \/ Withdraw(Going("doks"))

Next == runApplyCmd \/ deleteCluster \/ DeleteMachineSet \/ Step \/ Kill \/ Environment

Spec == ManagedInit /\ [][Next]_managedVars

-----------------------------------------------------------------------------
(* Properties *)

\* A second cluster needs a failure, one for each, as long as no admin
\* certificate of an unknown cluster is in the store; with it every apply makes
\* one more cluster, fails to store the new certificate and forgets the id.
NoTwins ==
    \/ Cardinality(Only("doks")) <= 1 + aborts
    \/ db.ids = {} /\ "admin" \in pki

\* When the cluster is marked Deleted, the cluster that was stored is going or
\* gone; others of its name were never known.
NetworkGone ==
    torn => \A r \in Only("doks") : "deleting" \in r.has \/ r.id \notin db.ids

GetKubeConfig == db.endp /\ Reachable(db)
Served == GetKubeConfig

Resumable ==
    /\ "ca" \in pki /\ (db.ids = {} => "admin" \notin pki)
    /\ FreshIds("doks") # {} /\ FreshIds("tag") # {}
    /\ Only("doks") = {} \/ db.ids # {}
    /\ NoFaultsLeft

\* ApplyDelete needs the stored id, of a cluster that is still there.
Deletable ==
    /\ "ca" \in pki /\ FreshIds("tag") # {}
    /\ \E r \in Known(db) : "deleting" \notin r.has
    /\ NoFaultsLeft
=============================================================================
