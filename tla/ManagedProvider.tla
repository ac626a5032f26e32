-------------------------- MODULE ManagedProvider ---------------------------
(***************************************************************************)
(* What the managed providers (EKS, GKE, AKS, DigitalOcean Kubernetes)     *)
(* have in common.  The cloud runs the control plane; pharmer creates it,  *)
(* waits for it, keeps what it needs to talk to it, and hands the stored   *)
(* node group to the cloud in ApplyScale.                                  *)
(*                                                                         *)
(* The cloud works on a resource after the call has returned: "done" marks *)
(* a resource that is up, "failed" one that will never be, and "deleting"  *)
(* one that is going away.                                                 *)
(***************************************************************************)
EXTENDS CloudProvider

VARIABLES
    ng,    \* stored MachineSet: "wanted", "marked" for deletion or "none"
    pki    \* stored certificates: "ca", "cloud" (the ca is the cloud's), "admin"

managedVars == <<vars, ng, pki>>
store       == <<ng, pki>>

ManagedInit == Init /\ ng = "wanted" /\ pki = {"ca"}

Up(kind)    == With(kind, "done")
Going(kind) == With(kind, "deleting")

\* pharmer apply: the certificates are loaded before anything else.
runApplyCmd == "ca" \in pki /\ Apply /\ UNCHANGED store

deleteCluster == DeleteCluster /\ UNCHANGED store

\* pharmer delete nodegroup only marks the stored object.
DeleteMachineSet ==
    /\ pc = "idle" /\ ng = "wanted" /\ db.phase \in {"Pending", "Ready"}
    /\ ng' = "marked"
    /\ UNCHANGED <<vars, pki>>

\* The API server answers, the phase is stored with the status, and ApplyScale
\* follows.  From now on apply does nothing but delete.
ApplyCreate(from, reachable, to) ==
    /\ pc = from
    /\ IF reachable
       THEN /\ mem' = [mem EXCEPT !.phase = "Ready"]
            /\ db' = [db EXCEPT !.phase = "Ready"]
            /\ pc' = to /\ UNCHANGED <<net, cur>>
       ELSE Return /\ UNCHANGED db
    /\ UNCHANGED <<cloud, sets, torn, aborts, lost, ng, pki>>

\* The node groups are marked one by one, the status is stored.  There are no
\* machine sets inside a managed cluster: the error is logged.
ApplyDelete(to) ==
    \/ /\ Check("dsets", TRUE, "dstatus") /\ ng' = IF ng = "wanted" THEN "marked" ELSE ng
       /\ UNCHANGED pki
    \/ StartDelete("dstatus", FALSE, to) /\ UNCHANGED store

\* MachineSet().Delete.
Forget(from, to) == Check(from, ng # "none", to) /\ ng' = "none" /\ UNCHANGED pki

\* MachineSet().UpdateStatus, an error for an object that is gone.
UpdateStatus(from, to) == Check(from, ng # "none", to) /\ UNCHANGED store

\* Clusters().Update and the end of ApplyScale.
Update(from, to) == Save(from, mem.endp, {}, to) /\ UNCHANGED store

\* The command ends without an error.
Done(from) == Check(from, FALSE, from) /\ UNCHANGED store

\* StoreCertificate: the ca is deleted and stored again with the certificate of
\* the cloud and the old key; a certificate that exists is not created.
StoreCertificate(to) ==
    \/ Check("caDelete", TRUE, "caPut") /\ pki' = pki \ {"ca", "cloud"} /\ UNCHANGED ng
    \/ Check("caPut", TRUE, "adminPut") /\ pki' = pki \cup {"ca", "cloud"} /\ UNCHANGED ng
    \/ Check("adminPut", "admin" \notin pki, to) /\ pki' = pki \cup {"admin"} /\ UNCHANGED ng

\* External: the cloud completes a resource, or fails to.
Provision(kinds) ==
    /\ \E r \in All(kinds) :
         /\ r.has \cap {"done", "failed", "deleting"} = {}
         /\ \/ cloud' = Marked({r}, {"done"}) /\ UNCHANGED aborts
            \/ aborts < MaxAborts /\ aborts' = aborts + 1 /\ cloud' = Marked({r}, {"failed"})
    /\ UNCHANGED <<pc, db, mem, net, cur, sets, torn, lost, ng, pki>>

\* External: the cloud removes the resources S that are on their way out.
Withdraw(S) ==
    /\ S # {} /\ cloud' = cloud \ S
    /\ UNCHANGED <<pc, db, mem, net, cur, sets, torn, aborts, lost, ng, pki>>

\* A wait for something to be done: goes on, or times out when it never will be.
WaitFor(from, S, to) ==
    /\ S = {} \/ \E r \in S : r.has \cap {"done", "failed"} # {}
    /\ Check(from, \E r \in S : "done" \in r.has, to) /\ UNCHANGED store

Kill == Abort /\ UNCHANGED store

NoFaultsLeft == aborts = MaxAborts /\ lost = MaxLost
=============================================================================
