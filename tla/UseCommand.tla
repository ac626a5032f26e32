----------------------------- MODULE UseCommand -----------------------------
(***************************************************************************)
(* pharmer use cluster: the cluster's context is put into the user's       *)
(* kubeconfig, which other tools write to as well.  The file is copied to  *)
(* a backup named after the minute, loaded, changed, truncated and written *)
(* again, without a lock.                                                  *)
(*                                                                         *)
(* A kubeconfig is its current context and the contexts it has; what they  *)
(* hold is left out.  An empty file loads as an empty kubeconfig.          *)
(***************************************************************************)
EXTENDS Naturals

CONSTANTS
    Users,       \* commands that run at the same time
    Clusters,
    MaxMinutes   \* bound: minutes that the model goes on

ASSUME MaxMinutesAssumption == MaxMinutes \in Nat

VARIABLES
    kubeconfig,  \* $HOME/.kube/config
    bak,         \* the backup of each minute
    use,         \* what each command is doing
    minute,
    had,         \* history: another tool has written its context
    accident     \* history: since another tool wrote, a command met a truncated file
                 \* of another one; or a command had loaded the file before that

useVars == <<kubeconfig, bak, use, minute, had, accident>>

Other    == "other"   \* a context that another tool has written

Config(current, contexts) == [current |-> current, contexts |-> contexts]
Empty  == Config("none", {})
Absent == Config("no file", {})

NotRunning == [pc |-> "idle", name |-> "none", overwrite |-> TRUE,
               konfig |-> Empty, minute |-> 0]

\* Commands that have looked at the kubeconfig and not yet replaced it.
Loaded == {u \in Users : use[u].pc \in {"create", "copy", "set", "write"}}
Become(u, r) == use' = [use EXCEPT ![u] = r]
Meets(file)  == accident' = (accident \/ file = Empty)
At(u, pc)    == use[u].pc = pc

-----------------------------------------------------------------------------

\* The cluster and its certificates are read from the store.
GetKubeConfig(u) ==
    /\ At(u, "idle")
    /\ \E c \in Clusters, o \in BOOLEAN :
         Become(u, [NotRunning EXCEPT !.pc = "load", !.name = c, !.overwrite = o])
    /\ UNCHANGED <<kubeconfig, bak, minute, had, accident>>

LoadFromFile(u) ==
    /\ At(u, "load")
    /\ IF kubeconfig = Absent
       THEN Become(u, [use[u] EXCEPT !.pc = "set"])
       ELSE Become(u, [use[u] EXCEPT !.pc = "create", !.konfig = kubeconfig,
                                     !.minute = minute])
    /\ Meets(kubeconfig)
    /\ UNCHANGED <<kubeconfig, bak, minute, had>>

\* CopyFile creates, or truncates, the backup and then fills it.
CreateBackup(u) ==
    /\ At(u, "create")
    /\ bak' = [bak EXCEPT ![use[u].minute] = Empty]
    /\ Become(u, [use[u] EXCEPT !.pc = "copy"])
    /\ Meets(kubeconfig)
    /\ UNCHANGED <<kubeconfig, minute, had>>

\* Mutant: source and destination of the copy are swapped.
CopyFileSwapped(u) ==
    /\ At(u, "copy")
    /\ kubeconfig' = bak[use[u].minute]
    /\ Become(u, [use[u] EXCEPT !.pc = "set"])
    /\ Meets(kubeconfig)
    /\ UNCHANGED <<bak, minute, had>>

CopyFile(u) ==
    /\ At(u, "copy")
    /\ bak' = [bak EXCEPT ![use[u].minute] = kubeconfig]
    /\ Become(u, [use[u] EXCEPT !.pc = "set"])
    /\ Meets(kubeconfig)
    /\ UNCHANGED <<kubeconfig, minute, had>>

\* The kubeconfig as UseCluster changes it.
UseCluster(r) == Config(r.name, r.konfig.contexts \cup {r.name})

AlreadyCurrent(r) == ~r.overwrite /\ r.konfig.current = r.name

Truncate(u) ==
    /\ At(u, "set")
    /\ IF AlreadyCurrent(use[u])
       THEN Become(u, NotRunning) /\ UNCHANGED kubeconfig
       ELSE /\ Become(u, [use[u] EXCEPT !.pc = "write", !.konfig = UseCluster(use[u])])
            /\ kubeconfig' = Empty
    /\ Meets(bak[use[u].minute])
    /\ UNCHANGED <<bak, minute, had>>

WriteToFile(u) ==
    /\ At(u, "write")
    /\ kubeconfig' = use[u].konfig
    /\ Become(u, NotRunning)
    /\ UNCHANGED <<bak, minute, had, accident>>

KillUse(u) ==
    /\ ~At(u, "idle") /\ Become(u, NotRunning)
    /\ UNCHANGED <<kubeconfig, bak, minute, had, accident>>

\* Another tool adds its context, at any time.
OtherTool ==
    /\ Other \notin kubeconfig.contexts
    /\ kubeconfig' = Config(IF kubeconfig = Absent THEN Other ELSE kubeconfig.current,
                            kubeconfig.contexts \cup {Other})
    /\ had' = TRUE
    /\ accident' = (Loaded # {})
    /\ UNCHANGED <<bak, use, minute>>

TimePasses ==
    /\ minute < MaxMinutes /\ minute' = minute + 1
    /\ UNCHANGED <<kubeconfig, bak, use, had, accident>>

-----------------------------------------------------------------------------

UseInit ==
    /\ kubeconfig = Absent /\ bak = [m \in 0..MaxMinutes |-> Absent]
    /\ use = [u \in Users |-> NotRunning]
    /\ minute = 0
    /\ had = FALSE /\ accident = FALSE

UseNext ==
    \/ \E u \in Users :
         \/ GetKubeConfig(u) \/ LoadFromFile(u) \/ CreateBackup(u) \/ CopyFile(u)
         \/ Truncate(u) \/ WriteToFile(u) \/ KillUse(u)
    \/ OtherTool \/ TimePasses

\* The context that another tool has put into the kubeconfig is lost, from the
\* file and from every backup that UseCluster made, only after a command met a
\* file that another one, running or killed, had truncated and not yet written, or
\* if it was added after a command had loaded the file that it then replaces.
BackedUp ==
    had => accident \/ \E f \in {kubeconfig} \cup {bak[m] : m \in 0..MaxMinutes} :
                          Other \in f.contexts
=============================================================================
