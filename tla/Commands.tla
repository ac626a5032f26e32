------------------------------ MODULE Commands ------------------------------
(***************************************************************************)
(* The commands that work beside the life cycle of a cluster: editing an   *)
(* object of the store, using a cluster from kubectl, planning an upgrade. *)
(* They share no state (the store, the user's kubeconfig, the release      *)
(* server), so each is looked at on its own: a behaviour is one of them.   *)
(***************************************************************************)
EXTENDS EditCommands, UseCommand, Versions

VARIABLES command   \* the command that the behaviour is about

commandVars == <<editVars, useVars, versionVars, command>>

Init ==
    /\ command \in {"edit", "use", "upgrade"}
    /\ EditInit /\ (command # "edit" => kind = "cluster")
    /\ UseInit
    /\ VersionInit

Is(c) == command = c /\ UNCHANGED command

Next ==
    \/ Is("edit") /\ EditNext /\ UNCHANGED <<useVars, versionVars>>
    \/ Is("use") /\ UseNext /\ UNCHANGED <<editVars, versionVars>>
    \/ Is("upgrade") /\ VersionNext /\ UNCHANGED <<editVars, useVars>>

Spec == Init /\ [][Next]_commandVars
=============================================================================
