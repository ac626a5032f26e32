----------------------------- MODULE MCCommands -----------------------------
(* Commands for TLC: the sessions that edit an object are interchangeable.   *)
EXTENDS Commands, TLC

Symmetry == Permutations(Sessions) \cup Permutations(Users)
=============================================================================
