----------------------------- MODULE MCXormStore ----------------------------
EXTENDS XormStore

\* Two users of the API server and a command outside it.
MCOwner == [alice |-> 1, bob |-> 2, cli |-> 0]
=============================================================================
