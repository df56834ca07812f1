--------------------------- MODULE MCRemoteReceiver ---------------------------
(* A queue of two commands, as many blocks as it needs, and keys that take   *)
(* each branch: a speed that wraps, a program beyond the limit, no command.  *)
EXTENDS RemoteReceiver, TLC

MCCounts == 0..1
MCKeys == {<<"speed", 43>>, <<"mode", 12>>, <<"white", 0>>}
CellSymmetry == Permutations(Cells)
\* Liveness needs one key only: what becomes of it is up to the other run.
MCKeysLive == {<<"speed", 43>>}
=============================================================================
