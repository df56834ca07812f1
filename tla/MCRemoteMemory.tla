---------------------------- MODULE MCRemoteMemory ----------------------------
(* The heap of the program, at each place ucHeap may have, and the smallest  *)
(* that is enough for the commands of a queue of two: 32 bytes for each of   *)
(* two commands and 8 more.                                                  *)
EXTENDS RemoteMemory

MCLayouts ==
    [bytes : {configTOTAL_HEAP_SIZE}, offset : 0..7, startUp : {StartUp}]
    \cup [bytes : {87}, offset : {0, 1}, startUp : {<< >>}]
=============================================================================
