------------------------------ MODULE ByteStream ------------------------------
(***************************************************************************)
(* What the debug output promises: strings come out whole, byte by byte    *)
(* and in order, through a buffer of limited size.                         *)
(*                                                                         *)
(* A byte is known by who wrote it and by how many of its string follow.   *)
(***************************************************************************)
EXTENDS Naturals, Sequences

CONSTANTS
    Bytes,          \* records with the fields task and left
    Capacity

VARIABLES
    pending,        \* accepted and not yet sent
    last            \* the last byte accepted

streamVars == <<pending, last>>

\* Within a string the next byte is the next one of the same string.
Follows(byte, before) ==
    before.left > 0 => byte = [before EXCEPT !.left = @ - 1]

StreamInit ==
    /\ pending = << >>
    /\ last.left = 0

Accept(byte) ==
    /\ Len(pending) < Capacity
    /\ Follows(byte, last)
    /\ pending' = Append(pending, byte)
    /\ last' = byte

Send ==
    /\ pending # << >>
    /\ pending' = Tail(pending)
    /\ UNCHANGED last

StreamNext == (\E byte \in Bytes : Accept(byte)) \/ Send

StreamSafety == StreamInit /\ [][StreamNext]_streamVars

StreamSpec == StreamSafety /\ WF_streamVars(Send)
=============================================================================
