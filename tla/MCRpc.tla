------------------------------- MODULE MCRpc --------------------------------
(***************************************************************************)
(* Instances of Rpc for TLC.  The bytes are tried by themselves first: as   *)
(* long as no call has been made, a message may be sent in pieces.          *)
(***************************************************************************)
EXTENDS Rpc, WireUse

MCInit == Init /\ WireInit

Calls == Next /\ WireInit /\ UNCHANGED wireVars
Bytes == Init /\ client = "clerk" /\ WireNext /\ UNCHANGED vars

MCSpec == MCInit /\ [][Calls \/ Bytes]_<<vars, wireVars>> /\ Fairness

\* Nothing is sent, less than the length of the frame says, or all but the last of its bytes.
MCPartSent == {0, 1, Len(RequestFrame[0, 1]) - 1}

\* Zero, a two-byte number, and the negative one that the code puts into UpdateNextIndex.
MCInts == {0, 300, -100}

\* No byte, and more than a one-byte length can say.
MCBlobs == {<< >>, [j \in 1..130 |-> j]}
=============================================================================
