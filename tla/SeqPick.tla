------------------------------ MODULE SeqPick ------------------------------
(***************************************************************************)
(* The loop that copies some elements of a list, in order, into another.   *)
(***************************************************************************)
LOCAL INSTANCE Integers
LOCAL INSTANCE Sequences

\* What has been copied after each turn of the loop over s, when the elements at the positions K
\* are the ones to copy.
PickTurns(s, K) ==
    LET turn[k \in 0 .. Len(s)] ==
            IF k = 0 THEN <<>>
            ELSE IF k \in K THEN Append(turn[k - 1], s[k]) ELSE turn[k - 1]
    IN  turn

\* The elements of s at the positions K.
Pick(s, K) == PickTurns(s, K)[Len(s)]
=============================================================================
