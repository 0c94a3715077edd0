----------------------------- MODULE WalReplay -----------------------------
(***************************************************************************)
(* What a restarted process reads back from its write-ahead log.  The      *)
(* files hold log entries in the order in which they were written, which   *)
(* is neither the order of their indexes nor free of repetitions.          *)
(* ReadPersistedLogs and CompactWal run the same loop over them.           *)
(***************************************************************************)
LOCAL INSTANCE Integers
LOCAL INSTANCE Sequences

\* One turn of the replay loop: an entry extends the log when it is the next
\* one; one that is already there replaces the log from its index on; one
\* that would leave a gap, or that the snapshot covers, is skipped.
ReplayEntry(logs, e, snapshotIndex) ==
    LET pos == e.index - snapshotIndex
    IN  IF pos >= 1 /\ pos <= Len(logs) + 1
        THEN Append(SubSeq(logs, 1, pos - 1), e)
        ELSE logs

\* The log after each turn of the loop over the written entries w.
ReplayTurns(w, snapshotIndex) ==
    LET turn[k \in 0 .. Len(w)] ==
            IF k = 0 THEN <<>> ELSE ReplayEntry(turn[k - 1], w[k], snapshotIndex)
    IN  turn

\* The log rebuilt from the written entries w above a snapshot.
ReadPersistedLogs(w, snapshotIndex) == ReplayTurns(w, snapshotIndex)[Len(w)]
=============================================================================
