------------------------------- MODULE MCRaft -------------------------------
(***************************************************************************)
(* Instances of Raft for TLC.  Three nodes; which of them may stand in     *)
(* which term, and whose calls reach whom, keeps an instance small and     *)
(* aims it at one question.                                                *)
(***************************************************************************)
EXTENDS RaftInv

CONSTANTS s1, s2, s3

\* s1 in term 1, then s2 and s3 compete in term 2 for the vote of s1.
Rivals == {<<s1, 1, s2>>, <<s1, 1, s3>>, <<s2, 2, s1>>, <<s3, 2, s1>>}

\* s1 leads term 1; s2, which hears of it from AppendEntries only, may take over in term 2.
Takeover == {<<s1, 1, s3>>, <<s2, 2, s3>>, <<s2, 2, s1>>}

\* A single election.
OneTerm == {<<s1, 1, s2>>}

\* A single election that any of the three may win; who wins it decides what is asked of its log.
AnyLeader == {<<s1, 1, s2>>, <<s2, 1, s3>>, <<s3, 1, s1>>}

\* s1 and s2 take turns, each elected by s3.
Turns == {<<s1, 1, s2>>, <<s2, 2, s3>>, <<s2, 2, s1>>, <<s1, 3, s3>>, <<s1, 3, s2>>,
          <<s2, 4, s3>>, <<s2, 4, s1>>, <<s1, 5, s3>>}

NoRestart == {}
RestartS1 == {<<s1, 1>>}
RestartS2 == {<<s2, 1>>}

S1AndS2      == {<<s1, s2>>, <<s2, s1>>}
S1ToS2       == {<<s1, s2>>}
ToS3         == {<<s1, s3>>, <<s2, s3>>}
AllButS2ToS1 == {<<s1, s2>>, <<s1, s3>>, <<s2, s3>>, <<s3, s1>>, <<s3, s2>>}

\* Calls of one node to another that are under way at a time.
One     == [p \in Server \X Server |-> 1]
Two     == [p \in Server \X Server |-> 2]
TwoToS3AndS1 == [p \in Server \X Server |-> IF p \in {<<s2, s3>>, <<s3, s1>>} THEN 2 ELSE 1]

\* Bound: the deferred persistState of an election runs before the election is won.
ElectionStored == \A i \in Server : m_state[i] = Leader => electPersist[i] = NotPending

Stands(i) == m_state[i] # Follower

\* Bound: one node stands, and which one decides what may happen to its log.
\*   s1: two entries, and every node takes snapshots.
\*   s2: two entries, two calls to s3 at a time, and a WAL batch may fail; nothing is applied.
\*   s3: one entry and snapshots; of the two calls to s1 one may be an InstallSnapshot.
\* Of the two peers of s1 and of s3, it is always s2 that has the longer log.
QuestionOfLeader ==
    /\ ElectionStored
    /\ Cardinality({i \in Server : Stands(i)}) <= 1
    /\ walFailures > 0 => Stands(s2)
    /\ Stands(s2) => \A i \in Server : m_lastApplied[i] = 0
    /\ Stands(s1) => LastLogIndex(s3) <= LastLogIndex(s2)
    /\ Stands(s3) => LastLogIndex(s3) <= 1 /\ LastLogIndex(s1) <= LastLogIndex(s2)

\* Bound: s1 has three entries of term 1 and s2 one of term 2 before anything is replicated; s2 adds
\* one of term 4, and s1 stands again only after s2 has committed it.
TurnsOnly ==
    /\ \A m \in appendArgs : m.term >= 3
    /\ \A k \in DOMAIN m_logs[s1] : m_logs[s1][k].term = 1
    /\ \A k \in DOMAIN m_logs[s2] : k <= 2 /\ m_logs[s2][k].term = 2 * k
    /\ m_currentTerm[s2] >= 2 => m_stableLogIndex[s1] = 3
    /\ m_currentTerm[s1] >= 3 => m_stableLogIndex[s2] >= 1
    /\ m_currentTerm[s2] >= 4 => Len(m_logs[s3]) = 3
    /\ m_currentTerm[s1] >= 5 => m_commitIndex[s2] = 2
=============================================================================
