----------------------------- MODULE RaftProofs -----------------------------
(***************************************************************************)
(* ElectionInv and LogInv are inductive.                                   *)
(*                                                                         *)
(* ElectionInv: VoteOnce and ElectionSafety hold for any number of nodes,  *)
(* terms, calls, restarts and WAL failures, provided that no node restarts *)
(* from a state file that a deferred persistState of doElection has torn.  *)
(* The steps fall into five kinds.  Most leave the election state alone    *)
(* (Frame); a request or a reply may raise a node's term (TermStep); the   *)
(* other three are a candidacy, a RequestVote and a counted reply, and a   *)
(* restart.  Each kind has a lemma for the part of the invariant that is   *)
(* in memory and on the wire (CoreInv); the state file and the terms on    *)
(* the wire are dealt with action by action.                               *)
(*                                                                         *)
(* LogInv, from "Facts about the operators" on: the types of all state     *)
(* and, above all, that the indexes in every m_logs are consecutive above  *)
(* the snapshot, whatever restarts, WAL failures and torn state files      *)
(* there are.                                                              *)
(***************************************************************************)
EXTENDS RaftInv, LoopProofs, FiniteSetTheorems

\* No torn state file is ever read back.
NoTornRestart == TornPersist => Restarts = {}

\* The part of the invariant that speaks of memory, RequestVote calls and history.
CoreInv ==
    /\ ElectionTypes
    /\ VoteOnce
    /\ VotesHeld
    /\ CandidateCounts
    /\ RequestsOnce
    /\ RepliesOnce
    /\ ElectedByMajority

Frame == UNCHANGED <<m_currentTerm, m_voteForId, m_state, votedNum, granters, boot, votes, elected,
                     voteArgs, voteReplies>>

\* Node i takes over term t, or stays in it as a follower.
TermStep(i, t) ==
    /\ t \in Nat /\ t >= m_currentTerm[i]
    /\ m_currentTerm' = [m_currentTerm EXCEPT ![i] = t]
    /\ m_state' = [m_state EXCEPT ![i] = Follower]
    /\ m_voteForId' = [m_voteForId EXCEPT ![i] = IF t > m_currentTerm[i] THEN NoVote ELSE @]
    /\ UNCHANGED <<votedNum, granters, boot, votes, elected>>
    /\ voteArgs' \subseteq voteArgs
    /\ voteReplies' \subseteq voteReplies

\* What may happen to the persistState that a doElection has deferred.
ElectPersistStep ==
    \/ electPersist' = electPersist
    \/ \E i \in Server, p \in {NotPending, Deferred} :
           electPersist' = [electPersist EXCEPT ![i] = p]

----------------------------------------------------------------------------
\* Facts about sets of nodes.

\* The larger of two terms is a term.
LEMMA MaxTerm == ASSUME NEW a \in Nat, NEW b \in Nat PROVE Max({a, b}) \in {a, b}
  <1>1. \E x \in {a, b} : \A y \in {a, b} : x >= y
    OBVIOUS
  <1>2. QED
    BY <1>1 DEF Max

\* The nodes are finitely many, and a subset of them has a natural number of members.
LEMMA SubsetCount ==
    ASSUME NEW Q \in SUBSET Server PROVE IsFiniteSet(Q) /\ Cardinality(Q) \in Nat
  BY ServerAssumption, FS_Subset, FS_CardinalityType

\* Two majorities, as handleRequestVoteResponse and advanceCommitIndex count them, share a node.
LEMMA MajoritiesMeet ==
    ASSUME NEW P \in SUBSET Server, NEW Q \in SUBSET Server,
           IsMajority(Cardinality(P)), IsMajority(Cardinality(Q))
    PROVE  P \cap Q # {}
  <1>1. /\ IsFiniteSet(P) /\ IsFiniteSet(Q) /\ IsFiniteSet(Server)
        /\ Cardinality(P) \in Nat /\ Cardinality(Q) \in Nat /\ Cardinality(Server) \in Nat
    BY ServerAssumption, SubsetCount, FS_CardinalityType
  <1>2. Cardinality(P \cup Q) <= Cardinality(Server) /\ Cardinality(P \cup Q) \in Nat
    <2>1. P \cup Q \subseteq Server
      OBVIOUS
    <2>2. QED
      BY <1>1, <2>1, FS_Subset, SubsetCount
  <1>3. Cardinality(P \cup Q) = Cardinality(P) + Cardinality(Q) - Cardinality(P \cap Q)
    BY <1>1, FS_Union
  <1>4. SUFFICES ASSUME P \cap Q = {} PROVE FALSE
    OBVIOUS
  <1>5. Cardinality(P \cap Q) = 0
    BY <1>4, FS_EmptySet
  <1>6. QED
    BY <1>1, <1>2, <1>3, <1>5 DEF IsMajority

\* Two nodes elected in one term had a voter in common, who voted once.
LEMMA SafetyFromInv ==
    ASSUME ElectionInv
    PROVE  VoteOnce /\ ElectionSafety
  <1>1. VoteOnce
    BY DEF ElectionInv
  <1>2. ASSUME NEW e \in elected, NEW f \in elected, e[1] = f[1]
        PROVE  e[2] = f[2]
    <2>1. Supporters(e) \cap Supporters(f) # {}
      <3>1. Supporters(e) \in SUBSET Server /\ Supporters(f) \in SUBSET Server
        BY DEF Supporters
      <3>2. IsMajority(Cardinality(Supporters(e))) /\ IsMajority(Cardinality(Supporters(f)))
        BY DEF ElectionInv, ElectedByMajority
      <3>3. QED
        BY <3>1, <3>2, MajoritiesMeet
    <2>2. PICK j \in Server :
              /\ [voter |-> j, term |-> e[1], candidate |-> e[2]] \in votes
              /\ [voter |-> j, term |-> f[1], candidate |-> f[2]] \in votes
      BY <2>1 DEF Supporters
    <2>3. QED
      BY <1>1, <1>2, <2>2 DEF VoteOnce
  <1>3. QED
    BY <1>1, <1>2 DEF ElectionSafety

----------------------------------------------------------------------------
\* Memory and RequestVote calls, one lemma for each kind of step.

\* A step that leaves the election state alone keeps CoreInv.
LEMMA FrameCore ==
    ASSUME CoreInv, Frame
    PROVE  CoreInv'
  BY DEF CoreInv, Frame, ElectionTypes, VoteOnce, VotesHeld, Remembers, CandidateCounts,
         RequestsOnce, RepliesOnce, CallOpen, ReplyTrue, ElectedByMajority, Supporters

\* A node that takes over a term keeps CoreInv: it stops being a candidate, and no vote is of a
\* term it has just entered.
LEMMA TermStepCore ==
    ASSUME CoreInv, NEW i \in Server, NEW t, TermStep(i, t)
    PROVE  CoreInv'
  <1> USE DEF CoreInv
  <1>1. ElectionTypes'
    BY DEF ElectionTypes, TermStep
  <1>2. VoteOnce'
    BY DEF VoteOnce, TermStep
  <1>3. VotesHeld'
    BY DEF VotesHeld, Remembers, ElectionTypes, TermStep
  <1>4. CandidateCounts'
    BY DEF CandidateCounts, ElectionTypes, TermStep, Candidate, Follower
  <1>5. ASSUME NEW m, CallOpen(m) PROVE CallOpen(m)'
    BY <1>5 DEF CallOpen, ElectionTypes, TermStep, Candidate, Follower
  <1>6. RequestsOnce'
    BY <1>5 DEF RequestsOnce, TermStep
  <1>7. ASSUME NEW r \in voteReplies PROVE ReplyTrue(r)' /\ CallOpen(r.args)'
    BY <1>5 DEF RepliesOnce, ReplyTrue, TermStep
  <1>8. RepliesOnce'
    BY <1>7 DEF RepliesOnce, TermStep
  <1>9. ElectedByMajority'
    BY DEF ElectedByMajority, Supporters, TermStep
  <1>10. QED
    BY <1>1, <1>2, <1>3, <1>4, <1>6, <1>8, <1>9

\* The state of node i after doElection.
LEMMA ElectionCore ==
    ASSUME CoreInv, NEW i \in Server, doElection(i)
    PROVE  CoreInv'
  <1> USE DEF CoreInv
  <1> DEFINE new == {[from |-> i, to |-> j, term |-> m_currentTerm[i] + 1, boot |-> boot[i],
                      lastLogIndex |-> LastLogIndex(i), lastLogTerm |-> LastLogTerm(i)]
                        : j \in Electorate(i)}
  <1>0. /\ m_state' = [m_state EXCEPT ![i] = Candidate]
        /\ m_currentTerm' = [m_currentTerm EXCEPT ![i] = m_currentTerm[i] + 1]
        /\ m_voteForId' = [m_voteForId EXCEPT ![i] = i]
        /\ votedNum' = [votedNum EXCEPT ![i] = 1]
        /\ granters' = [granters EXCEPT ![i] = {i}]
        /\ voteArgs' = voteArgs \cup new
        /\ UNCHANGED <<boot, votes, elected, voteReplies>>
    BY DEF doElection, processVars, ElectionTypes
  <1>1. ElectionTypes'
    BY <1>0 DEF ElectionTypes
  <1>2. VoteOnce'
    BY <1>0 DEF VoteOnce
  <1>3. VotesHeld'
    BY <1>0 DEF VotesHeld, Remembers, ElectionTypes
  <1>4. CandidateCounts'
    <2>1. Cardinality({i}) = 1
      BY FS_Singleton
    <2>2. QED
      BY <1>0, <2>1 DEF CandidateCounts, ElectionTypes
  <1>5. ASSUME NEW m, CallOpen(m) PROVE CallOpen(m)'
    BY <1>0, <1>5 DEF CallOpen, ElectionTypes
  <1>6. ASSUME NEW m \in new
        PROVE  CallOpen(m)' /\ (\A n : CallOpen(n) => ~SameCall(m, n) /\ ~SameCall(n, m))
    <2>1. PICK j \in Electorate(i) :
             m = [from |-> i, to |-> j, term |-> m_currentTerm[i] + 1, boot |-> boot[i],
                  lastLogIndex |-> LastLogIndex(i), lastLogTerm |-> LastLogTerm(i)]
      OBVIOUS
    <2>2. j \in Server /\ j # i
      BY DEF Electorate
    <2>3. m.from = i /\ m.to = j /\ m.term = m_currentTerm[i] + 1 /\ m.boot = boot[i]
      BY <2>1
    <2>4. CallOpen(m)'
      BY <1>0, <2>2, <2>3 DEF CallOpen, ElectionTypes
    <2>5. ASSUME NEW n, CallOpen(n) PROVE ~SameCall(m, n) /\ ~SameCall(n, m)
      BY <2>3, <2>5 DEF CallOpen, SameCall, ElectionTypes
    <2>6. QED
      BY <2>4, <2>5
  <1>7. ASSUME NEW m \in new, NEW n \in new, SameCall(m, n) PROVE m = n
    BY <1>7 DEF SameCall
  <1>8. RequestsOnce'
    BY <1>0, <1>5, <1>6, <1>7 DEF RequestsOnce
  <1>9. RepliesOnce'
    BY <1>0, <1>5, <1>6 DEF RepliesOnce, ReplyTrue
  <1>10. ElectedByMajority'
    BY <1>0 DEF ElectedByMajority, Supporters
  <1>11. QED
    BY <1>1, <1>2, <1>3, <1>4, <1>8, <1>9, <1>10

\* More votes do not take a majority away.
LEMMA MajorityKept ==
    ASSUME votes \subseteq votes', NEW e, IsMajority(Cardinality(Supporters(e)))
    PROVE  IsMajority(Cardinality(Supporters(e)'))
  <1>1. Supporters(e) \subseteq Supporters(e)' /\ Supporters(e)' \in SUBSET Server
    BY DEF Supporters
  <1>2. IsFiniteSet(Supporters(e)') /\ Cardinality(Supporters(e)') \in Nat
    BY <1>1, SubsetCount
  <1>3. Cardinality(Supporters(e)) <= Cardinality(Supporters(e)') /\ Cardinality(Supporters(e)) \in Nat
    BY <1>1, <1>2, FS_Subset, FS_CardinalityType
  <1>4. Cardinality(Server) \in Nat
    BY ServerAssumption, FS_CardinalityType
  <1>5. QED
    BY <1>2, <1>3, <1>4 DEF IsMajority

\* A request that is replaced by its reply, while no other call is opened: the vote messages stay
\* in order.
LEMMA AnswerKeepsCalls ==
    ASSUME RequestsOnce, RepliesOnce, NEW m \in voteArgs, NEW rep, rep.args = m,
           voteArgs' = voteArgs \ {m}, voteReplies' = voteReplies \cup {rep},
           votes \subseteq votes', ReplyTrue(rep)',
           \A n : CallOpen(n) => CallOpen(n)'
    PROVE  RequestsOnce' /\ RepliesOnce'
  <1>1. RequestsOnce'
    BY DEF RequestsOnce
  <1>2. \A r \in voteReplies' : ReplyTrue(r)' /\ CallOpen(r.args)'
    BY DEF RequestsOnce, RepliesOnce, ReplyTrue
  <1>3. \A r \in voteReplies : ~SameCall(r.args, m) /\ ~SameCall(m, r.args)
    BY DEF RepliesOnce, SameCall
  <1>4. \A r, q \in voteReplies' : SameCall(r.args, q.args) => r = q
    BY <1>3 DEF RepliesOnce
  <1>5. \A n \in voteArgs', r \in voteReplies' : ~SameCall(n, r.args)
    BY DEF RepliesOnce, RequestsOnce
  <1>6. QED
    BY <1>1, <1>2, <1>4, <1>5 DEF RepliesOnce

\* A RequestVote keeps CoreInv: the voter has no other vote in that term.
LEMMA RequestVoteCore ==
    ASSUME CoreInv, NEW j \in Server, NEW m \in voteArgs, RequestVote(j, m)
    PROVE  CoreInv'
  <1> USE DEF CoreInv
  <1>1. /\ UNCHANGED <<votedNum, granters, boot, elected>>
        /\ voteArgs' = voteArgs \ {m}
        /\ m.to = j /\ CallOpen(m)
    BY DEF RequestVote, RequestVoteStale, RequestVoteCurrent, processVars, electionVars,
           RequestsOnce
  <1>2. CASE RequestVoteStale(j, m)
    <2> DEFINE rep == VoteReply(m, m_currentTerm[j], FALSE)
    <2>1. /\ UNCHANGED <<m_currentTerm, m_voteForId, m_state, votes>>
          /\ voteReplies' = voteReplies \cup {rep}
      BY <1>2 DEF RequestVoteStale, electionVars
    <2>2. rep.args = m /\ ReplyTrue(rep)'
      BY <1>1, <2>1 DEF VoteReply, ReplyTrue, ElectionTypes
    <2>3. \A n : CallOpen(n) => CallOpen(n)'
      BY <1>1, <2>1 DEF CallOpen
    <2>4. RequestsOnce' /\ RepliesOnce'
      BY <1>1, <2>1, <2>2, <2>3, AnswerKeepsCalls
    <2>5. QED
      BY <1>1, <2>1, <2>4 DEF ElectionTypes, VoteOnce, VotesHeld, CandidateCounts,
         ElectedByMajority, Supporters
  <1>3. CASE RequestVoteCurrent(j, m)
    <2> DEFINE newTerm == m.term > m_currentTerm[j]
               vote    == IF newTerm THEN NoVote ELSE m_voteForId[j]
               grant   == UpToDate(j, m) /\ vote \in {NoVote, m.from}
               v       == [voter |-> j, term |-> m.term, candidate |-> m.from]
    <2>0. PICK rep : rep = VoteReply(m, m.term, grant)
      OBVIOUS
    <2>1. /\ m.term >= m_currentTerm[j]
          /\ m_state' = [m_state EXCEPT ![j] = IF newTerm THEN Follower ELSE m_state[j]]
          /\ m_currentTerm' = [m_currentTerm EXCEPT ![j] = m.term]
          /\ m_voteForId' = [m_voteForId EXCEPT ![j] = IF grant THEN m.from ELSE vote]
          /\ voteReplies' = voteReplies \cup {rep}
          /\ votes' = IF grant THEN votes \cup {v} ELSE votes
      BY <1>3, <2>0 DEF RequestVoteCurrent, ForgetsVote
    <2>2. m.from \in Server /\ m.from # j /\ m.term \in Nat /\ NoVote \notin Server
      BY <1>1, ServerAssumption DEF CallOpen
    <2>3. ElectionTypes'
      BY <1>1, <2>1, <2>2 DEF ElectionTypes
    <2>4. VotesHeld'
      BY <2>1, <2>2 DEF VotesHeld, Remembers, ElectionTypes
    <2>5. VoteOnce'
      <3>1. ASSUME grant, NEW w \in votes, w.voter = j, w.term = m.term
            PROVE  w.candidate = m.from
        BY <2>1, <2>2, <3>1 DEF VotesHeld, Remembers, ElectionTypes
      <3>2. QED
        BY <2>1, <3>1 DEF VoteOnce
    <2>6. CandidateCounts'
      BY <1>1, <2>1, <2>2 DEF CandidateCounts, ElectionTypes, Candidate, Follower
    <2>7. rep.args = m /\ ReplyTrue(rep)'
      <3>1. rep.from = j /\ rep.to = m.from /\ rep.term = m.term /\ rep.args = m
        BY <1>1, <2>0 DEF VoteReply
      <3>2. rep.voteGranted => v \in votes'
        <4>1. CASE grant
          BY <2>1, <4>1
        <4>2. CASE ~grant
          <5>1. rep = VoteReply(m, m.term, FALSE)
            BY <2>0, <4>2
          <5>2. QED
            BY <5>1 DEF VoteReply
        <4>3. QED
          BY <4>1, <4>2
      <3>3. [voter |-> rep.from, term |-> rep.args.term, candidate |-> rep.to] = v
        BY <3>1
      <3> HIDE DEF v
      <3>4. QED
        BY <1>1, <2>2, <3>1, <3>2, <3>3, Zenon DEF ReplyTrue
    <2>8. \A n : CallOpen(n) => CallOpen(n)'
      BY <1>1, <2>1, <2>2 DEF CallOpen, ElectionTypes, Candidate, Follower
    <2>9. RequestsOnce' /\ RepliesOnce'
      <3>1. votes \subseteq votes' /\ voteReplies' = voteReplies \cup {rep}
        BY <2>1
      <3>2. QED
        BY <1>1, <2>7, <2>8, <3>1, AnswerKeepsCalls
    <2>10. ElectedByMajority'
      BY <1>1, <2>1, MajorityKept DEF ElectedByMajority
    <2>11. QED
      BY <2>3, <2>4, <2>5, <2>6, <2>9, <2>10
  <1>4. QED
    BY <1>2, <1>3 DEF RequestVote

\* A counted reply keeps CoreInv: its vote is in votes and was not counted before, so a new leader
\* has a majority of votes.
LEMMA VoteCountedCore ==
    ASSUME CoreInv, NEW i \in Server, NEW r \in voteReplies,
           r.to = i, r.args.boot = boot[i], VoteResponseCounted(i, r),
           UNCHANGED <<voteArgs, boot>>, voteReplies' = voteReplies \ {r}
    PROVE  CoreInv'
  <1> USE DEF CoreInv
  <1> DEFINE won  == IsMajority(votedNum[i] + 1)
             self == [voter |-> i, term |-> m_currentTerm[i], candidate |-> i]
             G    == granters[i] \cup {r.from}
  <1>1. /\ r.term = m_currentTerm[i] /\ m_state[i] = Candidate
        /\ r.args.term = m_currentTerm[i] /\ r.voteGranted
        /\ votedNum' = [votedNum EXCEPT ![i] = votedNum[i] + 1]
        /\ granters' = [granters EXCEPT ![i] = G]
        /\ UNCHANGED <<m_currentTerm, m_voteForId>>
    BY DEF VoteResponseCounted, VoteCounts, ElectionTypes
  <1>2. \/ UNCHANGED <<m_state, votes, elected>>
        \/ /\ won
           /\ m_state' = [m_state EXCEPT ![i] = Leader]
           /\ votes' = votes \cup {self}
           /\ elected' = elected \cup {<<m_currentTerm[i], i>>}
    BY DEF VoteResponseCounted, BecomeLeader
  <1>3. /\ CallOpen(r.args) /\ r.from = r.args.to
        /\ [voter |-> r.from, term |-> m_currentTerm[i], candidate |-> i] \in votes
    BY <1>1 DEF RepliesOnce, ReplyTrue
  <1>4. r.from \in Server /\ r.from # i /\ r.from \notin granters[i]
    BY <1>1, <1>3 DEF CallOpen, RepliesOnce, ReplyTrue
  <1>5. ElectionTypes'
    BY <1>1, <1>2, <1>4 DEF ElectionTypes
  <1>6. VotesHeld'
    BY <1>1, <1>2 DEF VotesHeld, Remembers, CandidateCounts, ElectionTypes
  <1>7. VoteOnce'
    <2>1. ASSUME NEW w \in votes, w.voter = i, w.term = m_currentTerm[i] PROVE w.candidate = i
      BY <1>1, <2>1 DEF VotesHeld, Remembers, CandidateCounts, ElectionTypes
    <2>2. QED
      BY <1>2, <2>1 DEF VoteOnce
  <1>8. votedNum[i] + 1 = Cardinality(G) /\ G \in SUBSET Server
    <2>1. IsFiniteSet(granters[i])
      BY SubsetCount DEF ElectionTypes
    <2>2. Cardinality(G) = Cardinality(granters[i]) + 1
      BY <1>4, <2>1, FS_AddElement
    <2>3. QED
      BY <1>1, <1>4, <2>2 DEF CandidateCounts, ElectionTypes
  <1>9. \A j \in G \ {i} : [voter |-> j, term |-> m_currentTerm[i], candidate |-> i] \in votes
    BY <1>1, <1>3 DEF CandidateCounts
  <1>10. CandidateCounts'
    <2>1. ASSUME NEW k \in Server, m_state'[k] = Candidate
          PROVE  /\ m_voteForId'[k] = k
                 /\ k \in granters'[k]
                 /\ votedNum'[k] = Cardinality(granters'[k])
                 /\ \A j \in granters'[k] \ {k} :
                        [voter |-> j, term |-> m_currentTerm'[k], candidate |-> k] \in votes'
      <3>1. m_state[k] = Candidate /\ votes \subseteq votes'
        BY <1>1, <1>2, <2>1 DEF ElectionTypes, Candidate, Leader
      <3>2. CASE k = i
        BY <1>1, <1>8, <1>9, <3>1, <3>2 DEF CandidateCounts, ElectionTypes
      <3>3. CASE k # i
        BY <1>1, <3>1, <3>3 DEF CandidateCounts, ElectionTypes
      <3>4. QED
        BY <3>2, <3>3
    <2>2. QED
      BY <2>1 DEF CandidateCounts
  <1>11. ASSUME NEW n, CallOpen(n), ~SameCall(n, r.args) PROVE CallOpen(n)'
    BY <1>1, <1>2, <1>3, <1>11, <1>5 DEF CallOpen, SameCall, ElectionTypes, Candidate, Leader,
       RepliesOnce, ReplyTrue
  <1>12. RequestsOnce'
    BY <1>11 DEF RequestsOnce, RepliesOnce
  <1>13. RepliesOnce'
    <2>1. \A q \in voteReplies' : CallOpen(q.args)'
      BY <1>11 DEF RepliesOnce
    <2>2. \A q \in voteReplies' : ReplyTrue(q)'
      BY <1>2 DEF RepliesOnce, ReplyTrue
    <2>3. QED
      BY <2>1, <2>2 DEF RepliesOnce
  <1>14. ElectedByMajority'
    <2>1. ASSUME NEW e \in elected PROVE IsMajority(Cardinality(Supporters(e)'))
      BY <1>2, MajorityKept DEF ElectedByMajority
    <2>2. CASE UNCHANGED elected
      BY <2>1, <2>2 DEF ElectedByMajority, Supporters
    <2>3. CASE elected' = elected \cup {<<m_currentTerm[i], i>>} /\ won /\ votes' = votes \cup {self}
      <3>1. PICK e : e = <<m_currentTerm[i], i>>
        OBVIOUS
      <3>2. G \subseteq Supporters(e)' /\ Supporters(e)' \in SUBSET Server
        BY <1>8, <1>9, <2>3, <3>1 DEF Supporters
      <3>3. IsMajority(Cardinality(Supporters(e)'))
        <4>1. Cardinality(G) <= Cardinality(Supporters(e)') /\ Cardinality(G) \in Nat
              /\ Cardinality(Supporters(e)') \in Nat /\ Cardinality(Server) \in Nat
          BY <1>8, <3>2, SubsetCount, FS_Subset, ServerAssumption, FS_CardinalityType
        <4>2. QED
          BY <1>8, <2>3, <4>1 DEF IsMajority
      <3>4. \A f \in elected' : IsMajority(Cardinality(Supporters(f)'))
        BY <2>1, <2>3, <3>1, <3>3
      <3>5. QED
        BY <3>4 DEF ElectedByMajority
    <2>4. QED
      BY <1>2, <2>2, <2>3
  <1>15. QED
    BY <1>5, <1>6, <1>7, <1>10, <1>12, <1>13, <1>14

\* A restart keeps CoreInv when the state file remembers the votes: the calls of the new process
\* are not mistaken for those of the old one.
LEMMA RestartCore ==
    ASSUME CoreInv, VotesOnDisk, NoTornRestart, NEW i \in Server, Restart(i)
    PROVE  CoreInv'
  <1> USE DEF CoreInv
  <1>1. /\ m_currentTerm' = [m_currentTerm EXCEPT ![i] = fmp[i].term]
        /\ m_voteForId' = [m_voteForId EXCEPT ![i] = fmp[i].votedFor]
        /\ m_state' = [m_state EXCEPT ![i] = Follower]
        /\ votedNum' = [votedNum EXCEPT ![i] = 0]
        /\ granters' = [granters EXCEPT ![i] = {}]
        /\ boot' = [boot EXCEPT ![i] = boot[i] + 1]
        /\ UNCHANGED <<votes, elected, voteArgs, voteReplies>>
    BY DEF Restart, voteMsgs, ElectionTypes
  <1>2. ~TornPersist
    BY DEF Restart, NoTornRestart
  <1>3. ElectionTypes'
    BY <1>1, <1>2 DEF ElectionTypes, VotesOnDisk
  <1>4. VotesHeld'
    BY <1>1, <1>2 DEF VotesHeld, Remembers, VotesOnDisk, ElectionTypes
  <1>5. CandidateCounts'
    BY <1>1 DEF CandidateCounts, ElectionTypes, Candidate, Follower
  <1>6. ASSUME NEW m, CallOpen(m) PROVE CallOpen(m)'
    BY <1>1, <1>6 DEF CallOpen, ElectionTypes
  <1>7. RequestsOnce' /\ RepliesOnce'
    BY <1>1, <1>6 DEF RequestsOnce, RepliesOnce, ReplyTrue
  <1>8. QED
    BY <1>1, <1>3, <1>4, <1>5, <1>7 DEF VoteOnce, ElectedByMajority, Supporters

----------------------------------------------------------------------------
\* The state file.

\* What an action of node i does to it: nothing, or a persistState with the fields the action
\* leaves; a vote it grants is its own.
SaveStep(i) ==
    /\ ElectPersistStep
    /\ \/ UNCHANGED <<fmp, votes>>
       \/ /\ fmp' = [fmp EXCEPT ![i] = Meta(i)']
          /\ \A v \in votes' : v \in votes \/ v.voter = i

\* A file that is written from a memory that remembers the votes remembers them as well.
LEMMA SaveStepDisk ==
    ASSUME VotesOnDisk, NEW i \in Server, SaveStep(i), ElectionTypes', VotesHeld'
    PROVE  VotesOnDisk'
  <1> SUFFICES ASSUME ~TornPersist
               PROVE  /\ DOMAIN fmp' = Server
                      /\ DOMAIN electPersist' = Server
                      /\ \A k \in Server :
                             /\ electPersist'[k] \in {NotPending, Deferred}
                             /\ fmp'[k].term \in Nat
                             /\ fmp'[k].votedFor \in Server \cup {NoVote}
                      /\ \A v \in votes' :
                             Remembers(fmp'[v.voter].term, fmp'[v.voter].votedFor, v)
    BY DEF VotesOnDisk, Remembers
  <1>1. /\ DOMAIN electPersist' = Server
        /\ \A k \in Server : electPersist'[k] \in {NotPending, Deferred}
    BY DEF VotesOnDisk, SaveStep, ElectPersistStep
  <1>2. CASE UNCHANGED <<fmp, votes>>
    BY <1>1, <1>2 DEF VotesOnDisk
  <1>3. CASE /\ fmp' = [fmp EXCEPT ![i] = Meta(i)']
             /\ \A v \in votes' : v \in votes \/ v.voter = i
    <2>1. /\ DOMAIN fmp' = Server
          /\ fmp'[i].term = m_currentTerm'[i]
          /\ fmp'[i].votedFor = m_voteForId'[i]
          /\ \A k \in Server \ {i} : fmp'[k] = fmp[k]
      BY <1>3 DEF VotesOnDisk, Meta
    <2>2. \A k \in Server : fmp'[k].term \in Nat /\ fmp'[k].votedFor \in Server \cup {NoVote}
      BY <2>1 DEF VotesOnDisk, ElectionTypes
    <2>3. ASSUME NEW v \in votes'
          PROVE  Remembers(fmp'[v.voter].term, fmp'[v.voter].votedFor, v)
      <3>1. v.voter \in Server
        BY DEF ElectionTypes
      <3>2. CASE v.voter = i
        BY <2>1, <3>2 DEF VotesHeld, Remembers
      <3>3. CASE v.voter # i
        BY <1>3, <2>1, <3>1, <3>3 DEF VotesOnDisk, Remembers
      <3>4. QED
        BY <3>2, <3>3
    <2>4. QED
      BY <1>1, <2>1, <2>2, <2>3
  <1>4. QED
    BY <1>2, <1>3 DEF SaveStep

----------------------------------------------------------------------------
\* Putting the parts together.

\* A step of node i that keeps CoreInv and writes its state file properly keeps ElectionInv.
LEMMA StepInv ==
    ASSUME ElectionInv, NEW i \in Server, CoreInv', TermsOnWire', SaveStep(i)
    PROVE  ElectionInv'
  <1>1. VotesOnDisk'
    BY SaveStepDisk DEF ElectionInv, CoreInv
  <1>2. QED
    BY <1>1 DEF ElectionInv, CoreInv

\* The same for a step that leaves the election state alone.
LEMMA FrameInv ==
    ASSUME ElectionInv, NEW i \in Server, Frame, TermsOnWire', SaveStep(i)
    PROVE  ElectionInv'
  <1>1. CoreInv'
    BY FrameCore DEF ElectionInv, CoreInv
  <1>2. QED
    BY <1>1, StepInv

\* ... and for one that raises the node's term.
LEMMA TermInv ==
    ASSUME ElectionInv, NEW i \in Server, NEW t, TermStep(i, t), TermsOnWire', SaveStep(i)
    PROVE  ElectionInv'
  <1>1. CoreInv'
    BY TermStepCore DEF ElectionInv, CoreInv
  <1>2. QED
    BY <1>1, StepInv

\* A node that starts from a zero-filled file and no WAL.
LEMMA InitInv == Init => ElectionInv
  <1> SUFFICES ASSUME Init PROVE ElectionInv
    OBVIOUS
  <1> USE DEF Init
  <1>1. ElectionTypes /\ TermsOnWire /\ VoteOnce /\ VotesHeld
    BY ServerAssumption DEF ElectionTypes, TermsOnWire, VoteOnce, VotesHeld
  <1>2. VotesOnDisk
    BY ServerAssumption DEF VotesOnDisk
  <1>3. CandidateCounts /\ RequestsOnce /\ RepliesOnce /\ ElectedByMajority
    BY DEF CandidateCounts, RequestsOnce, RepliesOnce, ElectedByMajority, Candidate, Follower
  <1>4. QED
    BY <1>1, <1>2, <1>3 DEF ElectionInv

\* The steps of one node that involve no message.
LEMMA LocalInv ==
    ASSUME ElectionInv, NoTornRestart, NEW i \in Server,
           \/ doElection(i)
           \/ LoadElectionState(i)
           \/ PersistElection(i)
           \/ doHeartBeat(i)
           \/ doHeartBeatAborts(i)
           \/ applierTicker(i)
           \/ Restart(i)
    PROVE  ElectionInv'
  <1> USE DEF electionVars, diskVars, processVars, threadVars, voteMsgs, appendMsgs, snapMsgs,
              historyVars
  <1>1. CASE doElection(i)
    <2>1. CoreInv'
      BY <1>1, ElectionCore DEF ElectionInv, CoreInv
    <2>2. TermsOnWire' /\ SaveStep(i)
      BY <1>1 DEF doElection, ElectionInv, TermsOnWire, SaveStep, ElectPersistStep
    <2>3. QED
      BY <2>1, <2>2, StepInv
  <1>2. CASE LoadElectionState(i)
    <2>1. Frame /\ TermsOnWire' /\ TornPersist
      BY <1>2 DEF LoadElectionState, ElectionInv, TermsOnWire, Frame
    <2>2. CoreInv'
      BY <2>1, FrameCore DEF ElectionInv, CoreInv
    <2>3. QED
      BY <2>1, <2>2 DEF ElectionInv, CoreInv, VotesOnDisk
  <1>3. CASE PersistElection(i)
    <2>1. Frame /\ TermsOnWire'
      BY <1>3 DEF PersistElection, ElectionInv, TermsOnWire, Frame
    <2>2. CoreInv'
      BY <2>1, FrameCore DEF ElectionInv, CoreInv
    <2>3. VotesOnDisk'
      <3> SUFFICES ASSUME ~TornPersist PROVE VotesOnDisk'
        BY DEF VotesOnDisk
      <3>1. electPersist[i] = Deferred
        BY <1>3 DEF PersistElection, ElectionInv, VotesOnDisk
      <3>2. fmp' = [fmp EXCEPT ![i] = [f \in MetaFields |-> Meta(i)[f]]]
        BY <1>3, <3>1 DEF PersistElection, SaveRaftState
      <3>3. [f \in MetaFields |-> Meta(i)[f]] = Meta(i)
        BY DEF MetaFields, Meta
      <3>4. Meta(i)' = Meta(i)
        BY <1>3 DEF PersistElection, Meta, logVars
      <3>5. SaveStep(i)
        BY <1>3, <3>2, <3>3, <3>4, <2>1 DEF PersistElection, SaveStep, ElectPersistStep, Frame
      <3>6. QED
        BY <2>2, <3>5, SaveStepDisk DEF ElectionInv, CoreInv
    <2>4. QED
      BY <2>1, <2>2, <2>3 DEF ElectionInv, CoreInv
  <1>4. CASE doHeartBeat(i)
    <2>1. Frame /\ SaveStep(i)
      BY <1>4 DEF doHeartBeat, Frame, SaveStep, ElectPersistStep
    <2>2. \A j : AppendEntriesArgs(i, j).term \in Nat
      BY DEF AppendEntriesArgs, ElectionInv, ElectionTypes
    <2>3. TermsOnWire'
      BY <1>4, <2>2 DEF doHeartBeat, ElectionInv, TermsOnWire
    <2>4. QED
      BY <2>1, <2>3, FrameInv
  <1>5. CASE doHeartBeatAborts(i)
    <2>1. Frame /\ TermsOnWire' /\ SaveStep(i)
      BY <1>5 DEF doHeartBeatAborts, Abort, ElectionInv, TermsOnWire, Frame, SaveStep,
         ElectPersistStep
    <2>2. QED
      BY <2>1, FrameInv
  <1>6. CASE applierTicker(i)
    <2>1. Frame /\ TermsOnWire' /\ SaveStep(i)
      BY <1>6 DEF applierTicker, ElectionInv, TermsOnWire, Frame, SaveStep, ElectPersistStep
    <2>2. QED
      BY <2>1, FrameInv
  <1>7. CASE Restart(i)
    <2>1. CoreInv'
      BY <1>7, RestartCore DEF ElectionInv, CoreInv
    <2>2. TermsOnWire' /\ SaveStep(i)
      BY <1>7 DEF Restart, ElectionInv, TermsOnWire, SaveStep, ElectPersistStep
    <2>3. QED
      BY <2>1, <2>2, StepInv
  <1>8. QED
    BY <1>1, <1>2, <1>3, <1>4, <1>5, <1>6, <1>7

\* Clients, snapshots and the WAL.
LEMMA ServiceInv ==
    ASSUME ElectionInv, NEW i \in Server,
           \/ \E cmd \in Command : Start(i, cmd)
           \/ \E index \in SnapshotAt : Snapshot(i, index)
           \/ \E j \in Server : leaderSendSnapShot(i, j)
           \/ \E job \in jobs[i] :
                  \/ WalWrite(i, job)
                  \/ AppendEntriesResume(i, job)
                  \/ AppendEntriesWalFailed(i, job)
                  \/ onLogStable(i, job)
                  \/ onLogStableFails(i, job)
    PROVE  ElectionInv'
  <1> USE DEF electionVars, diskVars, processVars, threadVars, voteMsgs, appendMsgs, snapMsgs,
              historyVars, persistState, SaveRaftState
  <1>1. CASE \E cmd \in Command : Start(i, cmd)
    <2>1. Frame /\ TermsOnWire' /\ SaveStep(i)
      BY <1>1 DEF Start, ElectionInv, TermsOnWire, Frame, SaveStep, ElectPersistStep
    <2>2. QED
      BY <2>1, FrameInv
  <1>2. CASE \E index \in SnapshotAt : Snapshot(i, index)
    <2>1. Frame /\ TermsOnWire' /\ SaveStep(i)
      BY <1>2 DEF Snapshot, ElectionInv, TermsOnWire, Frame, SaveStep, ElectPersistStep
    <2>2. QED
      BY <2>1, FrameInv
  <1>3. CASE \E j \in Server : leaderSendSnapShot(i, j)
    <2>1. Frame /\ SaveStep(i)
      BY <1>3 DEF leaderSendSnapShot, Frame, SaveStep, ElectPersistStep
    <2>2. TermsOnWire'
      BY <1>3 DEF leaderSendSnapShot, ElectionInv, ElectionTypes, TermsOnWire
    <2>3. QED
      BY <2>1, <2>2, FrameInv
  <1>4. ASSUME NEW job \in jobs[i], WalWrite(i, job) PROVE ElectionInv'
    <2>1. Frame /\ TermsOnWire' /\ SaveStep(i)
      BY <1>4 DEF WalWrite, ElectionInv, TermsOnWire, Frame, SaveStep, ElectPersistStep
    <2>2. QED
      BY <2>1, FrameInv
  <1>5. ASSUME NEW job, NEW stable, AppendEntriesGivesUp(i, job, stable),
               Frame, UNCHANGED <<electPersist, appendArgs, snapMsgs>>
        PROVE  ElectionInv'
    <2>1. SaveStep(i)
      BY <1>5 DEF AppendEntriesGivesUp, SaveStep, ElectPersistStep, Frame
    <2>2. TermsOnWire'
      BY <1>5 DEF AppendEntriesGivesUp, AppendReply, ElectionInv, ElectionTypes, TermsOnWire
    <2>3. QED
      BY <1>5, <2>1, <2>2, FrameInv
  <1>6. ASSUME NEW job \in jobs[i], AppendEntriesResume(i, job) PROVE ElectionInv'
    <2>1. Frame /\ UNCHANGED <<electPersist, appendArgs, snapMsgs>>
      BY <1>6 DEF AppendEntriesResume, Frame
    <2>2. CASE AppendEntriesGivesUp(i, job, TRUE)
      BY <1>5, <2>1, <2>2
    <2>3. CASE AppendEntriesApplies(i, job)
      <3>1. \/ UNCHANGED <<fmp, appendReplies>>
            \/ /\ fmp' = [fmp EXCEPT ![i] = Meta(i)']
               /\ appendReplies' = appendReplies \cup
                      {AppendReply(job.args, m_currentTerm[i], TRUE, NoHint)}
        BY <2>3 DEF AppendEntriesApplies
      <3>2. SaveStep(i)
        BY <2>1, <3>1 DEF SaveStep, ElectPersistStep, Frame
      <3>3. TermsOnWire'
        BY <2>1, <3>1 DEF AppendReply, ElectionInv, ElectionTypes, TermsOnWire
      <3>4. QED
        BY <2>1, <3>2, <3>3, FrameInv
    <2>4. QED
      BY <1>6, <2>2, <2>3 DEF AppendEntriesResume
  <1>7. ASSUME NEW job \in jobs[i], AppendEntriesWalFailed(i, job) PROVE ElectionInv'
    <2>1. Frame /\ UNCHANGED <<electPersist, appendArgs, snapMsgs>>
      BY <1>7 DEF AppendEntriesWalFailed, Frame
    <2>2. QED
      BY <1>5, <1>7, <2>1 DEF AppendEntriesWalFailed
  <1>8. ASSUME NEW job \in jobs[i], onLogStable(i, job) PROVE ElectionInv'
    <2>1. Frame /\ TermsOnWire' /\ SaveStep(i)
      BY <1>8 DEF onLogStable, ElectionInv, TermsOnWire, Frame, SaveStep, ElectPersistStep
    <2>2. QED
      BY <2>1, FrameInv
  <1>9. ASSUME NEW job \in jobs[i], onLogStableFails(i, job) PROVE ElectionInv'
    <2>1. Frame /\ TermsOnWire' /\ SaveStep(i)
      BY <1>9 DEF onLogStableFails, ElectionInv, TermsOnWire, Frame, SaveStep, ElectPersistStep
    <2>2. QED
      BY <2>1, FrameInv
  <1>10. QED
    BY <1>1, <1>2, <1>3, <1>4, <1>6, <1>7, <1>8, <1>9

\* RequestVote and its reply.
LEMMA VoteCallInv ==
    ASSUME ElectionInv, NEW i \in Server,
           \/ \E m \in voteArgs : RequestVote(i, m)
           \/ \E r \in voteReplies : handleRequestVoteResponse(i, r)
    PROVE  ElectionInv'
  <1> USE DEF electionVars, diskVars, processVars, threadVars, voteMsgs, appendMsgs, snapMsgs,
              historyVars, persistState, SaveRaftState
  <1>1. ASSUME NEW m \in voteArgs, RequestVote(i, m) PROVE ElectionInv'
    <2>1. CoreInv'
      BY <1>1, RequestVoteCore DEF ElectionInv, CoreInv
    <2>2. TermsOnWire'
      BY <1>1 DEF RequestVote, ElectionInv, TermsOnWire
    <2>3. SaveStep(i)
      <3>1. ElectPersistStep
        BY <1>1 DEF RequestVote, ElectPersistStep
      <3>2. CASE RequestVoteStale(i, m)
        BY <3>1, <3>2 DEF RequestVoteStale, SaveStep
      <3>3. CASE RequestVoteCurrent(i, m)
        BY <3>1, <3>3 DEF RequestVoteCurrent, SaveStep
      <3>4. QED
        BY <1>1, <3>2, <3>3 DEF RequestVote
    <2>4. QED
      BY <2>1, <2>2, <2>3, StepInv
  <1>2. ASSUME NEW r \in voteReplies, handleRequestVoteResponse(i, r) PROVE ElectionInv'
    <2>1. /\ ElectPersistStep /\ TermsOnWire'
          /\ UNCHANGED <<voteArgs, boot>> /\ voteReplies' = voteReplies \ {r}
          /\ r.to = i /\ r.args.boot = boot[i]
      BY <1>2 DEF handleRequestVoteResponse, ElectPersistStep, ElectionInv, TermsOnWire
    <2>2. CASE VoteResponseNewTerm(i, r)
      <3>1. r.term \in Nat /\ m_currentTerm[i] \in Nat
        BY DEF ElectionInv, ElectionTypes, RepliesOnce, ReplyTrue
      <3>2. TermStep(i, r.term)
        BY <2>1, <2>2, <3>1 DEF VoteResponseNewTerm, StepDown, TermStep
      <3>3. SaveStep(i)
        BY <2>1, <2>2 DEF VoteResponseNewTerm, SaveStep
      <3>4. QED
        BY <2>1, <3>2, <3>3, TermInv
    <2>3. CASE VoteResponseCounted(i, r)
      <3>1. CoreInv'
        BY <2>1, <2>3, VoteCountedCore DEF ElectionInv, CoreInv
      <3>2. SaveStep(i)
        BY <2>1, <2>3 DEF VoteResponseCounted, BecomeLeader, SaveStep
      <3>3. QED
        BY <2>1, <3>1, <3>2, StepInv
    <2>4. QED
      BY <1>2, <2>2, <2>3 DEF handleRequestVoteResponse
  <1>3. QED
    BY <1>1, <1>2

\* FollowTerm and StepDown are the two ways to raise a term.
LEMMA FollowTermStep ==
    ASSUME ElectionInv, NEW i \in Server, NEW t \in Nat, t >= m_currentTerm[i],
           \/ FollowTerm(i, t)
           \/ t > m_currentTerm[i] /\ StepDown(i, t),
           UNCHANGED <<granters, boot, votes, elected, voteArgs, voteReplies>>
    PROVE  TermStep(i, t)
  BY DEF FollowTerm, StepDown, TermStep

\* AppendEntries and its reply.
LEMMA AppendCallInv ==
    ASSUME ElectionInv, NEW i \in Server,
           \/ \E m \in appendArgs : AppendEntries(i, m)
           \/ \E r \in appendReplies : handleAppendEntries(i, r)
    PROVE  ElectionInv'
  <1> USE DEF electionVars, diskVars, processVars, threadVars, voteMsgs, appendMsgs, snapMsgs,
              historyVars, persistState, SaveRaftState
  <1>1. ASSUME NEW m \in appendArgs, AppendEntries(i, m) PROVE ElectionInv'
    <2>1. /\ UNCHANGED <<granters, boot, votes, elected, voteArgs, voteReplies, electPersist,
                         snapArgs, snapReplies>>
          /\ appendArgs' = appendArgs \ {m}
      BY <1>1 DEF AppendEntries
    <2>2. m.term \in Nat /\ m_currentTerm[i] \in Nat
      BY DEF ElectionInv, ElectionTypes, TermsOnWire
    <2>3. CASE AppendEntriesStale(i, m)
      <3>1. Frame /\ SaveStep(i)
        BY <2>1, <2>3 DEF AppendEntriesStale, Frame, SaveStep, ElectPersistStep
      <3>2. TermsOnWire'
        BY <2>1, <2>2, <2>3 DEF AppendEntriesStale, AppendReply, ElectionInv, TermsOnWire
      <3>3. QED
        BY <3>1, <3>2, FrameInv
    <2>4. CASE AppendEntriesMismatch(i, m)
      <3>1. TermStep(i, m.term)
        BY <2>1, <2>2, <2>4, FollowTermStep DEF AppendEntriesMismatch
      <3>2. SaveStep(i)
        BY <2>1, <2>4 DEF AppendEntriesMismatch, SaveStep, ElectPersistStep
      <3>3. TermsOnWire'
        BY <2>1, <2>2, <2>4 DEF AppendEntriesMismatch, AppendReply, ElectionInv, TermsOnWire
      <3>4. QED
        BY <3>1, <3>2, <3>3, TermInv
    <2>5. CASE AppendEntriesMatch(i, m)
      <3>1. TermsOnWire' /\ SaveStep(i)
        BY <2>1, <2>5 DEF AppendEntriesMatch, ElectionInv, TermsOnWire, SaveStep, ElectPersistStep
      <3>2. CASE UNCHANGED electionVars
        <4>1. Frame
          BY <2>1, <3>2 DEF Frame
        <4>2. QED
          BY <3>1, <4>1, FrameInv
      <3>3. CASE FollowTerm(i, m.term)
        <4>1. TermStep(i, m.term)
          BY <2>1, <2>2, <2>5, <3>3, FollowTermStep DEF AppendEntriesMatch
        <4>2. QED
          BY <3>1, <4>1, TermInv
      <3>4. QED
        BY <2>5, <3>2, <3>3 DEF AppendEntriesMatch
    <2>6. QED
      BY <1>1, <2>3, <2>4, <2>5 DEF AppendEntries
  <1>2. ASSUME NEW r \in appendReplies, handleAppendEntries(i, r) PROVE ElectionInv'
    <2>1. /\ UNCHANGED <<granters, boot, votes, elected, voteArgs, voteReplies>>
          /\ TermsOnWire' /\ SaveStep(i)
      BY <1>2 DEF handleAppendEntries, ElectionInv, TermsOnWire, SaveStep, ElectPersistStep
    <2>2. r.term \in Nat /\ m_currentTerm[i] \in Nat
      BY DEF ElectionInv, ElectionTypes, TermsOnWire
    <2>3. CASE AppendResponseNewTerm(i, r)
      <3>1. TermStep(i, r.term)
        BY <2>1, <2>2, <2>3, FollowTermStep DEF AppendResponseNewTerm
      <3>2. QED
        BY <2>1, <3>1, TermInv
    <2>4. CASE AppendResponseFailure(i, r) \/ AppendResponseSuccess(i, r)
      <3>1. Frame
        BY <2>1, <2>4 DEF AppendResponseFailure, AppendResponseSuccess, Frame
      <3>2. QED
        BY <2>1, <3>1, FrameInv
    <2>5. QED
      BY <1>2, <2>3, <2>4 DEF handleAppendEntries
  <1>3. QED
    BY <1>1, <1>2

\* InstallSnapshot and its reply.
LEMMA SnapshotCallInv ==
    ASSUME ElectionInv, NEW i \in Server,
           \/ \E m \in snapArgs : InstallSnapshot(i, m)
           \/ \E r \in snapReplies : leaderSendSnapShotHandler(i, r)
    PROVE  ElectionInv'
  <1> USE DEF electionVars, diskVars, processVars, threadVars, voteMsgs, appendMsgs, snapMsgs,
              historyVars, persistState, SaveRaftState
  <1>1. ASSUME NEW m \in snapArgs, InstallSnapshot(i, m) PROVE ElectionInv'
    <2>1. /\ UNCHANGED <<granters, boot, votes, elected, voteArgs, voteReplies, electPersist,
                         appendArgs, appendReplies>>
          /\ snapArgs' = snapArgs \ {m}
          /\ snapReplies' = snapReplies \cup {SnapReply(m, Max({m.term, m_currentTerm[i]}))}
      BY <1>1 DEF InstallSnapshot
    <2>2. m.term \in Nat /\ m_currentTerm[i] \in Nat /\ Max({m.term, m_currentTerm[i]}) \in Nat
      BY MaxTerm DEF ElectionInv, ElectionTypes, TermsOnWire
    <2>3. TermsOnWire'
      BY <2>1, <2>2 DEF SnapReply, ElectionInv, TermsOnWire
    <2>4. CASE InstallSnapshotStale(i, m)
      <3>1. Frame /\ SaveStep(i)
        BY <2>1, <2>4 DEF InstallSnapshotStale, Frame, SaveStep, ElectPersistStep
      <3>2. QED
        BY <2>3, <3>1, FrameInv
    <2>5. CASE InstallSnapshotCovered(i, m)
      <3>1. TermStep(i, m.term)
        BY <2>1, <2>2, <2>5, FollowTermStep DEF InstallSnapshotCovered
      <3>2. SaveStep(i)
        BY <2>1, <2>5 DEF InstallSnapshotCovered, SaveStep, ElectPersistStep
      <3>3. QED
        BY <2>3, <3>1, <3>2, TermInv
    <2>6. CASE InstallSnapshotInstalls(i, m)
      <3>1. TermStep(i, m.term)
        BY <2>1, <2>2, <2>6, FollowTermStep DEF InstallSnapshotInstalls
      <3>2. SaveStep(i)
        BY <2>1, <2>6 DEF InstallSnapshotInstalls, SaveStep, ElectPersistStep
      <3>3. QED
        BY <2>3, <3>1, <3>2, TermInv
    <2>7. QED
      BY <1>1, <2>4, <2>5, <2>6 DEF InstallSnapshot
  <1>2. ASSUME NEW r \in snapReplies, leaderSendSnapShotHandler(i, r) PROVE ElectionInv'
    <2>1. /\ UNCHANGED <<granters, boot, votes, elected, voteArgs, voteReplies, electPersist>>
          /\ TermsOnWire'
      BY <1>2 DEF leaderSendSnapShotHandler, ElectionInv, TermsOnWire
    <2>2. r.term \in Nat /\ m_currentTerm[i] \in Nat
      BY DEF ElectionInv, ElectionTypes, TermsOnWire
    <2>3. SaveStep(i)
      BY <1>2, <2>1 DEF leaderSendSnapShotHandler, SaveStep, ElectPersistStep
    <2>4. CASE r.term > m_currentTerm[i]
      <3>1. TermStep(i, r.term)
        BY <1>2, <2>1, <2>2, <2>4, FollowTermStep DEF leaderSendSnapShotHandler
      <3>2. QED
        BY <2>1, <2>3, <3>1, TermInv
    <2>5. CASE ~(r.term > m_currentTerm[i])
      <3>1. Frame
        BY <1>2, <2>1, <2>5 DEF leaderSendSnapShotHandler, Frame
      <3>2. QED
        BY <2>1, <2>3, <3>1, FrameInv
    <2>6. QED
      BY <2>4, <2>5
  <1>3. QED
    BY <1>1, <1>2

\* Every step keeps the invariant.
LEMMA NextInv ==
    ASSUME ElectionInv, NoTornRestart, [Next]_vars
    PROVE  ElectionInv'
  <1>0. Node0 \in Server
    BY ServerAssumption
  <1>1. CASE LoseCall
    <2>1. Frame /\ TermsOnWire' /\ SaveStep(Node0)
      BY <1>1 DEF LoseCall, Frame, SaveStep, ElectPersistStep, ElectionInv, TermsOnWire,
         electionVars, diskVars, processVars, threadVars, voteMsgs, appendMsgs, snapMsgs,
         historyVars
    <2>2. QED
      BY <1>0, <2>1, FrameInv
  <1>2. CASE UNCHANGED vars
    <2>1. Frame /\ TermsOnWire' /\ SaveStep(Node0)
      BY <1>2 DEF vars, Frame, SaveStep, ElectPersistStep, ElectionInv, TermsOnWire,
         electionVars, diskVars, processVars, threadVars, voteMsgs, appendMsgs, snapMsgs,
         historyVars
    <2>2. QED
      BY <1>0, <2>1, FrameInv
  <1>3. QED
    BY <1>1, <1>2, LocalInv, ServiceInv, VoteCallInv, AppendCallInv, SnapshotCallInv DEF Next

----------------------------------------------------------------------------
\* The election invariant holds in every behaviour in which no torn state file is read back.
THEOREM ElectionInvariant == ASSUME NoTornRestart PROVE Spec => []ElectionInv
  <1>1. Init => ElectionInv
    BY InitInv
  <1>2. ElectionInv /\ [Next]_vars => ElectionInv'
    BY NextInv
  <1>3. QED
    BY <1>1, <1>2, PTL DEF Spec

\* RequestVote: no node grants its vote of a term to two candidates, whatever is lost, delayed or
\* restarted.
THEOREM VoteOnceHolds == ASSUME NoTornRestart PROVE Spec => []VoteOnce
  <1>1. ElectionInv => VoteOnce
    BY SafetyFromInv
  <1>2. QED
    BY <1>1, ElectionInvariant, PTL

\* handleRequestVoteResponse: no two nodes become leader of one term.
THEOREM ElectionSafetyHolds == ASSUME NoTornRestart PROVE Spec => []ElectionSafety
  <1>1. ElectionInv => ElectionSafety
    BY SafetyFromInv
  <1>2. QED
    BY <1>1, ElectionInvariant, PTL

----------------------------------------------------------------------------
\* Facts about the operators of Raft.

\* Raise moves an index of one node up to a value.
LEMMA RaiseFacts ==
    ASSUME NEW f \in [Server -> Nat], NEW i \in Server, NEW x \in Nat
    PROVE  /\ Raise(f, i, x) = [f EXCEPT ![i] = IF f[i] >= x THEN f[i] ELSE x]
           /\ Raise(f, i, x) \in [Server -> Nat]
  <1>1. Max({f[i], x}) = IF f[i] >= x THEN f[i] ELSE x
    BY MinMaxOfTwo
  <1>2. QED
    BY <1>1 DEF Raise

\* The last entry of a log has the index that its position says.
LEMMA LastIndexFact ==
    ASSUME NodeTypes, LogTypes, LogIndexed, NEW i \in Server
    PROVE  /\ LastLogIndex(i) = m_lastSnapshotIndex[i] + Len(m_logs[i])
           /\ LastLogIndex(i) \in Nat /\ Len(m_logs[i]) \in Nat
           /\ LastLogTerm(i) \in Nat
  <1>1. /\ m_logs[i] \in Seq(Entry) /\ m_lastSnapshotIndex[i] \in Nat
        /\ m_lastSnapshotTerm[i] \in Nat
    BY DEF NodeTypes, LogTypes
  <1>2. \A k \in 1 .. Len(m_logs[i]) : m_logs[i][k].index = m_lastSnapshotIndex[i] + k
    BY <1>1 DEF LogIndexed
  <1>3. CASE m_logs[i] = <<>>
    BY <1>1, <1>3 DEF LastLogIndex, LastLogTerm
  <1>4. CASE m_logs[i] # <<>>
    <2>1. Len(m_logs[i]) \in 1 .. Len(m_logs[i]) /\ m_logs[i][Len(m_logs[i])] \in Entry
      BY <1>1, <1>4
    <2>2. PICK e \in Entry : e = m_logs[i][Len(m_logs[i])]
      BY <2>1, Zenon
    <2>3. LastLogIndex(i) = e.index /\ LastLogTerm(i) = e.term
      BY <1>4, <2>2, Zenon DEF LastLogIndex, LastLogTerm
    <2>4. e.index = m_lastSnapshotIndex[i] + Len(m_logs[i])
      BY <1>2, <2>1, <2>2, Zenon
    <2>5. e.index \in Nat /\ e.term \in Nat
      BY DEF Entry
    <2>6. Len(m_logs[i]) \in Nat
      BY <1>1
    <2>7. QED
      BY <2>3, <2>4, <2>5, <2>6
  <1>5. QED
    BY <1>3, <1>4

LEMMA LastIndexFactAfter ==
    ASSUME (NodeTypes /\ LogTypes /\ LogIndexed)', NEW i \in Server
    PROVE  /\ LastLogIndex(i)' = (m_lastSnapshotIndex[i] + Len(m_logs[i]))'
           /\ LastLogIndex(i)' \in Nat
  <1>1. m_logs'[i] \in Seq(Entry) /\ m_lastSnapshotIndex'[i] \in Nat
    BY DEF NodeTypes, LogTypes
  <1>2. \A k \in 1 .. Len(m_logs'[i]) : m_logs'[i][k].index = m_lastSnapshotIndex'[i] + k
    BY <1>1 DEF LogIndexed
  <1>3. CASE m_logs'[i] = <<>>
    BY <1>1, <1>3 DEF LastLogIndex
  <1>4. CASE m_logs'[i] # <<>>
    <2>1. Len(m_logs'[i]) \in 1 .. Len(m_logs'[i])
      BY <1>1, <1>4
    <2>2. QED
      BY <1>1, <1>2, <1>4, <2>1 DEF LastLogIndex
  <1>5. QED
    BY <1>3, <1>4

\* The part of a log with indexes from .. to.
LEMMA SliceFacts ==
    ASSUME NodeTypes, LogTypes, LogIndexed, NEW i \in Server, NEW from \in Int, NEW to \in Int,
           from > m_lastSnapshotIndex[i], to <= LastLogIndex(i)
    PROVE  /\ LogSlice(i, from, to) \in Seq(Entry)
           /\ Len(LogSlice(i, from, to)) = IF from <= to THEN to - from + 1 ELSE 0
           /\ \A k \in 1 .. Len(LogSlice(i, from, to)) :
                  /\ LogSlice(i, from, to)[k].index = from + k - 1
                  /\ LogSlice(i, from, to)[k] = EntryAt(i, from + k - 1)
  <1>1. PICK s \in Nat, L \in Seq(Entry) : s = m_lastSnapshotIndex[i] /\ L = m_logs[i]
    BY DEF NodeTypes, LogTypes
  <1>2. LastLogIndex(i) = s + Len(L) /\ \A k \in 1 .. Len(L) : L[k].index = s + k
    BY <1>1, LastIndexFact DEF LogIndexed
  <1>3. PICK a \in Int, b \in Int : a = from - s /\ b = to - s
    OBVIOUS
  <1>4. a >= 1 /\ b <= Len(L) /\ Len(L) \in Nat
    <2>1. from > s /\ to <= s + Len(L)
      BY <1>1, <1>2, Zenon
    <2>2. Len(L) \in Nat
      OBVIOUS
    <2>3. QED
      BY <1>3, <2>1, <2>2
  <1>5. PICK sub : sub = SubSeq(L, a, b)
    OBVIOUS
  <1>6. /\ sub \in Seq(Entry)
        /\ Len(sub) = IF a <= b THEN b - a + 1 ELSE 0
        /\ \A k \in 1 .. Len(sub) : sub[k] = L[a + k - 1]
    BY <1>4, <1>5, SubSeqFacts, SMTT(30)
  <1>7. ASSUME NEW k \in 1 .. Len(sub)
        PROVE  sub[k].index = from + k - 1 /\ sub[k] = EntryAt(i, from + k - 1)
    <2>0. k \in Nat /\ 1 <= k /\ k <= b - a + 1
      <3>1. Len(sub) \in Nat
        BY <1>6
      <3>2. QED
        BY <1>6, <3>1
    <2>1. a + k - 1 \in 1 .. Len(L) /\ a + k - 1 = from + k - 1 - s
      BY <1>3, <1>4, <2>0
    <2>2. sub[k] = L[a + k - 1] /\ L[a + k - 1].index = s + (a + k - 1)
      BY <1>2, <1>6, <2>1
    <2>3. s + (a + k - 1) = from + k - 1
      BY <1>3, <2>1
    <2>4. EntryAt(i, from + k - 1) = L[from + k - 1 - s]
      BY <1>1 DEF EntryAt
    <2>5. QED
      BY <2>1, <2>2, <2>3, <2>4
  <1>8. LogSlice(i, from, to) = sub
    BY <1>1, <1>3, <1>5 DEF LogSlice
  <1>9. QED
    BY <1>3, <1>6, <1>7, <1>8

\* A log that is replaced by one with consecutive indexes.
LEMMA LogUpdate ==
    ASSUME NodeTypes, LogTypes, LogIndexed, NEW i \in Server,
           NEW logs \in Seq(Entry), NEW snap \in Nat,
           \A k \in 1 .. Len(logs) : logs[k].index = snap + k,
           m_logs' = [m_logs EXCEPT ![i] = logs],
           m_lastSnapshotIndex' = [m_lastSnapshotIndex EXCEPT ![i] = snap]
    PROVE  LogTypes' /\ LogIndexed'
  <1>1. LogTypes'
    BY DEF LogTypes
  <1>2. ASSUME NEW k \in Server, NEW n \in DOMAIN m_logs'[k]
        PROVE  m_logs'[k][n].index = m_lastSnapshotIndex'[k] + n
    <2>1. CASE k = i
      <3>1. m_logs'[k] = logs /\ m_lastSnapshotIndex'[k] = snap
        BY <2>1 DEF LogTypes, NodeTypes
      <3>2. n \in 1 .. Len(logs)
        BY <3>1
      <3>3. QED
        BY <3>1, <3>2
    <2>2. CASE k # i
      BY <2>2 DEF LogTypes, NodeTypes, LogIndexed
    <2>3. QED
      BY <2>1, <2>2
  <1>3. QED
    BY <1>1, <1>2 DEF LogIndexed

\* An index that is in the log of a node names an entry with that index.
LEMMA EntryAtFact ==
    ASSUME NodeTypes, LogTypes, LogIndexed, NEW i \in Server, NEW k \in Int
    PROVE  /\ InLog(i, k) <=> m_lastSnapshotIndex[i] < k /\ k <= LastLogIndex(i)
           /\ InLog(i, k) => EntryAt(i, k) \in Entry /\ EntryAt(i, k).index = k
           /\ m_lastSnapshotIndex[i] <= k /\ k <= LastLogIndex(i) => TermAt(i, k) \in Nat
  <1>1. /\ LastLogIndex(i) = m_lastSnapshotIndex[i] + Len(m_logs[i]) /\ Len(m_logs[i]) \in Nat
        /\ m_lastSnapshotIndex[i] \in Nat /\ m_logs[i] \in Seq(Entry)
        /\ m_lastSnapshotTerm[i] \in Nat
        /\ \A n \in 1 .. Len(m_logs[i]) : m_logs[i][n].index = m_lastSnapshotIndex[i] + n
    <2>1. m_logs[i] \in Seq(Entry)
      BY DEF LogTypes
    <2>2. \A n \in 1 .. Len(m_logs[i]) : m_logs[i][n].index = m_lastSnapshotIndex[i] + n
      BY <2>1 DEF LogIndexed
    <2>3. m_lastSnapshotIndex[i] \in Nat /\ m_lastSnapshotTerm[i] \in Nat
      BY DEF NodeTypes
    <2>4. QED
      BY <2>1, <2>2, <2>3, LastIndexFact
  <1>2. InLog(i, k) <=> m_lastSnapshotIndex[i] < k /\ k <= LastLogIndex(i)
    BY <1>1 DEF InLog
  <1>3. ASSUME InLog(i, k) PROVE EntryAt(i, k) \in Entry /\ EntryAt(i, k).index = k
    BY <1>1, <1>3 DEF InLog, EntryAt
  <1>4. ASSUME m_lastSnapshotIndex[i] <= k, k <= LastLogIndex(i) PROVE TermAt(i, k) \in Nat
    BY <1>1, <1>2, <1>3, <1>4 DEF TermAt, Entry
  <1>5. QED
    BY <1>2, <1>3, <1>4

----------------------------------------------------------------------------
\* The state file and the WAL.

\* What is stored is a node state.
LEMMA MetaTyped ==
    ASSUME NodeTypes, NEW i \in Server
    PROVE  Meta(i) \in MetaType
  BY DEF NodeTypes, Meta, MetaType

LEMMA MetaTypedAfter ==
    ASSUME NodeTypes', NEW i \in Server
    PROVE  Meta(i)' \in MetaType
  BY DEF NodeTypes, Meta, MetaType

\* Storing a node state, with the compaction of the WAL that may come with it.
LEMMA SaveDisk ==
    ASSUME DiskTypes, NEW i \in Server, NEW meta \in MetaType, SaveRaftState(i, meta)
    PROVE  DiskTypes'
  <1>1. meta.snapshot_index \in Int /\ meta.snapshot_index \in Nat
    BY DEF MetaType
  <1>2. wal[i] \in Seq(Entry) /\ \A e \in Entry : e.index \in Int
    <2>1. wal[i] \in Seq(Entry)
      BY DEF DiskTypes
    <2>2. QED
      BY <2>1 DEF Entry
  <1>3. ReadPersistedLogs(wal[i], meta.snapshot_index) \in Seq(Entry)
    <2>1. ReadPersistedLogs(wal[i], meta.snapshot_index) \in Seq({wal[i][k] : k \in 1 .. Len(wal[i])})
      BY <1>1, <1>2, ReplayFacts
    <2>2. {wal[i][k] : k \in 1 .. Len(wal[i])} \subseteq Entry
      BY <1>2
    <2>3. QED
      BY <2>1, <2>2
  <1>4. fmp' \in [Server -> MetaType]
    BY DEF SaveRaftState, DiskTypes
  <1>5. wal' \in [Server -> Seq(Entry)]
    BY <1>3 DEF SaveRaftState, DiskTypes
  <1>6. m_compactedSnapshotIndex' \in [Server -> Nat]
    BY <1>1 DEF SaveRaftState, DiskTypes
  <1>7. QED
    BY <1>4, <1>5, <1>6 DEF DiskTypes

\* A critical section that ends with persistState, or without.
LEMMA DiskStep ==
    ASSUME DiskTypes, NodeTypes', NEW i \in Server, persistState(i) \/ UNCHANGED diskVars
    PROVE  DiskTypes'
  <1>1. CASE persistState(i)
    BY <1>1, MetaTypedAfter, SaveDisk DEF persistState
  <1>2. CASE UNCHANGED diskVars
    BY <1>2 DEF diskVars, DiskTypes
  <1>3. QED
    BY <1>1, <1>2

----------------------------------------------------------------------------
\* The initial states.
LEMMA InitLogInv == Init => LogInv
  <1> SUFFICES ASSUME Init PROVE LogInv
    OBVIOUS
  <1> USE DEF Init
  <1>1. NodeTypes
    BY ServerAssumption DEF NodeTypes
  <1>2. LogTypes /\ LogIndexed
    BY DEF LogTypes, LogIndexed
  <1>3. DiskTypes /\ ElectPersistTypes
    BY ServerAssumption DEF DiskTypes, ElectPersistTypes, MetaType
  <1>4. JobTypes /\ SnapThreadTypes /\ VoteCallTypes /\ AppendCallTypes /\ SnapCallTypes
    BY DEF JobTypes, SnapThreadTypes, VoteCallTypes, AppendCallTypes, SnapCallTypes
  <1>5. QED
    BY <1>1, <1>2, <1>3, <1>4 DEF LogInv

----------------------------------------------------------------------------
\* Timers.

\* A candidacy.
LEMMA doElectionTypes ==
    ASSUME LogInv, NEW i \in Server, doElection(i)
    PROVE  LogInv'
  <1> USE DEF LogInv, logVars, leaderVars, diskVars, processVars, appendMsgs, snapMsgs
  <1>1. NodeTypes'
    BY DEF doElection, NodeTypes
  <1>2. LogTypes' /\ LogIndexed' /\ DiskTypes' /\ SnapCallTypes' /\ AppendCallTypes'
    BY DEF doElection, LogTypes, LogIndexed, DiskTypes, SnapCallTypes, AppendCallTypes
  <1>3. ElectPersistTypes'
    BY DEF doElection, ElectPersistTypes
  <1>4. JobTypes' /\ SnapThreadTypes'
    BY DEF doElection, JobTypes, SnapThreadTypes
  <1>5. VoteCallTypes'
    <2>1. m_currentTerm[i] + 1 \in Positive /\ Electorate(i) \subseteq Server
      BY DEF NodeTypes, Positive, Electorate
    <2> DEFINE new == {[from |-> i, to |-> j, term |-> m_currentTerm[i] + 1, boot |-> boot[i],
                        lastLogIndex |-> LastLogIndex(i), lastLogTerm |-> LastLogTerm(i)]
                          : j \in Electorate(i)}
    <2>2. voteArgs' = voteArgs \cup new
      BY DEF doElection
    <2>3. UNCHANGED voteReplies
      BY DEF doElection
    <2>4. \A m \in new : m.from \in Server /\ m.to \in Server /\ m.term \in Positive
      BY <2>1
    <2> HIDE DEF new
    <2>5. QED
      BY <2>2, <2>3, <2>4 DEF VoteCallTypes
  <1>6. QED
    BY <1>1, <1>2, <1>3, <1>4, <1>5

\* The deferred persistState of a candidacy, torn or not.
LEMMA PersistElectionTypes ==
    ASSUME LogInv, NEW i \in Server, LoadElectionState(i) \/ PersistElection(i)
    PROVE  LogInv'
  <1> USE DEF LogInv, electionVars, logVars, leaderVars, diskVars, processVars, voteMsgs,
              appendMsgs, snapMsgs, historyVars
  <1>1. NodeTypes'
    BY DEF LoadElectionState, PersistElection, NodeTypes
  <1>2. LogTypes' /\ LogIndexed' /\ SnapCallTypes' /\ AppendCallTypes' /\ VoteCallTypes'
    BY DEF LoadElectionState, PersistElection, LogTypes, LogIndexed, SnapCallTypes,
       AppendCallTypes, VoteCallTypes
  <1>3. JobTypes' /\ SnapThreadTypes'
    BY DEF LoadElectionState, PersistElection, JobTypes, SnapThreadTypes
  <1>4. CASE LoadElectionState(i)
    <2>1. Loaded(Meta(i))[2] = Meta(i)
      BY DEF Loaded
    <2>2. ElectPersistTypes'
      BY <1>4, <2>1, MetaTyped DEF LoadElectionState, ElectPersistTypes
    <2>3. DiskTypes'
      BY <1>4 DEF LoadElectionState, DiskTypes
    <2>4. QED
      BY <1>1, <1>2, <1>3, <2>2, <2>3
  <1>5. CASE PersistElection(i)
    <2>1. ElectPersistTypes'
      BY <1>5 DEF PersistElection, ElectPersistTypes
    <2>2. PICK stale \in IF electPersist[i] = Deferred THEN {{}} ELSE SUBSET MetaFields :
              SaveRaftState(i, [f \in MetaFields |->
                                   IF f \in stale THEN electPersist[i][2][f] ELSE Meta(i)[f]])
      BY <1>5 DEF PersistElection
    <2>3. stale = {} \/ electPersist[i][2] \in MetaType
      BY <1>5, <2>2 DEF PersistElection, ElectPersistTypes
    <2>4. [f \in MetaFields |-> IF f \in stale THEN electPersist[i][2][f] ELSE Meta(i)[f]]
             \in MetaType
      <3>1. PICK p : p = electPersist[i][2]
        OBVIOUS
      <3>2. PICK q \in MetaType : q = Meta(i)
        BY MetaTyped
      <3>3. stale = {} \/ p \in MetaType
        BY <2>3, <3>1
      <3>4. [f \in MetaFields |-> IF f \in stale THEN p[f] ELSE q[f]] \in MetaType
        BY <3>3 DEF MetaFields, MetaType
      <3>5. QED
        BY <3>1, <3>2, <3>4
    <2>5. DiskTypes'
      BY <2>2, <2>4, SaveDisk
    <2>6. QED
      BY <1>1, <1>2, <1>3, <2>1, <2>5
  <1>6. QED
    BY <1>4, <1>5

\* The request that a leader sends to a peer its log reaches back to: it carries consecutive
\* entries that follow prevLogIndex.
LEMMA HeartBeatArgs ==
    ASSUME LogInv, NEW i \in Server, NEW j \in Server \ {i}, HeartBeatAsserts(i, j),
           ~(m_nextIndex[i][j] <= m_lastSnapshotIndex[i])
    PROVE  /\ AppendArgsOK(AppendEntriesArgs(i, j))
           /\ \A k \in 1 .. Len(AppendEntriesArgs(i, j).entries) :
                  LET m == AppendEntriesArgs(i, j)
                  IN  /\ InLog(i, m.prevLogIndex + k)
                      /\ m.entries[k] = EntryAt(i, m.prevLogIndex + k)
  <1>1. /\ m_nextIndex[i][j] \in Nat /\ m_lastSnapshotIndex[i] \in Nat
        /\ m_stableLogIndex[i] \in Nat /\ m_currentTerm[i] \in Nat /\ boot[i] \in Nat
        /\ m_commitIndex[i] \in Nat
    BY DEF LogInv, NodeTypes
  <1>2. PICK prev \in Int : prev = m_nextIndex[i][j] - 1
    BY <1>1
  <1>3. LastLogIndex(i) \in Nat
    BY LastIndexFact DEF LogInv
  <1>4. /\ prev \in Nat /\ prev + 1 > m_lastSnapshotIndex[i]
        /\ m_lastSnapshotIndex[i] <= prev /\ prev <= LastLogIndex(i)
        /\ m_stableLogIndex[i] <= LastLogIndex(i) /\ prev <= m_stableLogIndex[i]
    BY <1>1, <1>2, <1>3 DEF HeartBeatAsserts
  <1>5. TermAt(i, prev) \in Nat
    BY <1>4, EntryAtFact DEF LogInv
  <1>6. PICK es : es = LogSlice(i, prev + 1, m_stableLogIndex[i])
    OBVIOUS
  <1>7. /\ es \in Seq(Entry)
        /\ \A k \in 1 .. Len(es) : /\ es[k].index = prev + k
                                   /\ InLog(i, prev + k) /\ es[k] = EntryAt(i, prev + k)
    <2>1. PICK from \in Int, to \in Int : from = prev + 1 /\ to = m_stableLogIndex[i]
      BY <1>1
    <2>2. from > m_lastSnapshotIndex[i] /\ to <= LastLogIndex(i)
      BY <1>4, <2>1
    <2>3. es = LogSlice(i, from, to)
      BY <1>6, <2>1
    <2>4. /\ es \in Seq(Entry)
          /\ Len(es) = IF from <= to THEN to - from + 1 ELSE 0
          /\ \A k \in 1 .. Len(es) : /\ es[k].index = from + k - 1
                                     /\ es[k] = EntryAt(i, from + k - 1)
      BY <2>2, <2>3, SliceFacts DEF LogInv
    <2>5. ASSUME NEW k \in 1 .. Len(es)
          PROVE  from + k - 1 = prev + k /\ InLog(i, prev + k)
      <3>1. /\ k \in Int /\ 1 <= k /\ k <= to - from + 1 /\ prev + k \in Int
            /\ from + k - 1 = prev + k
        <4>1. Len(es) \in Nat
          BY <2>4
        <4>2. QED
          BY <2>1, <2>4, <4>1
      <3>2. m_lastSnapshotIndex[i] < prev + k /\ prev + k <= LastLogIndex(i)
        BY <1>1, <1>3, <1>4, <2>1, <2>2, <3>1, SMTT(30)
      <3>3. InLog(i, prev + k)
        BY <3>1, <3>2, EntryAtFact DEF LogInv
      <3>4. QED
        BY <3>1, <3>3
    <2>6. QED
      BY <2>4, <2>5
  <1>8. AppendEntriesArgs(i, j) =
           [from |-> i, to |-> j, term |-> m_currentTerm[i], boot |-> boot[i],
            prevLogIndex |-> prev, prevLogTerm |-> TermAt(i, prev), entries |-> es,
            leaderCommit |-> m_commitIndex[i]]
    BY <1>2, <1>6 DEF AppendEntriesArgs
  <1>9. QED
    BY <1>1, <1>4, <1>5, <1>7, <1>8 DEF AppendArgsOK

\* A tick of the leader.
LEMMA doHeartBeatTypes ==
    ASSUME LogInv, NEW i \in Server, doHeartBeat(i)
    PROVE  LogInv'
  <1> USE DEF LogInv, electionVars, logVars, leaderVars, diskVars, processVars, voteMsgs, snapMsgs,
              historyVars
  <1>1. NodeTypes'
    BY DEF doHeartBeat, NodeTypes
  <1>2. LogTypes' /\ LogIndexed' /\ DiskTypes' /\ ElectPersistTypes' /\ SnapCallTypes'
        /\ VoteCallTypes' /\ JobTypes'
    BY DEF doHeartBeat, LogTypes, LogIndexed, DiskTypes, ElectPersistTypes, SnapCallTypes,
       VoteCallTypes, JobTypes
  <1>3. SnapThreadTypes'
    BY DEF doHeartBeat, SnapThreadTypes
  <1>4. AppendCallTypes'
    <2>1. UNCHANGED appendReplies
      BY DEF doHeartBeat
    <2>2. ASSUME NEW m \in appendArgs', m \notin appendArgs PROVE AppendArgsOK(m)
      <3>1. PICK j \in Server \ {i} : /\ m = AppendEntriesArgs(i, j)
                                      /\ HeartBeatAsserts(i, j)
                                      /\ ~(m_nextIndex[i][j] <= m_lastSnapshotIndex[i])
        BY <2>2 DEF doHeartBeat
      <3>2. QED
        BY <3>1, HeartBeatArgs
    <2>3. QED
      BY <2>1, <2>2 DEF AppendCallTypes
  <1>5. QED
    BY <1>1, <1>2, <1>3, <1>4

\* A process that aborts, and the applier.
LEMMA applierTickerTypes ==
    ASSUME LogInv, NEW i \in Server, doHeartBeatAborts(i) \/ applierTicker(i)
    PROVE  LogInv'
  <1> USE DEF LogInv, electionVars, logVars, leaderVars, threadVars, diskVars, voteMsgs,
              appendMsgs, snapMsgs, historyVars
  <1>1. NodeTypes'
    <2>1. CASE doHeartBeatAborts(i)
      BY <2>1 DEF doHeartBeatAborts, Abort, NodeTypes
    <2>2. CASE applierTicker(i)
      <3>1. \/ m_lastApplied' = [m_lastApplied EXCEPT ![i] = m_commitIndex[i]] /\ UNCHANGED up
            \/ up' = [up EXCEPT ![i] = FALSE] /\ UNCHANGED m_lastApplied
        BY <2>2, Zenon DEF applierTicker
      <3>2. UNCHANGED <<electionVars, m_lastSnapshotIndex, m_lastSnapshotTerm, m_commitIndex,
                        m_stableLogIndex, leaderVars, boot>>
        BY <2>2 DEF applierTicker
      <3>3. m_lastApplied' \in [Server -> Nat] /\ up' \in [Server -> BOOLEAN]
        BY <3>1 DEF NodeTypes
      <3>4. QED
        BY <2>2, <3>2, <3>3 DEF NodeTypes, applierTicker
    <2>3. QED
      BY <2>1, <2>2
  <1>2. LogTypes' /\ LogIndexed' /\ DiskTypes' /\ ElectPersistTypes' /\ SnapCallTypes'
    BY DEF doHeartBeatAborts, Abort, applierTicker, LogTypes, LogIndexed, DiskTypes,
       ElectPersistTypes, SnapCallTypes
  <1>3. VoteCallTypes' /\ AppendCallTypes' /\ JobTypes' /\ SnapThreadTypes'
    BY DEF doHeartBeatAborts, Abort, applierTicker, VoteCallTypes, AppendCallTypes, JobTypes,
       SnapThreadTypes
  <1>4. QED
    BY <1>1, <1>2, <1>3

\* A restart: init takes over the state file and the replayed WAL, whatever order and whatever
\* repetitions the WAL has.
LEMMA RestartTypes ==
    ASSUME LogInv, NEW i \in Server, Restart(i)
    PROVE  LogInv'
  <1> USE DEF LogInv, voteMsgs, appendMsgs, snapMsgs
  <1>1. PICK logs, snap : /\ logs = ReadPersistedLogs(wal[i], fmp[i].snapshot_index)
                          /\ snap = fmp[i].snapshot_index
    OBVIOUS
  <1>2. fmp[i] \in MetaType /\ snap \in Nat
    BY <1>1 DEF DiskTypes, MetaType
  <1>3. logs \in Seq(Entry) /\ \A k \in 1 .. Len(logs) : logs[k].index = snap + k
    <2>1. wal[i] \in Seq(Entry) /\ snap \in Int
      BY <1>2 DEF DiskTypes
    <2>2. \A e \in Entry : e.index \in Int
      BY DEF Entry
    <2>3. /\ logs \in Seq({wal[i][k] : k \in 1 .. Len(wal[i])})
          /\ \A k \in 1 .. Len(logs) : logs[k].index = snap + k
      BY <1>1, <2>1, <2>2, ReplayFacts
    <2>4. {wal[i][k] : k \in 1 .. Len(wal[i])} \subseteq Entry
      BY <2>1
    <2>5. QED
      BY <2>3, <2>4
  <1>4. /\ m_logs' = [m_logs EXCEPT ![i] = logs]
        /\ m_lastSnapshotIndex' = [m_lastSnapshotIndex EXCEPT ![i] = snap]
        /\ m_stableLogIndex' = [m_stableLogIndex EXCEPT ![i] = snap + Len(logs)]
    BY <1>1 DEF Restart
  <1>5. NodeTypes'
    <2>1. snap + Len(logs) \in Nat
      BY <1>2, <1>3
    <2>2. /\ fmp[i].term \in Nat /\ fmp[i].votedFor \in Server \cup {NoVote}
          /\ fmp[i].snapshot_term \in Nat /\ fmp[i].commit_index \in Nat
          /\ fmp[i].snapshot_index \in Nat
      BY <1>2 DEF MetaType
    <2>3. /\ m_lastSnapshotIndex' \in [Server -> Nat]
          /\ m_stableLogIndex' \in [Server -> Nat]
      BY <1>2, <1>4, <2>1 DEF NodeTypes
    <2>4. /\ m_currentTerm' \in [Server -> Nat]
          /\ m_voteForId' \in [Server -> Server \cup {NoVote}]
          /\ m_state' \in [Server -> {Follower, Candidate, Leader}]
          /\ \A k \in Server : m_state'[k] # Follower => m_currentTerm'[k] >= 1
          /\ votedNum' \in [Server -> Nat]
          /\ granters' \in [Server -> SUBSET Server]
      BY <2>2 DEF Restart, NodeTypes
    <2>5. /\ m_lastSnapshotTerm' \in [Server -> Nat]
          /\ m_commitIndex' \in [Server -> Nat]
          /\ m_lastApplied' \in [Server -> Nat]
      BY <2>2 DEF Restart, NodeTypes
    <2>6. /\ up' \in [Server -> BOOLEAN]
          /\ boot' \in [Server -> Nat]
          /\ m_nextIndex' \in [Server -> [Server -> Nat]]
          /\ m_matchIndex' \in [Server -> [Server -> Nat]]
      <3>1. /\ up \in [Server -> BOOLEAN] /\ boot \in [Server -> Nat]
            /\ m_nextIndex \in [Server -> [Server -> Nat]]
            /\ m_matchIndex \in [Server -> [Server -> Nat]]
        BY DEF NodeTypes
      <3>2. /\ up' = [up EXCEPT ![i] = TRUE] /\ boot' = [boot EXCEPT ![i] = boot[i] + 1]
            /\ m_nextIndex' = [m_nextIndex EXCEPT ![i] = [j \in Server |-> 0]]
            /\ m_matchIndex' = [m_matchIndex EXCEPT ![i] = [j \in Server |-> 0]]
        BY <3>1 DEF Restart
      <3>3. up' \in [Server -> BOOLEAN] /\ boot' \in [Server -> Nat]
        BY <3>1, <3>2
      <3>4. QED
        BY <3>1, <3>2, <3>3
    <2>7. QED
      BY <2>3, <2>4, <2>5, <2>6 DEF NodeTypes
  <1>6. LogTypes' /\ LogIndexed'
    BY <1>2, <1>3, <1>4, LogUpdate
  <1>7. DiskTypes' /\ ElectPersistTypes'
    BY DEF Restart, DiskTypes, ElectPersistTypes
  <1>8. JobTypes' /\ SnapThreadTypes'
    BY DEF Restart, JobTypes, SnapThreadTypes
  <1>9. VoteCallTypes' /\ AppendCallTypes' /\ SnapCallTypes'
    BY DEF Restart, VoteCallTypes, AppendCallTypes, SnapCallTypes
  <1>10. QED
    BY <1>5, <1>6, <1>7, <1>8, <1>9

----------------------------------------------------------------------------
\* Clients, snapshots and the WAL.

\* A command on the leader: its entry follows the last one.
LEMMA StartTypes ==
    ASSUME LogInv, NEW i \in Server, NEW cmd \in Command, Start(i, cmd)
    PROVE  LogInv'
  <1> USE DEF LogInv, electionVars, leaderVars, processVars, voteMsgs, appendMsgs, snapMsgs,
              historyVars
  <1>1. PICK e : e = NewEntry(i, cmd)
    OBVIOUS
  <1>2. LastLogIndex(i) = m_lastSnapshotIndex[i] + Len(m_logs[i]) /\ LastLogIndex(i) \in Nat
    BY LastIndexFact
  <1>3. m_currentTerm[i] \in Nat /\ m_currentTerm[i] >= 1
    BY DEF Start, NodeTypes, Leader, Follower
  <1>4. e \in Entry /\ e.index = LastLogIndex(i) + 1
    BY <1>1, <1>2, <1>3 DEF NewEntry, Entry
  <1>5. NodeTypes'
    BY DEF Start, NodeTypes
  <1>6. LogTypes' /\ LogIndexed'
    <2>1. PICK snap \in Nat, old \in Seq(Entry) : snap = m_lastSnapshotIndex[i] /\ old = m_logs[i]
      BY DEF NodeTypes, LogTypes
    <2>2. \A k \in 1 .. Len(old) : old[k].index = snap + k
      BY <2>1 DEF LogIndexed
    <2>3. PICK new : new = Append(old, e)
      OBVIOUS
    <2>4. /\ new \in Seq(Entry) /\ Len(new) = Len(old) + 1
          /\ \A k \in 1 .. Len(old) : new[k] = old[k]
          /\ new[Len(old) + 1] = e
      BY <1>4, <2>3
    <2>5. ASSUME NEW k \in 1 .. Len(new) PROVE new[k].index = snap + k
      <3>1. CASE k \in 1 .. Len(old)
        BY <2>2, <2>4, <3>1
      <3>2. CASE k = Len(old) + 1
        <4>1. e.index = (snap + Len(old)) + 1
          BY <1>2, <1>4, <2>1
        <4>2. Len(old) \in Nat
          OBVIOUS
        <4>3. (snap + Len(old)) + 1 = snap + (Len(old) + 1)
          BY <4>2
        <4>4. QED
          BY <2>4, <3>2, <4>1, <4>3
      <3>3. QED
        BY <2>4, <3>1, <3>2
    <2>6. m_logs' = [m_logs EXCEPT ![i] = new]
      BY <1>1, <2>1, <2>3 DEF Start
    <2>7. m_lastSnapshotIndex' = [m_lastSnapshotIndex EXCEPT ![i] = snap]
      BY <2>1 DEF Start, NodeTypes
    <2>8. QED
      BY <2>4, <2>5, <2>6, <2>7, LogUpdate
  <1>7. DiskTypes'
    <2>1. persistState(i)
      BY DEF Start
    <2>2. QED
      BY <1>5, <2>1, DiskStep
  <1>8. ElectPersistTypes' /\ SnapThreadTypes' /\ VoteCallTypes' /\ AppendCallTypes' /\ SnapCallTypes'
    BY DEF Start, ElectPersistTypes, SnapThreadTypes, VoteCallTypes, AppendCallTypes,
       SnapCallTypes
  <1>9. JobTypes'
    <2>1. PICK new : new = [kind |-> "start", entry |-> e, written |-> FALSE]
      OBVIOUS
    <2>2. JobOK(i, new)
      BY <1>4, <2>1 DEF JobOK
    <2>3. jobs' = [jobs EXCEPT ![i] = @ \cup {new}]
      BY <1>1, <2>1 DEF Start
    <2>4. QED
      BY <2>2, <2>3 DEF JobTypes
  <1>10. QED
    BY <1>5, <1>6, <1>7, <1>8, <1>9

\* The entries above an index that a snapshot covers.
LEMMA LogAboveFacts ==
    ASSUME LogInv, NEW i \in Server, NEW index \in Nat, index > m_lastSnapshotIndex[i]
    PROVE  /\ LogAbove(i, index) \in Seq(Entry)
           /\ Len(LogAbove(i, index)) = IF index < LastLogIndex(i) THEN LastLogIndex(i) - index ELSE 0
           /\ \A k \in 1 .. Len(LogAbove(i, index)) :
                  /\ LogAbove(i, index)[k].index = index + k
                  /\ LogAbove(i, index)[k] = EntryAt(i, index + k)
  <1>1. LastLogIndex(i) \in Nat /\ m_lastSnapshotIndex[i] \in Nat
    BY LastIndexFact DEF LogInv, NodeTypes
  <1>2. PICK from \in Int, to \in Int : from = index + 1 /\ to = LastLogIndex(i)
    BY <1>1
  <1>3. from > m_lastSnapshotIndex[i] /\ to <= LastLogIndex(i)
    BY <1>1, <1>2
  <1>4. PICK sub : sub = LogSlice(i, from, to)
    OBVIOUS
  <1>5. /\ sub \in Seq(Entry)
        /\ Len(sub) = IF from <= to THEN to - from + 1 ELSE 0
        /\ \A k \in 1 .. Len(sub) : /\ sub[k].index = from + k - 1
                                    /\ sub[k] = EntryAt(i, from + k - 1)
    BY <1>3, <1>4, SliceFacts DEF LogInv
  <1>6. \A k \in 1 .. Len(sub) : from + k - 1 = index + k
    BY <1>2, <1>5
  <1>7. Len(sub) = IF index < LastLogIndex(i) THEN LastLogIndex(i) - index ELSE 0
    BY <1>1, <1>2, <1>5
  <1>8. LogAbove(i, index) = sub
    BY <1>2, <1>4 DEF LogAbove
  <1>9. QED
    BY <1>5, <1>6, <1>7, <1>8

\* A snapshot of the service.
LEMMA SnapshotTypes ==
    ASSUME LogInv, NEW i \in Server, NEW index \in SnapshotAt, Snapshot(i, index)
    PROVE  LogInv'
  <1> USE DEF LogInv, electionVars, leaderVars, threadVars, voteMsgs, appendMsgs, snapMsgs,
              historyVars
  <1>1. index \in Nat /\ index > m_lastSnapshotIndex[i]
    BY SnapshotAtAssumption DEF Snapshot
  <1>2. ElectPersistTypes' /\ SnapThreadTypes' /\ VoteCallTypes' /\ AppendCallTypes' /\ SnapCallTypes'
        /\ JobTypes'
    BY DEF Snapshot, ElectPersistTypes, SnapThreadTypes, VoteCallTypes, AppendCallTypes,
       SnapCallTypes, JobTypes
  <1>3. CASE InLog(i, index)
    <2>1. /\ m_lastSnapshotTerm' = [m_lastSnapshotTerm EXCEPT ![i] = EntryAt(i, index).term]
          /\ m_logs' = [m_logs EXCEPT ![i] = LogAbove(i, index)]
          /\ m_lastSnapshotIndex' = [m_lastSnapshotIndex EXCEPT ![i] = index]
          /\ m_stableLogIndex' = Raise(m_stableLogIndex, i, index)
          /\ UNCHANGED <<m_commitIndex, m_lastApplied, up>>
          /\ persistState(i)
      BY <1>3 DEF Snapshot
    <2>2. EntryAt(i, index).term \in Nat
      BY <1>1, <1>3, EntryAtFact DEF Entry
    <2>3. m_stableLogIndex' \in [Server -> Nat]
      <3>1. m_stableLogIndex \in [Server -> Nat]
        BY DEF NodeTypes
      <3>2. QED
        BY <1>1, <2>1, <3>1, RaiseFacts
    <2>4. NodeTypes'
      <3>1. m_lastSnapshotTerm' \in [Server -> Nat] /\ m_lastSnapshotIndex' \in [Server -> Nat]
        BY <1>1, <2>1, <2>2 DEF NodeTypes
      <3>2. QED
        BY <2>1, <2>3, <3>1 DEF Snapshot, NodeTypes
    <2>5. LogTypes' /\ LogIndexed'
      <3>1. PICK new \in Seq(Entry) : /\ new = LogAbove(i, index)
                                      /\ \A k \in 1 .. Len(new) : new[k].index = index + k
        BY <1>1, LogAboveFacts
      <3>2. QED
        BY <1>1, <2>1, <3>1, LogUpdate
    <2>6. DiskTypes'
      BY <2>1, <2>4, DiskStep
    <2>7. QED
      BY <1>2, <2>4, <2>5, <2>6
  <1>4. CASE ~InLog(i, index)
    BY <1>2, <1>4 DEF Snapshot, logVars, diskVars, NodeTypes, LogTypes, LogIndexed, DiskTypes
  <1>5. QED
    BY <1>3, <1>4

\* The thread that sends a snapshot.
LEMMA leaderSendSnapShotTypes ==
    ASSUME LogInv, NEW i \in Server, NEW j \in Server, leaderSendSnapShot(i, j)
    PROVE  LogInv'
  <1> USE DEF LogInv, electionVars, logVars, leaderVars, diskVars, processVars, voteMsgs,
              appendMsgs, historyVars
  <1>1. NodeTypes'
    BY DEF leaderSendSnapShot, NodeTypes
  <1>2. LogTypes' /\ LogIndexed' /\ DiskTypes' /\ ElectPersistTypes' /\ JobTypes' /\ VoteCallTypes'
        /\ AppendCallTypes'
    BY DEF leaderSendSnapShot, LogTypes, LogIndexed, DiskTypes, ElectPersistTypes, JobTypes,
       VoteCallTypes, AppendCallTypes
  <1>3. SnapThreadTypes'
    BY DEF leaderSendSnapShot, SnapThreadTypes
  <1>4. SnapCallTypes'
    <2>1. PICK new : new = [from |-> i, to |-> j, term |-> m_currentTerm[i], boot |-> boot[i],
                            index |-> m_lastSnapshotIndex[i], snapTerm |-> m_lastSnapshotTerm[i]]
      OBVIOUS
    <2>2. snapArgs' = snapArgs \cup {new} /\ UNCHANGED snapReplies /\ j # i
      BY <2>1 DEF leaderSendSnapShot, SnapThreadTypes
    <2>3. SnapArgsOK(new)
      BY <2>1, <2>2 DEF SnapArgsOK, NodeTypes
    <2>4. QED
      BY <2>2, <2>3 DEF SnapCallTypes
  <1>5. QED
    BY <1>1, <1>2, <1>3, <1>4

\* The WAL thread.
LEMMA WalWriteTypes ==
    ASSUME LogInv, NEW i \in Server, NEW job \in jobs[i], WalWrite(i, job)
    PROVE  LogInv'
  <1> USE DEF LogInv, electionVars, logVars, leaderVars, processVars, voteMsgs, appendMsgs,
              snapMsgs, historyVars
  <1>1. NodeTypes'
    BY DEF WalWrite, NodeTypes
  <1>2. LogTypes' /\ LogIndexed' /\ ElectPersistTypes' /\ SnapThreadTypes' /\ VoteCallTypes'
        /\ AppendCallTypes' /\ SnapCallTypes'
    BY DEF WalWrite, LogTypes, LogIndexed, ElectPersistTypes, SnapThreadTypes, VoteCallTypes,
       AppendCallTypes, SnapCallTypes
  <1>3. JobOK(i, job)
    BY DEF JobTypes
  <1>4. JobEntries(job) \in Seq(Entry)
    <2>1. CASE job.kind = "start"
      BY <1>3, <2>1 DEF JobOK, JobEntries
    <2>2. CASE job.kind # "start"
      <3>1. PICK p \in Seq(Writes) : p = job.pending
        BY <1>3, <2>2 DEF JobOK
      <3>2. [k \in 1 .. Len(p) |-> p[k].log] \in Seq(Entry)
        <4>1. \A k \in 1 .. Len(p) : p[k] \in Writes
          OBVIOUS
        <4>2. \A k \in 1 .. Len(p) : p[k].log \in Entry
          BY <4>1 DEF Writes
        <4>3. Len(p) \in Nat
          OBVIOUS
        <4>4. QED
          BY <4>2, <4>3
      <3>3. QED
        BY <2>2, <3>1, <3>2 DEF JobEntries
    <2>3. QED
      BY <2>1, <2>2
  <1>5. DiskTypes'
    <2>1. wal[i] \in Seq(Entry) /\ wal[i] \o JobEntries(job) \in Seq(Entry)
      BY <1>4 DEF DiskTypes
    <2>2. QED
      BY <2>1 DEF WalWrite, DiskTypes
  <1>6. JobTypes'
    <2>1. PICK new : new = [job EXCEPT !.written = TRUE]
      OBVIOUS
    <2>2. JobOK(i, new)
      BY <1>3, <2>1 DEF JobOK
    <2>3. jobs' = [jobs EXCEPT ![i] = (jobs[i] \ {job}) \cup {new}]
      BY <2>1 DEF WalWrite, JobTypes
    <2>4. QED
      BY <2>2, <2>3 DEF JobTypes
  <1>7. QED
    BY <1>1, <1>2, <1>5, <1>6

\* The callback of AppendLogAsync.
LEMMA onLogStableTypes ==
    ASSUME LogInv, NEW i \in Server, NEW job \in jobs[i],
           onLogStable(i, job) \/ onLogStableFails(i, job)
    PROVE  LogInv'
  <1> USE DEF LogInv, electionVars, leaderVars, processVars, voteMsgs, appendMsgs, snapMsgs,
              historyVars
  <1>1. ElectPersistTypes' /\ SnapThreadTypes' /\ VoteCallTypes' /\ AppendCallTypes' /\ SnapCallTypes'
    BY DEF onLogStable, onLogStableFails, ElectPersistTypes, SnapThreadTypes, VoteCallTypes,
       AppendCallTypes, SnapCallTypes
  <1>2. JobTypes'
    BY DEF onLogStable, onLogStableFails, JobTypes
  <1>3. PICK index \in Nat : index = job.entry.index
    BY DEF onLogStable, onLogStableFails, JobTypes, JobOK, Entry
  <1>4. CASE onLogStable(i, job)
    <2>1. m_stableLogIndex' \in [Server -> Nat]
      <3>1. m_stableLogIndex \in [Server -> Nat]
        BY DEF NodeTypes
      <3>2. m_stableLogIndex' = Raise(m_stableLogIndex, i, index)
        BY <1>3, <1>4 DEF onLogStable
      <3>3. QED
        BY <3>1, <3>2, RaiseFacts
    <2>2. NodeTypes'
      BY <1>4, <2>1 DEF onLogStable, NodeTypes
    <2>3. LogTypes' /\ LogIndexed'
      BY <1>4 DEF onLogStable, LogTypes, LogIndexed
    <2>4. DiskTypes'
      <3>1. persistState(i) \/ UNCHANGED diskVars
        BY <1>4 DEF onLogStable
      <3>2. QED
        BY <2>2, <3>1, DiskStep
    <2>5. QED
      BY <1>1, <1>2, <2>2, <2>3, <2>4
  <1>5. CASE onLogStableFails(i, job)
    <2>1. NodeTypes' /\ DiskTypes'
      BY <1>5 DEF onLogStableFails, NodeTypes, DiskTypes, diskVars
    <2>2. CASE UNCHANGED m_logs
      BY <1>1, <1>2, <1>5, <2>1, <2>2 DEF onLogStableFails, LogTypes, LogIndexed
    <2>3. CASE /\ InLog(i, index)
               /\ m_logs' = [m_logs EXCEPT ![i] = LogSlice(i, m_lastSnapshotIndex[i] + 1, index - 1)]
      <3>1. PICK from \in Int, to \in Int, snap \in Nat :
                from = m_lastSnapshotIndex[i] + 1 /\ to = index - 1 /\ snap = m_lastSnapshotIndex[i]
        BY DEF NodeTypes
      <3>2. from > m_lastSnapshotIndex[i] /\ to <= LastLogIndex(i)
        BY <2>3, <3>1, EntryAtFact, LastIndexFact
      <3>3. PICK new : new = LogSlice(i, from, to)
        OBVIOUS
      <3>4. new \in Seq(Entry) /\ \A k \in 1 .. Len(new) : new[k].index = from + k - 1
        BY <3>2, <3>3, SliceFacts
      <3>5. \A k \in 1 .. Len(new) : new[k].index = snap + k
        BY <3>1, <3>4
      <3>6. m_logs' = [m_logs EXCEPT ![i] = new]
        BY <2>3, <3>1, <3>3
      <3>7. m_lastSnapshotIndex' = [m_lastSnapshotIndex EXCEPT ![i] = snap]
        BY <1>5, <3>1 DEF onLogStableFails, NodeTypes
      <3>8. LogTypes' /\ LogIndexed'
        BY <3>4, <3>5, <3>6, <3>7, LogUpdate
      <3>9. QED
        BY <1>1, <1>2, <2>1, <3>8
    <2>4. QED
      BY <1>3, <1>5, <2>2, <2>3 DEF onLogStableFails
  <1>6. QED
    BY <1>4, <1>5

----------------------------------------------------------------------------
\* AppendEntries.

\* The pending writes that are left are pending writes.
LEMMA PendingPicked ==
    ASSUME NEW j \in Server, NEW job, job.pending \in Seq(Writes)
    PROVE  /\ Replacements(j, job) \in Seq(Writes)
           /\ Additions(j, job) \in Seq(Writes)
           /\ \A n \in DOMAIN Replacements(j, job) :
                  \E k \in LivePending(j, job) : Replacements(j, job)[n] = job.pending[k]
           /\ \A n \in DOMAIN Additions(j, job) :
                  \E k \in LivePending(j, job) : Additions(j, job)[n] = job.pending[k]
  <1>1. PICK p \in Seq(Writes) : p = job.pending
    OBVIOUS
  <1>2. PICK P \in SUBSET (1 .. Len(p)) : P = LivePending(j, job)
    <2>1. LivePending(j, job) \subseteq 1 .. Len(p)
      BY <1>1 DEF LivePending
    <2>2. QED
      BY <2>1
  <1>3. ASSUME NEW K \in SUBSET P
        PROVE  /\ Pick(p, K) \in Seq(Writes)
               /\ \A n \in DOMAIN Pick(p, K) : \E k \in P : Pick(p, K)[n] = p[k]
    <2>0. K \in SUBSET (1 .. Len(p))
      BY <1>2
    <2>1. PICK q : q = Pick(p, K) /\ q \in Seq({p[k] : k \in K})
      BY <2>0, PickFacts
    <2>2. {p[k] : k \in K} \subseteq Writes
      <3>1. ASSUME NEW k \in K PROVE p[k] \in Writes
        BY <2>0
      <3>2. QED
        BY <3>1
    <2>3. q \in Seq(Writes)
      BY <2>1, <2>2, SeqWiden
    <2>4. ASSUME NEW n \in DOMAIN q PROVE \E k \in P : q[n] = p[k]
      <3>1. q[n] \in {p[k] : k \in K}
        <4>1. PICK V : V = {p[k] : k \in K}
          OBVIOUS
        <4>2. q \in Seq(V)
          BY <2>1, <4>1
        <4>3. q[n] \in V
          BY <4>2
        <4>4. QED
          BY <4>1, <4>3
      <3>2. QED
        BY <3>1
    <2>5. QED
      BY <2>1, <2>3, <2>4
  <1>4. PICK R \in SUBSET P, A \in SUBSET P : /\ R = {k \in P : p[k].vec > 0}
                                              /\ A = {k \in P : p[k].vec = 0}
    OBVIOUS
  <1>5. Replacements(j, job) = Pick(p, R) /\ Additions(j, job) = Pick(p, A)
    BY <1>1, <1>2, <1>4 DEF Replacements, Additions
  <1>6. QED
    BY <1>1, <1>2, <1>3, <1>5

\* The log after the pending writes: replacements keep their index and additions follow the last
\* entry, so the indexes stay consecutive.
LEMMA AppliedFacts ==
    ASSUME LogInv, NEW j \in Server, NEW job, job.pending \in Seq(Writes), StillApplies(j, job)
    PROVE  /\ AppliedLog(j, job) \in Seq(Entry)
           /\ Len(AppliedLog(j, job)) = Len(m_logs[j]) + Len(Additions(j, job))
           /\ \A k \in 1 .. Len(AppliedLog(j, job)) :
                  /\ AppliedLog(j, job)[k].index = m_lastSnapshotIndex[j] + k
                  /\ \/ k <= Len(m_logs[j]) /\ AppliedLog(j, job)[k] = m_logs[j][k]
                     \/ \E n \in LivePending(j, job) : AppliedLog(j, job)[k] = job.pending[n].log
  <1>1. PICK rep \in Seq(Writes), add \in Seq(Writes) :
            /\ rep = Replacements(j, job) /\ add = Additions(j, job)
            /\ \A n \in DOMAIN rep : \E k \in LivePending(j, job) : rep[n] = job.pending[k]
            /\ \A n \in DOMAIN add : \E k \in LivePending(j, job) : add[n] = job.pending[k]
    BY PendingPicked
  <1>2. PICK L \in Seq(Entry), snap \in Nat : L = m_logs[j] /\ snap = m_lastSnapshotIndex[j]
    BY DEF LogInv, LogTypes, NodeTypes
  <1>3. \A k \in 1 .. Len(L) : L[k].index = snap + k
    BY <1>2 DEF LogInv, LogIndexed
  <1>4. LastLogIndex(j) = snap + Len(L) /\ Len(L) \in Nat
    BY <1>2, LastIndexFact DEF LogInv
  <1>5. /\ \A n \in DOMAIN rep : L[rep[n].vec].index = rep[n].log.index
        /\ \A n \in DOMAIN add : add[n].log.index = LastLogIndex(j) + n
    BY <1>1, <1>2 DEF StillApplies
  <1> DEFINE A == [k \in 1 .. Len(L) |->
                      IF \E n \in DOMAIN rep : rep[n].vec = k
                      THEN rep[CHOOSE n \in DOMAIN rep : rep[n].vec = k].log
                      ELSE L[k]]
             B == [k \in 1 .. Len(add) |-> add[k].log]
  <1>6. ASSUME NEW k \in 1 .. Len(L)
        PROVE  /\ A[k] \in Entry /\ A[k].index = snap + k
               /\ A[k] = L[k] \/ \E n \in LivePending(j, job) : A[k] = job.pending[n].log
    <2>1. CASE \E n \in DOMAIN rep : rep[n].vec = k
      <3>1. PICK n \in DOMAIN rep : rep[n].vec = k /\ A[k] = rep[n].log
        BY <2>1
      <3>2. rep[n] \in Writes /\ L[k].index = rep[n].log.index
        BY <1>5, <3>1
      <3>3. \E x \in LivePending(j, job) : rep[n] = job.pending[x]
        BY <1>1
      <3>4. QED
        BY <1>3, <3>1, <3>2, <3>3 DEF Writes
    <2>2. CASE ~\E n \in DOMAIN rep : rep[n].vec = k
      BY <1>3, <2>2
    <2>3. QED
      BY <2>1, <2>2
  <1>7. ASSUME NEW k \in 1 .. Len(add)
        PROVE  /\ B[k] \in Entry /\ B[k].index = snap + Len(L) + k
               /\ \E n \in LivePending(j, job) : B[k] = job.pending[n].log
    <2>1. add[k] \in Writes /\ k \in DOMAIN add
      OBVIOUS
    <2>2. \E x \in LivePending(j, job) : add[k] = job.pending[x]
      BY <1>1, <2>1
    <2>3. QED
      BY <1>4, <1>5, <2>1, <2>2 DEF Writes
  <1>8. AppliedLog(j, job) = A \o B
    BY <1>1, <1>2 DEF AppliedLog
  <1>9. /\ A \in Seq(Entry) /\ Len(A) = Len(L)
        /\ B \in Seq(Entry) /\ Len(B) = Len(add)
    <2>1. Len(L) \in Nat /\ Len(add) \in Nat
      OBVIOUS
    <2>2. QED
      BY <1>6, <1>7, <2>1
  <1> HIDE DEF A, B
  <1>10. PICK C : C = A \o B
    OBVIOUS
  <1>11. /\ C \in Seq(Entry) /\ Len(C) = Len(L) + Len(add)
         /\ \A k \in 1 .. Len(L) : C[k] = A[k]
         /\ \A k \in 1 .. Len(add) : C[Len(L) + k] = B[k]
    <2>1. PICK a \in Seq(Entry), b \in Seq(Entry) : a = A /\ b = B
      BY <1>9
    <2>2. /\ a \o b \in Seq(Entry) /\ Len(a \o b) = Len(a) + Len(b)
          /\ \A k \in 1 .. Len(a) : (a \o b)[k] = a[k]
          /\ \A k \in 1 .. Len(b) : (a \o b)[Len(a) + k] = b[k]
      OBVIOUS
    <2>3. QED
      BY <1>9, <1>10, <2>1, <2>2
  <1>12. ASSUME NEW k \in 1 .. Len(C)
         PROVE  /\ C[k].index = snap + k
                /\ \/ k <= Len(L) /\ C[k] = L[k]
                   \/ \E n \in LivePending(j, job) : C[k] = job.pending[n].log
    <2>1. CASE k <= Len(L)
      <3>1. k \in 1 .. Len(L)
        BY <1>4, <1>11, <2>1
      <3>2. QED
        BY <1>6, <1>11, <2>1, <3>1
    <2>2. CASE ~(k <= Len(L))
      <3>1. PICK n \in 1 .. Len(add) : k = Len(L) + n
        <4>1. k - Len(L) \in 1 .. Len(add) /\ k = Len(L) + (k - Len(L))
          BY <1>4, <1>11, <2>2
        <4>2. QED
          BY <4>1
      <3>2. /\ C[k].index = snap + Len(L) + n
            /\ \E x \in LivePending(j, job) : C[k] = job.pending[x].log
        BY <1>7, <1>11, <3>1
      <3>3. QED
        BY <1>4, <3>1, <3>2
    <2>3. QED
      BY <2>1, <2>2
  <1>13. AppliedLog(j, job) = C
    BY <1>8, <1>10, Zenon
  <1>14. QED
    BY <1>1, <1>2, <1>11, <1>12, <1>13, SMTT(30)

\* The hint of a reply of AppendEntries is an index, or none.
LEMMA StableHint ==
    ASSUME LogInv, NEW j \in Server, NEW job, NEW stable
    PROVE  StableReplyHint(j, job, stable) \in Nat \cup {NoHint}
  <1>1. LastLogIndex(j) \in Nat /\ m_lastSnapshotIndex[j] \in Nat
    BY LastIndexFact DEF LogInv, NodeTypes
  <1>2. QED
    BY <1>1 DEF StableReplyHint

LEMMA MismatchHintTyped ==
    ASSUME LogInv, NEW j \in Server, NEW m, AppendArgsOK(m)
    PROVE  MismatchHint(j, m) \in Nat
  <1>1. LastLogIndex(j) \in Nat /\ m_lastSnapshotIndex[j] \in Nat /\ m.prevLogIndex \in Nat
    BY LastIndexFact DEF LogInv, NodeTypes, AppendArgsOK
  <1>2. ASSUME NEW prev \in Nat, m_lastSnapshotIndex[j] <= prev
        PROVE  FirstOfTermRun(j, prev) \in Nat
    <2> DEFINE other == {k \in m_lastSnapshotIndex[j] .. prev : TermAt(j, k) # TermAt(j, prev)}
               S == {m_lastSnapshotIndex[j]} \cup other
    <2>1. S \in SUBSET (m_lastSnapshotIndex[j] .. prev) /\ S # {}
      BY <1>1, <1>2
    <2>2. Max(S) \in S
      <3> HIDE DEF S
      <3>1. m_lastSnapshotIndex[j] \in Int /\ prev \in Int
        BY <1>1
      <3>2. QED
        BY <2>1, <3>1, MaxOfSome
    <2>3. Max(S) \in Nat
      <3> HIDE DEF S
      <3>1. Max(S) \in m_lastSnapshotIndex[j] .. prev
        BY <2>1, <2>2
      <3>2. QED
        BY <1>1, <3>1
    <2>4. FirstOfTermRun(j, prev) = Max(S) + 1
      BY DEF FirstOfTermRun
    <2> HIDE DEF S
    <2>5. QED
      BY <2>3, <2>4
  <1>3. CASE m.prevLogIndex > LastLogIndex(j)
    BY <1>1, <1>3 DEF MismatchHint
  <1>4. CASE ~(m.prevLogIndex > LastLogIndex(j)) /\ m.prevLogIndex < m_lastSnapshotIndex[j]
    BY <1>1, <1>4 DEF MismatchHint
  <1>5. CASE ~(m.prevLogIndex > LastLogIndex(j)) /\ ~(m.prevLogIndex < m_lastSnapshotIndex[j])
    <2>1. MismatchHint(j, m) = FirstOfTermRun(j, m.prevLogIndex)
      BY <1>5 DEF MismatchHint
    <2>2. QED
      BY <1>1, <1>2, <1>5, <2>1
  <1>6. QED
    BY <1>3, <1>4, <1>5

\* A reply of AppendEntries.
LEMMA AppendReplyTyped ==
    ASSUME NEW m, AppendArgsOK(m), NEW term \in Nat, NEW success \in BOOLEAN,
           NEW hint \in Nat \cup {NoHint},
           AppendCallTypes, appendArgs' \subseteq appendArgs,
           appendReplies' = appendReplies \cup {AppendReply(m, term, success, hint)}
    PROVE  AppendCallTypes'
  <1>1. PICK r : r = AppendReply(m, term, success, hint)
    OBVIOUS
  <1>2. /\ r.args = m /\ r.from = m.to /\ r.to = m.from /\ r.term = term
        /\ r.success = success /\ r.updateNextIndex = hint
    BY <1>1 DEF AppendReply
  <1>3. appendReplies' = appendReplies \cup {r}
    BY <1>1
  <1>4. QED
    BY <1>2, <1>3 DEF AppendCallTypes

\* The second half of AppendEntries, after the WAL.
LEMMA AppendResumeTypes ==
    ASSUME LogInv, NEW j \in Server, NEW job \in jobs[j],
           AppendEntriesResume(j, job) \/ AppendEntriesWalFailed(j, job)
    PROVE  LogInv'
  <1> USE DEF LogInv, electionVars, leaderVars, voteMsgs, snapMsgs, historyVars
  <1>1. ElectPersistTypes' /\ SnapThreadTypes' /\ VoteCallTypes' /\ SnapCallTypes'
    BY DEF AppendEntriesResume, AppendEntriesWalFailed, ElectPersistTypes, SnapThreadTypes,
       VoteCallTypes, SnapCallTypes
  <1>2. JobTypes'
    BY DEF AppendEntriesResume, AppendEntriesWalFailed, JobTypes
  <1>3. AppendArgsOK(job.args) /\ job.pending \in Seq(Writes) /\ m_currentTerm[j] \in Nat
    BY DEF AppendEntriesResume, AppendEntriesWalFailed, AppendJobs, JobTypes, JobOK, NodeTypes
  <1>4. /\ UNCHANGED <<m_currentTerm, m_voteForId, m_state, votedNum, m_lastSnapshotIndex,
                       m_lastSnapshotTerm, m_lastApplied, m_nextIndex, m_matchIndex, boot,
                       granters, appendArgs>>
    BY DEF AppendEntriesResume, AppendEntriesWalFailed
  <1>5. ASSUME NEW stable, AppendEntriesGivesUp(j, job, stable) PROVE LogInv'
    <2>1. NodeTypes'
      BY <1>4, <1>5 DEF AppendEntriesGivesUp, NodeTypes
    <2>2. LogTypes' /\ LogIndexed'
      BY <1>4, <1>5 DEF AppendEntriesGivesUp, LogTypes, LogIndexed
    <2>3. DiskTypes'
      BY <1>5, <2>1, DiskStep DEF AppendEntriesGivesUp
    <2>4. AppendCallTypes'
      <3>1. PICK hint \in Nat \cup {NoHint} : hint = StableReplyHint(j, job, stable)
        BY StableHint
      <3>2. appendReplies' = appendReplies \cup
                {AppendReply(job.args, m_currentTerm[j], FALSE, hint)}
        BY <1>5, <3>1 DEF AppendEntriesGivesUp
      <3>3. QED
        BY <1>3, <1>4, <3>2, AppendReplyTyped
    <2>5. QED
      BY <1>1, <1>2, <2>1, <2>2, <2>3, <2>4
  <1>6. ASSUME AppendEntriesApplies(j, job) PROVE LogInv'
    <2>1. PICK last, commit :
              /\ last = LastLogIndex(j) + Len(Additions(j, job))
              /\ commit = IF job.args.leaderCommit > m_commitIndex[j]
                          THEN Min({job.args.leaderCommit, last})
                          ELSE m_commitIndex[j]
      OBVIOUS
    <2>2. /\ m_logs' = [m_logs EXCEPT ![j] = AppliedLog(j, job)]
          /\ m_stableLogIndex' = Raise(m_stableLogIndex, j, last)
          /\ m_commitIndex' = [m_commitIndex EXCEPT ![j] = commit]
          /\ \/ /\ persistState(j)
                /\ appendReplies' = appendReplies \cup
                       {AppendReply(job.args, m_currentTerm[j], TRUE, NoHint)}
                /\ UNCHANGED up
             \/ /\ up' = [up EXCEPT ![j] = FALSE]
                /\ UNCHANGED <<diskVars, appendReplies>>
          /\ StillApplies(j, job)
      BY <1>6, <2>1 DEF AppendEntriesApplies, StableReplyFails
    <2>3. last \in Nat
      <3>1. Additions(j, job) \in Seq(Writes)
        BY <1>3, PendingPicked
      <3>2. LastLogIndex(j) \in Nat
        BY LastIndexFact
      <3>3. QED
        BY <2>1, <3>1, <3>2
    <2>4. commit \in Nat
      <3>1. job.args.leaderCommit \in Nat /\ m_commitIndex[j] \in Nat
        BY <1>3 DEF AppendArgsOK, NodeTypes
      <3>2. QED
        <4>1. Min({job.args.leaderCommit, last}) \in Nat
          <5>1. PICK a \in Nat, b \in Nat : a = job.args.leaderCommit /\ b = last
            BY <2>3, <3>1
          <5>2. Min({a, b}) = IF a <= b THEN a ELSE b
            BY MinMaxOfTwo
          <5>3. QED
            BY <5>1, <5>2
        <4>2. QED
          BY <2>1, <3>1, <4>1
    <2>5. m_stableLogIndex' \in [Server -> Nat] /\ m_commitIndex' \in [Server -> Nat]
      <3>1. m_stableLogIndex \in [Server -> Nat] /\ m_commitIndex \in [Server -> Nat]
        BY DEF NodeTypes
      <3>2. QED
        BY <2>2, <2>3, <2>4, <3>1, RaiseFacts
    <2>6. NodeTypes'
      <3>1. up' \in [Server -> BOOLEAN]
        BY <2>2 DEF NodeTypes
      <3>2. QED
        BY <1>4, <2>5, <3>1 DEF NodeTypes
    <2>7. LogTypes' /\ LogIndexed'
      <3>1. PICK snap \in Nat : snap = m_lastSnapshotIndex[j]
        BY DEF NodeTypes
      <3>2. PICK new \in Seq(Entry) :
                new = AppliedLog(j, job) /\ \A k \in 1 .. Len(new) : new[k].index = snap + k
        BY <1>3, <2>2, <3>1, AppliedFacts
      <3>3. m_lastSnapshotIndex' = [m_lastSnapshotIndex EXCEPT ![j] = snap]
        BY <1>4, <3>1 DEF NodeTypes
      <3>4. QED
        BY <2>2, <3>2, <3>3, LogUpdate
    <2>8. DiskTypes'
      BY <2>2, <2>6, DiskStep
    <2>9. AppendCallTypes'
      <3>1. CASE UNCHANGED appendReplies
        BY <1>4, <3>1 DEF AppendCallTypes
      <3>2. CASE appendReplies' = appendReplies \cup
                     {AppendReply(job.args, m_currentTerm[j], TRUE, NoHint)}
        BY <1>3, <1>4, <3>2, AppendReplyTyped
      <3>3. QED
        BY <2>2, <3>1, <3>2
    <2>10. QED
      BY <1>1, <1>2, <2>6, <2>7, <2>8, <2>9
  <1>7. QED
    BY <1>5, <1>6 DEF AppendEntriesResume, AppendEntriesWalFailed

\* Taking over the term of a request or a reply.
LEMMA TermTaken ==
    ASSUME NodeTypes, NEW i \in Server, NEW t \in Nat, FollowTerm(i, t) \/ StepDown(i, t)
    PROVE  /\ m_currentTerm' \in [Server -> Nat]
           /\ m_voteForId' \in [Server -> Server \cup {NoVote}]
           /\ m_state' \in [Server -> {Follower, Candidate, Leader}]
           /\ votedNum' \in [Server -> Nat]
           /\ \A k \in Server : m_state'[k] # Follower => m_currentTerm'[k] >= 1
  <1>1. CASE FollowTerm(i, t)
    BY <1>1, SMTT(30) DEF NodeTypes, FollowTerm
  <1>2. CASE StepDown(i, t)
    BY <1>2, SMTT(30) DEF NodeTypes, StepDown
  <1>3. QED
    BY <1>1, <1>2

\* What the first half of AppendEntries has computed is a list of writes of entries of the
\* request, and an entry that it leaves out is covered by the snapshot or has its term in the log.
LEMMA PendingWritesTyped ==
    ASSUME LogInv, NEW j \in Server, NEW m, AppendArgsOK(m)
    PROVE  /\ PendingWrites(j, m) \in Seq(Writes)
           /\ \A n \in DOMAIN PendingWrites(j, m) :
                  \E k \in DOMAIN m.entries : PendingWrites(j, m)[n].log = m.entries[k]
           /\ \A k \in DOMAIN m.entries :
                  \/ \E n \in DOMAIN PendingWrites(j, m) : PendingWrites(j, m)[n].log = m.entries[k]
                  \/ m.entries[k].index <= m_lastSnapshotIndex[j]
                  \/ /\ m.entries[k].index <= LastLogIndex(j)
                     /\ EntryAt(j, m.entries[k].index).term = m.entries[k].term
  <1>1. PICK es \in Seq(Entry) : es = m.entries
    BY DEF AppendArgsOK
  <1>2. m_lastSnapshotIndex[j] \in Nat /\ LastLogIndex(j) \in Nat
    BY LastIndexFact DEF LogInv, NodeTypes
  <1> DEFINE isNew(e)   == e.index > LastLogIndex(j)
             differs(e) == e.index > m_lastSnapshotIndex[j] /\ EntryAt(j, e.index).term # e.term
             K == {k \in DOMAIN es : isNew(es[k]) \/ differs(es[k])}
  <1>3. PICK todo : todo = Pick(es, K)
    OBVIOUS
  <1>4. /\ todo \in Seq({es[k] : k \in K})
        /\ \A k \in K : \E n \in 1 .. Len(todo) : todo[n] = es[k]
    <2>1. K \in SUBSET (1 .. Len(es))
      OBVIOUS
    <2> HIDE DEF K
    <2>2. QED
      BY <1>3, <2>1, PickFacts
  <1>5. ASSUME NEW n \in 1 .. Len(todo)
        PROVE  /\ todo[n] \in Entry /\ (isNew(todo[n]) \/ differs(todo[n]))
               /\ \E k \in DOMAIN es : todo[n] = es[k]
    <2>1. PICK k \in K : todo[n] = es[k]
      BY <1>4
    <2>2. QED
      BY <2>1
  <1>6. ASSUME NEW n \in 1 .. Len(todo)
        PROVE  [log |-> todo[n],
                vec |-> IF isNew(todo[n]) THEN 0 ELSE todo[n].index - m_lastSnapshotIndex[j]]
                   \in Writes
    <2>1. todo[n].index \in Nat
      BY <1>5 DEF Entry
    <2>2. (IF isNew(todo[n]) THEN 0 ELSE todo[n].index - m_lastSnapshotIndex[j]) \in Nat
      BY <1>2, <1>5, <2>1
    <2>3. QED
      BY <1>5, <2>2 DEF Writes
  <1>7. Len(todo) \in Nat
    BY <1>4
  <1>8. PendingWrites(j, m) =
           [n \in 1 .. Len(todo) |->
               [log |-> todo[n],
                vec |-> IF isNew(todo[n]) THEN 0 ELSE todo[n].index - m_lastSnapshotIndex[j]]]
    BY <1>1, <1>3 DEF PendingWrites
  <1>9. ASSUME NEW k \in DOMAIN es
        PROVE  \/ \E n \in 1 .. Len(todo) : todo[n] = es[k]
               \/ es[k].index <= m_lastSnapshotIndex[j]
               \/ es[k].index <= LastLogIndex(j) /\ EntryAt(j, es[k].index).term = es[k].term
    <2>1. CASE k \in K
      <3> HIDE DEF K
      <3>1. QED
        BY <1>4, <2>1
    <2>2. CASE k \notin K
      <3>1. ~isNew(es[k]) /\ ~differs(es[k])
        BY <2>2
      <3>2. es[k].index \in Nat
        <4>1. es[k] \in Entry
          OBVIOUS
        <4>2. QED
          BY <4>1 DEF Entry
      <3>3. QED
        BY <1>2, <3>1, <3>2
    <2>3. QED
      BY <2>1, <2>2
  <1> HIDE DEF isNew, differs, K
  <1>10. PICK pw : pw = PendingWrites(j, m)
    OBVIOUS
  <1>11. /\ pw \in Seq(Writes) /\ DOMAIN pw = 1 .. Len(todo)
         /\ \A n \in 1 .. Len(todo) : pw[n].log = todo[n]
    BY <1>6, <1>7, <1>8, <1>10
  <1>12. \A n \in DOMAIN pw : \E k \in DOMAIN es : pw[n].log = es[k]
    BY <1>5, <1>11
  <1>13. ASSUME NEW k \in DOMAIN es
         PROVE  \/ \E n \in DOMAIN pw : pw[n].log = es[k]
                \/ es[k].index <= m_lastSnapshotIndex[j]
                \/ es[k].index <= LastLogIndex(j) /\ EntryAt(j, es[k].index).term = es[k].term
    <2>1. CASE \E n \in 1 .. Len(todo) : todo[n] = es[k]
      <3>1. PICK n \in 1 .. Len(todo) : todo[n] = es[k]
        BY <2>1
      <3>2. n \in DOMAIN pw /\ pw[n].log = es[k]
        BY <1>11, <3>1
      <3>3. QED
        BY <3>2
    <2>2. QED
      BY <1>9, <2>1, Zenon
  <1>14. QED
    BY <1>1, <1>10, <1>11, <1>12, <1>13, Zenon

\* The first half of AppendEntries.
LEMMA AppendEntriesTypes ==
    ASSUME LogInv, NEW j \in Server, NEW m \in appendArgs, AppendEntries(j, m)
    PROVE  LogInv'
  <1> USE DEF LogInv, logVars, leaderVars, voteMsgs, snapMsgs, historyVars
  <1>1. AppendArgsOK(m) /\ m.term \in Nat /\ m.to = j /\ m_currentTerm[j] \in Nat
    BY DEF AppendEntries, AppendCallTypes, AppendArgsOK, NodeTypes
  <1>2. LogTypes' /\ LogIndexed' /\ ElectPersistTypes' /\ SnapThreadTypes' /\ VoteCallTypes'
        /\ SnapCallTypes'
    BY DEF AppendEntries, LogTypes, LogIndexed, ElectPersistTypes, SnapThreadTypes, VoteCallTypes,
       SnapCallTypes
  <1>3. /\ UNCHANGED <<m_lastSnapshotIndex, m_lastSnapshotTerm, m_commitIndex, m_lastApplied,
                       m_stableLogIndex, m_nextIndex, m_matchIndex, boot, granters>>
        /\ appendArgs' \subseteq appendArgs
    BY DEF AppendEntries
  <1>4. CASE AppendEntriesStale(j, m)
    <2>1. NodeTypes' /\ DiskTypes' /\ JobTypes'
      BY <1>3, <1>4 DEF AppendEntriesStale, electionVars, diskVars, NodeTypes, DiskTypes, JobTypes
    <2>2. AppendCallTypes'
      BY <1>1, <1>3, <1>4, AppendReplyTyped DEF AppendEntriesStale
    <2>3. QED
      BY <1>2, <2>1, <2>2
  <1>5. CASE AppendEntriesMismatch(j, m)
    <2>1. NodeTypes'
      BY <1>1, <1>3, <1>5, TermTaken DEF AppendEntriesMismatch, NodeTypes
    <2>2. DiskTypes'
      BY <1>5, <2>1, DiskStep DEF AppendEntriesMismatch
    <2>3. JobTypes'
      BY <1>5 DEF AppendEntriesMismatch, JobTypes
    <2>4. AppendCallTypes'
      <3>1. PICK hint \in Nat \cup {NoHint} : hint = MismatchHint(j, m)
        BY <1>1, MismatchHintTyped
      <3>2. appendReplies' = appendReplies \cup {AppendReply(m, m.term, FALSE, hint)}
        BY <1>5, <3>1 DEF AppendEntriesMismatch
      <3>3. QED
        BY <1>1, <1>3, <3>2, AppendReplyTyped
    <2>5. QED
      BY <1>2, <2>1, <2>2, <2>3, <2>4
  <1>6. CASE AppendEntriesMatch(j, m)
    <2>1. AppendCallTypes' /\ DiskTypes'
      BY <1>3, <1>6 DEF AppendEntriesMatch, diskVars, AppendCallTypes, DiskTypes
    <2>2. CASE SameTermOtherCommand(j, m)
      <3>1. up' = [up EXCEPT ![j] = FALSE] /\ UNCHANGED <<electionVars, jobs>>
        BY <1>6, <2>2 DEF AppendEntriesMatch
      <3>2. NodeTypes' /\ JobTypes'
        BY <1>3, <3>1 DEF electionVars, NodeTypes, JobTypes
      <3>3. QED
        BY <1>2, <2>1, <3>2
    <2>3. CASE ~SameTermOtherCommand(j, m)
      <3> DEFINE free == (1 .. Cardinality(jobs[j]) + 1) \ {job.slot : job \in AppendJobs(j)}
                 new  == [kind |-> "append", slot |-> Min(free), args |-> m,
                          pending |-> PendingWrites(j, m), written |-> PendingWrites(j, m) = <<>>]
      <3>1. /\ FollowTerm(j, m.term) /\ UNCHANGED up
            /\ jobs' = [jobs EXCEPT ![j] = jobs[j] \cup {new}]
        BY <1>6, <2>3 DEF AppendEntriesMatch, JobTypes
      <3>2. NodeTypes'
        BY <1>1, <1>3, <3>1, TermTaken DEF NodeTypes
      <3>3. JobOK(j, new)
        BY <1>1, PendingWritesTyped DEF JobOK
      <3> HIDE DEF new
      <3>4. JobTypes'
        BY <3>1, <3>3 DEF JobTypes
      <3>5. QED
        BY <1>2, <2>1, <3>2, <3>4
    <2>4. QED
      BY <2>2, <2>3
  <1>7. QED
    BY <1>4, <1>5, <1>6 DEF AppendEntries

----------------------------------------------------------------------------
\* Replies and the other calls.

\* RequestVote.
LEMMA RequestVoteTypes ==
    ASSUME LogInv, NEW j \in Server, NEW m \in voteArgs, RequestVote(j, m)
    PROVE  LogInv'
  <1> USE DEF LogInv, logVars, leaderVars, threadVars, processVars, appendMsgs, snapMsgs
  <1>1. m.from \in Server /\ m.to \in Server /\ m.term \in Nat /\ m.term >= 1 /\ m.to = j
        /\ m_currentTerm[j] \in Nat
    BY DEF RequestVote, VoteCallTypes, Positive, NodeTypes
  <1>2. LogTypes' /\ LogIndexed' /\ ElectPersistTypes' /\ SnapThreadTypes' /\ AppendCallTypes'
        /\ SnapCallTypes' /\ JobTypes'
    BY DEF RequestVote, LogTypes, LogIndexed, ElectPersistTypes, SnapThreadTypes, AppendCallTypes,
       SnapCallTypes, JobTypes
  <1>3. UNCHANGED <<m_lastSnapshotIndex, m_lastSnapshotTerm, m_commitIndex, m_lastApplied,
                    m_stableLogIndex, m_nextIndex, m_matchIndex, up, boot, granters>>
    BY DEF RequestVote
  <1>4. NodeTypes'
    <2>1. CASE RequestVoteStale(j, m)
      BY <1>3, <2>1 DEF RequestVoteStale, electionVars, NodeTypes
    <2>2. CASE RequestVoteCurrent(j, m)
      <3>1. PICK vf, st : /\ m_voteForId' = [m_voteForId EXCEPT ![j] = vf]
                          /\ vf \in {NoVote, m_voteForId[j], m.from}
                          /\ m_state' = [m_state EXCEPT ![j] = st]
                          /\ st \in {Follower, m_state[j]}
        BY <2>2 DEF RequestVoteCurrent
      <3>2. m_currentTerm' = [m_currentTerm EXCEPT ![j] = m.term] /\ UNCHANGED votedNum
        BY <2>2 DEF RequestVoteCurrent
      <3>3. m_voteForId' \in [Server -> Server \cup {NoVote}]
        BY <1>1, <3>1 DEF NodeTypes
      <3>4. /\ m_state' \in [Server -> {Follower, Candidate, Leader}]
            /\ m_currentTerm' \in [Server -> Nat]
            /\ \A k \in Server : m_state'[k] # Follower => m_currentTerm'[k] >= 1
        BY <1>1, <3>1, <3>2 DEF NodeTypes
      <3>5. QED
        BY <1>3, <3>2, <3>3, <3>4 DEF NodeTypes
    <2>3. QED
      BY <2>1, <2>2 DEF RequestVote
  <1>5. DiskTypes'
    <2>1. persistState(j) \/ UNCHANGED diskVars
      BY DEF RequestVote, RequestVoteStale, RequestVoteCurrent
    <2>2. QED
      BY <1>4, <2>1, DiskStep
  <1>6. VoteCallTypes'
    <2>1. PICK rep : /\ voteReplies' = voteReplies \cup {rep}
                     /\ rep.from = m.to /\ rep.term \in {m_currentTerm[j], m.term}
      <3>1. CASE RequestVoteStale(j, m)
        <4>1. PICK rep : rep = VoteReply(m, m_currentTerm[j], FALSE)
          OBVIOUS
        <4>2. voteReplies' = voteReplies \cup {rep}
          BY <3>1, <4>1, Zenon DEF RequestVoteStale
        <4>3. rep.from = m.to /\ rep.term = m_currentTerm[j]
          BY <4>1 DEF VoteReply
        <4>4. QED
          BY <4>2, <4>3
      <3>2. CASE RequestVoteCurrent(j, m)
        <4>1. PICK g : voteReplies' = voteReplies \cup {VoteReply(m, m.term, g)}
          BY <3>2, Zenon DEF RequestVoteCurrent
        <4>2. PICK rep : rep = VoteReply(m, m.term, g)
          OBVIOUS
        <4>3. rep.from = m.to /\ rep.term = m.term
          BY <4>2 DEF VoteReply
        <4>4. QED
          BY <4>1, <4>2, <4>3
      <3>3. QED
        BY <3>1, <3>2 DEF RequestVote
    <2>2. rep.from \in Server /\ rep.term \in Nat
      BY <1>1, <2>1
    <2>3. voteArgs' \subseteq voteArgs
      BY DEF RequestVote
    <2>4. QED
      BY <2>1, <2>2, <2>3 DEF VoteCallTypes
  <1>7. QED
    BY <1>2, <1>4, <1>5, <1>6

\* A reply to RequestVote.
LEMMA VoteResponseTypes ==
    ASSUME LogInv, NEW i \in Server, NEW r \in voteReplies, handleRequestVoteResponse(i, r)
    PROVE  LogInv'
  <1> USE DEF LogInv, logVars, threadVars, processVars, appendMsgs, snapMsgs
  <1>1. r.term \in Nat /\ r.from \in Server
    BY DEF VoteCallTypes
  <1>2. LogTypes' /\ LogIndexed' /\ ElectPersistTypes' /\ SnapThreadTypes' /\ AppendCallTypes'
        /\ SnapCallTypes' /\ JobTypes' /\ VoteCallTypes'
    BY DEF handleRequestVoteResponse, LogTypes, LogIndexed, ElectPersistTypes, SnapThreadTypes,
       AppendCallTypes, SnapCallTypes, JobTypes, VoteCallTypes
  <1>3. UNCHANGED <<m_lastSnapshotIndex, m_lastSnapshotTerm, m_commitIndex, m_lastApplied,
                    m_stableLogIndex, up, boot>>
    BY DEF handleRequestVoteResponse
  <1>4. NodeTypes'
    <2>1. CASE VoteResponseNewTerm(i, r)
      BY <1>1, <1>3, <2>1, TermTaken DEF VoteResponseNewTerm, leaderVars, NodeTypes
    <2>2. CASE VoteResponseCounted(i, r)
      <3>1. /\ votedNum' \in [Server -> Nat] /\ granters' \in [Server -> SUBSET Server]
            /\ UNCHANGED <<m_currentTerm, m_voteForId>>
            /\ m_state[i] = Candidate
        BY <1>1, <2>2 DEF VoteResponseCounted, VoteCounts, NodeTypes
      <3>2. CASE UNCHANGED <<m_state, leaderVars>>
        BY <1>3, <3>1, <3>2 DEF leaderVars, NodeTypes
      <3>3. CASE BecomeLeader(i)
        <4>1. FirstNextIndex(i) \in Nat
          BY LastIndexFact DEF FirstNextIndex
        <4>2. /\ m_nextIndex' \in [Server -> [Server -> Nat]]
              /\ m_matchIndex' \in [Server -> [Server -> Nat]]
          BY <3>3, <4>1 DEF BecomeLeader, NodeTypes
        <4>3. /\ m_state' \in [Server -> {Follower, Candidate, Leader}]
              /\ \A k \in Server : m_state'[k] # Follower => m_currentTerm'[k] >= 1
          BY <3>1, <3>3 DEF BecomeLeader, NodeTypes, Candidate, Follower
        <4>4. QED
          BY <1>3, <3>1, <4>2, <4>3 DEF NodeTypes
      <3>4. QED
        BY <2>2, <3>2, <3>3 DEF VoteResponseCounted
    <2>3. QED
      BY <2>1, <2>2 DEF handleRequestVoteResponse
  <1>5. DiskTypes'
    <2>1. persistState(i) \/ UNCHANGED diskVars
      BY DEF handleRequestVoteResponse, VoteResponseNewTerm, VoteResponseCounted
    <2>2. QED
      BY <1>4, <2>1, DiskStep
  <1>6. QED
    BY <1>2, <1>4, <1>5

\* A reply to AppendEntries.
LEMMA AppendResponseTypes ==
    ASSUME LogInv, NEW i \in Server, NEW r \in appendReplies, handleAppendEntries(i, r)
    PROVE  LogInv'
  <1> USE DEF LogInv, threadVars, diskVars, voteMsgs, snapMsgs, historyVars
  <1>1. /\ AppendArgsOK(r.args) /\ r.term \in Nat /\ r.from \in Server
        /\ r.updateNextIndex \in Nat \cup {NoHint}
    BY DEF AppendCallTypes, AppendArgsOK
  <1>2. LogTypes' /\ LogIndexed' /\ DiskTypes' /\ ElectPersistTypes' /\ SnapThreadTypes'
        /\ AppendCallTypes' /\ SnapCallTypes' /\ JobTypes' /\ VoteCallTypes'
    BY DEF handleAppendEntries, LogTypes, LogIndexed, DiskTypes, ElectPersistTypes,
       SnapThreadTypes, AppendCallTypes, SnapCallTypes, JobTypes, VoteCallTypes
  <1>3. UNCHANGED <<m_lastSnapshotIndex, m_lastSnapshotTerm, m_lastApplied, m_stableLogIndex, boot,
                    granters>>
    BY DEF handleAppendEntries
  <1>4. CASE AppendResponseNewTerm(i, r)
    BY <1>1, <1>2, <1>3, <1>4, TermTaken DEF AppendResponseNewTerm, leaderVars, NodeTypes
  <1>5. CASE AppendResponseFailure(i, r)
    <2>1. m_nextIndex' \in [Server -> [Server -> Nat]]
      BY <1>1, <1>5 DEF AppendResponseFailure, NodeTypes
    <2>2. QED
      BY <1>2, <1>3, <1>5, <2>1 DEF AppendResponseFailure, electionVars, NodeTypes
  <1>6. CASE AppendResponseSuccess(i, r)
    <2>1. PICK match : match = MatchAfter(i, r)
      OBVIOUS
    <2>2. match \in Nat
      <3>1. PICK a \in Nat, b \in Nat : /\ a = m_matchIndex[i][r.from]
                                        /\ b = r.args.prevLogIndex + Len(r.args.entries)
        <4>1. r.args.prevLogIndex \in Nat /\ r.args.entries \in Seq(Entry)
          BY <1>1, Zenon DEF AppendArgsOK
        <4>2. Len(r.args.entries) \in Nat
          BY <4>1
        <4>3. m_matchIndex[i][r.from] \in Nat
          BY <1>1 DEF NodeTypes
        <4>4. QED
          BY <4>1, <4>2, <4>3
      <3>2. Max({a, b}) = IF a >= b THEN a ELSE b
        BY MinMaxOfTwo
      <3>3. QED
        BY <2>1, <3>1, <3>2 DEF MatchAfter
    <2>3. /\ m_nextIndex' \in [Server -> [Server -> Nat]]
          /\ m_matchIndex' \in [Server -> [Server -> Nat]]
      BY <1>1, <1>6, <2>1, <2>2 DEF AppendResponseSuccess, NodeTypes
    <2>4. ASSUME NEW f PROVE Max({m_commitIndex[i]} \cup Committable(i, f)) \in Nat
      <3>1. PICK c \in Nat, b \in Int :
                c = m_commitIndex[i] /\ b = Min({LastLogIndex(i), m_stableLogIndex[i]})
        <4>1. PICK x \in Nat, y \in Nat : x = LastLogIndex(i) /\ y = m_stableLogIndex[i]
          BY LastIndexFact DEF NodeTypes
        <4>2. Min({x, y}) = IF x <= y THEN x ELSE y
          BY MinMaxOfTwo
        <4>3. QED
          BY <4>1, <4>2 DEF NodeTypes
      <3>2. PICK top \in Nat : top = IF c <= b THEN b ELSE c
        OBVIOUS
      <3>3. PICK S : S = {m_commitIndex[i]} \cup Committable(i, f)
        OBVIOUS
      <3>4. S \in SUBSET (c .. top) /\ S # {}
        BY <3>1, <3>2, <3>3 DEF Committable
      <3>5. Max(S) \in c .. top
        <4>1. c \in Int /\ top \in Int
          BY <3>1, <3>2
        <4>2. Max(S) \in S
          BY <3>4, <4>1, MaxOfSome
        <4>3. QED
          BY <3>4, <4>2
      <3>6. QED
        BY <3>3, <3>5
    <2>5. m_commitIndex' \in [Server -> Nat] /\ up' \in [Server -> BOOLEAN]
      <3>1. PICK f : \/ advanceCommitIndex(i, f) /\ UNCHANGED up
                     \/ up' = [up EXCEPT ![i] = FALSE] /\ UNCHANGED m_commitIndex
        BY <1>6 DEF AppendResponseSuccess
      <3>2. Max({m_commitIndex[i]} \cup Committable(i, f)) \in Nat
        BY <2>4
      <3>3. CASE advanceCommitIndex(i, f) /\ UNCHANGED up
        BY <3>2, <3>3 DEF advanceCommitIndex, NodeTypes
      <3>4. CASE up' = [up EXCEPT ![i] = FALSE] /\ UNCHANGED m_commitIndex
        BY <3>4 DEF NodeTypes
      <3>5. QED
        BY <3>1, <3>3, <3>4
    <2>6. UNCHANGED electionVars
      BY <1>6 DEF AppendResponseSuccess
    <2>7. QED
      BY <1>2, <1>3, <2>3, <2>5, <2>6 DEF electionVars, NodeTypes
  <1>7. QED
    BY <1>4, <1>5, <1>6 DEF handleAppendEntries

\* InstallSnapshot: the entries above the snapshot stay, and their indexes follow it.
LEMMA InstallSnapshotTypes ==
    ASSUME LogInv, NEW j \in Server, NEW m \in snapArgs, InstallSnapshot(j, m)
    PROVE  LogInv'
  <1> USE DEF LogInv, leaderVars, threadVars, processVars, voteMsgs, appendMsgs, historyVars
  <1>1. /\ SnapArgsOK(m) /\ m.term \in Nat /\ m.index \in Nat /\ m.snapTerm \in Nat /\ m.to = j
        /\ m_currentTerm[j] \in Nat
    BY DEF InstallSnapshot, SnapCallTypes, SnapArgsOK, NodeTypes
  <1>2. ElectPersistTypes' /\ SnapThreadTypes' /\ AppendCallTypes' /\ JobTypes' /\ VoteCallTypes'
    BY DEF InstallSnapshot, ElectPersistTypes, SnapThreadTypes, AppendCallTypes, JobTypes,
       VoteCallTypes
  <1>3. UNCHANGED <<m_nextIndex, m_matchIndex, up, boot, granters>>
    BY DEF InstallSnapshot
  <1>4. SnapCallTypes'
    <2>1. PICK t : t = Max({m.term, m_currentTerm[j]})
      OBVIOUS
    <2>2. t \in Nat
      BY <1>1, <2>1, MaxTerm
    <2>3. PICK r : r = SnapReply(m, t)
      OBVIOUS
    <2>4. r.args = m /\ r.from = m.to /\ r.term = t
      BY <2>3 DEF SnapReply
    <2>5. snapReplies' = snapReplies \cup {r} /\ snapArgs' \subseteq snapArgs
      BY <2>1, <2>3 DEF InstallSnapshot
    <2>6. QED
      BY <1>1, <2>2, <2>4, <2>5 DEF SnapCallTypes
  <1>5. CASE InstallSnapshotStale(j, m)
    BY <1>2, <1>3, <1>4, <1>5 DEF InstallSnapshotStale, electionVars, logVars, diskVars, NodeTypes,
       LogTypes, LogIndexed, DiskTypes
  <1>6. CASE InstallSnapshotCovered(j, m)
    <2>1. LogTypes' /\ LogIndexed'
      BY <1>6 DEF InstallSnapshotCovered, logVars, LogTypes, LogIndexed
    <2>2. NodeTypes'
      BY <1>1, <1>3, <1>6, TermTaken DEF InstallSnapshotCovered, logVars, NodeTypes
    <2>3. DiskTypes'
      BY <1>6, <2>2, DiskStep DEF InstallSnapshotCovered
    <2>4. QED
      BY <1>2, <1>4, <2>1, <2>2, <2>3
  <1>7. CASE InstallSnapshotInstalls(j, m)
    <2>1. /\ m_logs' = [m_logs EXCEPT ![j] = LogAbove(j, m.index)]
          /\ m_commitIndex' = Raise(m_commitIndex, j, m.index)
          /\ m_stableLogIndex' = Raise(m_stableLogIndex, j, m.index)
          /\ m_lastApplied' = Raise(m_lastApplied, j, m.index)
          /\ m_lastSnapshotIndex' = [m_lastSnapshotIndex EXCEPT ![j] = m.index]
          /\ m_lastSnapshotTerm' = [m_lastSnapshotTerm EXCEPT ![j] = m.snapTerm]
          /\ m.index > m_lastSnapshotIndex[j]
          /\ FollowTerm(j, m.term) /\ persistState(j)
      BY <1>7 DEF InstallSnapshotInstalls
    <2>2. LogTypes' /\ LogIndexed'
      <3>1. PICK index \in Nat : index = m.index
        BY <1>1
      <3>2. PICK new \in Seq(Entry) : /\ new = LogAbove(j, index)
                                      /\ \A k \in 1 .. Len(new) : new[k].index = index + k
        BY <2>1, <3>1, LogAboveFacts
      <3>3. QED
        BY <2>1, <3>1, <3>2, LogUpdate
    <2>3. NodeTypes'
      <3>1. /\ m_commitIndex \in [Server -> Nat] /\ m_stableLogIndex \in [Server -> Nat]
            /\ m_lastApplied \in [Server -> Nat]
        BY DEF NodeTypes
      <3>2. /\ m_commitIndex' \in [Server -> Nat] /\ m_stableLogIndex' \in [Server -> Nat]
            /\ m_lastApplied' \in [Server -> Nat]
        BY <1>1, <2>1, <3>1, RaiseFacts
      <3>3. m_lastSnapshotIndex' \in [Server -> Nat] /\ m_lastSnapshotTerm' \in [Server -> Nat]
        BY <1>1, <2>1 DEF NodeTypes
      <3>4. /\ m_currentTerm' \in [Server -> Nat]
            /\ m_voteForId' \in [Server -> Server \cup {NoVote}]
            /\ m_state' \in [Server -> {Follower, Candidate, Leader}]
            /\ votedNum' \in [Server -> Nat]
            /\ \A k \in Server : m_state'[k] # Follower => m_currentTerm'[k] >= 1
        BY <1>1, <2>1, TermTaken
      <3>5. QED
        BY <1>3, <3>2, <3>3, <3>4 DEF NodeTypes
    <2>4. DiskTypes'
      BY <2>1, <2>3, DiskStep
    <2>5. QED
      BY <1>2, <1>4, <2>2, <2>3, <2>4
  <1>8. QED
    BY <1>5, <1>6, <1>7 DEF InstallSnapshot

\* A reply to InstallSnapshot.
LEMMA SnapshotResponseTypes ==
    ASSUME LogInv, NEW i \in Server, NEW r \in snapReplies, leaderSendSnapShotHandler(i, r)
    PROVE  LogInv'
  <1> USE DEF LogInv, logVars, threadVars, processVars, voteMsgs, appendMsgs, historyVars
  <1>1. r.term \in Nat /\ r.from \in Server /\ r.args.index \in Nat
    BY DEF SnapCallTypes, SnapArgsOK
  <1>2. LogTypes' /\ LogIndexed' /\ ElectPersistTypes' /\ SnapThreadTypes' /\ AppendCallTypes'
        /\ SnapCallTypes' /\ JobTypes' /\ VoteCallTypes'
    BY DEF leaderSendSnapShotHandler, LogTypes, LogIndexed, ElectPersistTypes, SnapThreadTypes,
       AppendCallTypes, SnapCallTypes, JobTypes, VoteCallTypes
  <1>3. UNCHANGED <<m_lastSnapshotIndex, m_lastSnapshotTerm, m_commitIndex, m_lastApplied,
                    m_stableLogIndex, up, boot, granters>>
    BY DEF leaderSendSnapShotHandler
  <1>4. NodeTypes'
    <2>1. CASE r.term > m_currentTerm[i]
      BY <1>1, <1>3, <2>1, TermTaken DEF leaderSendSnapShotHandler, leaderVars, NodeTypes
    <2>2. CASE ~(r.term > m_currentTerm[i])
      <3>1. /\ m_matchIndex' = [m_matchIndex EXCEPT ![i][r.from] = r.args.index]
            /\ m_nextIndex' = [m_nextIndex EXCEPT ![i][r.from] = r.args.index + 1]
            /\ UNCHANGED electionVars
        BY <2>2 DEF leaderSendSnapShotHandler
      <3>2. QED
        BY <1>1, <1>3, <3>1 DEF electionVars, NodeTypes
    <2>3. QED
      BY <2>1, <2>2
  <1>5. DiskTypes'
    <2>1. persistState(i) \/ UNCHANGED diskVars
      BY DEF leaderSendSnapShotHandler
    <2>2. QED
      BY <1>4, <2>1, DiskStep
  <1>6. QED
    BY <1>2, <1>4, <1>5

\* A lost call.
LEMMA LoseCallTypes ==
    ASSUME LogInv, LoseCall \/ UNCHANGED vars
    PROVE  LogInv'
  <1> USE DEF LogInv, vars, electionVars, logVars, leaderVars, threadVars, diskVars, processVars,
              voteMsgs, appendMsgs, snapMsgs, historyVars
  <1>1. NodeTypes'
    BY DEF LoseCall, NodeTypes
  <1>2. LogTypes' /\ LogIndexed' /\ DiskTypes' /\ ElectPersistTypes' /\ SnapThreadTypes'
        /\ JobTypes' /\ VoteCallTypes'
    BY DEF LoseCall, LogTypes, LogIndexed, DiskTypes, ElectPersistTypes, SnapThreadTypes, JobTypes,
       VoteCallTypes
  <1>3. AppendCallTypes' /\ SnapCallTypes'
    BY DEF LoseCall, AppendCallTypes, SnapCallTypes
  <1>4. QED
    BY <1>1, <1>2, <1>3

\* Every step keeps the invariant.
LEMMA NextLogInv ==
    ASSUME LogInv, [Next]_vars
    PROVE  LogInv'
  BY doElectionTypes, PersistElectionTypes, doHeartBeatTypes, applierTickerTypes, RestartTypes,
     StartTypes, SnapshotTypes, leaderSendSnapShotTypes, WalWriteTypes, onLogStableTypes,
     AppendResumeTypes, AppendEntriesTypes, RequestVoteTypes, VoteResponseTypes,
     AppendResponseTypes, InstallSnapshotTypes, SnapshotResponseTypes, LoseCallTypes DEF Next

----------------------------------------------------------------------------
\* The types of all state, and consecutive indexes, hold in every behaviour: with restarts, WAL
\* failures, torn state files, lost and delayed calls.
THEOREM LogInvariant == Spec => []LogInv
  <1>1. Init => LogInv
    BY InitLogInv
  <1>2. LogInv /\ [Next]_vars => LogInv'
    BY NextLogInv
  <1>3. QED
    BY <1>1, <1>2, PTL DEF Spec

\* m_logs[index - m_lastSnapshotIndex - 1] is the entry with that index, on every node, always:
\* after a restart from a WAL in any order, after pending writes that waited for the WAL while the
\* snapshot moved, after a failed write cut the log.
THEOREM LogIndexedHolds == Spec => []LogIndexed
  <1>1. LogInv => LogIndexed
    BY DEF LogInv
  <1>2. QED
    BY <1>1, LogInvariant, PTL
=============================================================================
