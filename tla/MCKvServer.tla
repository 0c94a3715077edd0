----------------------------- MODULE MCKvServer -----------------------------
(***************************************************************************)
(* Instances of the key-value service for TLC.  The skip list is tried by   *)
(* itself first: as long as the service has not begun, a list and a map     *)
(* may be used side by side.                                                *)
(***************************************************************************)
EXTENDS KvServer, SkipListUse, TLC

CONSTANT c1

Put(k, v)  == [op |-> "Put", key |-> k, value |-> v]
App(k, v)  == [op |-> "Append", key |-> k, value |-> v]
Read(k, v) == [op |-> "Get", key |-> k, value |-> v]

\* A clerk that writes a key twice and reads it.
WriteThenRead == c1 :> <<Put(1, 11), App(1, 12), Read(1, 11)>>

\* A clerk that reads a key and then writes it twice.
ReadThenWrite == c1 :> <<Read(1, 11), Put(1, 11), Put(1, 12)>>

\* One call fails at the clerk, and there is one timeout, election or restart.
OneEach == [rpc |-> 1, server |-> 1]

\* Two calls fail at the clerk, nothing at the servers.
TwoCalls == [rpc |-> 2, server |-> 0]

\* Every server takes a snapshot at index 2.
AtTwo == Server \X {2}

MCInit == Init /\ ListInit

Service == Next /\ ListInit /\ UNCHANGED listVars
Lists   == Init /\ ListNext /\ UNCHANGED vars

MCSpec == MCInit /\ [][Service \/ Lists]_<<vars, listVars>>

Applying(s) == applyChan[s] # << >> \/ loop[s] # None

\* Bound: one server at a time applies.  Only a follower holds copied entries meanwhile, and only
\* the first one, while the leader goes on (so that InstallSnapshot can overtake it).
ApplyInTurn ==
    /\ Cardinality({s \in Server : Applying(s)}) <= 1
    /\ \A s, t \in Server :
          s # t /\ hand[s] # << >> /\ (Applying(t) \/ hand[t] # << >>)
             => t = leader /\ lastApplied[s] = 1
=============================================================================
