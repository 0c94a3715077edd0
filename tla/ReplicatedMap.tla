--------------------------- MODULE ReplicatedMap ----------------------------
(***************************************************************************)
(* What the key-value service promises: one log of requests, and replicas   *)
(* whose maps are the log's writes in order, each request executed once     *)
(* however often clients retried it.  Only a snapshot takes a map out of     *)
(* this order; what it promises then is the keys, and how far it reaches.   *)
(***************************************************************************)
EXTENDS Integers, Sequences

CONSTANTS
    Replica,    \* the servers
    Request,    \* the requests
    Value,      \* the values a snapshot may hold
    Write(_)    \* the map a request writes: one key and its value, or nothing

VARIABLES
    log,        \* the committed requests
    pos,        \* pos[s]: how much of the log replica s reflects
    kv,         \* kv[s]: its map
    restores    \* restores[s]: how often it has taken over a snapshot

vars == <<log, pos, kv, restores>>

Empty == [k \in {} |-> k]

\* f where it is defined, and g elsewhere.
Over(f, g) == [k \in DOMAIN f \cup DOMAIN g |-> IF k \in DOMAIN f THEN f[k] ELSE g[k]]

\* A retry of a request that is in the log already.
Retry(i) == \E j \in 1..(i - 1) : log[j] = log[i]

\* The keys that the first p requests of the log write.
Written(p) == UNION {DOMAIN Write(log[i]) : i \in 1..p}

Init ==
    /\ log = << >>
    /\ pos = [s \in Replica |-> 0]
    /\ kv = [s \in Replica |-> Empty]
    /\ restores = [s \in Replica |-> 0]

Commit ==
    /\ \E r \in Request : log' = Append(log, r)
    /\ UNCHANGED <<pos, kv, restores>>

\* The next request of the log, executed unless it is a retry.
Execute(s) ==
    /\ pos[s] < Len(log)
    /\ pos' = [pos EXCEPT ![s] = @ + 1]
    /\ kv' = [kv EXCEPT ![s] = IF Retry(pos[s] + 1) THEN @ ELSE Over(Write(log[pos[s] + 1]), @)]
    /\ UNCHANGED <<log, restores>>

\* A replica takes over a snapshot that reflects p requests, at a restart or while it runs: the only
\* other change of a map, and one that is counted.  The map then has all the keys that those requests
\* write, and at most all that the log writes, since a server that has taken a snapshot over keeps the
\* keys it had.  Of the values nothing is promised.
Restore(s) ==
    /\ restores' = [restores EXCEPT ![s] = @ + 1]
    /\ \E p \in 0..Len(log), K \in SUBSET Written(Len(log)) :
          /\ Written(p) \subseteq K
          /\ pos' = [pos EXCEPT ![s] = p]
          /\ \E map \in [K -> Value] : kv' = [kv EXCEPT ![s] = map]
    /\ UNCHANGED log

Next == Commit \/ \E s \in Replica : Execute(s) \/ Restore(s)

Spec == Init /\ [][Next]_vars
=============================================================================
