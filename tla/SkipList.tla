------------------------------ MODULE SkipList ------------------------------
(***************************************************************************)
(* The skip list of include/common/skipList.h, the store of KvServer.  A    *)
(* list is a record: level is _skip_list_level, forward[n][i] the pointer   *)
(* of node n at level i (n a key, or Header), value[k] the value of node k. *)
(* Keys are positive numbers; 0 is NULL as a pointer and the header as a    *)
(* node (nothing points to the header).  The levels that get_random_level   *)
(* draws for new nodes are a parameter of the operations that insert.       *)
(***************************************************************************)
EXTENDS Integers, Sequences, FiniteSets, Functions

CONSTANTS
    Key,        \* the keys
    Value,      \* the values clients write
    MaxLevel    \* _max_level, the levels of the header (6 in KvServer)

ASSUME KeyAssumption   == Key \subseteq Nat \ {0}
ASSUME LevelAssumption == MaxLevel \in Nat \ {0}

Header == 0
NULL   == 0

\* f with v at x.
With(f, x, v) == [y \in DOMAIN f \cup {x} |-> IF y = x THEN v ELSE f[y]]

\* Node(k, v, level): its level + 1 pointers are NULL.
NewPointers(level) == [i \in 0..level |-> NULL]

\* SkipList(max_level): the header has every level, the list uses level 0.
EmptyList == [level   |-> 0,
              forward |-> [n \in {Header} |-> NewPointers(MaxLevel)],
              value   |-> [k \in {} |-> NULL]]

\* get_random_level never draws 0 and is cut at _max_level.
get_random_level == 1..MaxLevel

\* The nodes that have a pointer at level i, the header among them.
Row(sl, i) == {n \in DOMAIN sl.forward : i \in DOMAIN sl.forward[n]}

\* The inner while of every search: from node n along level i to the last node before key.
Advance(sl, n, i, key) ==
    LET Last[c \in Row(sl, i)] ==
            LET f == sl.forward[c][i] IN IF f # NULL /\ f < key THEN Last[f] ELSE c
    IN  Last[n]

\* The outer for: update[i] is the last node before key at level i; the search of a level starts
\* where the one above it ended.
Update(sl, key) ==
    LET update[i \in 0..sl.level] ==
            Advance(sl, IF i = sl.level THEN Header ELSE update[i + 1], i, key)
    IN  update

\* The node behind the search holds key if any node does.
Found(sl, key) == sl.forward[Update(sl, key)[0]][0] = key

\* Whether there is a node, and its value.
search_element(sl, key) ==
    IF Found(sl, key) THEN [exist |-> TRUE, value |-> sl.value[key]]
                      ELSE [exist |-> FALSE, value |-> NULL]

\* Links a new node of the drawn level; a key that exists is left alone.
insert_element(sl, key, value, random_level) ==
    LET found     == Update(sl, key)
        update    == [i \in 0..random_level |-> IF i <= sl.level THEN found[i] ELSE Header]
        Linked(n) == [i \in DOMAIN sl.forward[n] |->
                         IF i <= random_level /\ update[i] = n THEN key ELSE sl.forward[n][i]]
    IN  IF Found(sl, key) THEN sl
        ELSE [level   |-> IF random_level > sl.level THEN random_level ELSE sl.level,
              forward |-> With([n \in DOMAIN sl.forward |-> Linked(n)],
                               key, [i \in 0..random_level |-> sl.forward[update[i]][i]]),
              value   |-> With(sl.value, key, value)]

\* Unlinks the node, from level 0 up to the first level at which it is not the next node, and
\* drops the levels that are empty then.
delete_element(sl, key) ==
    LET update      == Update(sl, key)
        IsNext(i)   == sl.forward[update[i]][i] = key
        Unlinked(n) == [i \in DOMAIN sl.forward[n] |->
                           IF i <= sl.level /\ update[i] = n /\ (\A j \in 0..i : IsNext(j))
                           THEN sl.forward[key][i] ELSE sl.forward[n][i]]
        forward     == [n \in DOMAIN sl.forward \ {key} |-> Unlinked(n)]
        InUse       == {i \in 1..sl.level : forward[Header][i] # NULL} \cup {0}
    IN  IF ~Found(sl, key) THEN sl
        ELSE [level   |-> CHOOSE i \in InUse : \A j \in InUse : j <= i,
              forward |-> forward,
              value   |-> Restrict(sl.value, DOMAIN sl.value \ {key})]

\* The buggy variant: an existing node keeps its value.
Faulty_insert_set_element(sl, key, value, random_level) ==
    insert_element(sl, key, value, random_level)

\* An existing node is deleted and a new one inserted.
insert_set_element(sl, key, value, random_level) ==
    insert_element(IF search_element(sl, key).exist THEN delete_element(sl, key) ELSE sl,
                   key, value, random_level)

\* The nodes along level i, in order.
Chain(sl, i) ==
    LET From[n \in Row(sl, i)] ==
            IF sl.forward[n][i] = NULL THEN << >>
            ELSE <<sl.forward[n][i]>> \o From[sl.forward[n][i]]
    IN  From[Header]

\* The two vectors of SkipListDump.
dump_file(sl) ==
    [keyDumpVt_ |-> Chain(sl, 0),
     valDumpVt_ |-> [j \in DOMAIN Chain(sl, 0) |-> sl.value[Chain(sl, 0)[j]]]]

\* Inserts every key of the dump that is not there yet, with the KEY as its value: the code passes
\* keyDumpVt_[i] twice.
load_file(sl, dump, random_level) ==
    LET Load[j \in 0..Len(dump.keyDumpVt_)] ==
            IF j = 0 THEN sl
            ELSE insert_element(Load[j - 1], dump.keyDumpVt_[j], dump.keyDumpVt_[j], random_level[j])
    IN  Load[Len(dump.keyDumpVt_)]

\* The levels that are drawn while a dump is loaded, each from L.
LevelsFor(dump, L) == [DOMAIN dump.keyDumpVt_ -> L]

-----------------------------------------------------------------------------
\* What a list holds, as a map.
Contents(sl) == [k \in Range(Chain(sl, 0)) |-> sl.value[k]]

\* Every level is the nodes of at least that level in key order, and the level of the list is the
\* highest of a node (what the searches of the code rely on).
WellFormed(sl) ==
    \A i \in 0..MaxLevel :
        LET nodes == {n \in DOMAIN sl.value : i \in DOMAIN sl.forward[n]}
            c     == Chain(sl, i)
        IN  /\ Range(c) = nodes /\ Len(c) = Cardinality(nodes)
            /\ \A a, b \in DOMAIN c : a < b => c[a] < c[b]
            /\ i > 0 => (nodes # {} <=> i <= sl.level)
=============================================================================
