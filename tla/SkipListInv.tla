---------------------------- MODULE SkipListInv -----------------------------
(***************************************************************************)
(* The inductive invariant behind SkipListIsMap: the shape of a skip list,  *)
(* said of single pointers and without following them.                     *)
(***************************************************************************)
EXTENDS SkipListUse

\* Pointer m of node n at level i leads to the next node that has the level.
LeadsTo(sl, i, n, m) ==
    \/ m = NULL /\ \A x \in Row(sl, i) : x <= n
    \/ m \in Row(sl, i) /\ m > n /\ \A x \in Row(sl, i) : x > n => m <= x

\* A node has the pointers of level 0 up to its own, the header those of every level.
Towers(sl) ==
    /\ DOMAIN sl.forward = {Header} \cup DOMAIN sl.value
    /\ DOMAIN sl.forward[Header] = 0..MaxLevel
    /\ \A n \in DOMAIN sl.value : \E h \in get_random_level : DOMAIN sl.forward[n] = 0..h

\* The level of the list is the highest of a node.
HighestLevel(sl) ==
    /\ sl.level \in 0..MaxLevel
    /\ \A i \in 1..MaxLevel : i <= sl.level <=> \E n \in DOMAIN sl.value : n \in Row(sl, i)

\* The list holds finitely many keys.
HoldsKeys(sl) ==
    /\ sl.value = [k \in DOMAIN sl.value |-> sl.value[k]]
    /\ DOMAIN sl.value \subseteq Key
    /\ \E bound \in Nat : \A k \in DOMAIN sl.value : k <= bound

InOrder(sl) == \A i \in 0..MaxLevel : \A n \in Row(sl, i) : LeadsTo(sl, i, n, sl.forward[n][i])

ListOK(sl) == HoldsKeys(sl) /\ Towers(sl) /\ HighestLevel(sl) /\ InOrder(sl)

ListInv == ListOK(list) /\ map = list.value
=============================================================================
