---------------------------- MODULE SkipListUse -----------------------------
(***************************************************************************)
(* The skip list beside a map: every sequence of the operations of its      *)
(* interface, on both, for as long as one likes.                            *)
(***************************************************************************)
EXTENDS SkipList

VARIABLES list, map

listVars == <<list, map>>

ListInit == list = EmptyList /\ map = [k \in {} |-> NULL]

Set(k, v, level) ==
    /\ list' = insert_set_element(list, k, v, level)
    /\ map' = With(map, k, v)

Delete(k) ==
    /\ list' = delete_element(list, k)
    /\ map' = Restrict(map, DOMAIN map \ {k})

\* A restart: the dump is loaded into an empty list, which gives every key itself as its value.
Reload(levels) ==
    /\ list' = load_file(EmptyList, dump_file(list), levels)
    /\ map' = [k \in DOMAIN map |-> k]

ListNext ==
    \/ \E k \in Key, v \in Value, level \in get_random_level : Set(k, v, level)
    \/ \E k \in Key : Delete(k)
    \/ \E levels \in LevelsFor(dump_file(list), get_random_level) : Reload(levels)

ListSpec == ListInit /\ [][ListNext]_listVars

\* Whatever is set, deleted and reloaded, and whatever levels the nodes get: the list is well formed,
\* holds exactly what a map would, and search_element finds it (insert_set_element, delete_element,
\* which stops unlinking at the first level that does not point to the node, and load_file).
SkipListIsMap ==
    /\ WellFormed(list)
    /\ Contents(list) = map
    /\ \A k \in Key : search_element(list, k) =
                         IF k \in DOMAIN map THEN [exist |-> TRUE, value |-> map[k]]
                         ELSE [exist |-> FALSE, value |-> NULL]
=============================================================================
