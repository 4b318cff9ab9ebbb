---------------------------- MODULE RecencyList ----------------------------
(***************************************************************************)
(* The list threaded through the entries of a schnellru::LruMap, front     *)
(* first: what src/store.rs relies on when it calls get, insert, remove.   *)
(***************************************************************************)
EXTENDS Integers, SequencesExt

\* Where key stands in a list that holds it.
IndexOf(list, key) == CHOOSE i \in 1..Len(list) : list[i] = key

Unlink(list, key) == RemoveAt(list, IndexOf(list, key))

\* LruMap::get moves the entry it finds to the front of the list.
Promote(list, key) == Cons(key, Unlink(list, key))

\* <<a, b>>: a stands behind b, that is, a was refreshed earlier than b.
EarlierIn(list) == {pair \in Range(list) \X Range(list) :
                        IndexOf(list, pair[1]) > IndexOf(list, pair[2])}
=============================================================================
