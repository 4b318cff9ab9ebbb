------------------------- MODULE TemplateRetention -------------------------
(***************************************************************************)
(* How long an exporter's template stays in the store: the store of        *)
(* SessionTemplateStore observed by two history variables, from which the  *)
(* capacity planning rule of src/store.rs (lines 158-189, 262-266) can be  *)
(* stated: an exporter that keeps refreshing its templates loses none to   *)
(* the others, provided the capacity exceeds what all of them use at once. *)
(***************************************************************************)
EXTENDS SessionTemplateStore

VARIABLES
    announced,  \* keys whose definition the store accepted and nobody removed
    rivals      \* per key, the other keys refreshed since its last refresh

historyVars == <<announced, rivals>>

RetentionInit ==
    /\ Init
    /\ announced = {}
    /\ rivals = [key \in Keys |-> {}]

\* An accepted insertion of key makes it a rival of every other key.
ObserveAccepted(key) ==
    /\ announced' = announced \cup {key}
    /\ rivals' = [k \in Keys |-> IF k = key THEN {} ELSE rivals[k] \cup {key}]

\* What the caller asks the store to drop is no longer announced.
ObserveRemoval(key) ==
    /\ announced' = announced \ {key}
    /\ UNCHANGED rivals

InsertObserved(session, odid, record) ==
    /\ Insert(session, odid, record)
    /\ IF call'.outcome = "Collision"
       THEN UNCHANGED historyVars
       ELSE ObserveAccepted(<<session, odid, record.id>>)

RemoveObserved(session, odid, id) ==
    /\ RemoveTemplate(session, odid, id)
    /\ ObserveRemoval(<<session, odid, id>>)

\* remove_session drops every key of its session, evicted ones included.
RemoveSessionObserved(session) ==
    /\ RemoveSession(session)
    /\ announced' = {key \in announced : SessionOf(key) # session}
    /\ UNCHANGED rivals

RetentionNext ==
    \/ \E session \in Sessions, odid \in Odids :
           \/ \E record \in Template : InsertObserved(session, odid, record)
           \/ \E id \in TemplateIds :
                  \/ RemoveObserved(session, odid, id)
                  \/ Get(session, odid, id) /\ UNCHANGED historyVars
    \/ \E session \in Sessions : RemoveSessionObserved(session)
    \/ RemoveCollected /\ UNCHANGED historyVars

RetentionSpec == RetentionInit /\ [][RetentionNext]_<<vars, historyVars>>

-----------------------------------------------------------------------------
\* "Exporters that go silent will fall to the LRU tail and be evicted before
\* active exporters lose their templates" (store.rs 182-185): a template that
\* was announced and not removed is still in the store as long as fewer than
\* Capacity other templates were refreshed since its own last refresh, in
\* whatever order refreshes, collisions, removals and lookups came.
ActiveTemplatesSurvive ==
    \A key \in announced :
        Cardinality(rivals[key]) < Capacity => key \in DOMAIN templates

\* The list orders the entries as their refreshes came: what stands before an
\* entry was refreshed after it, and so was all that was refreshed since
\* (store.rs 325 and 335-342 are the only places that move an entry).
ListFollowsRefreshes ==
    \A pair \in EarlierIn(recency) :
        rivals[pair[2]] \cup {pair[2]} \subseteq rivals[pair[1]]

\* The inductive invariant of the two properties, beside the store's own.
RetentionInv ==
    /\ announced \subseteq Keys
    /\ rivals \in [Keys -> SUBSET Keys]
    /\ \A key \in Keys : IsFiniteSet(rivals[key])
    /\ announced \cap to_remove = {}
    /\ ListFollowsRefreshes
    /\ ActiveTemplatesSurvive
=============================================================================
