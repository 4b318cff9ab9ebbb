------------------------ MODULE SessionTemplateStore ------------------------
(***************************************************************************)
(* The bounded, multi-session template store of src/store.rs.              *)
(*                                                                         *)
(* The store is one schnellru::LruMap keyed by (session, observation       *)
(* domain, template id).  The map is modelled by the two structures it is  *)
(* made of: a hash table (templates) and the recency list threaded through *)
(* its entries (recency, most recently refreshed key first).  Every method *)
(* takes &mut self or &self, so calls never overlap: an action is a whole  *)
(* call, except remove_session, whose loop takes one step per removed key. *)
(***************************************************************************)
EXTENDS RecencyList

CONSTANTS
    Sessions,     \* values of the caller's session key type K
    Odids,        \* observation domain ids
    TemplateIds,  \* template ids
    ScopeCounts,  \* values of TemplateRecord.scope_field_count
    FieldLists,   \* field specifier slices, told apart by == only
    Capacity      \* the capacity given to with_capacity

ASSUME CapacityAssumption == Capacity \in Nat

VARIABLES
    templates,  \* hash table: key -> OwnedTemplate
    recency,    \* the LRU list, most recently refreshed key first
    to_remove,  \* keys remove_session has collected and not yet removed
    call        \* the last call: its arguments, its result, its warning

vars == <<templates, recency, to_remove, call>>

Keys == Sessions \X Odids \X TemplateIds

\* A TemplateRecord; an OwnedTemplate has the same three fields.
Template == [id : TemplateIds, scope_field_count : ScopeCounts, fields : FieldLists]

SessionOf(key) == key[1]

Outcomes == {"Inserted", "AlreadyPresent", "Collision"}

Calls ==
    [op : {"new"}]
    \cup [op : {"insert"}, key : Keys, record : Template,
          outcome : Outcomes, warned : BOOLEAN]
    \cup [op : {"remove", "get"}, key : Keys]
    \cup [op : {"remove_session"}, session : Sessions]

-----------------------------------------------------------------------------
(* schnellru::LruMap with a ByLength limiter.                              *)

\* Mutant: the tail is popped one insertion too late.
MakeRoomLate(list) == SubSeq(list, 1, IF Len(list) <= Capacity THEN Len(list) ELSE Capacity)

\* Entries are popped off the tail until the newcomer fits.
MakeRoom(list) == SubSeq(list, 1, IF Len(list) < Capacity THEN Len(list) ELSE Capacity - 1)

\* LruMap::insert of a new key; ByLength refuses every insertion when its
\* maximum length is zero.
LruInsert(key, template) ==
    IF Capacity = 0
    THEN UNCHANGED <<templates, recency>>
    ELSE /\ recency' = Cons(key, MakeRoom(recency))
         /\ templates' = [k \in Range(MakeRoom(recency)) \cup {key} |->
                              IF k = key THEN template ELSE templates[k]]

\* LruMap::remove: no effect on an absent key.
LruRemove(key) ==
    IF key \in DOMAIN templates
    THEN /\ templates' = Restrict(templates, DOMAIN templates \ {key})
         /\ recency' = Unlink(recency, key)
    ELSE UNCHANGED <<templates, recency>>

-----------------------------------------------------------------------------
Init ==
    /\ templates = <<>>
    /\ recency = <<>>
    /\ to_remove = {}
    /\ call = [op |-> "new"]

Idle == to_remove = {}

\* Mutant: only the field slices are compared.
SameFields(existing, record) == existing.fields = record.fields

\* insert compares the scope field count and the field slice.
SameTemplate(existing, record) ==
    /\ existing.scope_field_count = record.scope_field_count
    /\ existing.fields = record.fields

Returns(key, record, outcome, warned) ==
    call' = [op |-> "insert", key |-> key, record |-> record,
             outcome |-> outcome, warned |-> warned]

\* Mutant: a different definition replaces the one it collides with.
Overwrite(key, record) ==
    /\ key \in DOMAIN templates
    /\ ~SameTemplate(templates[key], record)
    /\ Returns(key, record, "Collision", FALSE)
    /\ templates' = [templates EXCEPT ![key] = record]
    /\ UNCHANGED recency

Collide(key, record) ==
    /\ key \in DOMAIN templates
    /\ ~SameTemplate(templates[key], record)
    /\ Returns(key, record, "Collision", FALSE)
    /\ UNCHANGED <<templates, recency>>

\* Mutant: a refresh finds the entry with peek and does not promote it.
RefreshByPeek(key, record) ==
    /\ key \in DOMAIN templates
    /\ SameTemplate(templates[key], record)
    /\ Returns(key, record, "AlreadyPresent", FALSE)
    /\ UNCHANGED <<templates, recency>>

\* Mutant: a refresh links the entry a second time.
RefreshByInsert(key, record) ==
    /\ key \in DOMAIN templates
    /\ SameTemplate(templates[key], record)
    /\ recency' = Cons(key, recency)
    /\ Returns(key, record, "AlreadyPresent", FALSE)
    /\ UNCHANGED templates

Refresh(key, record) ==
    /\ key \in DOMAIN templates
    /\ SameTemplate(templates[key], record)
    /\ recency' = Promote(recency, key)
    /\ Returns(key, record, "AlreadyPresent", FALSE)
    /\ UNCHANGED templates

\* Mutant: the warning is given once the store has outgrown its capacity.
InstallWarningLate(key, record) ==
    /\ key \notin DOMAIN templates
    /\ Returns(key, record, "Inserted", Capacity > 0 /\ Len(recency) > Capacity)
    /\ LruInsert(key, record)

Install(key, record) ==
    /\ key \notin DOMAIN templates
    /\ Returns(key, record, "Inserted", Capacity > 0 /\ Len(recency) >= Capacity)
    /\ LruInsert(key, record)

\* Mutant: the key is built from its parts in the wrong order.
InsertSwapped(session, odid, record) ==
    LET key == <<odid, session, record.id>>
    IN  /\ Idle
        /\ Collide(key, record) \/ Refresh(key, record) \/ Install(key, record)
        /\ UNCHANGED to_remove

\* Mutant: all template ids of a domain share one entry.
InsertWithoutId(session, odid, record) ==
    LET key == <<session, odid, CHOOSE id \in TemplateIds : TRUE>>
    IN  /\ Idle
        /\ Collide(key, record) \/ Refresh(key, record) \/ Install(key, record)
        /\ UNCHANGED to_remove

Insert(session, odid, record) ==
    LET key == <<session, odid, record.id>>
    IN  /\ Idle
        /\ Collide(key, record) \/ Refresh(key, record) \/ Install(key, record)
        /\ UNCHANGED to_remove

RemoveTemplate(session, odid, id) ==
    /\ Idle
    /\ LruRemove(<<session, odid, id>>)
    /\ call' = [op |-> "remove", key |-> <<session, odid, id>>]
    /\ UNCHANGED to_remove

\* Mutant: find instead of filter, one key of the session is collected.
RemoveSessionOnce(session) ==
    /\ Idle
    /\ \/ /\ \A key \in DOMAIN templates : SessionOf(key) # session
          /\ to_remove' = {}
       \/ \E key \in DOMAIN templates : SessionOf(key) = session /\ to_remove' = {key}
    /\ call' = [op |-> "remove_session", session |-> session]
    /\ UNCHANGED <<templates, recency>>

\* remove_session first collects the session's keys ...
RemoveSession(session) ==
    /\ Idle
    /\ to_remove' = {key \in DOMAIN templates : SessionOf(key) = session}
    /\ call' = [op |-> "remove_session", session |-> session]
    /\ UNCHANGED <<templates, recency>>

\* ... then removes them one after the other.
RemoveCollected ==
    \E key \in to_remove :
        /\ LruRemove(key)
        /\ to_remove' = to_remove \ {key}
        /\ UNCHANGED call

\* Mutant: the lookup promotes what it finds.
GetPromoting(session, odid, id) ==
    /\ Idle
    /\ call' = [op |-> "get", key |-> <<session, odid, id>>]
    /\ recency' = IF <<session, odid, id>> \in DOMAIN templates
                  THEN Promote(recency, <<session, odid, id>>) ELSE recency
    /\ UNCHANGED <<templates, to_remove>>

\* The lookup of a view of the store peeks: it leaves the list alone.
Get(session, odid, id) ==
    /\ Idle
    /\ call' = [op |-> "get", key |-> <<session, odid, id>>]
    /\ UNCHANGED <<templates, recency, to_remove>>

Next ==
    \/ \E session \in Sessions, odid \in Odids :
           \/ \E record \in Template : Insert(session, odid, record)
           \/ \E id \in TemplateIds : RemoveTemplate(session, odid, id) \/ Get(session, odid, id)
    \/ \E session \in Sessions : RemoveSession(session)
    \/ RemoveCollected

Spec == Init /\ [][Next]_vars

-----------------------------------------------------------------------------
(* Invariants.                                                             *)

\* Every variable holds a value of its type; the key of an entry is a triple
\* of a session, an observation domain and a template id.
TypeOK ==
    /\ DOMAIN templates \subseteq Keys
    /\ \A key \in DOMAIN templates : templates[key] \in Template
    /\ templates = [key \in DOMAIN templates |-> templates[key]]
    /\ recency \in Seq(Keys)
    /\ to_remove \subseteq Keys
    /\ call \in Calls

\* The hash table and the recency list hold the same keys, each once, after
\* any mixture of insertions, refreshes, evictions and removals (LruMap keeps
\* both; store.rs 310-369 only goes through its methods).
ListMatchesTable ==
    /\ IsInjective(recency)
    /\ Range(recency) = DOMAIN templates

\* The store never holds more entries than it was created for (store.rs
\* 261-275), whatever the sessions send.
CapacityRespected == Cardinality(DOMAIN templates) <= Capacity

\* What a view returns for a template id is the template announced with that
\* id (store.rs 401-412 copies the id out of the entry, not from the key).
EntriesKeepTheirId == \A key \in DOMAIN templates : templates[key].id = key[3]

\* "the new template was installed" (store.rs 93-94): when insert answers
\* Inserted or AlreadyPresent, a view finds exactly that record.
AcceptedIsVisible ==
    (call.op = "insert" /\ call.outcome \in {"Inserted", "AlreadyPresent"}) =>
        /\ call.key \in DOMAIN templates
        /\ templates[call.key] = call.record

\* Once remove_session has returned, its session has no template left
\* (store.rs 352-369).
SessionIsGone ==
    (call.op = "remove_session" /\ Idle) =>
        \A key \in DOMAIN templates : SessionOf(key) # call.session

\* The loop of remove_session: what is still to be removed is what the store
\* still holds of the session.
RemovalUnderWay ==
    /\ to_remove # {} => call.op = "remove_session"
    /\ call.op = "remove_session" =>
           to_remove = {key \in DOMAIN templates : SessionOf(key) = call.session}

\* The inductive invariant: none of the invariants above is inductive without
\* the others.
IndInv ==
    /\ TypeOK
    /\ ListMatchesTable
    /\ Len(recency) <= Capacity
    /\ EntriesKeepTheirId
    /\ RemovalUnderWay

-----------------------------------------------------------------------------
(* Action properties.                                                      *)

\* RFC 7011 section 8 as insert enforces it (store.rs 84-88, 107-114): no
\* step replaces the definition of a key that stays in the store.
NoRedefinition ==
    [][\A key \in DOMAIN templates \cap DOMAIN templates' :
           templates'[key] = templates[key]]_vars

\* The keys a step drops.
Lost == DOMAIN templates \ DOMAIN templates'

\* insert warns exactly when it costs an entry (store.rs 325-334: the warning
\* is decided before the map is touched); it costs one entry at most, the
\* tail of the list, and no other call costs an entry it was not asked to drop.
EvictionIsReported ==
    [][/\ call'.op = "insert" =>
              /\ call'.warned <=> Lost # {}
              /\ \A key \in Lost : key = Last(recency)
       /\ call'.op = "remove" => Lost \subseteq {call'.key}
       /\ call'.op = "get" => Lost = {}
       /\ call'.op = "remove_session" =>
              \A key \in Lost : SessionOf(key) = call'.session]_vars

\* The order in which two entries were last refreshed is changed by a call
\* that refreshes one of them only: removals (swapped or not) and lookups
\* keep it (store.rs 401-405: peek, to avoid LRU promotion).
OnlyRefreshesReorder ==
    [][\A a, b \in DOMAIN templates \cap DOMAIN templates' :
           (/\ IndexOf(recency, a) < IndexOf(recency, b)
            /\ IndexOf(recency', b) < IndexOf(recency', a))
           => (call'.op = "insert" /\ call'.key = b)]_vars

-----------------------------------------------------------------------------
(* The store implements the cache of TemplateCache.                        *)

\* What the last call is to the cache.
Reply == IF call.op = "insert"
         THEN [outcome |-> call.outcome, key |-> call.key, definition |-> call.record]
         ELSE [outcome |-> "none"]

Cache == INSTANCE TemplateCache WITH
    CacheKeys <- Keys,
    Definitions <- Template,
    dict <- templates,
    earlier <- EarlierIn(recency),
    reply <- Reply

\* Every step of the store is a step of the cache, or changes nothing there.
ImplementsCache == Cache!Spec
=============================================================================
