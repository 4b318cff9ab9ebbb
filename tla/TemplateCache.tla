--------------------------- MODULE TemplateCache ---------------------------
(***************************************************************************)
(* What a template store promises its caller (docs of InsertOutcome and    *)
(* SessionTemplateStore in src/store.rs), with no data structure in it: a  *)
(* bounded dictionary of definitions, and for every two of its keys which  *)
(* of them was refreshed earlier.  A definition, once accepted, is never   *)
(* replaced in place; only a new definition in a full dictionary costs an  *)
(* entry, and it costs the entry that was refreshed before all the others. *)
(***************************************************************************)
EXTENDS Integers, FiniteSets, Functions

CONSTANTS
    CacheKeys,    \* what a definition is registered under
    Definitions,  \* what can be registered
    Capacity      \* how many definitions the dictionary holds

VARIABLES
    dict,     \* the dictionary: key -> definition
    earlier,  \* <<a, b>>: a was refreshed before b, and b not since before a
    reply     \* the last call that registers a definition, with its answer

vars == <<dict, earlier, reply>>

NoReply == [outcome |-> "none"]

Answer(outcome, key, definition) ==
    [outcome |-> outcome, key |-> key, definition |-> definition]

Full == Cardinality(DOMAIN dict) >= Capacity

\* The order once the keys in gone have left.
Without(gone) == {pair \in earlier : pair[1] \notin gone /\ pair[2] \notin gone}

\* The order over the other keys, with key placed after all of them.
Newest(key, others) ==
    {pair \in earlier : pair[1] \in others /\ pair[2] \in others} \cup (others \X {key})

Init ==
    /\ dict = <<>>
    /\ earlier = {}
    /\ reply = NoReply

Oldest(key) == \A other \in DOMAIN dict \ {key} : <<key, other>> \in earlier

\* The sets of entries that may be given up for one more definition.
Victims == IF Full THEN {{key} : key \in {k \in DOMAIN dict : Oldest(k)}} ELSE {{}}

\* A key without a definition accepts any; if there is no room, the entry
\* refreshed before every other one makes room for it.
Define(key, definition) ==
    /\ reply' = Answer("Inserted", key, definition)
    /\ key \notin DOMAIN dict
    /\ \E evicted \in Victims :
           LET kept == DOMAIN dict \ evicted
           IN  /\ dict' = [k \in kept \cup {key} |-> IF k = key THEN definition ELSE dict[k]]
               /\ earlier' = Newest(key, kept)

\* The definition a key has is refreshed.
Confirm(key, definition) ==
    /\ reply' = Answer("AlreadyPresent", key, definition)
    /\ key \in DOMAIN dict
    /\ dict[key] = definition
    /\ earlier' = Newest(key, DOMAIN dict \ {key})
    /\ UNCHANGED dict

\* Any other definition is turned away and nothing changes.
Refuse(key, definition) ==
    /\ reply' = Answer("Collision", key, definition)
    /\ key \in DOMAIN dict
    /\ dict[key] # definition
    /\ UNCHANGED <<dict, earlier>>

\* The caller drops a definition.
Withdraw(key) ==
    /\ reply' = NoReply
    /\ dict' = Restrict(dict, DOMAIN dict \ {key})
    /\ earlier' = Without({key})

\* A call that changes nothing.
Observe ==
    /\ reply' = NoReply
    /\ UNCHANGED <<dict, earlier>>

Next ==
    \/ \E key \in CacheKeys :
           \/ \E definition \in Definitions :
                  \/ Define(key, definition)
                  \/ Confirm(key, definition)
                  \/ Refuse(key, definition)
           \/ Withdraw(key)
    \/ Observe

Spec == Init /\ [][Next]_vars
=============================================================================
