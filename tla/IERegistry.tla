----------------------------- MODULE IERegistry -----------------------------
(***************************************************************************)
(* The registry of information elements: main of build.rs turns the rows   *)
(* of the IANA table into REGISTRY and the constants of ie::id, and        *)
(* lookup and lookup_field of src/ie/mod.rs search REGISTRY at run time.   *)
(* The build ends before the first lookup begins; both are steps here      *)
(* because a lookup is right only if the build did its part.               *)
(***************************************************************************)
EXTENDS CsvReader, Functions

CONSTANTS
    Space,       \* the character trim strips
    ElementId,   \* the id cells that parse as u16, each with its number
    DataTypes,   \* the data type and semantic cells build.rs knows
    Semantics,
    Current,     \* the spellings of "current"
    Upper,       \* a character or word -> its spelling in a constant's name
    NumberWord,  \* an id -> the word it becomes in a constant's name
    Probes       \* the ids looked up

Ids == 0..65535

ASSUME IdAssumption ==
    /\ \A cell \in DOMAIN ElementId : ElementId[cell] \in Ids
    /\ Probes \subseteq Ids

\* Whatever stands in a file can be spelled.  No word of a name is a number:
\* names are camel case (build.rs 107-109), and a constant's name ends in an id
\* only where build.rs puts it.
ASSUME WordAssumption ==
    /\ \A file \in Texts : file \in Seq(DOMAIN Upper)
    /\ \A cell \in DOMAIN ElementId : ElementId[cell] \in DOMAIN NumberWord
    /\ \A id, other \in DOMAIN NumberWord :
           NumberWord[id] = NumberWord[other] => id = other
    /\ \A id \in DOMAIN NumberWord : \A word \in DOMAIN Upper : NumberWord[id] # Upper[word]

VARIABLES
    stage,       \* where the build is, then what lookup is doing
    at,          \* the row or element the loop in hand has come to
    elements,    \* the Vec of build.rs
    registry,    \* REGISTRY
    constants,   \* ie::id: the name of each constant, in the order of REGISTRY
    seen_names,
    asked,       \* the field looked up: its id, and whether it is enterprise-specific
    low, high,   \* what the binary search has still to look at: low..high
    answer       \* the index lookup found, 0 for None

registryVars == <<stage, at, elements, registry, constants, seen_names>>
lookupVars == <<asked, low, high, answer>>
ieVars == <<csvVars, registryVars, lookupVars>>

IEInit ==
    /\ CsvInit
    /\ stage = "parse"
    /\ at = 1
    /\ elements = <<>>
    /\ registry = <<>>
    /\ constants = <<>>
    /\ seen_names = {}
    /\ asked = [information_element_id |-> 0, enterprise |-> FALSE]
    /\ low = 1
    /\ high = 0
    /\ answer = 0

-----------------------------------------------------------------------------
(* build.rs.                                                               *)

Parse ==
    /\ stage = "parse"
    /\ ReadCsv
    /\ stage' = IF parsed' THEN "select" ELSE "parse"
    /\ at' = IF parsed' THEN 2 ELSE 1   \* the header row is skipped
    /\ UNCHANGED <<elements, registry, constants, seen_names, lookupVars>>

Trim(cell) ==
    LET solid == {i \in DOMAIN cell : cell[i] # Space}
    IN  IF solid = {} THEN <<>>
        ELSE SubSeq(cell, CHOOSE i \in solid : \A j \in solid : i <= j,
                          CHOOSE i \in solid : \A j \in solid : j <= i)

\* A row that becomes an element: current, named, with a number and a known type.
Selected(cells) ==
    /\ Len(cells) >= 5
    /\ Trim(cells[2]) # <<>> /\ Trim(cells[3]) # <<>>
    /\ Trim(cells[5]) \in Current
    /\ Trim(cells[1]) \in DOMAIN ElementId
    /\ Trim(cells[3]) \in DataTypes

ElementOf(cells) ==
    [id |-> ElementId[Trim(cells[1])],
     name |-> Trim(cells[2]),
     data_type |-> Trim(cells[3]),
     semantic |-> IF Trim(cells[4]) \in Semantics THEN Trim(cells[4]) ELSE <<>>]

SelectRow ==
    /\ stage = "select" /\ at <= Len(rows)
    /\ elements' = IF Selected(rows[at]) THEN Append(elements, ElementOf(rows[at])) ELSE elements
    /\ at' = at + 1
    /\ UNCHANGED <<csvVars, stage, registry, constants, seen_names, lookupVars>>

\* Mutant: sort_unstable_by_key, which may reorder rows of the same id.
SortedUnstably(order) ==
    \A i, j \in DOMAIN elements : i < j => elements[order[i]].id <= elements[order[j]].id

\* sort_by_key is stable.
SortedBy(order) ==
    \A i, j \in DOMAIN elements :
        i < j => \/ elements[order[i]].id < elements[order[j]].id
                 \/ elements[order[i]].id = elements[order[j]].id /\ order[i] < order[j]

Sort ==
    /\ stage = "select" /\ at > Len(rows)
    /\ \E order \in Bijection(DOMAIN elements, DOMAIN elements) :
           /\ SortedBy(order)
           /\ elements' = [i \in DOMAIN elements |-> elements[order[i]]]
    /\ stage' = "dedup"
    /\ at' = 1
    /\ UNCHANGED <<csvVars, registry, constants, seen_names, lookupVars>>

\* Mutant: every element is kept.
KeepDuplicate(element) == TRUE

\* dedup_by_key drops an element with the id of the one kept before it.
Keep(element) == registry = <<>> \/ registry[Len(registry)].id # element.id

DedupElement ==
    /\ stage = "dedup" /\ at <= Len(elements)
    /\ registry' = IF Keep(elements[at]) THEN Append(registry, elements[at]) ELSE registry
    /\ at' = at + 1
    /\ UNCHANGED <<csvVars, stage, elements, constants, seen_names, lookupVars>>

FinishDedup ==
    /\ stage = "dedup" /\ at > Len(elements)
    /\ stage' = "constants"
    /\ at' = 1
    /\ UNCHANGED <<csvVars, elements, registry, constants, seen_names, lookupVars>>

\* heck's to_shouty_snake_case, with IPv4 and IPv6 each a single word.
ShoutyName(name) == [i \in DOMAIN name |-> Upper[name[i]]]

\* Mutant: the name is used whether it has been seen or not.
PlainConstantName(element) == ShoutyName(element.name)

\* A name already given is told apart by the element's number.
ConstantName(element) ==
    IF ShoutyName(element.name) \in seen_names
    THEN Append(ShoutyName(element.name), NumberWord[element.id])
    ELSE ShoutyName(element.name)

WriteConstant ==
    /\ stage = "constants" /\ at <= Len(registry)
    /\ constants' = Append(constants, ConstantName(registry[at]))
    /\ seen_names' = seen_names \cup {ShoutyName(registry[at].name)}
    /\ at' = at + 1
    /\ UNCHANGED <<csvVars, stage, elements, registry, lookupVars>>

FinishBuild ==
    /\ stage = "constants" /\ at > Len(registry)
    /\ stage' = "ready"
    /\ UNCHANGED <<csvVars, at, elements, registry, constants, seen_names, lookupVars>>

-----------------------------------------------------------------------------
(* src/ie/mod.rs.                                                          *)

\* Mutant: the search is given the length the table had before dedup.
LookupInOldLength(id, enterprise) ==
    /\ stage \in {"ready", "answered"}
    /\ asked' = [information_element_id |-> id, enterprise |-> enterprise]
    /\ answer' = 0
    /\ low' = 1
    /\ high' = IF enterprise THEN 0 ELSE Len(elements)
    /\ stage' = IF enterprise THEN "answered" ELSE "search"
    /\ UNCHANGED <<csvVars, at, elements, registry, constants, seen_names>>

\* Mutant: lookup_field looks up the bare id.
AskForAnyField(id, enterprise) ==
    /\ stage \in {"ready", "answered"}
    /\ asked' = [information_element_id |-> id, enterprise |-> enterprise]
    /\ answer' = 0
    /\ low' = 1
    /\ high' = Len(registry)
    /\ stage' = "search"
    /\ UNCHANGED <<csvVars, at, elements, registry, constants, seen_names>>

\* lookup_field knows no enterprise-specific field; lookup is the same with a bare id.
LookupField(id, enterprise) ==
    /\ stage \in {"ready", "answered"}
    /\ asked' = [information_element_id |-> id, enterprise |-> enterprise]
    /\ answer' = 0
    /\ low' = 1
    /\ high' = IF enterprise THEN 0 ELSE Len(registry)
    /\ stage' = IF enterprise THEN "answered" ELSE "search"
    /\ UNCHANGED <<csvVars, at, elements, registry, constants, seen_names>>

\* binary_search_by_key: the standard library does not say which element of
\* the rest it compares next.
Probe ==
    /\ stage = "search" /\ low <= high
    /\ \E mid \in low..high :
           LET id == registry[mid].id
           IN  \/ /\ id = asked.information_element_id
                  /\ answer' = mid
                  /\ stage' = "answered"
                  /\ UNCHANGED <<low, high>>
               \/ /\ id < asked.information_element_id
                  /\ low' = mid + 1
                  /\ UNCHANGED <<stage, high, answer>>
               \/ /\ id > asked.information_element_id
                  /\ high' = mid - 1
                  /\ UNCHANGED <<stage, low, answer>>
    /\ UNCHANGED <<csvVars, at, elements, registry, constants, seen_names, asked>>

NotFound ==
    /\ stage = "search" /\ low > high
    /\ stage' = "answered"
    /\ UNCHANGED <<csvVars, at, elements, registry, constants, seen_names, lookupVars>>

Build ==
    Parse \/ SelectRow \/ Sort \/ DedupElement \/ FinishDedup \/ WriteConstant \/ FinishBuild

IENext ==
    \/ Build
    \/ \E id \in Probes, enterprise \in BOOLEAN : LookupField(id, enterprise)
    \/ Probe
    \/ NotFound

IESpec == IEInit /\ [][IENext]_ieVars

-----------------------------------------------------------------------------
IsTable(table) == table \in Seq(Range(table))
Element(element) == DOMAIN element = {"id", "name", "data_type", "semantic"} /\ element.id \in Ids

\* The loops stay inside what they run over; elements have an id.
IETypeOK ==
    /\ stage \in {"parse", "select", "dedup", "constants", "ready", "search", "answered"}
    /\ at \in Nat \ {0}
    /\ IsTable(elements) /\ \A i \in DOMAIN elements : Element(elements[i])
    /\ IsTable(registry) /\ \A i \in DOMAIN registry : Element(registry[i])
    /\ asked \in [information_element_id : Ids, enterprise : BOOLEAN]
    /\ low \in Nat \ {0} /\ high \in 0..Len(registry) /\ answer \in 0..Len(registry)

\* What a binary search needs of the table that is generated for it: ids go
\* up, none twice (src/ie/mod.rs 152-157, the test of that name).
RegistryIsSorted ==
    \A i, j \in DOMAIN registry : i < j => registry[i].id < registry[j].id

\* The search's answer is the element with that id, wherever it is; it answers
\* None for enterprise-specific fields (src/ie/mod.rs 122-138, 199-213).
SearchIsExact ==
    stage = "answered" =>
        IF answer = 0
        THEN \/ asked.enterprise
             \/ \A i \in DOMAIN registry : registry[i].id # asked.information_element_id
        ELSE /\ ~asked.enterprise
             /\ registry[answer].id = asked.information_element_id

\* The rows of the table that describe the element.
RowsFor(id) == {k \in 2..Len(rows) : Selected(rows[k]) /\ ElementOf(rows[k]).id = id}

\* From the table to the answer: a lookup returns what the first usable row
\* with that number says, and None when no row has it (src/ie/mod.rs 119-120;
\* build.rs 27-68).
LookupFindsTheRow ==
    (stage = "answered" /\ ~asked.enterprise) =>
        LET candidates == RowsFor(asked.information_element_id)
        IN  IF candidates = {} THEN answer = 0
            ELSE \E k \in candidates :
                     /\ \A other \in candidates : k <= other
                     /\ answer # 0 /\ registry[answer] = ElementOf(rows[k])

\* The generated module ie::id compiles: no two constants have one name, even
\* where two elements' names differ in their spelling only (build.rs 122-126,
\* "to keep the module compiling").
ConstantsAreDistinct == IsInjective(constants)
=============================================================================
