-------------------------- MODULE IERegistryProofs --------------------------
(***************************************************************************)
(* The reader of the IANA table returns the rows and fields of its file,   *)
(* the table generated from them is sorted and the binary search over it   *)
(* exact, a lookup returns what the first usable row of the file says, and *)
(* the constants have names of their own: whatever the file, and whichever *)
(* element the search looks at next.                                       *)
(***************************************************************************)
EXTENDS IERegistry, Induction, FiniteSetTheorems, SequenceTheorems, TLAPS

\* Rows in order of their ids, some perhaps twice.
SortedElements ==
    stage = "dedup" => \A i, j \in DOMAIN elements : i < j => elements[i].id <= elements[j].id

\* What dedup has kept comes before what it has still to look at.
KeptFirst ==
    stage = "dedup" =>
        \A i \in DOMAIN registry, j \in DOMAIN elements :
            j >= at => registry[i].id <= elements[j].id

NothingKeptYet == stage \in {"parse", "select"} => registry = <<>>

\* The search has not yet passed by what it looks for.
StillAhead ==
    stage = "search" =>
        /\ ~asked.enterprise /\ answer = 0
        /\ \A i \in DOMAIN registry :
               registry[i].id = asked.information_element_id => low <= i /\ i <= high

RegistryInv ==
    /\ IETypeOK
    /\ NothingKeptYet
    /\ SortedElements
    /\ KeptFirst
    /\ RegistryIsSorted
    /\ StillAhead
    /\ SearchIsExact

-----------------------------------------------------------------------------
\* A table is a sequence of whatever it contains; one more element.
LEMMA LongerTable ==
    ASSUME NEW table, IsTable(table), NEW element
    PROVE  /\ IsTable(Append(table, element))
           /\ Len(table) \in Nat /\ DOMAIN table = 1..Len(table)
           /\ Len(Append(table, element)) = Len(table) + 1
           /\ DOMAIN Append(table, element) = 1..(Len(table) + 1)
           /\ \A i \in 1..Len(table) : Append(table, element)[i] = table[i]
           /\ Append(table, element)[Len(table) + 1] = element
<1> DEFINE S == Range(table) \cup {element}
           longer == Append(table, element)
<1>1. table \in Seq(S)
    BY SeqMonotonic DEF IsTable
<1>2. longer \in Seq(S)
    BY <1>1, AppendProperties
<1>3. longer \in Seq(Range(longer))
    BY <1>2, SeqOfRange
<1>4. /\ Len(longer) = Len(table) + 1
      /\ \A i \in 1..Len(table) : longer[i] = table[i]
      /\ longer[Len(table) + 1] = element
    BY <1>1, AppendProperties
<1>5. Len(table) \in Nat /\ DOMAIN table = 1..Len(table) /\ DOMAIN longer = 1..Len(longer)
    BY <1>1, <1>2, LenProperties
<1> QED
    BY <1>3, <1>4, <1>5 DEF IsTable

LEMMA TableLength ==
    ASSUME NEW table, IsTable(table)
    PROVE  Len(table) \in Nat /\ DOMAIN table = 1..Len(table)
BY LenProperties DEF IsTable

LEMMA IdsAreNumbers == Ids \subseteq Int
BY DEF Ids

LEMMA InitRegistryInv == IEInit => RegistryInv
<1> SUFFICES ASSUME IEInit PROVE RegistryInv
    OBVIOUS
<1>1. IsTable(<<>>) /\ DOMAIN <<>> = {} /\ Len(<<>>) = 0
    BY EmptySeq DEF IsTable
<1> QED
    BY <1>1 DEF IEInit, RegistryInv, IETypeOK, NothingKeptYet, SortedElements, KeptFirst,
                RegistryIsSorted, StillAhead, SearchIsExact, Ids

\* parse_csv touches nothing of the registry.
LEMMA ParseInv == RegistryInv /\ Parse => RegistryInv'
BY DEF RegistryInv, Parse, lookupVars, IETypeOK, NothingKeptYet, SortedElements, KeptFirst,
       RegistryIsSorted, StillAhead, SearchIsExact, Element

LEMMA SelectRowInv == RegistryInv /\ SelectRow => RegistryInv'
<1> SUFFICES ASSUME RegistryInv, SelectRow PROVE RegistryInv'
    OBVIOUS
<1> USE DEF RegistryInv, SelectRow, lookupVars
<1>1. /\ IsTable(elements')
      /\ \A i \in DOMAIN elements' : Element(elements'[i])
    <2>1. CASE ~Selected(rows[at])
        <3>1. elements' = elements
            BY <2>1
        <3> QED
            BY <3>1 DEF IETypeOK
    <2>2. CASE Selected(rows[at])
        <3>1. Element(ElementOf(rows[at]))
            BY <2>2, IdAssumption DEF Selected, ElementOf, Element, IdAssumption
        <3> DEFINE element == ElementOf(rows[at])
        <3> HIDE DEF element
        <3>2. elements' = Append(elements, element) /\ IsTable(elements)
            BY <2>2 DEF IETypeOK, element
        <3>3. \A i \in 1..Len(elements) : Element(elements[i])
            BY <3>2, LongerTable DEF IETypeOK
        <3>4. \A i \in 1..(Len(elements) + 1) : i \in 1..Len(elements) \/ i = Len(elements) + 1
            BY <3>2, LongerTable
        <3> QED
            BY <3>1, <3>2, <3>3, <3>4, LongerTable DEF element
    <2> QED
        BY <2>1, <2>2
<1>2. at' \in Nat \ {0}
    BY DEF IETypeOK
<1> QED
    BY <1>1, <1>2 DEF IETypeOK, NothingKeptYet, SortedElements, KeptFirst,
                      RegistryIsSorted, StillAhead, SearchIsExact

LEMMA SortInv == RegistryInv /\ Sort => RegistryInv'
<1> SUFFICES ASSUME RegistryInv, Sort PROVE RegistryInv'
    OBVIOUS
<1> USE DEF RegistryInv, lookupVars
<1>1. PICK order \in Bijection(DOMAIN elements, DOMAIN elements) :
          /\ SortedBy(order)
          /\ elements' = [i \in DOMAIN elements |-> elements[order[i]]]
    BY DEF Sort
<1>2. order \in [DOMAIN elements -> DOMAIN elements]
    BY DEF Bijection, Injection
<1>3. IsTable(elements) /\ DOMAIN elements = 1..Len(elements) /\ Len(elements) \in Nat
    BY TableLength DEF IETypeOK
<1>4. \A i \in DOMAIN elements' : Element(elements'[i])
    BY <1>1, <1>2 DEF IETypeOK
<1>5. IsTable(elements')
    <2>1. elements' \in [1..Len(elements) -> Range(elements)]
        BY <1>1, <1>2, <1>3 DEF Range
    <2>2. elements' \in Seq(Range(elements))
        BY <2>1, <1>3, IsASeq
    <2> QED
        BY <2>2, SeqOfRange DEF IsTable
<1>6. SortedElements'
    <2> SUFFICES ASSUME NEW i \in DOMAIN elements, NEW j \in DOMAIN elements, i < j
                 PROVE  elements[order[i]].id <= elements[order[j]].id
        BY <1>1 DEF SortedElements
    <2>1. elements[order[i]].id \in Int /\ elements[order[j]].id \in Int
        BY <1>2, IdsAreNumbers DEF IETypeOK, Element
    <2>2. \/ elements[order[i]].id < elements[order[j]].id
          \/ elements[order[i]].id = elements[order[j]].id
        BY <1>1 DEF SortedBy
    <2> QED
        BY <2>1, <2>2
<1>7. registry' = <<>> /\ DOMAIN registry' = {} /\ stage' = "dedup" /\ at' = 1
    BY DEF Sort, NothingKeptYet
<1> QED
    BY <1>4, <1>5, <1>6, <1>7 DEF Sort, IETypeOK, NothingKeptYet, KeptFirst,
                      RegistryIsSorted, StillAhead, SearchIsExact

\* What dedup keeps comes after all it has kept.
LEMMA KeptIsLess ==
    ASSUME RegistryInv, DedupElement, Keep(elements[at])
    PROVE  \A i \in 1..Len(registry) : registry[i].id < elements[at].id
<1> DEFINE n == Len(registry)
           element == elements[at]
<1>1. /\ at \in DOMAIN elements /\ at \in Nat /\ stage = "dedup"
      /\ \A i \in DOMAIN elements : elements[i].id \in Int
    <2>1. DOMAIN elements = 1..Len(elements) /\ Len(elements) \in Nat
        BY TableLength DEF RegistryInv, IETypeOK
    <2>2. \A i \in DOMAIN elements : elements[i].id \in Int
        BY IdsAreNumbers DEF RegistryInv, IETypeOK, Element
    <2> QED
        BY <2>1, <2>2 DEF RegistryInv, IETypeOK, DedupElement
<1>2. /\ IsTable(registry) /\ n \in Nat /\ DOMAIN registry = 1..n
      /\ \A i \in DOMAIN registry : registry[i].id \in Int
    BY TableLength, IdsAreNumbers DEF RegistryInv, IETypeOK, Element
<1> SUFFICES ASSUME NEW i \in 1..n PROVE registry[i].id < element.id
    OBVIOUS
<1>3. n \in 1..n /\ i <= n /\ i \in DOMAIN registry
    BY <1>2
<1>4. registry[n].id <= element.id
    BY <1>1, <1>2, <1>3 DEF RegistryInv, KeptFirst
<1>5. registry # <<>>
    BY <1>2, <1>3, EmptySeq
<1>6. registry[n].id # element.id
    BY <1>5 DEF Keep
<1>7. i < n => registry[i].id < registry[n].id
    BY <1>2, <1>3 DEF RegistryInv, RegistryIsSorted
<1>8. registry[i].id \in Int /\ registry[n].id \in Int /\ element.id \in Int
    BY <1>1, <1>2, <1>3
<1> HIDE DEF n, element
<1>9. i = n \/ i < n
    BY <1>3
<1> QED
    BY <1>4, <1>6, <1>7, <1>8, <1>9

LEMMA DedupElementInv == RegistryInv /\ DedupElement => RegistryInv'
<1> SUFFICES ASSUME RegistryInv, DedupElement PROVE RegistryInv'
    OBVIOUS
<1> USE DEF RegistryInv, DedupElement, lookupVars
<1> DEFINE element == elements[at]
<1>1. /\ elements' = elements /\ stage' = "dedup" /\ stage = "dedup" /\ at' = at + 1
      /\ at \in 1..Len(elements) /\ at \in Nat /\ Len(elements) \in Nat
      /\ DOMAIN elements = 1..Len(elements)
    BY TableLength DEF IETypeOK
<1>2. Element(element) /\ element.id \in Int
    BY <1>1, IdsAreNumbers DEF IETypeOK, Element
<1>3. /\ IsTable(registry) /\ Len(registry) \in Nat
      /\ DOMAIN registry = 1..Len(registry)
      /\ \A i \in DOMAIN registry : Element(registry[i]) /\ registry[i].id \in Int
    BY TableLength, IdsAreNumbers DEF IETypeOK, Element
<1>4. \A i \in DOMAIN elements : elements[i].id \in Int
    BY IdsAreNumbers DEF IETypeOK, Element
<1>5. CASE ~Keep(element)
    <2>1. registry' = registry
        BY <1>5
    <2>2. KeptFirst'
        BY <2>1, <1>1 DEF KeptFirst
    <2> QED
        BY <2>1, <2>2, <1>1 DEF IETypeOK, NothingKeptYet, SortedElements,
                                RegistryIsSorted, StillAhead, SearchIsExact
<1>6. CASE Keep(element)
    <2> DEFINE n == Len(registry)
    <2>1. registry' = Append(registry, element)
        BY <1>6
    <2>2. /\ IsTable(registry') /\ Len(registry') = n + 1
          /\ DOMAIN registry' = 1..(n + 1) /\ registry'[n + 1] = element
          /\ \A i \in 1..n : registry'[i] = registry[i]
        BY <2>1, <1>3, LongerTable
    <2>3. \A i \in 1..(n + 1) : i \in 1..n \/ i = n + 1
        BY <1>3
    <2>4. \A i \in 1..n : registry[i].id < element.id
        BY <1>6, KeptIsLess
    <2>5. RegistryIsSorted'
        <3> SUFFICES ASSUME NEW i \in 1..(n + 1), NEW j \in 1..(n + 1), i < j
                     PROVE  registry'[i].id < registry'[j].id
            BY <2>2 DEF RegistryIsSorted
        <3>1. i \in 1..n
            BY <1>3
        <3>2. CASE j \in 1..n
            BY <3>1, <3>2, <2>2, <1>3 DEF RegistryIsSorted
        <3>3. CASE j = n + 1
            BY <3>1, <3>3, <2>2, <2>4
        <3> QED
            BY <3>2, <3>3, <2>3
    <2>6. KeptFirst'
        <3> SUFFICES ASSUME NEW i \in 1..(n + 1), NEW j \in 1..Len(elements), j >= at + 1
                     PROVE  registry'[i].id <= elements[j].id
            BY <1>1, <2>2 DEF KeptFirst
        <3>1. element.id <= elements[j].id
            BY <1>1 DEF SortedElements
        <3>2. CASE i \in 1..n
            <4>1. registry[i].id < element.id /\ registry[i].id \in Int /\ elements[j].id \in Int
                BY <3>2, <2>4, <1>3, <1>4, <1>1
            <4> QED
                BY <4>1, <3>1, <3>2, <2>2, <1>2
        <3>3. CASE i = n + 1
            BY <3>3, <3>1, <2>2
        <3> QED
            BY <3>2, <3>3, <2>3
    <2>7. \A i \in DOMAIN registry' : Element(registry'[i])
        BY <2>2, <2>3, <1>2, <1>3
    <2>8. high \in 0..Len(registry') /\ answer \in 0..Len(registry')
        BY <2>2, <1>3 DEF IETypeOK
    <2> QED
        BY <2>2, <2>5, <2>6, <2>7, <2>8, <1>1 DEF IETypeOK, NothingKeptYet, SortedElements,
                                                  StillAhead, SearchIsExact
<1> QED
    BY <1>5, <1>6

LEMMA FinishDedupInv == RegistryInv /\ FinishDedup => RegistryInv'
BY DEF RegistryInv, FinishDedup, lookupVars, IETypeOK, NothingKeptYet, SortedElements,
       KeptFirst, RegistryIsSorted, StillAhead, SearchIsExact, Element

LEMMA ConstantsInv == RegistryInv /\ (WriteConstant \/ FinishBuild) => RegistryInv'
BY DEF RegistryInv, WriteConstant, FinishBuild, lookupVars, IETypeOK, NothingKeptYet,
       SortedElements, KeptFirst, RegistryIsSorted, StillAhead, SearchIsExact, Element

LEMMA LookupInv ==
    ASSUME NEW id \in Probes, NEW enterprise \in BOOLEAN, RegistryInv, LookupField(id, enterprise)
    PROVE  RegistryInv'
<1> USE DEF RegistryInv, LookupField
<1>1. /\ asked' = [information_element_id |-> id, enterprise |-> enterprise]
      /\ asked' \in [information_element_id : Ids, enterprise : BOOLEAN]
    BY IdAssumption DEF IdAssumption
<1>2. /\ Len(registry) \in Nat /\ DOMAIN registry = 1..Len(registry)
      /\ registry' = registry /\ elements' = elements /\ at' = at
      /\ answer' = 0 /\ low' = 1 /\ high' = IF enterprise THEN 0 ELSE Len(registry)
      /\ stage' = IF enterprise THEN "answered" ELSE "search"
    BY TableLength DEF IETypeOK
<1>3. IETypeOK'
    BY <1>1, <1>2 DEF IETypeOK, Element
<1>4. StillAhead' /\ SearchIsExact'
    BY <1>1, <1>2 DEF StillAhead, SearchIsExact
<1> QED
    BY <1>2, <1>3, <1>4 DEF NothingKeptYet, SortedElements, KeptFirst, RegistryIsSorted

LEMMA ProbeInv == RegistryInv /\ Probe => RegistryInv'
<1> SUFFICES ASSUME RegistryInv, Probe PROVE RegistryInv'
    OBVIOUS
<1> USE DEF RegistryInv
<1> DEFINE wanted == asked.information_element_id
<1>1. /\ Len(registry) \in Nat /\ DOMAIN registry = 1..Len(registry)
      /\ registry' = registry /\ elements' = elements /\ at' = at /\ asked' = asked
      /\ stage = "search" /\ low \in Nat \ {0} /\ high \in 0..Len(registry)
      /\ wanted \in Int /\ answer = 0 /\ ~asked.enterprise
      /\ \A i \in DOMAIN registry : registry[i].id \in Int
    BY TableLength, IdsAreNumbers DEF Probe, IETypeOK, StillAhead, Element
<1>2. PICK mid \in low..high :
          \/ /\ registry[mid].id = wanted
             /\ answer' = mid /\ stage' = "answered"
             /\ UNCHANGED <<low, high>>
          \/ /\ registry[mid].id < wanted
             /\ low' = mid + 1
             /\ UNCHANGED <<stage, high, answer>>
          \/ /\ registry[mid].id > wanted
             /\ high' = mid - 1
             /\ UNCHANGED <<stage, low, answer>>
    BY DEF Probe
<1>3. mid \in 1..Len(registry) /\ mid \in Nat
    BY <1>1, <1>2
<1>4. \A i \in DOMAIN registry : registry[i].id = wanted => low <= i /\ i <= high
    BY <1>1 DEF StillAhead
<1>5. /\ registry[mid].id < wanted =>
             \A i \in DOMAIN registry : registry[i].id = wanted => mid + 1 <= i
      /\ registry[mid].id > wanted =>
             \A i \in DOMAIN registry : registry[i].id = wanted => i <= mid - 1
    BY <1>1, <1>3 DEF RegistryIsSorted
<1>6. IETypeOK'
    <2>1. stage' \in {"search", "answered"}
        BY <1>1, <1>2
    <2>2. /\ low' \in Nat \ {0} /\ high' \in 0..Len(registry)
          /\ answer' \in 0..Len(registry)
        BY <1>1, <1>2, <1>3
    <2> QED
        BY <1>1, <2>1, <2>2 DEF IETypeOK, Element
<1>7. StillAhead' /\ SearchIsExact'
    BY <1>1, <1>2, <1>3, <1>4, <1>5 DEF StillAhead, SearchIsExact
<1> QED
    BY <1>1, <1>2, <1>6, <1>7 DEF NothingKeptYet, SortedElements, KeptFirst, RegistryIsSorted

LEMMA NotFoundInv == RegistryInv /\ NotFound => RegistryInv'
<1> SUFFICES ASSUME RegistryInv, NotFound PROVE RegistryInv'
    OBVIOUS
<1> USE DEF RegistryInv, NotFound, lookupVars
<1>1. IETypeOK'
    BY DEF IETypeOK, Element
<1>2. low \in Int /\ high \in Int /\ DOMAIN registry = 1..Len(registry) /\ Len(registry) \in Nat
    BY TableLength DEF IETypeOK
<1>3. SearchIsExact' /\ StillAhead'
    BY <1>2 DEF StillAhead, SearchIsExact
<1> QED
    BY <1>1, <1>3 DEF NothingKeptYet, SortedElements, KeptFirst, RegistryIsSorted

LEMMA NextRegistryInv == RegistryInv /\ [IENext]_ieVars => RegistryInv'
<1> SUFFICES ASSUME RegistryInv, [IENext]_ieVars PROVE RegistryInv'
    OBVIOUS
<1>1. CASE Parse
    BY <1>1, ParseInv
<1>2. CASE SelectRow
    BY <1>2, SelectRowInv
<1>3. CASE Sort
    BY <1>3, SortInv
<1>4. CASE DedupElement
    BY <1>4, DedupElementInv
<1>5. CASE FinishDedup
    BY <1>5, FinishDedupInv
<1>6. CASE WriteConstant \/ FinishBuild
    BY <1>6, ConstantsInv
<1>7. CASE \E id \in Probes, enterprise \in BOOLEAN : LookupField(id, enterprise)
    BY <1>7, LookupInv
<1>8. CASE Probe
    BY <1>8, ProbeInv
<1>9. CASE NotFound
    BY <1>9, NotFoundInv
<1>10. CASE UNCHANGED ieVars
    BY <1>10 DEF ieVars, registryVars, lookupVars, RegistryInv, IETypeOK, NothingKeptYet,
                 SortedElements, KeptFirst, RegistryIsSorted, StillAhead, SearchIsExact, Element
<1> QED
    BY <1>1, <1>2, <1>3, <1>4, <1>5, <1>6, <1>7, <1>8, <1>9, <1>10 DEF IENext, Build

LEMMA RegistryInvariance == IESpec => []RegistryInv
BY InitRegistryInv, NextRegistryInv, PTL DEF IESpec

-----------------------------------------------------------------------------
(* From the rows to the table: the Vec of build.rs holds the usable rows   *)
(* in their order, a stable sort keeps rows of one id in it, and dedup     *)
(* keeps the first of them.                                                *)

\* What a file is made of, and what the reader makes of it.
Characters == Seq(DOMAIN Upper)

CellsAreText ==
    /\ text \in Characters /\ pos \in Nat \ {0}
    /\ field \in Characters /\ row \in Seq(Characters) /\ rows \in Seq(Seq(Characters))

\* The rows that have become elements.
RowsTaken == {k \in 2..Len(rows) : Selected(rows[k]) /\ (stage = "select" => k < at)}

\* The elements stand in the order of the rows they were made from.
MadeFrom(source) ==
    /\ source \in Seq(Nat) /\ Len(source) = Len(elements)
    /\ \A i \in 1..Len(source) : source[i] \in RowsTaken /\ elements[i] = ElementOf(rows[source[i]])
    /\ \A k \in RowsTaken : \E i \in 1..Len(source) : source[i] = k
    /\ \A i, j \in 1..Len(source) : i < j => source[i] < source[j]

InRowOrder ==
    /\ stage = "parse" => elements = <<>>
    /\ stage = "select" => at >= 2 /\ \E source : MadeFrom(source)

Sorted == stage \notin {"parse", "select"}

\* An element says what the first of the rows with its number says.
Described(element) ==
    \E k \in RowsFor(element.id) :
        element = ElementOf(rows[k]) /\ \A other \in RowsFor(element.id) : k <= other

FirstOfItsId(i) == \A j \in 1..(i - 1) : elements[j].id # elements[i].id

\* Sorting keeps rows of one number in order, so that the first element of
\* every number is the one dedup has to keep.
FirstComeFirst ==
    Sorted =>
        /\ \A i \in DOMAIN elements : FirstOfItsId(i) => Described(elements[i])
        /\ \A k \in 2..Len(rows) :
               Selected(rows[k]) => \E i \in DOMAIN elements : elements[i].id = ElementOf(rows[k]).id

\* What was kept is described, and no number that was passed is missing.
KeptIsDescribed ==
    /\ \A r \in DOMAIN registry : Described(registry[r])
    /\ Sorted =>
           \A i \in DOMAIN elements :
               (stage = "dedup" => i < at) => \E r \in DOMAIN registry : registry[r].id = elements[i].id

RowInv == CellsAreText /\ InRowOrder /\ FirstComeFirst /\ KeptIsDescribed

LEMMA ReadCellsAreText == CellsAreText /\ ReadCsv => CellsAreText'
<1> SUFFICES ASSUME CellsAreText, ReadCsv PROVE CellsAreText'
    OBVIOUS
<1>1. More => Char \in DOMAIN Upper
    <2> SUFFICES ASSUME More PROVE text[pos] \in DOMAIN Upper
        BY DEF Char
    <2>1. text \in Seq(DOMAIN Upper) /\ Len(text) \in Nat /\ pos \in 1..Len(text)
        BY LenProperties DEF CellsAreText, Characters, More
    <2> QED
        BY <2>1, ElementOfSeq
<1>2. /\ text' = text /\ pos' \in Nat \ {0}
    BY DEF CellsAreText, ReadCsv, QuoteInside, QuoteOutside, PushChar, EndField, EndRow, EndOfInput
<1>3. \/ field' = field
      \/ field' = <<>>
      \/ More /\ field' = Append(field, Char)
    <2>1. CASE QuoteInside
        BY <2>1 DEF QuoteInside
    <2>2. CASE QuoteOutside
        BY <2>2 DEF QuoteOutside
    <2>3. CASE PushChar
        BY <2>3 DEF PushChar
    <2>4. CASE EndField \/ EndRow \/ EndOfInput
        BY <2>4 DEF EndField, EndRow, EndOfInput
    <2> QED
        BY <2>1, <2>2, <2>3, <2>4 DEF ReadCsv
<1>4. row' \in {row, <<>>, Append(row, field)}
    BY DEF ReadCsv, QuoteInside, QuoteOutside, PushChar, EndField, EndRow, EndOfInput
<1>5. rows' \in {rows, Append(rows, Append(row, field))}
    BY DEF ReadCsv, QuoteInside, QuoteOutside, PushChar, EndField, EndRow, EndOfInput
<1>6. field' \in Characters
    <2>1. field \in Seq(DOMAIN Upper) /\ <<>> \in Seq(DOMAIN Upper)
        BY EmptySeq DEF CellsAreText, Characters
    <2>2. More => Append(field, Char) \in Seq(DOMAIN Upper)
        BY <1>1, <2>1, AppendProperties
    <2> QED
        BY <1>3, <2>1, <2>2 DEF Characters
<1>7. field \in Characters /\ row \in Seq(Characters) /\ rows \in Seq(Seq(Characters))
    BY DEF CellsAreText
<1>8. Append(row, field) \in Seq(Characters)
    BY <1>7, AppendProperties
<1>9. Append(rows, Append(row, field)) \in Seq(Seq(Characters))
    BY <1>7, <1>8, AppendProperties
<1>10. row' \in Seq(Characters) /\ rows' \in Seq(Seq(Characters))
    BY <1>4, <1>5, <1>7, <1>8, <1>9, EmptySeq
<1> QED
    BY <1>2, <1>6, <1>10 DEF CellsAreText

LEMMA StepCellsAreText == CellsAreText /\ [IENext]_ieVars => CellsAreText'
<1> SUFFICES ASSUME CellsAreText, [IENext]_ieVars PROVE CellsAreText'
    OBVIOUS
<1>1. CASE Parse
    BY <1>1, ReadCellsAreText DEF Parse
<1>2. CASE UNCHANGED csvVars
    BY <1>2 DEF csvVars, CellsAreText
<1>3. Parse \/ UNCHANGED csvVars
    BY DEF IENext, Build, SelectRow, Sort, DedupElement, FinishDedup, WriteConstant, FinishBuild,
           LookupField, Probe, NotFound, ieVars
<1> QED
    BY <1>1, <1>2, <1>3

LEMMA InitRowInv == IEInit => RowInv
<1> SUFFICES ASSUME IEInit PROVE RowInv
    OBVIOUS
<1>1. text \in Characters
    BY WordAssumption DEF IEInit, CsvInit, WordAssumption, Characters
<1>2. CellsAreText
    BY <1>1, EmptySeq DEF IEInit, CsvInit, CellsAreText, Characters
<1>3. DOMAIN registry = {}
    BY EmptySeq DEF IEInit
<1> QED
    BY <1>2, <1>3 DEF IEInit, RowInv, InRowOrder, FirstComeFirst, KeptIsDescribed, Sorted

LEMMA ParseRowInv == RegistryInv /\ RowInv /\ CellsAreText' /\ Parse => RowInv'
<1> SUFFICES ASSUME RegistryInv, RowInv, CellsAreText', Parse PROVE RowInv'
    OBVIOUS
<1>1. /\ stage = "parse" /\ elements' = <<>> /\ registry' = <<>>
      /\ stage' = "select" => at' = 2
      /\ stage' \in {"parse", "select"}
    BY DEF Parse, RowInv, InRowOrder, RegistryInv, NothingKeptYet
<1>2. ASSUME stage' = "select"
      PROVE  MadeFrom(<<>>)'
    <2>1. RowsTaken' = {}
        BY <1>1, <1>2 DEF RowsTaken
    <2>2. <<>> \in Seq(Nat) /\ Len(<<>>) = 0
        BY EmptySeq
    <2> QED
        BY <2>1, <2>2, <1>1 DEF MadeFrom
<1>3. InRowOrder'
    BY <1>1, <1>2 DEF InRowOrder
<1>4. DOMAIN registry' = {}
    BY <1>1, EmptySeq
<1> QED
    BY <1>1, <1>3, <1>4 DEF RowInv, FirstComeFirst, KeptIsDescribed, Sorted

LEMMA SelectRowRowInv == RegistryInv /\ RowInv /\ CellsAreText' /\ SelectRow => RowInv'
<1> SUFFICES ASSUME RegistryInv, RowInv, CellsAreText', SelectRow PROVE RowInv'
    OBVIOUS
<1>1. /\ stage = "select" /\ stage' = "select" /\ rows' = rows /\ registry' = <<>>
      /\ at >= 2 /\ at' = at + 1 /\ at \in Nat /\ at <= Len(rows) /\ Len(rows) \in Nat
    BY LenProperties
    DEF SelectRow, csvVars, RegistryInv, IETypeOK, NothingKeptYet, RowInv, InRowOrder, CellsAreText
<1>2. PICK source : MadeFrom(source)
    BY <1>1 DEF RowInv, InRowOrder
<1> DEFINE n == Len(source)
<1>3. /\ source \in Seq(Nat) /\ n = Len(elements) /\ n \in Nat
      /\ \A i \in 1..n : source[i] \in RowsTaken /\ elements[i] = ElementOf(rows[source[i]])
      /\ \A k \in RowsTaken : \E i \in 1..n : source[i] = k
      /\ \A i, j \in 1..n : i < j => source[i] < source[j]
    BY <1>2, LenProperties DEF MadeFrom
<1>4. \E source2 : MadeFrom(source2)'
    <2>1. CASE ~Selected(rows[at])
        <3>1. elements' = elements
            BY <2>1 DEF SelectRow
        <3>2. RowsTaken' = RowsTaken
            BY <1>1, <2>1 DEF RowsTaken
        <3>3. MadeFrom(source)'
            BY <3>1, <3>2, <1>1, <1>2 DEF MadeFrom
        <3> QED
            BY <3>3
    <2>2. CASE Selected(rows[at])
        <3> DEFINE element == ElementOf(rows[at])
        <3>0. PICK source2 : source2 = Append(source, at)
            OBVIOUS
        <3>1. elements' = Append(elements, element) /\ IsTable(elements)
            BY <2>2 DEF SelectRow, RegistryInv, IETypeOK
        <3>2. /\ Len(elements') = n + 1 /\ elements'[n + 1] = element
              /\ \A i \in 1..n : elements'[i] = elements[i]
            BY <3>1, <1>3, LongerTable
        <3>3. /\ source2 \in Seq(Nat) /\ Len(source2) = n + 1 /\ source2[n + 1] = at
              /\ \A i \in 1..n : source2[i] = source[i]
            BY <3>0, <1>1, <1>3, AppendProperties
        <3>4. RowsTaken' = RowsTaken \cup {at} /\ \A k \in RowsTaken : k \in Nat /\ k < at
            BY <1>1, <2>2 DEF RowsTaken
        <3>5. \A i \in 1..(n + 1) : i \in 1..n \/ i = n + 1
            BY <1>3
        <3>6. n + 1 \in 1..(n + 1) /\ 1..n \subseteq 1..(n + 1)
            BY <1>3
        <3> HIDE DEF element, n
        <3>7. ASSUME NEW i \in 1..(n + 1)
              PROVE  source2[i] \in RowsTaken' /\ elements'[i] = ElementOf(rows[source2[i]])
            BY <3>2, <3>3, <3>4, <3>5, <3>7, <1>3 DEF element
        <3>8. \A k \in RowsTaken' : \E i \in 1..(n + 1) : source2[i] = k
            BY <3>3, <3>4, <3>6, <1>3
        <3>9. ASSUME NEW i \in 1..(n + 1), NEW j \in 1..(n + 1), i < j
              PROVE  source2[i] < source2[j]
            <4>1. i \in 1..n
                BY <3>9, <1>3
            <4>2. CASE j \in 1..n
                BY <3>3, <3>9, <4>1, <4>2, <1>3
            <4>3. CASE j = n + 1
                BY <3>3, <3>4, <4>1, <4>3, <1>3
            <4> QED
                BY <4>2, <4>3, <3>5, <3>9
        <3>10. MadeFrom(source2)'
            <4>1. \A i \in 1..(n + 1) :
                      source2[i] \in RowsTaken' /\ elements'[i] = ElementOf(rows'[source2[i]])
                BY <3>7, <1>1
            <4>2. \A i, j \in 1..(n + 1) : i < j => source2[i] < source2[j]
                BY <3>9
            <4> QED
                BY <3>2, <3>3, <3>8, <4>1, <4>2, Zenon DEF MadeFrom
        <3> QED
            BY <3>10
    <2> QED
        BY <2>1, <2>2
<1>5. InRowOrder'
    BY <1>1, <1>4 DEF InRowOrder
<1>6. DOMAIN registry' = {}
    BY <1>1, EmptySeq
<1> QED
    BY <1>1, <1>5, <1>6 DEF RowInv, FirstComeFirst, KeptIsDescribed, Sorted

LEMMA SortRowInv == RegistryInv /\ RowInv /\ CellsAreText' /\ Sort => RowInv'
<1> SUFFICES ASSUME RegistryInv, RowInv, CellsAreText', Sort PROVE RowInv'
    OBVIOUS
<1>1. /\ stage = "select" /\ stage' = "dedup" /\ rows' = rows /\ registry' = <<>> /\ at' = 1
      /\ at > Len(rows) /\ at \in Nat /\ Len(rows) \in Nat
    BY LenProperties
    DEF Sort, csvVars, RegistryInv, IETypeOK, NothingKeptYet, RowInv, InRowOrder, CellsAreText
<1>2. PICK source : MadeFrom(source)
    BY <1>1 DEF RowInv, InRowOrder
<1>3. PICK order \in Bijection(DOMAIN elements, DOMAIN elements) :
          /\ SortedBy(order)
          /\ elements' = [i \in DOMAIN elements |-> elements[order[i]]]
    BY DEF Sort
<1> DEFINE D == DOMAIN elements
<1>4. D = 1..Len(elements) /\ Len(elements) \in Nat
    BY TableLength DEF RegistryInv, IETypeOK
<1>5. /\ order \in [D -> D]
      /\ \A m \in D : \E i \in D : order[i] = m
    BY DEF Bijection, Injection, Surjection
<1>6. /\ \A m \in D : source[m] \in RowsTaken /\ elements[m] = ElementOf(rows[source[m]])
      /\ \A k \in RowsTaken : \E m \in D : source[m] = k
      /\ \A i, j \in D : i < j => source[i] < source[j]
    BY <1>2, <1>4 DEF MadeFrom
<1>7. RowsTaken = {k \in 2..Len(rows) : Selected(rows[k])}
    BY <1>1 DEF RowsTaken
<1>8. /\ DOMAIN elements' = D
      /\ \A i \in D : elements'[i] = ElementOf(rows[source[order[i]]]) /\ order[i] \in D
    BY <1>3, <1>5, <1>6
<1>9. \A m \in D : elements[m].id \in Int
    BY IdsAreNumbers DEF RegistryInv, IETypeOK, Element
<1>10. ASSUME NEW k \in RowsTaken
       PROVE  \E i \in D : source[order[i]] = k
    BY <1>10, <1>5, <1>6
<1>11. ASSUME NEW i \in D, FirstOfItsId(i)'
       PROVE  Described(elements'[i])
    <2> DEFINE k == source[order[i]]
               id == elements'[i].id
    <2>1. k \in RowsFor(id) /\ elements'[i] = ElementOf(rows[k])
        BY <1>11, <1>6, <1>7, <1>8 DEF RowsFor
    <2>2. ASSUME NEW other \in RowsFor(id)
          PROVE  k <= other
        <3>1. other \in RowsTaken /\ ElementOf(rows[other]).id = id /\ other \in Int /\ k \in Int
            BY <2>1, <2>2, <1>7 DEF RowsFor
        <3>2. PICK j \in D : source[order[j]] = other
            BY <3>1, <1>10
        <3>3. elements'[j].id = id
            BY <3>1, <3>2, <1>8
        <3>4. i \in Nat /\ j \in Nat /\ j >= 1
            BY <1>4, <1>11, <3>2
        <3>5. ~(j < i)
            <4>1. j < i => j \in 1..(i - 1)
                BY <3>4
            <4>2. \A l \in 1..(i - 1) : elements'[l].id # elements'[i].id
                BY <1>11 DEF FirstOfItsId
            <4> QED
                BY <4>1, <4>2, <3>3
        <3>6. CASE j = i
            BY <3>6, <3>1, <3>2
        <3>7. CASE i < j
            <4>1. \/ elements[order[i]].id < elements[order[j]].id
                  \/ order[i] < order[j]
                BY <3>7, <3>2, <1>3, <1>11 DEF SortedBy
            <4>2. elements[order[i]].id = id /\ elements[order[j]].id = id
                BY <3>2, <3>3, <1>3, <1>11
            <4>3. id \in Int
                BY <4>2, <1>9, <1>8, <1>11
            <4> HIDE DEF id
            <4>4. order[i] < order[j]
                BY <4>1, <4>2, <4>3
            <4>5. k < other
                BY <4>4, <3>2, <1>6, <1>8, <1>11
            <4> HIDE DEF k
            <4> QED
                BY <4>5, <3>1
        <3> HIDE DEF k, id, D
        <3> QED
            BY <3>4, <3>5, <3>6, <3>7
    <2> HIDE DEF k
    <2>3. Described(elements'[i])
        BY <2>1, <2>2 DEF Described
    <2> QED
        BY <2>3
<1>12. ASSUME NEW k \in 2..Len(rows), Selected(rows[k])
       PROVE  \E i \in D : elements'[i].id = ElementOf(rows[k]).id
    <2>1. k \in RowsTaken
        BY <1>7, <1>12
    <2>2. PICK i \in D : source[order[i]] = k
        BY <1>10, <2>1
    <2> QED
        BY <2>2, <1>8
<1>13. FirstComeFirst'
    <2>1. ASSUME NEW i \in D, FirstOfItsId(i)'
          PROVE  Described(elements[i])'
        <3>1. Described(elements'[i])
            BY <2>1, <1>11
        <3> QED
            BY <3>1, <1>1, Zenon DEF Described, RowsFor
    <2>2. \A i \in DOMAIN elements' : FirstOfItsId(i)' => Described(elements[i])'
        BY <2>1, <1>8
    <2>3. \A k \in 2..Len(rows') :
              Selected(rows'[k]) => \E i \in DOMAIN elements' : elements'[i].id = ElementOf(rows'[k]).id
        BY <1>1, <1>8, <1>12
    <2> QED
        BY <2>2, <2>3, Zenon DEF FirstComeFirst
<1>14. DOMAIN registry' = {} /\ \A i \in D : ~(i < 1)
    BY <1>1, <1>4, EmptySeq
<1>15. KeptIsDescribed'
    BY <1>1, <1>8, <1>14 DEF KeptIsDescribed
<1> QED
    BY <1>1, <1>13, <1>15 DEF RowInv, InRowOrder

LEMMA DedupElementRowInv == RegistryInv /\ RowInv /\ CellsAreText' /\ DedupElement => RowInv'
<1> SUFFICES ASSUME RegistryInv, RowInv, CellsAreText', DedupElement PROVE RowInv'
    OBVIOUS
<1> DEFINE element == elements[at]
           n == Len(registry)
<1>1. /\ stage = "dedup" /\ stage' = "dedup" /\ rows' = rows /\ elements' = elements
      /\ at' = at + 1 /\ at \in Nat /\ at \in DOMAIN elements
      /\ DOMAIN elements = 1..Len(elements)
      /\ \A i \in DOMAIN elements : i \in Nat /\ i > 0 /\ elements[i].id \in Int
    <2>1. DOMAIN elements = 1..Len(elements) /\ Len(elements) \in Nat
        BY TableLength DEF RegistryInv, IETypeOK
    <2>2. \A i \in DOMAIN elements : elements[i].id \in Int
        BY IdsAreNumbers DEF RegistryInv, IETypeOK, Element
    <2> QED
        BY <2>1, <2>2 DEF RegistryInv, IETypeOK, DedupElement, csvVars
<1>2. IsTable(registry) /\ n \in Nat /\ DOMAIN registry = 1..n
    BY TableLength DEF RegistryInv, IETypeOK
<1>3. \A other : Described(other)' <=> Described(other)
    BY <1>1 DEF Described, RowsFor
<1>4. /\ \A r \in 1..n : Described(registry[r])
      /\ \A i \in DOMAIN elements : i < at => \E r \in 1..n : registry[r].id = elements[i].id
    BY <1>1, <1>2 DEF RowInv, KeptIsDescribed, Sorted
<1>5. FirstComeFirst /\ FirstComeFirst' /\ InRowOrder'
    <2>1. \A i : FirstOfItsId(i)' <=> FirstOfItsId(i)
        BY <1>1 DEF FirstOfItsId
    <2> QED
        BY <1>1, <1>3, <2>1 DEF RowInv, InRowOrder, FirstComeFirst, Sorted
<1>6. CASE ~Keep(element)
    <2>1. registry' = registry /\ registry # <<>> /\ registry[n].id = element.id
        BY <1>6 DEF Keep, DedupElement
    <2>2. n \in 1..n
        <3>1. n # 0
            BY <2>1, <1>2, EmptySeq DEF IsTable
        <3> QED
            BY <3>1, <1>2
    <2>3. ASSUME NEW i \in DOMAIN elements, i < at + 1
          PROVE  \E r \in 1..n : registry[r].id = elements[i].id
        <3>1. i < at \/ i = at
            BY <2>3, <1>1
        <3> QED
            BY <3>1, <2>1, <2>2, <1>4
    <2> QED
        BY <2>1, <2>3, <1>1, <1>2, <1>3, <1>4, <1>5 DEF RowInv, KeptIsDescribed
<1>7. CASE Keep(element)
    <2>1. registry' = Append(registry, element)
        BY <1>7 DEF DedupElement
    <2>2. /\ DOMAIN registry' = 1..(n + 1) /\ registry'[n + 1] = element
          /\ \A r \in 1..n : registry'[r] = registry[r]
    BY <2>1, <1>2, LongerTable
    <2>3. /\ \A r \in 1..(n + 1) : r \in 1..n \/ r = n + 1
          /\ n + 1 \in 1..(n + 1) /\ 1..n \subseteq 1..(n + 1)
        BY <1>2
    <2>4. \A r \in 1..n : registry[r].id < element.id
        BY <1>7, KeptIsLess
    <2>5. Described(element)
        <3>1. ASSUME NEW j \in 1..(at - 1)
              PROVE  elements[j].id # element.id
            <4>1. j \in DOMAIN elements /\ j < at
                BY <3>1, <1>1
            <4>2. PICK r \in 1..n : registry[r].id = elements[j].id
                BY <4>1, <1>4
            <4>3. elements[j].id < element.id /\ elements[j].id \in Int
                BY <4>1, <4>2, <2>4, <1>1
            <4> QED
                BY <4>3
        <3>2. FirstOfItsId(at)
            BY <3>1 DEF FirstOfItsId
        <3> QED
            BY <3>2, <1>1, <1>5 DEF FirstComeFirst, Sorted
    <2>6. \A r \in 1..(n + 1) : Described(registry'[r])
        BY <2>2, <2>3, <2>5, <1>4
    <2>7. ASSUME NEW i \in DOMAIN elements, i < at + 1
          PROVE  \E r \in 1..(n + 1) : registry'[r].id = elements[i].id
        <3>1. CASE i < at
            BY <3>1, <2>2, <2>3, <2>7, <1>4
        <3>2. CASE i = at
            BY <3>2, <2>2, <2>3
        <3> QED
            BY <3>1, <3>2, <2>7, <1>1
    <2> QED
        BY <2>2, <2>6, <2>7, <1>1, <1>3, <1>5 DEF RowInv, KeptIsDescribed
<1> QED
    BY <1>6, <1>7

\* Nothing that follows dedup moves the elements or the table.
LEMMA TablesStayRowInv ==
    ASSUME RegistryInv, RowInv, CellsAreText', UNCHANGED <<rows, elements, registry>>,
           Sorted, stage = "dedup" => at > Len(elements), Sorted', stage' # "dedup"
    PROVE  RowInv'
<1>1. \A other : Described(other)' <=> Described(other)
    BY DEF Described, RowsFor
<1>2. \A i : FirstOfItsId(i)' <=> FirstOfItsId(i)
    BY DEF FirstOfItsId
<1>3. FirstComeFirst' /\ InRowOrder'
    BY <1>1, <1>2 DEF RowInv, InRowOrder, FirstComeFirst, Sorted
<1>4. \A i \in DOMAIN elements : stage = "dedup" => i < at
    BY TableLength DEF RegistryInv, IETypeOK
<1>5. KeptIsDescribed'
    BY <1>1, <1>4 DEF RowInv, KeptIsDescribed
<1> QED
    BY <1>3, <1>5 DEF RowInv

LEMMA NextRowInv == RegistryInv /\ RowInv /\ [IENext]_ieVars => RowInv'
<1> SUFFICES ASSUME RegistryInv, RowInv, [IENext]_ieVars PROVE RowInv'
    OBVIOUS
<1>1. CellsAreText'
    BY StepCellsAreText DEF RowInv
<1>2. CASE Parse
    BY <1>1, <1>2, ParseRowInv
<1>3. CASE SelectRow
    BY <1>1, <1>3, SelectRowRowInv
<1>4. CASE Sort
    BY <1>1, <1>4, SortRowInv
<1>5. CASE DedupElement
    BY <1>1, <1>5, DedupElementRowInv
<1>6. CASE \/ FinishDedup \/ WriteConstant \/ FinishBuild \/ Probe \/ NotFound
           \/ \E id \in Probes, enterprise \in BOOLEAN : LookupField(id, enterprise)
    <2>1. /\ UNCHANGED <<rows, elements, registry>>
          /\ Sorted /\ Sorted' /\ stage' # "dedup"
          /\ stage = "dedup" => at > Len(elements)
        BY <1>6 DEF FinishDedup, WriteConstant, FinishBuild, Probe, NotFound, LookupField,
                    csvVars, Sorted
    <2> QED
        BY <1>1, <2>1, TablesStayRowInv
<1>7. CASE UNCHANGED ieVars
    <2>1. UNCHANGED <<rows, elements, registry, stage, at>>
        BY <1>7 DEF ieVars, csvVars, registryVars
    <2>2. \A other : Described(other)' <=> Described(other)
        BY <2>1 DEF Described, RowsFor
    <2>3. \A i : FirstOfItsId(i)' <=> FirstOfItsId(i)
        BY <2>1 DEF FirstOfItsId
    <2>4. \A source : MadeFrom(source)' <=> MadeFrom(source)
        BY <2>1 DEF MadeFrom, RowsTaken
    <2>5. InRowOrder'
        BY <2>1, <2>4 DEF RowInv, InRowOrder
    <2>6. FirstComeFirst' /\ KeptIsDescribed'
        BY <2>1, <2>2, <2>3 DEF RowInv, FirstComeFirst, KeptIsDescribed, Sorted
    <2> QED
        BY <1>1, <2>5, <2>6 DEF RowInv
<1> QED
    BY <1>2, <1>3, <1>4, <1>5, <1>6, <1>7 DEF IENext, Build

LEMMA RowInvariance == IESpec => [](RegistryInv /\ RowInv)
<1>1. IEInit => RegistryInv /\ RowInv
    BY InitRegistryInv, InitRowInv
<1>2. RegistryInv /\ RowInv /\ [IENext]_ieVars => (RegistryInv /\ RowInv)'
    BY NextRegistryInv, NextRowInv
<1> QED
    BY <1>1, <1>2, PTL DEF IESpec

LEMMA AnswerIsTheRow == RegistryInv /\ RowInv => LookupFindsTheRow
<1> SUFFICES ASSUME RegistryInv, RowInv, stage = "answered", ~asked.enterprise
             PROVE  LET candidates == RowsFor(asked.information_element_id)
                    IN  IF candidates = {} THEN answer = 0
                        ELSE \E k \in candidates :
                                 /\ \A other \in candidates : k <= other
                                 /\ answer # 0 /\ registry[answer] = ElementOf(rows[k])
    BY DEF LookupFindsTheRow
<1> DEFINE id == asked.information_element_id
<1>1. answer # 0 => answer \in DOMAIN registry /\ registry[answer].id = id
    BY TableLength DEF RegistryInv, IETypeOK, SearchIsExact
<1>2. answer = 0 => \A i \in DOMAIN registry : registry[i].id # id
    BY DEF RegistryInv, SearchIsExact
<1>3. answer # 0 =>
          \E k \in RowsFor(id) :
              /\ \A other \in RowsFor(id) : k <= other
              /\ registry[answer] = ElementOf(rows[k])
    BY <1>1 DEF RowInv, KeptIsDescribed, Described
<1>4. ASSUME NEW k \in RowsFor(id)
      PROVE  answer # 0
    <2>1. k \in 2..Len(rows) /\ Selected(rows[k]) /\ ElementOf(rows[k]).id = id
        BY <1>4 DEF RowsFor
    <2>2. PICK i \in DOMAIN elements : elements[i].id = id
        BY <2>1 DEF RowInv, FirstComeFirst, Sorted
    <2>3. \E r \in DOMAIN registry : registry[r].id = id
        BY <2>2 DEF RowInv, KeptIsDescribed, Sorted
    <2> QED
        BY <2>3, <1>2
<1> HIDE DEF id
<1>5. CASE RowsFor(id) = {}
    BY <1>3, <1>5 DEF id
<1>6. CASE RowsFor(id) # {}
    <2>1. answer # 0
        BY <1>4, <1>6
    <2> QED
        BY <2>1, <1>3, <1>6 DEF id
<1> QED
    BY <1>5, <1>6

-----------------------------------------------------------------------------
(* The names of the constants: a name given twice would be one of two      *)
(* elements' plain names, or end in an id, and no two elements have one.   *)

\* Names are words, and ids have words of their own.
Spellable(element) == element.name \in Characters /\ element.id \in DOMAIN NumberWord

TablesAreSpellable ==
    /\ \A i \in DOMAIN elements : Spellable(elements[i])
    /\ \A i \in DOMAIN registry : Spellable(registry[i])

\* The name that the constant of an element is given.
Shouty(i) == ShoutyName(registry[i].name)
NameGiven(i) ==
    IF \E j \in 1..(i - 1) : Shouty(j) = Shouty(i)
    THEN Append(Shouty(i), NumberWord[registry[i].id]) ELSE Shouty(i)

NoConstantsYet == stage \in {"parse", "select", "dedup"} => constants = <<>> /\ seen_names = {}

ConstantsGiven ==
    /\ IsTable(constants) /\ Len(constants) <= Len(registry)
    /\ stage = "constants" => at = Len(constants) + 1
    /\ seen_names = {Shouty(i) : i \in 1..Len(constants)}
    /\ \A i \in 1..Len(constants) : constants[i] = NameGiven(i)

NameInv == TablesAreSpellable /\ NoConstantsYet /\ ConstantsGiven

LEMMA GreatestIndex ==
    ASSUME NEW n \in Nat, NEW T, T \subseteq 1..n, T # {}
    PROVE  \E m \in T : \A k \in T : k <= m
<1> DEFINE Gaps == {n - k : k \in T}
<1>1. Gaps \subseteq Nat /\ Gaps # {}
    <2>1. \A k \in T : n - k \in Nat
        <3> SUFFICES ASSUME NEW k \in T PROVE n - k \in Nat
            OBVIOUS
        <3>1. k \in 1..n
            OBVIOUS
        <3> QED
            BY <3>1
    <2>2. PICK k : k \in T
        OBVIOUS
    <2>3. n - k \in Gaps
        BY <2>2
    <2> QED
        BY <2>1, <2>3
<1> HIDE DEF Gaps
<1>2. PICK g \in Gaps : \A other \in Gaps : g <= other
    BY <1>1, LeastNatural, Zenon
<1>3. PICK m \in T : g = n - m
    BY <1>2 DEF Gaps
<1>4. \A k \in T : n - k \in Gaps
    BY DEF Gaps
<1>5. \A k \in T : n - m <= n - k /\ k \in Nat /\ m \in Nat
    BY <1>2, <1>3, <1>4
<1> QED
    BY <1>5

LEMMA TrimmedIsText ==
    ASSUME NEW cell \in Characters
    PROVE  Trim(cell) \in Characters
<1> DEFINE solid == {i \in DOMAIN cell : cell[i] # Space}
           first == CHOOSE i \in solid : \A j \in solid : i <= j
           last == CHOOSE i \in solid : \A j \in solid : j <= i
<1>1. /\ cell \in Seq(DOMAIN Upper) /\ Len(cell) \in Nat /\ DOMAIN cell = 1..Len(cell)
      /\ <<>> \in Characters
    BY LenProperties, EmptySeq DEF Characters
<1>2. Trim(cell) = IF solid = {} THEN <<>> ELSE SubSeq(cell, first, last)
    BY DEF Trim
<1>3. ASSUME solid # {}
      PROVE  SubSeq(cell, first, last) \in Characters
    <2>1. solid \subseteq 1..Len(cell) /\ solid \subseteq Nat
        BY <1>1
    <2> HIDE DEF solid
    <2>2. \E i \in solid : \A j \in solid : i <= j
        BY <2>1, <1>3, LeastNatural, Zenon
    <2>3. \E i \in solid : \A j \in solid : j <= i
        BY <2>1, <1>1, <1>3, GreatestIndex, Zenon
    <2>4. first \in solid /\ last \in solid
        BY <2>2, <2>3, Zenon
    <2> HIDE DEF first, last
    <2>5. first \in Int /\ last \in Int /\ first..last \subseteq 1..Len(cell)
        BY <2>1, <2>4, <1>1
    <2>6. \A i \in first..last : cell[i] \in DOMAIN Upper
        BY <2>5, <1>1, ElementOfSeq
    <2>7. SubSeq(cell, first, last) \in Seq(DOMAIN Upper)
        BY <2>5, <2>6, SubSeqProperties
    <2> QED
        BY <2>7 DEF Characters
<1> HIDE DEF solid, first, last
<1> QED
    BY <1>1, <1>2, <1>3

LEMMA ElementIsSpellable ==
    ASSUME NEW cells \in Seq(Characters), Selected(cells)
    PROVE  Spellable(ElementOf(cells))
<1>1. 2 \in 1..Len(cells)
    BY LenProperties DEF Selected
<1>2. Trim(cells[2]) \in Characters
    BY <1>1, ElementOfSeq, TrimmedIsText
<1>3. Trim(cells[1]) \in DOMAIN ElementId
    BY DEF Selected
<1>4. ElementId[Trim(cells[1])] \in DOMAIN NumberWord
    BY <1>3, WordAssumption DEF WordAssumption
<1>5. /\ ElementOf(cells).id = ElementId[Trim(cells[1])]
      /\ ElementOf(cells).name = Trim(cells[2])
    BY DEF ElementOf
<1> QED
    BY <1>2, <1>4, <1>5 DEF Spellable

LEMMA NextTablesAreSpellable ==
    RegistryInv /\ RowInv /\ TablesAreSpellable /\ [IENext]_ieVars => TablesAreSpellable'
<1> SUFFICES ASSUME RegistryInv, RowInv, TablesAreSpellable, [IENext]_ieVars
             PROVE  TablesAreSpellable'
    OBVIOUS
<1>1. /\ IsTable(elements) /\ DOMAIN elements = 1..Len(elements) /\ Len(elements) \in Nat
      /\ IsTable(registry) /\ DOMAIN registry = 1..Len(registry) /\ Len(registry) \in Nat
    BY TableLength DEF RegistryInv, IETypeOK
<1>2. ASSUME NEW table, NEW element, IsTable(table),
             \A i \in DOMAIN table : Spellable(table[i]), Spellable(element)
      PROVE  \A i \in DOMAIN Append(table, element) : Spellable(Append(table, element)[i])
    <2>1. \A i \in 1..(Len(table) + 1) : i \in 1..Len(table) \/ i = Len(table) + 1
        BY <1>2, TableLength
    <2>2. /\ DOMAIN table = 1..Len(table)
          /\ DOMAIN Append(table, element) = 1..(Len(table) + 1)
          /\ \A i \in 1..Len(table) : Append(table, element)[i] = table[i]
          /\ Append(table, element)[Len(table) + 1] = element
        BY <1>2, LongerTable
    <2> QED
        BY <1>2, <2>1, <2>2
<1>3. CASE SelectRow
    <2>1. registry' = registry
        BY <1>3 DEF SelectRow
    <2>2. CASE Selected(rows[at])
        <3>1. /\ at \in 1..Len(rows) /\ rows \in Seq(Seq(Characters))
              /\ elements' = Append(elements, ElementOf(rows[at]))
            BY <1>3, <2>2, LenProperties
            DEF SelectRow, RowInv, CellsAreText, RegistryInv, IETypeOK
        <3>2. rows[at] \in Seq(Characters)
            BY <3>1, ElementOfSeq
        <3>3. Spellable(ElementOf(rows[at]))
            BY <3>2, <2>2, ElementIsSpellable
        <3> QED
            BY <3>1, <3>3, <2>1, <1>1, <1>2 DEF TablesAreSpellable
    <2>3. CASE ~Selected(rows[at])
        BY <1>3, <2>1, <2>3 DEF SelectRow, TablesAreSpellable
    <2> QED
        BY <2>2, <2>3
<1>4. CASE Sort
    <2>1. registry' = registry
        BY <1>4 DEF Sort
    <2>2. PICK order \in Bijection(DOMAIN elements, DOMAIN elements) :
              elements' = [i \in DOMAIN elements |-> elements[order[i]]]
        BY <1>4 DEF Sort
    <2>3. order \in [DOMAIN elements -> DOMAIN elements]
        BY DEF Bijection, Injection
    <2>4. \A i \in DOMAIN elements' : \E m \in DOMAIN elements : elements'[i] = elements[m]
        BY <2>2, <2>3
    <2> QED
        BY <2>1, <2>4 DEF TablesAreSpellable
<1>5. CASE DedupElement
    <2>1. at \in DOMAIN elements /\ elements' = elements
        BY <1>1, <1>5 DEF DedupElement, RegistryInv, IETypeOK
    <2>2. registry' = registry \/ registry' = Append(registry, elements[at])
        BY <1>5 DEF DedupElement
    <2> QED
        BY <2>1, <2>2, <1>1, <1>2 DEF TablesAreSpellable
<1>6. SelectRow \/ Sort \/ DedupElement \/ UNCHANGED <<elements, registry>>
    BY DEF IENext, Build, Parse, SelectRow, Sort, DedupElement, FinishDedup, WriteConstant,
           FinishBuild, LookupField, Probe, NotFound, ieVars, registryVars
<1> QED
    BY <1>3, <1>4, <1>5, <1>6 DEF TablesAreSpellable

\* Until the constants are written, nothing is known of them but their absence.
LEMMA EmptyConstantsGiven ==
    ASSUME constants' = <<>>, seen_names' = {}, IsTable(registry)',
           stage' = "constants" => at' = 1
    PROVE  NoConstantsYet' /\ ConstantsGiven'
<1>1. IsTable(<<>>) /\ Len(<<>>) = 0 /\ 1..0 = {}
    BY EmptySeq DEF IsTable
<1>2. Len(registry') \in Nat
    BY TableLength
<1>3. ConstantsGiven'
    BY <1>1, <1>2 DEF ConstantsGiven
<1> QED
    BY <1>3 DEF NoConstantsYet

LEMMA WriteConstantNameInv ==
    RegistryInv /\ NameInv /\ WriteConstant => NoConstantsYet' /\ ConstantsGiven'
<1> SUFFICES ASSUME RegistryInv, NameInv, WriteConstant PROVE NoConstantsYet' /\ ConstantsGiven'
    OBVIOUS
<1> DEFINE n == Len(constants)
<1>1. /\ stage = "constants" /\ stage' = "constants" /\ registry' = registry
      /\ IsTable(constants) /\ n \in Nat /\ at = n + 1 /\ at' = at + 1
      /\ at <= Len(registry) /\ Len(registry) \in Nat
      /\ seen_names = {Shouty(i) : i \in 1..n}
      /\ \A i \in 1..n : constants[i] = NameGiven(i)
    BY TableLength DEF WriteConstant, NameInv, ConstantsGiven, RegistryInv, IETypeOK
<1>2. ConstantName(registry[at]) = NameGiven(at)
    <2>1. 1..(at - 1) = 1..n
        BY <1>1
    <2>2. Shouty(at) \in seen_names <=> \E j \in 1..n : Shouty(j) = Shouty(at)
        BY <1>1
    <2>3. NameGiven(at) = IF \E j \in 1..n : Shouty(j) = Shouty(at)
                          THEN Append(Shouty(at), NumberWord[registry[at].id]) ELSE Shouty(at)
        <3>1. (\E j \in 1..(at - 1) : Shouty(j) = Shouty(at)) <=> \E j \in 1..n : Shouty(j) = Shouty(at)
            BY <2>1
        <3> HIDE DEF n
        <3> QED
            BY <3>1, Zenon DEF NameGiven
    <2>4. ConstantName(registry[at]) = IF Shouty(at) \in seen_names
                                       THEN Append(Shouty(at), NumberWord[registry[at].id])
                                       ELSE Shouty(at)
        BY Zenon DEF ConstantName, Shouty
    <2> QED
        BY <2>2, <2>3, <2>4
<1>3. constants' = Append(constants, NameGiven(at)) /\ seen_names' = seen_names \cup {Shouty(at)}
    BY <1>2 DEF WriteConstant, Shouty
<1>4. /\ IsTable(constants') /\ Len(constants') = n + 1
      /\ \A i \in 1..n : constants'[i] = constants[i]
      /\ constants'[n + 1] = NameGiven(at)
    BY <1>1, <1>3, LongerTable
<1>5. \A i \in 1..(n + 1) : i \in 1..n \/ i = n + 1
    BY <1>1
<1>6. \A i : Shouty(i)' = Shouty(i) /\ NameGiven(i)' = NameGiven(i)
    BY <1>1 DEF Shouty, NameGiven
<1>7. seen_names' = {Shouty(i) : i \in 1..(n + 1)}
    <2>1. 1..(n + 1) = 1..n \cup {n + 1}
        BY <1>1
    <2> HIDE DEF n
    <2> QED
        BY <2>1, <1>1, <1>3
<1>8. \A i \in 1..(n + 1) : constants'[i] = NameGiven(i)
    BY <1>1, <1>4, <1>5
<1> HIDE DEF n
<1>9. ConstantsGiven'
    <2>1. {Shouty(i)' : i \in 1..(n + 1)} = {Shouty(i) : i \in 1..(n + 1)}
        BY <1>6
    <2>2. \A i \in 1..(n + 1) : constants'[i] = NameGiven(i)'
        BY <1>6, <1>8
    <2>3. Len(constants') <= Len(registry') /\ at' = Len(constants') + 1
        BY <1>1, <1>4
    <2> QED
        BY <2>1, <2>2, <2>3, <1>4, <1>7, Zenon DEF ConstantsGiven
<1> QED
    BY <1>1, <1>9 DEF NoConstantsYet

\* Once written, the constants and the table stay.
LEMMA ConstantsStay ==
    ASSUME NameInv, UNCHANGED <<registry, constants, seen_names>>,
           stage \notin {"parse", "select", "dedup"}, stage' \notin {"parse", "select", "dedup"},
           stage' = "constants" => UNCHANGED <<stage, at>>
    PROVE  NoConstantsYet' /\ ConstantsGiven'
<1>1. \A i : Shouty(i)' = Shouty(i) /\ NameGiven(i)' = NameGiven(i)
    BY DEF Shouty, NameGiven
<1>2. {Shouty(i)' : i \in 1..Len(constants)} = {Shouty(i) : i \in 1..Len(constants)}
    BY <1>1
<1>3. \A i \in 1..Len(constants) : constants[i] = NameGiven(i)'
    BY <1>1 DEF NameInv, ConstantsGiven
<1>4. ConstantsGiven'
    BY <1>2, <1>3 DEF NameInv, ConstantsGiven
<1> QED
    BY <1>4 DEF NoConstantsYet

LEMMA InitNameInv == IEInit => NameInv
<1> SUFFICES ASSUME IEInit PROVE NameInv
    OBVIOUS
<1>1. IsTable(<<>>) /\ Len(<<>>) = 0 /\ DOMAIN <<>> = {} /\ 1..0 = {}
    BY EmptySeq DEF IsTable
<1> QED
    BY <1>1 DEF IEInit, NameInv, TablesAreSpellable, NoConstantsYet, ConstantsGiven

LEMMA NextNameInv ==
    RegistryInv /\ RegistryInv' /\ RowInv /\ NameInv /\ [IENext]_ieVars => NameInv'
<1> SUFFICES ASSUME RegistryInv, RegistryInv', RowInv, NameInv, [IENext]_ieVars PROVE NameInv'
    OBVIOUS
<1>1. TablesAreSpellable'
    BY NextTablesAreSpellable DEF NameInv
<1>2. NoConstantsYet' /\ ConstantsGiven'
    <2>1. CASE Parse \/ SelectRow \/ Sort \/ DedupElement \/ FinishDedup
        <3>1. /\ stage \in {"parse", "select", "dedup"} /\ UNCHANGED <<constants, seen_names>>
              /\ stage' = "constants" => at' = 1
            BY <2>1 DEF Parse, SelectRow, Sort, DedupElement, FinishDedup
        <3>2. constants' = <<>> /\ seen_names' = {} /\ IsTable(registry)'
            BY <3>1 DEF NameInv, NoConstantsYet, RegistryInv, IETypeOK
        <3> QED
            BY <3>1, <3>2, EmptyConstantsGiven
    <2>2. CASE WriteConstant
        BY <2>2, WriteConstantNameInv
    <2>3. CASE \/ FinishBuild \/ Probe \/ NotFound
               \/ \E id \in Probes, enterprise \in BOOLEAN : LookupField(id, enterprise)
        <3>1. /\ UNCHANGED <<registry, constants, seen_names>>
              /\ stage \notin {"parse", "select", "dedup"}
              /\ stage' \notin {"parse", "select", "dedup", "constants"}
            BY <2>3 DEF FinishBuild, Probe, NotFound, LookupField
        <3> QED
            BY <3>1, ConstantsStay
    <2>4. CASE UNCHANGED ieVars
        <3>1. UNCHANGED <<registry, constants, seen_names, stage, at>>
            BY <2>4 DEF ieVars, registryVars
        <3>2. CASE stage \in {"parse", "select", "dedup"}
            <4>1. constants' = <<>> /\ seen_names' = {} /\ IsTable(registry)' /\ stage' # "constants"
                BY <3>1, <3>2 DEF NameInv, NoConstantsYet, RegistryInv, IETypeOK
            <4> QED
                BY <4>1, EmptyConstantsGiven
        <3>3. CASE stage \notin {"parse", "select", "dedup"}
            BY <3>1, <3>3, ConstantsStay
        <3> QED
            BY <3>2, <3>3
    <2> QED
        BY <2>1, <2>2, <2>3, <2>4 DEF IENext, Build
<1> QED
    BY <1>1, <1>2 DEF NameInv

LEMMA NameInvariance == IESpec => [](RegistryInv /\ RowInv /\ NameInv)
<1>1. IEInit => RegistryInv /\ RowInv /\ NameInv
    BY InitRegistryInv, InitRowInv, InitNameInv
<1>2. RegistryInv /\ RowInv /\ NameInv /\ [IENext]_ieVars => (RegistryInv /\ RowInv /\ NameInv)'
    BY NextRegistryInv, NextRowInv, NextNameInv
<1> QED
    BY <1>1, <1>2, PTL DEF IESpec

LEMMA GivenNamesDiffer == RegistryInv /\ NameInv => ConstantsAreDistinct
<1> SUFFICES ASSUME RegistryInv, NameInv PROVE ConstantsAreDistinct
    OBVIOUS
<1> DEFINE n == Len(constants)
           Words == {Upper[word] : word \in DOMAIN Upper}
           number(i) == NumberWord[registry[i].id]
           Repeated(i) == \E j \in 1..(i - 1) : Shouty(j) = Shouty(i)
<1>1. /\ n \in Nat /\ DOMAIN constants = 1..n /\ 1..n \subseteq DOMAIN registry
      /\ \A i \in 1..n : constants[i] = NameGiven(i)
    BY TableLength DEF NameInv, ConstantsGiven, RegistryInv, IETypeOK
<1>2. ASSUME NEW i \in 1..n
      PROVE  Shouty(i) \in Seq(Words) /\ registry[i].id \in DOMAIN NumberWord
    <2>1. registry[i].name \in Seq(DOMAIN Upper) /\ registry[i].id \in DOMAIN NumberWord
        BY <1>1, <1>2 DEF NameInv, TablesAreSpellable, Spellable, Characters
    <2> DEFINE name == registry[i].name
    <2>2. /\ DOMAIN name = 1..Len(name) /\ Len(name) \in Nat
          /\ \A k \in 1..Len(name) : name[k] \in DOMAIN Upper
        BY <2>1, LenProperties, ElementOfSeq
    <2>3. ShoutyName(name) \in [1..Len(name) -> Words]
        BY <2>2 DEF ShoutyName
    <2>4. ShoutyName(name) \in Seq(Words)
        BY <2>2, <2>3, IsASeq
    <2> QED
        BY <2>1, <2>4 DEF Shouty
<1>3. ASSUME NEW i \in 1..n
      PROVE  /\ Len(Append(Shouty(i), number(i))) = Len(Shouty(i)) + 1
             /\ Append(Shouty(i), number(i))[Len(Shouty(i)) + 1] = number(i)
             /\ Len(Shouty(i)) \in Nat
    <2> DEFINE S == Words \cup {number(i)}
    <2>1. Words \subseteq S /\ number(i) \in S
        OBVIOUS
    <2> HIDE DEF S, Words
    <2>2. Shouty(i) \in Seq(S) /\ number(i) \in S
        BY <2>1, <1>2, <1>3, SeqMonotonic
    <2> QED
        BY <2>2, AppendProperties, LenProperties
<1>4. ASSUME NEW a \in 1..n, NEW b \in 1..n
      PROVE  Append(Shouty(a), number(a)) # Shouty(b)
    <2> SUFFICES ASSUME Append(Shouty(a), number(a)) = Shouty(b) PROVE FALSE
        OBVIOUS
    <2> DEFINE last == Len(Shouty(a)) + 1
    <2>1. Len(Shouty(b)) = last /\ Shouty(b)[last] = number(a) /\ last \in 1..Len(Shouty(b))
        BY <1>3, <1>4
    <2>2. Shouty(b) \in Seq(Words) /\ registry[a].id \in DOMAIN NumberWord
        BY <1>2, <1>4
    <2> HIDE DEF last, Words
    <2>3. number(a) \in Words
        BY <2>1, <2>2, ElementOfSeq
    <2> QED
        BY <2>2, <2>3, WordAssumption DEF WordAssumption, Words
<1>5. ASSUME NEW a \in 1..n, NEW b \in 1..n, a < b, constants[a] = constants[b]
      PROVE  FALSE
    <2>1. NameGiven(a) = NameGiven(b)
        BY <1>1, <1>5
    <2>2. /\ NameGiven(a) = IF Repeated(a) THEN Append(Shouty(a), number(a)) ELSE Shouty(a)
          /\ NameGiven(b) = IF Repeated(b) THEN Append(Shouty(b), number(b)) ELSE Shouty(b)
        BY DEF NameGiven
    <2>3. CASE ~Repeated(a) /\ ~Repeated(b)
        <3>1. a \in 1..(b - 1)
            BY <1>1, <1>5
        <3> QED
            BY <2>1, <2>2, <2>3, <3>1
    <2> HIDE DEF Repeated
    <2>4. CASE Repeated(a) /\ ~Repeated(b)
        BY <2>1, <2>2, <2>4, <1>4, <1>5
    <2>5. CASE ~Repeated(a) /\ Repeated(b)
        BY <2>1, <2>2, <2>5, <1>4, <1>5
    <2>6. CASE Repeated(a) /\ Repeated(b)
        <3>1. number(a) = number(b)
            <4>1. Append(Shouty(a), number(a)) = Append(Shouty(b), number(b))
                BY <2>1, <2>2, <2>6
            <4>2. Len(Shouty(a)) = Len(Shouty(b))
                BY <4>1, <1>3, <1>5
            <4> QED
                BY <4>1, <4>2, <1>3, <1>5
        <3>2. registry[a].id = registry[b].id
            BY <3>1, <1>2, <1>5, WordAssumption DEF WordAssumption
        <3>3. registry[a].id < registry[b].id /\ registry[a].id \in Int
            BY <1>1, <1>5, IdsAreNumbers DEF RegistryInv, RegistryIsSorted, IETypeOK, Element
        <3> QED
            BY <3>2, <3>3
    <2> QED
        BY <2>3, <2>4, <2>5, <2>6
<1>6. ASSUME NEW a \in 1..n, NEW b \in 1..n, constants[a] = constants[b]
      PROVE  a = b
    <2>1. a < b \/ b < a \/ a = b
        BY <1>1
    <2> QED
        BY <2>1, <1>5, <1>6
<1> QED
    BY <1>1, <1>6 DEF ConstantsAreDistinct, IsInjective

-----------------------------------------------------------------------------
(* Places in order: InOrder(S) is S from the least place to the greatest.  *)

Listed(s, S) ==
    /\ s \in Seq(Nat) /\ IsFiniteSet(S) /\ Cardinality(S) = Len(s)
    /\ \A i \in S : \E k \in 1..Len(s) : s[k] = i
    /\ \A k \in 1..Len(s) : s[k] \in S /\ Cardinality({j \in S : j < s[k]}) = k - 1
    /\ \A j, k \in 1..Len(s) : j < k => s[j] < s[k]

LEMMA EmptyListed == Listed(<<>>, {})
<1>1. <<>> \in Seq(Nat) /\ Len(<<>>) = 0 /\ 1..0 = {}
    BY EmptySeq
<1>2. IsFiniteSet({}) /\ Cardinality({}) = 0
    BY FS_EmptySet
<1> QED
    BY <1>1, <1>2 DEF Listed

LEMMA OneMoreListed ==
    ASSUME NEW s, NEW S, S \subseteq Nat, Listed(s, S), NEW m \in Nat, \A i \in S : i < m
    PROVE  Listed(Append(s, m), S \cup {m})
<1> DEFINE n == Len(s)
           t == Append(s, m)
           T == S \cup {m}
<1>1. /\ s \in Seq(Nat) /\ n \in Nat /\ IsFiniteSet(S) /\ Cardinality(S) = n
      /\ \A i \in S : \E k \in 1..n : s[k] = i
      /\ \A k \in 1..n : s[k] \in S /\ Cardinality({j \in S : j < s[k]}) = k - 1
      /\ \A j, k \in 1..n : j < k => s[j] < s[k]
    BY LenProperties DEF Listed
<1>2. /\ t \in Seq(Nat) /\ Len(t) = n + 1 /\ t[n + 1] = m
      /\ \A k \in 1..n : t[k] = s[k]
    BY <1>1, AppendProperties
<1>3. m \notin S
    OBVIOUS
<1>4. IsFiniteSet(T) /\ Cardinality(T) = n + 1
    BY <1>1, <1>3, FS_AddElement
<1>5. /\ \A k \in 1..(n + 1) : k \in 1..n \/ k = n + 1
      /\ 1..n \subseteq 1..(n + 1) /\ n + 1 \in 1..(n + 1)
    BY <1>1
<1> HIDE DEF n, t
<1>6. \A i \in T : \E k \in 1..(n + 1) : t[k] = i
    BY <1>1, <1>2, <1>5
<1>7. ASSUME NEW k \in 1..(n + 1)
      PROVE  t[k] \in T /\ Cardinality({j \in T : j < t[k]}) = k - 1
    <2>1. CASE k \in 1..n
        <3>1. t[k] = s[k] /\ s[k] \in S /\ Cardinality({j \in S : j < s[k]}) = k - 1
            BY <2>1, <1>1, <1>2
        <3>2. ~(m < s[k])
            <4>1. s[k] < m /\ s[k] \in Nat
                BY <3>1
            <4> QED
                BY <4>1
        <3>3. {j \in T : j < s[k]} = {j \in S : j < s[k]}
            BY <3>2
        <3> QED
            BY <3>1, <3>3
    <2>2. CASE k = n + 1
        <3>1. {j \in T : j < m} = S
            <4>1. ~(m < m)
                OBVIOUS
            <4> QED
                BY <4>1
        <3>2. Cardinality({j \in T : j < m}) = n
            BY <3>1, <1>1
        <3> QED
            BY <3>2, <2>2, <1>1, <1>2
    <2> QED
        BY <2>1, <2>2, <1>5, <1>7
<1>8. ASSUME NEW j \in 1..(n + 1), NEW k \in 1..(n + 1), j < k
      PROVE  t[j] < t[k]
    <2>1. j \in 1..n
        BY <1>8, <1>1
    <2>2. CASE k \in 1..n
        BY <2>1, <2>2, <1>1, <1>2, <1>8
    <2>3. CASE k = n + 1
        BY <2>1, <2>3, <1>1, <1>2
    <2> QED
        BY <2>2, <2>3, <1>5, <1>8
<1>9. \A j, k \in 1..(n + 1) : j < k => t[j] < t[k]
    BY <1>8
<1>10. \A k \in 1..(n + 1) : t[k] \in T /\ Cardinality({j \in T : j < t[k]}) = k - 1
    BY <1>7
<1> HIDE DEF T
<1>11. Listed(t, T)
    BY <1>2, <1>4, <1>6, <1>9, <1>10, Zenon DEF Listed
<1> QED
    BY <1>11 DEF t, T

LEMMA ListedInOrder ==
    ASSUME NEW s, NEW S, Listed(s, S)
    PROVE  InOrder(S) = s
<1> DEFINE n == Len(s)
           choice(k) == CHOOSE i \in S : Cardinality({j \in S : j < i}) = k - 1
<1>1. /\ s \in Seq(Nat) /\ n \in Nat /\ Cardinality(S) = n
      /\ \A i \in S : \E k \in 1..n : s[k] = i
      /\ \A k \in 1..n : s[k] \in S /\ Cardinality({j \in S : j < s[k]}) = k - 1
    BY LenProperties DEF Listed
<1>2. ASSUME NEW k \in 1..n
      PROVE  choice(k) = s[k]
    <2>1. \E i \in S : Cardinality({j \in S : j < i}) = k - 1
        BY <1>1, <1>2
    <2>2. choice(k) \in S /\ Cardinality({j \in S : j < choice(k)}) = k - 1
        BY <2>1, Zenon
    <2> HIDE DEF choice, n
    <2>3. PICK m \in 1..n : s[m] = choice(k)
        BY <2>2, <1>1
    <2>4. m - 1 = k - 1
        BY <2>2, <2>3, <1>1
    <2>5. m = k
        BY <2>4, <1>1, <1>2
    <2> QED
        BY <2>3, <2>5
<1>3. InOrder(S) = [k \in 1..n |-> choice(k)]
    BY <1>1, Zenon DEF InOrder
<1> HIDE DEF choice
<1>4. [k \in 1..n |-> choice(k)] = [k \in 1..n |-> s[k]]
    BY <1>2
<1>5. s = [k \in 1..n |-> s[k]]
    BY <1>1, LenProperties
<1> QED
    BY <1>3, <1>4, <1>5

LEMMA Listable ==
    ASSUME NEW n \in Nat, NEW S \in SUBSET (1..n)
    PROVE  Listed(InOrder(S), S)
<1> DEFINE T == {k \in 0..n : \A R \in SUBSET (1..k) : \E s : Listed(s, R)}
<1>1. 0 \in T
    <2>1. ASSUME NEW R \in SUBSET (1..0)
          PROVE  \E s : Listed(s, R)
        <3>1. R = {}
            BY <2>1
        <3> QED
            BY <3>1, EmptyListed, Zenon
    <2> QED
        BY <2>1
<1>2. ASSUME NEW k \in 1..n, k - 1 \in T
      PROVE  k \in T
    <2> SUFFICES ASSUME NEW R \in SUBSET (1..k) PROVE \E s : Listed(s, R)
        BY <1>2
    <2>1. R \ {k} \in SUBSET (1..(k - 1))
        BY <1>2
    <2>2. PICK s : Listed(s, R \ {k})
        BY <2>1, <1>2
    <2>3. CASE k \in R
        <3>1. R \ {k} \subseteq Nat /\ k \in Nat /\ \A i \in R \ {k} : i < k
            BY <2>1, <1>2
        <3>2. (R \ {k}) \cup {k} = R
            BY <2>3
        <3> DEFINE Others == R \ {k}
        <3> HIDE DEF Others
        <3>3. Others \subseteq Nat /\ k \in Nat /\ Listed(s, Others) /\ \A i \in Others : i < k
            BY <2>2, <3>1 DEF Others
        <3>4. Listed(Append(s, k), Others \cup {k})
            BY <3>3, OneMoreListed
        <3> QED
            BY <3>2, <3>4 DEF Others
    <2>4. CASE k \notin R
        <3>1. R \ {k} = R
            BY <2>4
        <3> QED
            BY <2>2, <3>1
    <2> QED
        BY <2>3, <2>4
<1> HIDE DEF T
<1>3. 0..n \subseteq T
    BY <1>1, <1>2, UpTo
<1>4. n \in T
    BY <1>3
<1>5. PICK s : Listed(s, S)
    BY <1>4 DEF T
<1> QED
    BY <1>5, ListedInOrder

\* One more place, behind the others.
LEMMA InOrderGrows ==
    ASSUME NEW m \in Nat \ {0}, NEW S \in SUBSET (1..(m - 1))
    PROVE  InOrder(S \cup {m}) = Append(InOrder(S), m)
<1>1. S \subseteq Nat /\ \A i \in S : i < m
    OBVIOUS
<1>2. m - 1 \in Nat
    OBVIOUS
<1>3. Listed(InOrder(S), S)
    BY <1>2, Listable
<1>4. Listed(Append(InOrder(S), m), S \cup {m})
    BY <1>1, <1>3, OneMoreListed
<1> QED
    BY <1>4, ListedInOrder

LEMMA InOrderFacts ==
    ASSUME NEW n \in Nat, NEW S \in SUBSET (1..n)
    PROVE  LET s == InOrder(S)
           IN  /\ s \in Seq(Nat) /\ Len(s) \in Nat /\ DOMAIN s = 1..Len(s)
               /\ \A k \in 1..Len(s) : s[k] \in S
               /\ \A i \in S : s # <<>> /\ i <= s[Len(s)]
               /\ S = {} <=> s = <<>>
<1> DEFINE s == InOrder(S)
<1>1. Listed(s, S)
    BY Listable
<1> HIDE DEF s
<1>2. s \in Seq(Nat) /\ Len(s) \in Nat /\ DOMAIN s = 1..Len(s) /\ \A k \in 1..Len(s) : s[k] \in S
    BY <1>1, LenProperties DEF Listed
<1>3. ASSUME NEW i \in S
      PROVE  s # <<>> /\ i <= s[Len(s)]
    <2>1. PICK k \in 1..Len(s) : s[k] = i
        BY <1>1, <1>3 DEF Listed
    <2>2. Len(s) \in 1..Len(s) /\ Len(s) # 0
        BY <2>1, <1>2
    <2>3. k = Len(s) \/ s[k] < s[Len(s)]
        <3>1. k = Len(s) \/ k < Len(s)
            <4>1. Len(s) \in Nat
                BY <1>2
            <4> QED
                BY <4>1
        <3> QED
            BY <3>1, <2>2, <1>1 DEF Listed
    <2>4. s[k] \in Nat /\ s[Len(s)] \in Nat
        BY <2>1, <2>2, <1>2
    <2> QED
        BY <2>1, <2>2, <2>3, <2>4, EmptySeq
<1>4. S = {} => s = <<>>
    <2>1. S = {} => Listed(s, {})
        BY <1>1
    <2> QED
        BY <2>1, EmptyListed, ListedInOrder
<1> QED
    BY <1>2, <1>3, <1>4 DEF s

-----------------------------------------------------------------------------
(* The file, read up to a place.                                           *)

\* Where the row and the field begin that a place belongs to, given the ends
\* before it.
After(places, start) == IF places = <<>> THEN start ELSE places[Len(places)] + 1

RowEndsBefore(p) == InOrder({i \in 1..(p - 1) : EndsRow(i)})
RowStart(p) == After(RowEndsBefore(p), 1)
FieldEndsBefore(p) == InOrder({i \in RowStart(p)..(p - 1) : EndsField(i)})
FieldStart(p) == After(FieldEndsBefore(p), RowStart(p))

\* What the text says before a place: whole rows, whole fields of the row that
\* has begun, and the text of the field that has begun.
RowsBefore(p) ==
    [k \in DOMAIN RowEndsBefore(p) |->
        RowBetween(IF k = 1 THEN 1 ELSE RowEndsBefore(p)[k - 1] + 1, RowEndsBefore(p)[k])]
FieldsBefore(p) ==
    [k \in DOMAIN FieldEndsBefore(p) |->
        TextIn(IF k = 1 THEN RowStart(p) ELSE FieldEndsBefore(p)[k - 1] + 1, FieldEndsBefore(p)[k] - 1)]
TextBefore(p) == TextIn(FieldStart(p), p - 1)

\* Outside quotes the reader is never in the middle of a pair that it should
\* have taken together.
NoHalfPair(p) ==
    (1 < p /\ p <= Len(text)) =>
        /\ text[p] = Quote => text[p - 1] # Quote
        /\ text[p] = LF => text[p - 1] # CR

\* The reader has read up to p, and has what the text says before p.
SoFar(p, the_field, the_row, the_rows) ==
    the_field = TextBefore(p) /\ the_row = FieldsBefore(p) /\ the_rows = RowsBefore(p)

ReadTo(p, quoted, the_field, the_row, the_rows) ==
    /\ p \in 1..(Len(text) + 1)
    /\ quoted <=> ~Outside(p)
    /\ ~quoted => NoHalfPair(p)
    /\ SoFar(p, the_field, the_row, the_rows)

ReaderInv ==
    IF parsed THEN pos > Len(text) /\ rows = RowsOfText
    ELSE ReadTo(pos, in_quotes, field, row, rows)

\* What is cut out between places.
Pieces(places, start, cut) ==
    [k \in DOMAIN places |-> cut[IF k = 1 THEN start ELSE places[k - 1] + 1][places[k]]]

RowCut == [a \in Nat |-> [b \in Nat |-> RowBetween(a, b)]]
FieldCut == [a \in Nat |-> [b \in Nat |-> TextIn(a, b - 1)]]

HasValues(f, n) == f = [k \in 1..n |-> f[k]]

\* A function that goes on where another ends is that one with a value more.
LEMMA OneMoreValue ==
    ASSUME NEW n \in Nat, NEW f, HasValues(f, n),
           NEW g, HasValues(g, n + 1), \A k \in 1..n : g[k] = f[k]
    PROVE  g = Append(f, g[n + 1])
<1> DEFINE S == {f[k] : k \in 1..n} \cup {g[n + 1]}
<1>1. \A k \in 1..(n + 1) : k \in 1..n \/ k = n + 1
    OBVIOUS
<1>2. f \in [1..n -> S]
    <2>1. \A k \in 1..n : f[k] \in S
        OBVIOUS
    <2> HIDE DEF S
    <2> QED
        BY <2>1 DEF HasValues
<1>3. g \in [1..(n + 1) -> S]
    <2>1. \A k \in 1..(n + 1) : g[k] \in S
        BY <1>1
    <2> HIDE DEF S
    <2> QED
        BY <2>1 DEF HasValues
<1>4. g[n + 1] \in S
    OBVIOUS
<1> HIDE DEF S
<1>5. f \in Seq(S) /\ Len(f) = n
    BY <1>2, IsASeq, LenProperties
<1>6. n + 1 \in Nat
    OBVIOUS
<1>7. g \in Seq(S) /\ Len(g) = n + 1
    BY <1>3, <1>6, IsASeq, LenProperties
<1> DEFINE h == Append(f, g[n + 1])
<1>8. /\ h \in Seq(S) /\ Len(h) = n + 1 /\ h[n + 1] = g[n + 1]
      /\ \A k \in 1..n : h[k] = f[k]
    BY <1>4, <1>5, AppendProperties
<1> HIDE DEF h
<1>9. \A k \in 1..(n + 1) : g[k] = h[k]
    BY <1>1, <1>8
<1>10. g = h
    BY <1>7, <1>8, <1>9, SeqEqual
<1> QED
    BY <1>10 DEF h

LEMMA OneMorePiece ==
    ASSUME NEW places \in Seq(Nat), NEW m \in Nat, NEW start, NEW cut
    PROVE  Pieces(Append(places, m), start, cut) =
               Append(Pieces(places, start, cut), cut[After(places, start)][m])
<1> DEFINE n == Len(places)
           more == Append(places, m)
           f == Pieces(places, start, cut)
           g == Pieces(more, start, cut)
<1>1. n \in Nat /\ DOMAIN places = 1..n
    BY LenProperties
<1>2. /\ more \in Seq(Nat) /\ Len(more) = n + 1 /\ DOMAIN more = 1..(n + 1) /\ more[n + 1] = m
      /\ \A k \in 1..n : more[k] = places[k]
    BY <1>1, AppendProperties, LenProperties
<1>3. HasValues(f, n) /\ HasValues(g, n + 1)
    <2>1. f = [k \in 1..n |-> cut[IF k = 1 THEN start ELSE places[k - 1] + 1][places[k]]]
        BY <1>1 DEF Pieces
    <2>2. g = [k \in 1..(n + 1) |-> cut[IF k = 1 THEN start ELSE more[k - 1] + 1][more[k]]]
        BY <1>2 DEF Pieces
    <2> HIDE DEF f, g
    <2> QED
        BY <2>1, <2>2 DEF HasValues
<1>4. /\ \A k \in 1..n : f[k] = cut[IF k = 1 THEN start ELSE places[k - 1] + 1][places[k]]
      /\ \A k \in 1..(n + 1) : g[k] = cut[IF k = 1 THEN start ELSE more[k - 1] + 1][more[k]]
    BY <1>1, <1>2 DEF Pieces
<1>5. ASSUME NEW k \in 1..n
      PROVE  g[k] = f[k]
    <2>1. k \in 1..(n + 1) /\ more[k] = places[k]
        BY <1>1, <1>2, <1>5
    <2>2. k # 1 => k - 1 \in 1..n
        BY <1>1, <1>5
    <2>3. k # 1 => more[k - 1] = places[k - 1]
        BY <2>2, <1>2
    <2> HIDE DEF f, g, more, n
    <2>4. (IF k = 1 THEN start ELSE more[k - 1] + 1) = IF k = 1 THEN start ELSE places[k - 1] + 1
        BY <2>3
    <2>5. /\ f[k] = cut[IF k = 1 THEN start ELSE places[k - 1] + 1][places[k]]
          /\ g[k] = cut[IF k = 1 THEN start ELSE more[k - 1] + 1][more[k]]
        BY <2>1, <1>4, <1>5, Zenon
    <2> QED
        BY <2>1, <2>4, <2>5, Zenon
<1>6. g[n + 1] = cut[After(places, start)][m]
    <2>1. n + 1 \in 1..(n + 1) /\ (n + 1) - 1 = n /\ (n + 1 = 1 <=> n = 0)
        BY <1>1
    <2>2. g[n + 1] = cut[IF n = 0 THEN start ELSE more[n] + 1][m]
        BY <2>1, <1>2, <1>4, ZenonT(40)
    <2>3. n = 0 <=> places = <<>>
        BY <1>1, EmptySeq
    <2>4. n # 0 => more[n] = places[n]
        <3>1. n # 0 => n \in 1..n
            BY <1>1
        <3> QED
            BY <3>1, <1>2
    <2> HIDE DEF g, more
    <2> QED
        BY <2>2, <2>3, <2>4, SMTT(30) DEF After
<1> HIDE DEF f, g, n
<1>7. g = Append(f, g[n + 1])
    <2>1. \A k \in 1..n : g[k] = f[k]
        BY <1>5
    <2>2. n \in Nat
        BY <1>1
    <2> QED
        BY <2>1, <2>2, <1>3, OneMoreValue
<1> QED
    BY <1>6, <1>7 DEF f, g

\* Where the next piece begins.
LEMMA AfterWithin ==
    ASSUME NEW p \in Nat \ {0}, NEW start \in 1..p, NEW S \in SUBSET (start..(p - 1))
    PROVE  /\ After(InOrder(S), start) \in start..p
           /\ \A i \in S : i < After(InOrder(S), start)
           /\ S = {} => After(InOrder(S), start) = start
           /\ S # {} => After(InOrder(S), start) - 1 \in S
           /\ After(InOrder(S) , start) \in Nat
<1> DEFINE s == InOrder(S)
<1>1. p - 1 \in Nat /\ S \in SUBSET (1..(p - 1))
    OBVIOUS
<1>2. /\ s \in Seq(Nat) /\ Len(s) \in Nat
      /\ \A k \in 1..Len(s) : s[k] \in S
      /\ \A i \in S : s # <<>> /\ i <= s[Len(s)]
      /\ S = {} <=> s = <<>>
    <2> DEFINE n == p - 1
    <2>1. n \in Nat /\ S \in SUBSET (1..n)
        BY <1>1
    <2> HIDE DEF n
    <2> QED
        BY <2>1, InOrderFacts
<1> HIDE DEF s
<1>3. CASE S = {}
    BY <1>2, <1>3 DEF After, s
<1>4. CASE S # {}
    <2>1. Len(s) \in 1..Len(s)
        <3>1. Len(s) # 0
            BY <1>2, <1>4, EmptySeq
        <3> QED
            BY <3>1, <1>2
    <2> DEFINE last == s[Len(s)]
    <2>2. last \in S /\ \A i \in S : i <= last
        BY <2>1, <1>2
    <2>3. After(s, start) = last + 1
        BY <1>2, <1>4 DEF After
    <2> HIDE DEF last
    <2>4. last \in start..(p - 1)
        BY <2>2
    <2>5. last + 1 \in start..p /\ last + 1 \in Nat /\ (last + 1) - 1 = last
        BY <2>4
    <2>6. \A i \in S : i < last + 1
        BY <2>2, <2>4
    <2> QED
        BY <2>2, <2>3, <2>5, <2>6, <1>4 DEF s
<1> QED
    BY <1>3, <1>4

LEMMA Starts ==
    ASSUME NEW p \in Nat \ {0}
    PROVE  /\ RowStart(p) \in 1..p /\ RowStart(p) \in Nat
           /\ FieldStart(p) \in RowStart(p)..p /\ FieldStart(p) \in Nat
           /\ RowEndsBefore(p) \in Seq(Nat) /\ FieldEndsBefore(p) \in Seq(Nat)
<1> DEFINE ends == {i \in 1..(p - 1) : EndsRow(i)}
<1>1. RowStart(p) \in 1..p /\ RowStart(p) \in Nat
    <2>1. 1 \in 1..p /\ ends \in SUBSET (1..(p - 1))
        OBVIOUS
    <2> HIDE DEF ends
    <2>2. After(InOrder(ends), 1) \in 1..p /\ After(InOrder(ends), 1) \in Nat
        BY <2>1, AfterWithin
    <2> QED
        BY <2>2 DEF RowStart, RowEndsBefore, ends
<1> DEFINE start == RowStart(p)
           fields == {i \in start..(p - 1) : EndsField(i)}
<1>2. start \in 1..p /\ fields \in SUBSET (start..(p - 1))
    BY <1>1
<1>3. p - 1 \in Nat /\ ends \in SUBSET (1..(p - 1)) /\ fields \in SUBSET (1..(p - 1))
    BY <1>1
<1>4. /\ RowEndsBefore(p) = InOrder(ends) /\ FieldEndsBefore(p) = InOrder(fields)
      /\ FieldStart(p) = After(InOrder(fields), start)
    BY DEF RowEndsBefore, FieldEndsBefore, FieldStart
<1> HIDE DEF ends, fields, start
<1>5. After(InOrder(fields), start) \in start..p /\ After(InOrder(fields), start) \in Nat
    BY <1>2, AfterWithin
<1>6. InOrder(ends) \in Seq(Nat) /\ InOrder(fields) \in Seq(Nat)
    BY <1>3, InOrderFacts
<1> QED
    BY <1>1, <1>4, <1>5, <1>6 DEF start

\* The text between two places, one place more.
LEMMA TextGrows ==
    ASSUME NEW p \in Nat \ {0}, NEW a \in 1..p
    PROVE  /\ IsText(p) => TextIn(a, p) = Append(TextIn(a, p - 1), text[p])
           /\ ~IsText(p) => TextIn(a, p) = TextIn(a, p - 1)
<1> DEFINE S == {i \in a..(p - 1) : IsText(i)}
           T == {i \in a..p : IsText(i)}
<1>1. \A i \in a..p : i \in a..(p - 1) \/ i = p
    OBVIOUS
<1>2. a..(p - 1) \subseteq a..p /\ p \in a..p /\ S \in SUBSET (1..(p - 1)) /\ p - 1 \in Nat
    OBVIOUS
<1>3. CASE ~IsText(p)
    <2>1. T = S
        BY <1>1, <1>2, <1>3
    <2> HIDE DEF S, T
    <2>2. TextIn(a, p) = TextIn(a, p - 1)
        BY <2>1 DEF TextIn, S, T
    <2> QED
        BY <2>2, <1>3
<1>4. CASE IsText(p)
    <2>1. T = S \cup {p}
        BY <1>1, <1>2, <1>4
    <2> DEFINE s == InOrder(S)
               t == InOrder(T)
               f == [k \in DOMAIN s |-> text[s[k]]]
               g == [k \in DOMAIN t |-> text[t[k]]]
               n == Len(s)
    <2>2. TextIn(a, p - 1) = f /\ TextIn(a, p) = g
        BY DEF TextIn
    <2> HIDE DEF S, T
    <2>3. t = Append(s, p)
        BY <2>1, <1>2, InOrderGrows
    <2>4. s \in Seq(Nat) /\ n \in Nat /\ DOMAIN s = 1..n
        BY <1>2, InOrderFacts
    <2> HIDE DEF s, t
    <2>5. /\ DOMAIN t = 1..(n + 1) /\ t[n + 1] = p
          /\ \A k \in 1..n : t[k] = s[k]
        BY <2>3, <2>4, AppendProperties, LenProperties
    <2> HIDE DEF n
    <2>6. HasValues(f, n) /\ \A k \in 1..n : f[k] = text[s[k]]
        BY <2>4 DEF HasValues
    <2>7. HasValues(g, n + 1) /\ \A k \in 1..(n + 1) : g[k] = text[t[k]]
        BY <2>5 DEF HasValues
    <2>8. 1..n \subseteq 1..(n + 1) /\ n + 1 \in 1..(n + 1)
        BY <2>4
    <2>9. (\A k \in 1..n : g[k] = f[k]) /\ g[n + 1] = text[p]
        BY <2>5, <2>6, <2>7, <2>8
    <2> HIDE DEF f, g
    <2>10. g = Append(f, g[n + 1])
        <3>1. HasValues(f, n) /\ HasValues(g, n + 1)
            BY <2>6, <2>7
        <3>2. n \in Nat /\ \A k \in 1..n : g[k] = f[k]
            BY <2>4, <2>9
        <3> QED
            BY <3>1, <3>2, OneMoreValue
    <2> QED
        BY <2>2, <2>9, <2>10, <1>4
<1> QED
    BY <1>3, <1>4

LEMMA NoText ==
    ASSUME NEW a \in Nat \ {0}, NEW b \in Nat
    PROVE  TextIn(a, b) = <<>> <=> \A i \in a..b : ~IsText(i)
<1> DEFINE S == {i \in a..b : IsText(i)}
           s == InOrder(S)
<1>1. S \in SUBSET (1..b)
    OBVIOUS
<1>2. S = {} <=> \A i \in a..b : ~IsText(i)
    OBVIOUS
<1>3. TextIn(a, b) = [k \in DOMAIN s |-> text[s[k]]]
    BY DEF TextIn
<1> HIDE DEF S
<1>4. /\ s \in Seq(Nat) /\ Len(s) \in Nat /\ DOMAIN s = 1..Len(s)
      /\ S = {} <=> s = <<>>
    BY <1>1, InOrderFacts
<1> HIDE DEF s
<1>5. DOMAIN s = {} <=> s = <<>>
    <2>1. s # <<>> => Len(s) # 0
        BY <1>4, EmptySeq
    <2>2. s # <<>> => 1 \in 1..Len(s)
        BY <2>1, <1>4
    <2>3. DOMAIN <<>> = {}
        BY EmptySeq
    <2> QED
        BY <2>2, <2>3, <1>4
<1>6. DOMAIN s = {} => TextIn(a, b) = <<>>
    BY <1>3
<1>7. TextIn(a, b) = <<>> => DOMAIN s = {}
    <2>1. DOMAIN <<>> = {}
        BY EmptySeq
    <2> QED
        BY <2>1, <1>3
<1> QED
    BY <1>2, <1>4, <1>5, <1>6, <1>7

\* The reference, as pieces.
LEMMA RowAsPieces ==
    ASSUME NEW a \in Nat \ {0}, NEW b \in Nat, a <= b
    PROVE  LET S == {i \in a..(b - 1) : EndsField(i)}
           IN  /\ InOrder(S \cup {b}) = Append(InOrder(S), b)
               /\ InOrder(S) \in Seq(Nat)
               /\ RowBetween(a, b) = Pieces(Append(InOrder(S), b), a, FieldCut)
<1> DEFINE S == {i \in a..(b - 1) : EndsField(i)}
           ends == Append(InOrder(S), b)
<1>1. S \in SUBSET (1..(b - 1)) /\ b - 1 \in Nat /\ b \in Nat \ {0}
    OBVIOUS
<1>2. RowBetween(a, b) =
          LET s == InOrder(S \cup {b})
          IN  [k \in DOMAIN s |-> TextIn(IF k = 1 THEN a ELSE s[k - 1] + 1, s[k] - 1)]
    BY DEF RowBetween
<1> HIDE DEF S
<1>3. InOrder(S \cup {b}) = ends /\ InOrder(S) \in Seq(Nat)
    BY <1>1, InOrderGrows, InOrderFacts
<1>4. ends \in Seq(Nat) /\ Len(ends) \in Nat /\ DOMAIN ends = 1..Len(ends)
    BY <1>3, AppendProperties, LenProperties
<1> HIDE DEF ends
<1>5. ASSUME NEW k \in DOMAIN ends
      PROVE  TextIn(IF k = 1 THEN a ELSE ends[k - 1] + 1, ends[k] - 1)
                 = FieldCut[IF k = 1 THEN a ELSE ends[k - 1] + 1][ends[k]]
    <2>1. ends[k] \in Nat /\ k \in 1..Len(ends)
        BY <1>4, <1>5, ElementOfSeq
    <2>2. k # 1 => k - 1 \in 1..Len(ends)
        BY <2>1, <1>4
    <2>3. k # 1 => ends[k - 1] \in Nat
        BY <2>2, <1>4, ElementOfSeq
    <2>4. (IF k = 1 THEN a ELSE ends[k - 1] + 1) \in Nat
        BY <2>3
    <2> QED
        BY <2>1, <2>4, Zenon DEF FieldCut
<1>6. RowBetween(a, b) = Pieces(ends, a, FieldCut)
    BY <1>2, <1>3, <1>5 DEF Pieces
<1> QED
    BY <1>3, <1>6 DEF ends, S

LEMMA RowPieces ==
    ASSUME NEW s \in Seq(Nat), NEW a \in Nat
    PROVE  /\ [k \in DOMAIN s |-> RowBetween(IF k = 1 THEN a ELSE s[k - 1] + 1, s[k])]
                  = Pieces(s, a, RowCut)
           /\ [k \in DOMAIN s |-> TextIn(IF k = 1 THEN a ELSE s[k - 1] + 1, s[k] - 1)]
                  = Pieces(s, a, FieldCut)
<1>1. Len(s) \in Nat /\ DOMAIN s = 1..Len(s)
    BY LenProperties
<1>2. ASSUME NEW k \in DOMAIN s
      PROVE  LET b == IF k = 1 THEN a ELSE s[k - 1] + 1
             IN  RowBetween(b, s[k]) = RowCut[b][s[k]] /\ TextIn(b, s[k] - 1) = FieldCut[b][s[k]]
    <2>1. s[k] \in Nat /\ k \in 1..Len(s)
        BY <1>1, <1>2, ElementOfSeq
    <2>2. k # 1 => k - 1 \in 1..Len(s)
        BY <2>1, <1>1
    <2>3. k # 1 => s[k - 1] \in Nat
        BY <2>2, <1>1, ElementOfSeq
    <2>4. (IF k = 1 THEN a ELSE s[k - 1] + 1) \in Nat
        BY <2>3
    <2> QED
        BY <2>1, <2>4, Zenon DEF FieldCut, RowCut
<1> QED
    BY <1>2 DEF Pieces

LEMMA BeforeAsPieces ==
    ASSUME NEW p \in Nat \ {0}
    PROVE  /\ RowsBefore(p) = Pieces(RowEndsBefore(p), 1, RowCut)
           /\ FieldsBefore(p) = Pieces(FieldEndsBefore(p), RowStart(p), FieldCut)
BY Starts, RowPieces DEF RowsBefore, FieldsBefore

\* A place that ends no row leaves the rows as they are.
LEMMA SameRow ==
    ASSUME NEW p \in Nat \ {0}, ~EndsRow(p)
    PROVE  /\ RowEndsBefore(p + 1) = RowEndsBefore(p) /\ RowStart(p + 1) = RowStart(p)
           /\ RowsBefore(p + 1) = RowsBefore(p)
<1>1. {i \in 1..((p + 1) - 1) : EndsRow(i)} = {i \in 1..(p - 1) : EndsRow(i)}
    <2>1. \A i : i \in 1..((p + 1) - 1) <=> i \in 1..(p - 1) \/ i = p
        OBVIOUS
    <2> QED
        BY <2>1
<1>2. RowEndsBefore(p + 1) = RowEndsBefore(p)
    BY <1>1, Zenon DEF RowEndsBefore
<1>3. RowStart(p + 1) = RowStart(p)
    BY <1>2, Zenon DEF RowStart
<1>4. RowsBefore(p + 1) = RowsBefore(p)
    BY <1>2, Zenon DEF RowsBefore
<1> QED
    BY <1>2, <1>3, <1>4

LEMMA SameField ==
    ASSUME NEW p \in Nat \ {0}, ~EndsRow(p), ~EndsField(p)
    PROVE  FieldStart(p + 1) = FieldStart(p) /\ FieldsBefore(p + 1) = FieldsBefore(p)
<1> DEFINE start == RowStart(p)
<1>1. RowStart(p + 1) = start
    BY SameRow
<1>2. start \in 1..p
    BY Starts
<1> HIDE DEF start
<1>3. {i \in start..((p + 1) - 1) : EndsField(i)} = {i \in start..(p - 1) : EndsField(i)}
    <2>1. \A i : i \in start..((p + 1) - 1) <=> i \in start..(p - 1) \/ i = p
        BY <1>2
    <2> QED
        BY <2>1
<1>4. FieldEndsBefore(p + 1) = FieldEndsBefore(p)
    BY <1>1, <1>3, Zenon DEF FieldEndsBefore, start
<1>5. FieldStart(p + 1) = FieldStart(p)
    BY <1>1, <1>4, Zenon DEF FieldStart, start
<1>6. FieldsBefore(p + 1) = FieldsBefore(p)
    BY <1>1, <1>4, Zenon DEF FieldsBefore, start
<1> QED
    BY <1>5, <1>6

\* What the next character does.
LEMMA CharRead ==
    ASSUME NEW p \in Nat \ {0}, ~EndsRow(p), ~EndsField(p)
    PROVE  /\ IsText(p) => TextBefore(p + 1) = Append(TextBefore(p), text[p])
           /\ ~IsText(p) => TextBefore(p + 1) = TextBefore(p)
<1> DEFINE a == FieldStart(p)
<1>1. a \in 1..p
    BY Starts
<1>2. FieldStart(p + 1) = a /\ (p + 1) - 1 = p
    BY SameField
<1>3. TextBefore(p) = TextIn(a, p - 1) /\ TextBefore(p + 1) = TextIn(a, p)
    BY <1>2 DEF TextBefore
<1> HIDE DEF a
<1>4. /\ IsText(p) => TextIn(a, p) = Append(TextIn(a, p - 1), text[p])
      /\ ~IsText(p) => TextIn(a, p) = TextIn(a, p - 1)
    BY <1>1, TextGrows
<1> QED
    BY <1>3, <1>4

LEMMA NoTextYet ==
    ASSUME NEW p \in Nat \ {0}
    PROVE  TextIn(p + 1, p) = <<>>
<1>1. p + 1 \in Nat \ {0} /\ p \in Nat /\ \A i \in (p + 1)..p : ~IsText(i)
    OBVIOUS
<1> QED
    BY <1>1, NoText

LEMMA FieldRead ==
    ASSUME NEW p \in Nat \ {0}, ~EndsRow(p), EndsField(p)
    PROVE  /\ FieldsBefore(p + 1) = Append(FieldsBefore(p), TextBefore(p))
           /\ TextBefore(p + 1) = <<>>
<1> DEFINE start == RowStart(p)
           S == {i \in start..(p - 1) : EndsField(i)}
           s == InOrder(S)
<1>1. start \in 1..p /\ start \in Nat \ {0} /\ RowStart(p + 1) = start
    BY SameRow, Starts
<1>2. s = FieldEndsBefore(p) /\ FieldStart(p) = After(s, start)
    BY DEF FieldEndsBefore, FieldStart
<1> HIDE DEF start
<1>3. {i \in start..((p + 1) - 1) : EndsField(i)} = S \cup {p}
    <2>1. \A i : i \in start..((p + 1) - 1) <=> i \in start..(p - 1) \/ i = p
        BY <1>1
    <2> QED
        BY <2>1
<1>4. FieldEndsBefore(p + 1) = InOrder(S \cup {p})
    BY <1>1, <1>3, Zenon DEF FieldEndsBefore
<1>5. S \in SUBSET (1..(p - 1)) /\ p - 1 \in Nat
    BY <1>1
<1> HIDE DEF S
<1>6. InOrder(S \cup {p}) = Append(s, p) /\ s \in Seq(Nat)
    BY <1>5, InOrderGrows, InOrderFacts
<1> HIDE DEF s
<1>7. FieldsBefore(p + 1) = Pieces(Append(s, p), start, FieldCut)
    <2>1. p + 1 \in Nat \ {0}
        OBVIOUS
    <2>2. FieldsBefore(p + 1) = Pieces(FieldEndsBefore(p + 1), RowStart(p + 1), FieldCut)
        BY <2>1, BeforeAsPieces
    <2> QED
        BY <2>2, <1>1, <1>4, <1>6
<1>8. FieldsBefore(p) = Pieces(s, start, FieldCut)
    BY <1>2, BeforeAsPieces DEF start
<1>9. FieldCut[After(s, start)][p] = TextBefore(p)
    <2>1. After(s, start) \in Nat
        BY <1>2, Starts
    <2>2. TextBefore(p) = TextIn(After(s, start), p - 1)
        BY <1>2 DEF TextBefore
    <2> QED
        BY <2>1, <2>2 DEF FieldCut
<1>10. FieldsBefore(p + 1) = Append(FieldsBefore(p), TextBefore(p))
    <2>1. Pieces(Append(s, p), start, FieldCut)
              = Append(Pieces(s, start, FieldCut), FieldCut[After(s, start)][p])
        BY <1>6, OneMorePiece
    <2> QED
        BY <2>1, <1>7, <1>8, <1>9
<1>11. FieldStart(p + 1) = p + 1
    <2>1. Len(Append(s, p)) = Len(s) + 1 /\ Append(s, p)[Len(s) + 1] = p /\ Append(s, p) \in Seq(Nat)
        BY <1>6, AppendProperties
    <2>2. Append(s, p) # <<>> /\ Append(s, p)[Len(Append(s, p))] = p
        BY <2>1, <1>6, EmptySeq, LenProperties
    <2>3. After(Append(s, p), start) = p + 1
        BY <2>2 DEF After
    <2> QED
        BY <2>3, <1>1, <1>4, <1>6 DEF FieldStart
<1>12. TextBefore(p + 1) = TextIn(p + 1, p)
    <2>1. (p + 1) - 1 = p
        OBVIOUS
    <2> QED
        BY <2>1, <1>11 DEF TextBefore
<1> QED
    BY <1>10, <1>12, NoTextYet

\* The row that ends at a place.
LEMMA RowIsRead ==
    ASSUME NEW p \in Nat \ {0}
    PROVE  RowBetween(RowStart(p), p) = Append(FieldsBefore(p), TextBefore(p))
<1> DEFINE start == RowStart(p)
           s == FieldEndsBefore(p)
<1>1. start \in Nat \ {0} /\ start <= p /\ s \in Seq(Nat)
    BY Starts
<1>2. s = InOrder({i \in start..(p - 1) : EndsField(i)})
    BY DEF FieldEndsBefore
<1>3. After(s, start) \in Nat /\ TextBefore(p) = TextIn(After(s, start), p - 1)
    BY Starts DEF FieldStart, TextBefore
<1>4. FieldsBefore(p) = Pieces(s, start, FieldCut)
    BY BeforeAsPieces
<1> HIDE DEF start, s
<1>5. RowBetween(start, p) = Pieces(Append(s, p), start, FieldCut)
    BY <1>1, <1>2, RowAsPieces
<1>6. Pieces(Append(s, p), start, FieldCut)
          = Append(Pieces(s, start, FieldCut), FieldCut[After(s, start)][p])
    BY <1>1, OneMorePiece
<1>7. FieldCut[After(s, start)][p] = TextBefore(p)
    BY <1>3 DEF FieldCut
<1> QED
    BY <1>4, <1>5, <1>6, <1>7 DEF start

\* Another place behind the ends of rows.
LEMMA OneMoreRow ==
    ASSUME NEW p \in Nat \ {0}
    PROVE  Pieces(Append(RowEndsBefore(p), p), 1, RowCut)
               = Append(RowsBefore(p), Append(FieldsBefore(p), TextBefore(p)))
<1> DEFINE s == RowEndsBefore(p)
<1>1. s \in Seq(Nat) /\ After(s, 1) = RowStart(p) /\ RowStart(p) \in Nat
    BY Starts DEF RowStart
<1>2. RowsBefore(p) = Pieces(s, 1, RowCut)
    BY BeforeAsPieces
<1> HIDE DEF s
<1>3. Pieces(Append(s, p), 1, RowCut) = Append(Pieces(s, 1, RowCut), RowCut[After(s, 1)][p])
    BY <1>1, OneMorePiece
<1>4. RowCut[After(s, 1)][p] = RowBetween(RowStart(p), p)
    BY <1>1 DEF RowCut
<1> QED
    BY <1>2, <1>3, <1>4, RowIsRead DEF s

LEMMA RowRead ==
    ASSUME NEW p \in Nat \ {0}, EndsRow(p)
    PROVE  /\ RowsBefore(p + 1) = Append(RowsBefore(p), Append(FieldsBefore(p), TextBefore(p)))
           /\ FieldsBefore(p + 1) = <<>> /\ TextBefore(p + 1) = <<>>
<1> DEFINE S == {i \in 1..(p - 1) : EndsRow(i)}
           s == InOrder(S)
<1>1. {i \in 1..((p + 1) - 1) : EndsRow(i)} = S \cup {p}
    <2>1. \A i : i \in 1..((p + 1) - 1) <=> i \in 1..(p - 1) \/ i = p
        OBVIOUS
    <2> QED
        BY <2>1
<1>2. S \in SUBSET (1..(p - 1)) /\ p - 1 \in Nat
    OBVIOUS
<1>3. s = RowEndsBefore(p) /\ RowEndsBefore(p + 1) = InOrder(S \cup {p})
    BY <1>1, Zenon DEF RowEndsBefore
<1> HIDE DEF S
<1>4. InOrder(S \cup {p}) = Append(s, p) /\ s \in Seq(Nat)
    BY <1>2, InOrderGrows, InOrderFacts
<1> HIDE DEF s
<1>5. p + 1 \in Nat \ {0} /\ (p + 1) - 1 = p /\ (p + 1)..p = {}
    OBVIOUS
<1>6. RowsBefore(p + 1) = Append(RowsBefore(p), Append(FieldsBefore(p), TextBefore(p)))
    <2>1. RowsBefore(p + 1) = Pieces(RowEndsBefore(p + 1), 1, RowCut)
        BY <1>5, BeforeAsPieces
    <2> QED
        BY <2>1, <1>3, <1>4, OneMoreRow
<1>7. RowStart(p + 1) = p + 1
    <2>1. Len(Append(s, p)) = Len(s) + 1 /\ Append(s, p)[Len(s) + 1] = p /\ Append(s, p) \in Seq(Nat)
        BY <1>4, AppendProperties
    <2>2. Append(s, p) # <<>> /\ Append(s, p)[Len(Append(s, p))] = p
        BY <2>1, <1>4, EmptySeq, LenProperties
    <2>3. After(Append(s, p), 1) = p + 1
        BY <2>2 DEF After
    <2> QED
        BY <2>3, <1>3, <1>4 DEF RowStart
<1>8. FieldEndsBefore(p + 1) = <<>>
    <2>1. FieldEndsBefore(p + 1) = InOrder({i \in (p + 1)..p : EndsField(i)})
        BY <1>5, <1>7 DEF FieldEndsBefore
    <2>2. {i \in (p + 1)..p : EndsField(i)} = {}
        BY <1>5
    <2>3. InOrder({}) = <<>>
        BY EmptyListed, ListedInOrder
    <2> QED
        BY <2>1, <2>2, <2>3
<1>9. FieldStart(p + 1) = p + 1
    BY <1>7, <1>8 DEF FieldStart, After
<1>10. FieldsBefore(p + 1) = <<>>
    <2>1. DOMAIN <<>> = {}
        BY EmptySeq
    <2> QED
        BY <2>1, <1>8 DEF FieldsBefore
<1>11. TextBefore(p + 1) = TextIn(p + 1, p)
    BY <1>5, <1>9 DEF TextBefore
<1> QED
    BY <1>6, <1>10, <1>11, NoTextYet

-----------------------------------------------------------------------------
(* One step of the reader, from a place to the next.                       *)

\* Every quote opens or closes, every other character leaves it as it is.
LEMMA OutsideNext ==
    ASSUME NEW p \in Nat \ {0}
    PROVE  Outside(p + 1) <=> IF text[p] = Quote THEN ~Outside(p) ELSE Outside(p)
<1> DEFINE S == {j \in 1..(p - 1) : text[j] = Quote}
           T == {j \in 1..((p + 1) - 1) : text[j] = Quote}
           c == Cardinality(S)
<1>1. (Outside(p) <=> c % 2 = 0) /\ (Outside(p + 1) <=> Cardinality(T) % 2 = 0)
    BY Zenon DEF Outside
<1>2. \A i : i \in 1..((p + 1) - 1) <=> i \in 1..(p - 1) \/ i = p
    OBVIOUS
<1>3. p \notin S /\ S \subseteq 1..(p - 1) /\ p - 1 \in Int
    OBVIOUS
<1>4. /\ text[p] = Quote => T = S \cup {p}
      /\ text[p] # Quote => T = S
    BY <1>2
<1> HIDE DEF S, T
<1>5. IsFiniteSet(S)
    <2>1. IsFiniteSet(1..(p - 1))
        BY <1>3, FS_Interval
    <2>2. S \in SUBSET (1..(p - 1))
        BY <1>3
    <2> QED
        BY <2>1, <2>2, FS_Subset
<1>6. c \in Nat
    BY <1>5, FS_CardinalityType
<1>7. Cardinality(S \cup {p}) = c + 1
    BY <1>3, <1>5, FS_AddElement
<1> HIDE DEF c
<1>8. (c + 1) % 2 = 0 <=> ~(c % 2 = 0)
    BY <1>6
<1>9. CASE text[p] = Quote
    BY <1>1, <1>4, <1>7, <1>8, <1>9
<1>10. CASE text[p] # Quote
    BY <1>1, <1>4, <1>10 DEF c
<1> QED
    BY <1>9, <1>10

LEMMA OutsideAtFirst == Outside(1)
<1>1. {j \in 1..(1 - 1) : text[j] = Quote} = {}
    OBVIOUS
<1>2. Cardinality({}) = 0 /\ 0 % 2 = 0
    BY FS_EmptySet
<1> QED
    BY <1>1, <1>2 DEF Outside

\* What has been read after a character that ends nothing, a field or a row.
LEMMA CharStep ==
    ASSUME NEW p \in Nat \ {0}, NEW the_field, NEW the_row, NEW the_rows,
           SoFar(p, the_field, the_row, the_rows), ~EndsRow(p), ~EndsField(p)
    PROVE  /\ IsText(p) => SoFar(p + 1, Append(the_field, text[p]), the_row, the_rows)
           /\ ~IsText(p) => SoFar(p + 1, the_field, the_row, the_rows)
BY SameRow, SameField, CharRead DEF SoFar

LEMMA FieldStep ==
    ASSUME NEW p \in Nat \ {0}, NEW the_field, NEW the_row, NEW the_rows,
           SoFar(p, the_field, the_row, the_rows), ~EndsRow(p), EndsField(p)
    PROVE  SoFar(p + 1, <<>>, Append(the_row, the_field), the_rows)
BY SameRow, FieldRead DEF SoFar

LEMMA RowStep ==
    ASSUME NEW p \in Nat \ {0}, NEW the_field, NEW the_row, NEW the_rows,
           SoFar(p, the_field, the_row, the_rows), EndsRow(p)
    PROVE  SoFar(p + 1, <<>>, <<>>, Append(the_rows, Append(the_row, the_field)))
BY RowRead DEF SoFar

\* What a character is to the reference, by what it is to the reader.
LEMMA QuotedQuote ==
    ASSUME NEW p, text[p] = Quote, ~Outside(p)
    PROVE  ~EndsRow(p) /\ ~EndsField(p) /\ ~IsText(p)
BY DEF EndsRow, EndsField, IsText

LEMMA SecondQuote ==
    ASSUME NEW p \in Nat \ {0}, text[p] = Quote, text[p + 1] = Quote, ~Outside(p)
    PROVE  Outside(p + 1) /\ ~EndsRow(p + 1) /\ ~EndsField(p + 1) /\ IsText(p + 1)
<1>1. Outside(p + 1)
    BY OutsideNext
<1>2. p + 1 > 1 /\ (p + 1) - 1 = p
    OBVIOUS
<1>3. ~EndsRow(p + 1) /\ ~EndsField(p + 1)
    BY CharAssumption DEF CharAssumption, EndsRow, EndsField
<1>4. IsText(p + 1)
    BY <1>1, <1>2 DEF IsText
<1> QED
    BY <1>1, <1>3, <1>4

LEMMA OpeningQuote ==
    ASSUME NEW p \in 1..Len(text), text[p] = Quote, NoHalfPair(p)
    PROVE  ~EndsRow(p) /\ ~EndsField(p) /\ ~IsText(p)
<1>1. ~EndsRow(p) /\ ~EndsField(p)
    BY CharAssumption DEF CharAssumption, EndsRow, EndsField
<1>2. p > 1 => text[p - 1] # Quote
    BY DEF NoHalfPair
<1> QED
    BY <1>1, <1>2 DEF IsText

LEMMA PlainChar ==
    ASSUME NEW p, text[p] # Quote, ~Outside(p) \/ text[p] \notin {Comma, CR, LF}
    PROVE  ~EndsRow(p) /\ ~EndsField(p) /\ IsText(p)
BY DEF EndsRow, EndsField, Follows, IsText

LEMMA FieldEnd ==
    ASSUME NEW p, text[p] = Comma, Outside(p)
    PROVE  EndsField(p) /\ ~EndsRow(p)
BY CharAssumption DEF CharAssumption, EndsField, EndsRow

LEMMA RowEnd ==
    ASSUME NEW p \in 1..Len(text), text[p] \in {CR, LF}, Outside(p), NoHalfPair(p)
    PROVE  EndsRow(p)
<1>1. text[p] = LF /\ p > 1 => text[p - 1] # CR
    BY DEF NoHalfPair
<1> QED
    BY <1>1 DEF EndsRow, Follows

LEMMA LineFeedBehind ==
    ASSUME NEW p \in Nat \ {0}, text[p] = CR, text[p + 1] = LF, Outside(p)
    PROVE  Outside(p + 1) /\ ~EndsRow(p + 1) /\ ~EndsField(p + 1) /\ ~IsText(p + 1)
<1>1. text[p] # Quote /\ text[p + 1] # Quote /\ text[p + 1] # Comma
    BY CharAssumption DEF CharAssumption
<1>2. Outside(p + 1)
    BY <1>1, OutsideNext
<1>3. p + 1 > 1 /\ (p + 1) - 1 = p
    OBVIOUS
<1>4. Follows(p + 1)
    BY <1>2, <1>3 DEF Follows
<1> QED
    BY <1>1, <1>2, <1>4 DEF EndsRow, EndsField, IsText

\* A place behind a character that is no half of a pair.
LEMMA NoHalfBehind ==
    ASSUME NEW p \in Nat \ {0}, text[p] # Quote \/ (p < Len(text) => text[p + 1] # Quote),
           text[p] # CR \/ (p < Len(text) => text[p + 1] # LF), Len(text) \in Nat
    PROVE  NoHalfPair(p + 1)
<1>1. (p + 1) - 1 = p /\ (p + 1 <= Len(text) => p < Len(text))
    OBVIOUS
<1> QED
    BY <1>1 DEF NoHalfPair

LEMMA QuoteInsideStep ==
    ASSUME Len(text) \in Nat, ReadTo(pos, in_quotes, field, row, rows), QuoteInside
    PROVE  ReadTo(pos', in_quotes', field', row', rows')
<1>1. /\ pos \in Nat \ {0} /\ pos \in 1..Len(text) /\ text[pos] = Quote /\ in_quotes
      /\ ~Outside(pos) /\ SoFar(pos, field, row, rows) /\ row' = row /\ rows' = rows
    BY DEF QuoteInside, More, Char, ReadTo
<1>2. ~EndsRow(pos) /\ ~EndsField(pos) /\ ~IsText(pos)
    BY <1>1, QuotedQuote
<1>3. SoFar(pos + 1, field, row, rows)
    BY <1>1, <1>2, CharStep
<1>4. Outside(pos + 1)
    BY <1>1, OutsideNext
<1>5. CASE PeekIs(Quote)
    <2>1. /\ field' = Append(field, Quote) /\ pos' = pos + 2 /\ in_quotes' = in_quotes
          /\ text[pos + 1] = Quote /\ pos < Len(text)
        BY <1>5 DEF QuoteInside, PeekIs
    <2> DEFINE q == pos + 1
    <2>2. Outside(q) /\ ~EndsRow(q) /\ ~EndsField(q) /\ IsText(q)
        BY <1>1, <2>1, SecondQuote
    <2>3. q \in Nat \ {0} /\ q + 1 = pos' /\ q + 1 \in 1..(Len(text) + 1)
        BY <1>1, <2>1
    <2>4. text[q] = Quote /\ SoFar(q, field, row, rows)
        BY <2>1, <1>3
    <2> HIDE DEF q
    <2>5. SoFar(q + 1, Append(field, Quote), row, rows)
        BY <2>2, <2>3, <2>4, CharStep
    <2>6. ~Outside(q + 1)
        BY <2>2, <2>3, <2>4, OutsideNext
    <2> QED
        BY <2>1, <2>3, <2>5, <2>6, <1>1 DEF ReadTo
<1>6. CASE ~PeekIs(Quote)
    <2>1. /\ field' = field /\ pos' = pos + 1 /\ in_quotes' = FALSE
          /\ pos < Len(text) => text[pos + 1] # Quote
        BY <1>6 DEF QuoteInside, PeekIs
    <2>2. text[pos] # CR
        BY <1>1, CharAssumption DEF CharAssumption
    <2>3. NoHalfPair(pos + 1)
        BY <1>1, <2>1, <2>2, NoHalfBehind
    <2>4. pos + 1 \in 1..(Len(text) + 1)
        BY <1>1
    <2> QED
        BY <2>1, <2>3, <2>4, <1>1, <1>3, <1>4 DEF ReadTo
<1> QED
    BY <1>5, <1>6

LEMMA QuoteOutsideStep ==
    ASSUME Len(text) \in Nat, ReadTo(pos, in_quotes, field, row, rows), QuoteOutside
    PROVE  ReadTo(pos', in_quotes', field', row', rows')
<1>1. /\ pos \in Nat \ {0} /\ pos \in 1..Len(text) /\ text[pos] = Quote
      /\ Outside(pos) /\ NoHalfPair(pos) /\ SoFar(pos, field, row, rows)
      /\ pos' = pos + 1 /\ in_quotes' = TRUE /\ field' = field /\ row' = row /\ rows' = rows
    BY DEF QuoteOutside, More, Char, ReadTo
<1>2. ~EndsRow(pos) /\ ~EndsField(pos) /\ ~IsText(pos)
    BY <1>1, OpeningQuote
<1>3. SoFar(pos + 1, field, row, rows)
    BY <1>1, <1>2, CharStep
<1>4. ~Outside(pos + 1)
    BY <1>1, OutsideNext
<1>5. pos + 1 \in 1..(Len(text) + 1)
    BY <1>1
<1> QED
    BY <1>1, <1>3, <1>4, <1>5 DEF ReadTo

LEMMA PushCharStep ==
    ASSUME Len(text) \in Nat, ReadTo(pos, in_quotes, field, row, rows), PushChar
    PROVE  ReadTo(pos', in_quotes', field', row', rows')
<1>1. /\ pos \in Nat \ {0} /\ pos \in 1..Len(text) /\ text[pos] # Quote
      /\ in_quotes <=> ~Outside(pos)
      /\ in_quotes \/ text[pos] \notin {Comma, CR, LF}
      /\ SoFar(pos, field, row, rows)
      /\ pos' = pos + 1 /\ in_quotes' = in_quotes /\ field' = Append(field, text[pos])
      /\ row' = row /\ rows' = rows
    BY DEF PushChar, More, Char, ReadTo
<1>2. ~EndsRow(pos) /\ ~EndsField(pos) /\ IsText(pos)
    BY <1>1, PlainChar
<1>3. SoFar(pos + 1, field', row, rows)
    BY <1>1, <1>2, CharStep
<1>4. Outside(pos + 1) <=> Outside(pos)
    BY <1>1, OutsideNext
<1>5. pos + 1 \in 1..(Len(text) + 1)
    BY <1>1
<1>6. ~in_quotes => NoHalfPair(pos + 1)
    <2>1. ~in_quotes => text[pos] # CR
        BY <1>1
    <2> QED
        BY <2>1, <1>1, NoHalfBehind
<1> QED
    BY <1>1, <1>3, <1>4, <1>5, <1>6 DEF ReadTo

LEMMA EndFieldStep ==
    ASSUME Len(text) \in Nat, ReadTo(pos, in_quotes, field, row, rows), EndField
    PROVE  ReadTo(pos', in_quotes', field', row', rows')
<1>1. /\ pos \in Nat \ {0} /\ pos \in 1..Len(text) /\ text[pos] = Comma
      /\ ~in_quotes /\ Outside(pos) /\ SoFar(pos, field, row, rows)
      /\ pos' = pos + 1 /\ in_quotes' = in_quotes /\ field' = <<>>
      /\ row' = Append(row, field) /\ rows' = rows
    BY DEF EndField, More, Char, ReadTo
<1>2. ~EndsRow(pos) /\ EndsField(pos)
    BY <1>1, FieldEnd
<1>3. SoFar(pos + 1, field', row', rows')
    BY <1>1, <1>2, FieldStep
<1>4. text[pos] # Quote /\ text[pos] # CR
    BY <1>1, CharAssumption DEF CharAssumption
<1>5. Outside(pos + 1) /\ NoHalfPair(pos + 1)
    BY <1>1, <1>4, OutsideNext, NoHalfBehind
<1>6. pos + 1 \in 1..(Len(text) + 1)
    BY <1>1
<1> QED
    BY <1>1, <1>3, <1>5, <1>6 DEF ReadTo

LEMMA EndRowStep ==
    ASSUME Len(text) \in Nat, ReadTo(pos, in_quotes, field, row, rows), EndRow
    PROVE  ReadTo(pos', in_quotes', field', row', rows')
<1>1. /\ pos \in Nat \ {0} /\ pos \in 1..Len(text) /\ text[pos] \in {CR, LF}
      /\ ~in_quotes /\ Outside(pos) /\ NoHalfPair(pos) /\ SoFar(pos, field, row, rows)
      /\ pos' = (IF text[pos] = CR /\ PeekIs(LF) THEN pos + 2 ELSE pos + 1)
      /\ in_quotes' = in_quotes /\ field' = <<>> /\ row' = <<>>
      /\ rows' = Append(rows, Append(row, field))
    BY DEF EndRow, More, Char, ReadTo
<1>2. EndsRow(pos)
    BY <1>1, RowEnd
<1>3. SoFar(pos + 1, field', row', rows')
    BY <1>1, <1>2, RowStep
<1>4. text[pos] # Quote
    BY <1>1, CharAssumption DEF CharAssumption
<1>5. Outside(pos + 1) /\ pos + 1 \in 1..(Len(text) + 1)
    <2>1. Outside(pos + 1)
        BY <1>1, <1>4, OutsideNext
    <2>2. pos + 1 \in 1..(Len(text) + 1)
        BY <1>1
    <2> QED
        BY <2>1, <2>2
<1>6. CASE text[pos] = CR /\ PeekIs(LF)
    <2> DEFINE q == pos + 1
    <2>1. pos < Len(text) /\ text[pos + 1] = LF
        BY <1>6 DEF PeekIs
    <2>2. Outside(q) /\ ~EndsRow(q) /\ ~EndsField(q) /\ ~IsText(q)
        BY <1>1, <1>6, <2>1, LineFeedBehind
    <2>3. q \in Nat \ {0} /\ q + 1 = pos' /\ q + 1 \in 1..(Len(text) + 1)
        BY <1>1, <1>6, <2>1
    <2>4. SoFar(q, field', row', rows') /\ text[q] = LF
        BY <1>3, <2>1
    <2> HIDE DEF q
    <2>5. text[q] # Quote /\ text[q] # CR
        BY <2>4, CharAssumption DEF CharAssumption
    <2>6. SoFar(q + 1, field', row', rows')
        BY <2>2, <2>3, <2>4, CharStep
    <2>7. Outside(q + 1) /\ NoHalfPair(q + 1)
        BY <2>2, <2>3, <2>5, OutsideNext, NoHalfBehind
    <2> QED
        BY <1>1, <2>3, <2>6, <2>7 DEF ReadTo
<1>7. CASE ~(text[pos] = CR /\ PeekIs(LF))
    <2>1. pos' = pos + 1
        BY <1>1, <1>7
    <2>2. text[pos] # CR \/ (pos < Len(text) => text[pos + 1] # LF)
        BY <1>7 DEF PeekIs
    <2>3. NoHalfPair(pos + 1)
        BY <1>1, <1>4, <2>2, NoHalfBehind
    <2> QED
        BY <1>1, <1>3, <1>5, <2>1, <2>3 DEF ReadTo
<1> QED
    BY <1>6, <1>7

\* At the end: a row without a line end counts if there is something in it.
LEMMA EndOfInputStep ==
    ASSUME Len(text) \in Nat, ReadTo(pos, in_quotes, field, row, rows), EndOfInput
    PROVE  pos > Len(text) /\ rows' = RowsOfText
<1> DEFINE n == Len(text)
           p == n + 1
           ends == {i \in Places : EndsRow(i)}
           open == {i \in Places : (\A e \in ends : e < i) /\ (IsText(i) \/ EndsField(i))}
           start == RowStart(p)
           fields == {i \in start..n : EndsField(i)}
           RowEndsHere == InOrder(ends \cup (IF open = {} THEN {} ELSE {p}))
<1>1. /\ pos = p /\ p \in Nat \ {0} /\ n \in Nat /\ (p - 1) = n
      /\ rows' = IF field # <<>> \/ row # <<>> THEN Append(rows, Append(row, field)) ELSE rows
      /\ field = TextBefore(p) /\ row = FieldsBefore(p) /\ rows = RowsBefore(p)
    BY DEF EndOfInput, More, ReadTo, SoFar
<1>2. /\ RowsOfText = [k \in DOMAIN RowEnds |-> RowBetween(IF k = 1 THEN 1 ELSE RowEnds[k - 1] + 1, RowEnds[k])]
      /\ RowEnds = RowEndsHere
      /\ ends = {i \in 1..(p - 1) : EndsRow(i)}
    BY <1>1 DEF RowsOfText, RowEnds, Places
<1>3. RowEndsBefore(p) = InOrder(ends) /\ start = After(InOrder(ends), 1)
    BY <1>2 DEF RowEndsBefore, RowStart
<1>4. FieldEndsBefore(p) = InOrder(fields) /\ FieldStart(p) = After(InOrder(fields), start)
    BY <1>1 DEF FieldEndsBefore, FieldStart
<1>5. /\ start \in 1..p /\ start \in Nat \ {0}
      /\ FieldStart(p) \in start..p /\ FieldStart(p) \in Nat \ {0}
    <2> HIDE DEF p
    <2>1. start \in 1..p /\ FieldStart(p) \in start..p
        BY <1>1, Starts
    <2> HIDE DEF start
    <2> QED
        BY <2>1
<1>6. \A i \in 1..n : (\A e \in ends : e < i) <=> i >= start
    <2>1. 1 \in 1..p /\ ends \in SUBSET (1..(p - 1))
        BY <1>1, <1>2
    <2> HIDE DEF ends
    <2>2. /\ \A e \in ends : e < start
          /\ ends = {} => start = 1
          /\ ends # {} => start - 1 \in ends
        BY <2>1, <1>1, <1>3, AfterWithin
    <2> HIDE DEF start
    <2> SUFFICES ASSUME NEW i \in 1..n PROVE (\A e \in ends : e < i) <=> i >= start
        OBVIOUS
    <2>3. i \in Nat /\ i >= 1
        BY <1>1
    <2>4. ends = {} \/ start - 1 < i => i >= start
        BY <2>2, <2>3, <1>5
    <2>5. (\A e \in ends : e < i) => i >= start
        BY <2>2, <2>4
    <2>6. i >= start => \A e \in ends : e < i
        <3>1. ends \subseteq Int
            BY <2>1
        <3> QED
            BY <3>1, <2>2, <2>3, <1>5
    <2> QED
        BY <2>5, <2>6
<1>7. open = {} <=> \A i \in start..n : ~IsText(i) /\ ~EndsField(i)
    <2>1. \A i : i \in start..n <=> i \in 1..n /\ i >= start
        BY <1>5, <1>1
    <2>2. Places = 1..n
        BY DEF Places
    <2> HIDE DEF ends, start, n
    <2> QED
        BY <2>1, <2>2, <1>6
<1>8. open = {} <=> field = <<>> /\ row = <<>>
    <2>1. /\ fields \in SUBSET (1..n) /\ fields \in SUBSET (start..(p - 1))
          /\ fields = {} <=> \A i \in start..n : ~EndsField(i)
        BY <1>1, <1>5
    <2>2. field = <<>> <=> \A i \in FieldStart(p)..n : ~IsText(i)
        <3>1. field = TextIn(FieldStart(p), n)
            BY <1>1 DEF TextBefore
        <3> QED
            BY <3>1, <1>1, <1>5, NoText
    <2> HIDE DEF fields, start, n, p
    <2>3. row = <<>> <=> fields = {}
        <3> DEFINE s == InOrder(fields)
        <3>1. /\ s \in Seq(Nat) /\ Len(s) \in Nat /\ DOMAIN s = 1..Len(s)
              /\ fields = {} <=> s = <<>>
            <4>1. n \in Nat /\ fields \in SUBSET (1..n)
                BY <1>1, <2>1
            <4> QED
                BY <4>1, InOrderFacts
        <3>2. DOMAIN row = DOMAIN s
            BY <1>1, <1>4 DEF FieldsBefore
        <3>3. row = <<>> => s = <<>>
            <4>1. DOMAIN <<>> = {}
                BY EmptySeq
            <4>2. row = <<>> => 1..Len(s) = {}
                BY <3>1, <3>2, <4>1
            <4>3. row = <<>> => Len(s) = 0
                <5>1. Len(s) # 0 => 1 \in 1..Len(s)
                    BY <3>1
                <5> QED
                    BY <4>2, <5>1
            <4> QED
                BY <4>3, <3>1, EmptySeq
        <3>4. s = <<>> => row = <<>>
            <4>1. DOMAIN <<>> = {}
                BY EmptySeq
            <4> QED
                BY <4>1, <1>1, <1>4 DEF FieldsBefore
        <3> QED
            BY <3>1, <3>3, <3>4
    <2>4. fields = {} => FieldStart(p) = start
        BY <2>1, <1>1, <1>4, <1>5, AfterWithin
    <2>5. \A i \in FieldStart(p)..n : i \in start..n
        BY <1>5, <1>1
    <2> QED
        BY <2>1, <2>2, <2>3, <2>4, <2>5, <1>7
<1>9. InOrder(ends) \in Seq(Nat) /\ InOrder(ends \cup {p}) = Append(InOrder(ends), p)
    BY <1>1, <1>2, InOrderFacts, InOrderGrows
<1>10. ASSUME NEW s \in Seq(Nat)
       PROVE  [k \in DOMAIN s |-> RowBetween(IF k = 1 THEN 1 ELSE s[k - 1] + 1, s[k])] = Pieces(s, 1, RowCut)
    BY <1>10, RowPieces
<1>11. CASE open = {}
    <2>1. RowEnds = RowEndsBefore(p)
        BY <1>2, <1>3, <1>11
    <2>2. RowsOfText = RowsBefore(p)
        BY <2>1, <1>2, Zenon DEF RowsBefore
    <2> QED
        BY <2>2, <1>1, <1>8, <1>11
<1>12. CASE open # {}
    <2>1. RowEnds = Append(RowEndsBefore(p), p) /\ RowEnds \in Seq(Nat)
        <3>1. RowEnds = InOrder(ends \cup {p})
            BY <1>2, <1>12
        <3>2. RowEnds = Append(RowEndsBefore(p), p)
            BY <3>1, <1>3, <1>9
        <3> HIDE DEF p, ends
        <3>3. Append(InOrder(ends), p) \in Seq(Nat)
            BY <1>1, <1>9, AppendProperties
        <3> QED
            BY <3>2, <3>3, <1>3
    <2>2. RowsOfText = Pieces(RowEnds, 1, RowCut)
        BY <2>1, <1>2, <1>10
    <2>3. RowsOfText = Append(RowsBefore(p), Append(FieldsBefore(p), TextBefore(p)))
        BY <2>1, <2>2, <1>1, OneMoreRow
    <2> QED
        BY <2>3, <1>1, <1>8, <1>12
<1> QED
    BY <1>1, <1>11, <1>12

-----------------------------------------------------------------------------
(* All that is said of a place is said of the file, which no step changes. *)

LEMMA SameText ==
    ASSUME text' = text
    PROVE  /\ RowsOfText' = RowsOfText
           /\ \A p, quoted, the_field, the_row, the_rows :
                  ReadTo(p, quoted, the_field, the_row, the_rows)'
                      <=> ReadTo(p, quoted, the_field, the_row, the_rows)
<1>1. \A i : Outside(i)' <=> Outside(i)
    BY DEF Outside
<1>2. \A i : Follows(i)' <=> Follows(i)
    BY <1>1 DEF Follows
<1>3. \A i : (EndsRow(i)' <=> EndsRow(i)) /\ (EndsField(i)' <=> EndsField(i))
    BY <1>1, <1>2 DEF EndsRow, EndsField
<1>4. \A i : IsText(i)' <=> IsText(i)
    BY <1>1, <1>2, <1>3 DEF IsText
<1>5. \A a, b : TextIn(a, b)' = TextIn(a, b)
    BY <1>4 DEF TextIn
<1>6. \A a, b : RowBetween(a, b)' = RowBetween(a, b)
    BY <1>3, <1>5 DEF RowBetween
<1>7. RowEnds' = RowEnds
    BY <1>3, <1>4 DEF RowEnds, Places
<1>8. RowsOfText' = RowsOfText
    BY <1>6, <1>7 DEF RowsOfText
<1>9. \A p : RowEndsBefore(p)' = RowEndsBefore(p)
    BY <1>3 DEF RowEndsBefore
<1>10. \A p : RowStart(p)' = RowStart(p)
    BY <1>9 DEF RowStart
<1>11. \A p : FieldEndsBefore(p)' = FieldEndsBefore(p)
    BY <1>3, <1>10 DEF FieldEndsBefore
<1>12. \A p : FieldStart(p)' = FieldStart(p)
    BY <1>10, <1>11 DEF FieldStart
<1>13. \A p : RowsBefore(p)' = RowsBefore(p)
    BY <1>6, <1>9 DEF RowsBefore
<1>14. \A p : FieldsBefore(p)' = FieldsBefore(p)
    BY <1>5, <1>10, <1>11 DEF FieldsBefore
<1>15. \A p : TextBefore(p)' = TextBefore(p)
    BY <1>5, <1>12 DEF TextBefore
<1>16. \A p : NoHalfPair(p)' <=> NoHalfPair(p)
    BY DEF NoHalfPair
<1> QED
    BY <1>1, <1>8, <1>13, <1>14, <1>15, <1>16 DEF ReadTo, SoFar

LEMMA InitReaderInv == IEInit => ReaderInv
<1> SUFFICES ASSUME IEInit PROVE ReaderInv
    OBVIOUS
<1>1. /\ text \in Characters /\ pos = 1 /\ ~in_quotes /\ ~parsed
      /\ field = <<>> /\ row = <<>> /\ rows = <<>>
    BY InitRowInv DEF IEInit, CsvInit, RowInv, CellsAreText
<1>2. Len(text) \in Nat
    BY <1>1, LenProperties DEF Characters
<1>3. InOrder({}) = <<>> /\ DOMAIN <<>> = {}
    BY EmptyListed, ListedInOrder, EmptySeq
<1>4. {i \in 1..(1 - 1) : EndsRow(i)} = {}
    OBVIOUS
<1>5. RowEndsBefore(1) = <<>> /\ RowStart(1) = 1
    BY <1>3, <1>4 DEF RowEndsBefore, RowStart, After
<1>6. {i \in 1..(1 - 1) : EndsField(i)} = {}
    OBVIOUS
<1>7. FieldEndsBefore(1) = <<>> /\ FieldStart(1) = 1
    BY <1>3, <1>5, <1>6 DEF FieldEndsBefore, FieldStart, After
<1>8. TextBefore(1) = <<>>
    <2>1. {i \in 1..(1 - 1) : IsText(i)} = {}
        OBVIOUS
    <2>2. TextIn(1, 1 - 1) = [k \in DOMAIN <<>> |-> text[<<>>[k]]]
        BY <1>3, <2>1 DEF TextIn
    <2> QED
        BY <1>3, <1>7, <2>2 DEF TextBefore
<1>9. FieldsBefore(1) = <<>> /\ RowsBefore(1) = <<>>
    BY <1>3, <1>5, <1>7 DEF FieldsBefore, RowsBefore
<1>10. Outside(1) /\ NoHalfPair(1) /\ 1 \in 1..(Len(text) + 1)
    BY <1>2, OutsideAtFirst DEF NoHalfPair
<1> QED
    BY <1>1, <1>8, <1>9, <1>10 DEF ReaderInv, ReadTo, SoFar

LEMMA ReadCsvReaderInv ==
    ASSUME Len(text) \in Nat, pos \in Nat, ReaderInv, ReadCsv
    PROVE  ReaderInv'
<1>1. text' = text /\ ~parsed
    <2>1. parsed => ~More
        BY DEF ReaderInv, More
    <2> QED
        BY <2>1 DEF ReadCsv, QuoteInside, QuoteOutside, PushChar, EndField, EndRow, EndOfInput
<1>2. ReadTo(pos, in_quotes, field, row, rows)
    BY <1>1 DEF ReaderInv
<1>3. CASE QuoteInside \/ QuoteOutside \/ PushChar \/ EndField \/ EndRow
    <2>1. ~parsed'
        BY <1>1, <1>3 DEF QuoteInside, QuoteOutside, PushChar, EndField, EndRow
    <2>2. ReadTo(pos', in_quotes', field', row', rows')
        BY <1>2, <1>3, QuoteInsideStep, QuoteOutsideStep, PushCharStep, EndFieldStep, EndRowStep
    <2>3. ReadTo(pos, in_quotes, field, row, rows)'
        BY <1>1, <2>2, SameText
    <2> QED
        BY <2>1, <2>3 DEF ReaderInv
<1>4. CASE EndOfInput
    <2>1. parsed' /\ pos' = pos
        BY <1>4 DEF EndOfInput
    <2>2. pos > Len(text) /\ rows' = RowsOfText
        BY <1>2, <1>4, EndOfInputStep
    <2>3. rows' = RowsOfText'
        BY <1>1, <2>2, SameText
    <2> QED
        BY <1>1, <2>1, <2>2, <2>3 DEF ReaderInv
<1> QED
    BY <1>3, <1>4 DEF ReadCsv

LEMMA NextReaderInv == CellsAreText /\ ReaderInv /\ [IENext]_ieVars => ReaderInv'
<1> SUFFICES ASSUME CellsAreText, ReaderInv, [IENext]_ieVars PROVE ReaderInv'
    OBVIOUS
<1>1. CASE Parse
    <2>1. Len(text) \in Nat /\ pos \in Nat
        BY LenProperties DEF CellsAreText, Characters
    <2> QED
        BY <1>1, <2>1, ReadCsvReaderInv DEF Parse
<1>2. CASE UNCHANGED csvVars
    <2>1. /\ text' = text /\ pos' = pos /\ in_quotes' = in_quotes /\ field' = field
          /\ row' = row /\ rows' = rows /\ parsed' = parsed
        BY <1>2 DEF csvVars
    <2>2. parsed => ReaderInv'
        BY <2>1, SameText DEF ReaderInv
    <2>3. ~parsed => ReaderInv'
        <3>1. ~parsed => ReadTo(pos', in_quotes', field', row', rows')
            BY <2>1 DEF ReaderInv
        <3>2. ~parsed => ReadTo(pos, in_quotes, field, row, rows)'
            BY <2>1, <3>1, SameText
        <3> QED
            BY <2>1, <3>2 DEF ReaderInv
    <2> QED
        BY <2>2, <2>3
<1>3. Parse \/ UNCHANGED csvVars
    BY DEF IENext, Build, SelectRow, Sort, DedupElement, FinishDedup, WriteConstant, FinishBuild,
           LookupField, Probe, NotFound, ieVars
<1> QED
    BY <1>1, <1>2, <1>3

LEMMA ReaderInvariance == IESpec => [](CellsAreText /\ ReaderInv)
<1>1. IEInit => CellsAreText /\ ReaderInv
    BY InitRowInv, InitReaderInv DEF RowInv
<1>2. CellsAreText /\ ReaderInv /\ [IENext]_ieVars => (CellsAreText /\ ReaderInv)'
    BY StepCellsAreText, NextReaderInv
<1> QED
    BY <1>1, <1>2, PTL DEF IESpec

-----------------------------------------------------------------------------
\* Every index used on the tables is inside them, through build and lookup.
THEOREM RegistryTypeOK == IESpec => []IETypeOK
<1>1. RegistryInv => IETypeOK
    BY DEF RegistryInv
<1> QED
    BY <1>1, RegistryInvariance, PTL

\* The table build.rs writes is strictly sorted, whatever rows it read.
THEOREM TableIsSorted == IESpec => []RegistryIsSorted
<1>1. RegistryInv => RegistryIsSorted
    BY DEF RegistryInv
<1> QED
    BY <1>1, RegistryInvariance, PTL

\* lookup finds an element exactly when the table has one with that id.
THEOREM LookupIsExact == IESpec => []SearchIsExact
<1>1. RegistryInv => SearchIsExact
    BY DEF RegistryInv
<1> QED
    BY <1>1, RegistryInvariance, PTL

\* From the file to the answer: whatever the file, a lookup returns what the
\* first usable row with that number says, and None when there is no such row.
THEOREM LookupReturnsTheRow == IESpec => []LookupFindsTheRow
BY AnswerIsTheRow, RowInvariance, PTL

\* ie::id compiles: whatever the file, no two constants are given one name,
\* the plain ones and the ones that end in their element's id among them.
THEOREM ConstantsDiffer == IESpec => []ConstantsAreDistinct
BY GivenNamesDiffer, NameInvariance, PTL

\* Whatever the file, parse_csv returns its rows and fields: commas, line ends
\* and doubled quotes within quotes are text, CR LF ends one row, and a last
\* row without a line end counts if there is anything in it.
THEOREM RowsAreRead == IESpec => []ParsedAsQuoted
<1>1. ReaderInv => ParsedAsQuoted
    BY DEF ReaderInv, ParsedAsQuoted
<1> QED
    BY <1>1, ReaderInvariance, PTL
=============================================================================
