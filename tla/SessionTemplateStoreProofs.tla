--------------------- MODULE SessionTemplateStoreProofs ---------------------
(***************************************************************************)
(* Proofs about the store, for every set of sessions, domains, ids and     *)
(* definitions and every capacity: the inductive invariant, from it the    *)
(* bound, the agreement of the LRU map's two structures and what the       *)
(* methods answer, and the rule of RFC 7011 section 8.  First come lemmas  *)
(* about what the list operators of RecencyList do to a list.              *)
(***************************************************************************)
EXTENDS SessionTemplateStore, SequenceTheorems, FiniteSetTheorems, TLAPS

-----------------------------------------------------------------------------
(* Lists as functions on 1..n: taking a position out, adding one in front. *)

Distinct(f, n) == \A a, b \in 1..n : f[a] = f[b] => a = b

Elements(f, n) == {f[i] : i \in 1..n}

\* part is the n elements of list that follow the first skipped ones.
IsSlice(part, list, skipped, n) ==
    /\ Len(part) = n
    /\ \A i \in 1..n : part[i] = list[skipped + i]

\* rest is list without its element at p.
ClosesGap(rest, list, n, p) ==
    \A i \in 1..(n - 1) : rest[i] = IF i < p THEN list[i] ELSE list[i + 1]

\* longer is list with key in front.
PutsInFront(longer, list, n, key) ==
    /\ longer[1] = key
    /\ \A i \in 1..n : longer[i + 1] = list[i]

\* Closing the gap at p loses list[p] only and introduces no duplicate.
LEMMA ClosingTheGap ==
    ASSUME NEW n \in Nat, NEW p \in 1..n, NEW list, NEW rest,
           Distinct(list, n), ClosesGap(rest, list, n, p)
    PROVE  /\ Distinct(rest, n - 1)
           /\ Elements(rest, n - 1) = Elements(list, n) \ {list[p]}
<1>. USE DEF Distinct, Elements, ClosesGap
<1>1. \A a, b \in 1..(n - 1) : rest[a] = rest[b] => a = b
    OBVIOUS
<1>2. \A a \in 1..(n - 1) : rest[a] \in {list[b] : b \in 1..n} \ {list[p]}
    OBVIOUS
<1>3. ASSUME NEW b \in 1..n, b # p  PROVE \E a \in 1..(n - 1) : rest[a] = list[b]
    <2>1. CASE b < p
        BY <2>1
    <2>2. CASE b > p
        <3>1. b - 1 \in 1..(n - 1) /\ rest[b - 1] = list[b]
            BY <2>2
        <3>. QED  BY <3>1
    <2>. QED  BY <1>3, <2>1, <2>2
<1>. QED  BY <1>1, <1>2, <1>3

\* A new element in front of the others adds itself only.
LEMMA NewFront ==
    ASSUME NEW n \in Nat, NEW list, NEW longer, NEW key,
           Distinct(list, n), key \notin Elements(list, n),
           PutsInFront(longer, list, n, key)
    PROVE  /\ Distinct(longer, n + 1)
           /\ Elements(longer, n + 1) = Elements(list, n) \cup {key}
<1>. USE DEF Distinct, Elements, PutsInFront
<1>1. \A a \in 2..(n + 1) : a - 1 \in 1..n /\ longer[a] = list[a - 1]
    OBVIOUS
<1>2. \A a, b \in 1..(n + 1) : longer[a] = longer[b] => a = b
    BY <1>1
<1>3. \A a \in 1..(n + 1) : longer[a] \in {list[b] : b \in 1..n} \cup {key}
    BY <1>1
<1>4. \A b \in 1..n : list[b] \in {longer[a] : a \in 1..(n + 1)}
    OBVIOUS
<1>. QED  BY <1>2, <1>3, <1>4

\* The parts before and after p, joined, are the list with the gap closed.
LEMMA JoinedAroundTheGap ==
    ASSUME NEW S, NEW n \in Nat, NEW p \in 1..n, NEW list,
           NEW before \in Seq(S), NEW after \in Seq(S),
           IsSlice(before, list, 0, p - 1), IsSlice(after, list, p, n - p)
    PROVE  /\ before \o after \in Seq(S)
           /\ Len(before \o after) = n - 1
           /\ ClosesGap(before \o after, list, n, p)
<1>1. /\ before \o after \in Seq(S)
      /\ Len(before \o after) = Len(before) + Len(after)
      /\ \A i \in 1..(Len(before) + Len(after)) :
             (before \o after)[i] =
                 IF i <= Len(before) THEN before[i] ELSE after[i - Len(before)]
    BY ConcatProperties
<1>. USE DEF IsSlice
<1>2. Len(before) + Len(after) = n - 1
    OBVIOUS
<1>3. ASSUME NEW i \in 1..(n - 1)
      PROVE  (before \o after)[i] = IF i < p THEN list[i] ELSE list[i + 1]
    <2>1. CASE i < p
        BY <2>1, <1>1
    <2>2. CASE i >= p
        <3>1. i - (p - 1) \in 1..(n - p) /\ p + (i - (p - 1)) = i + 1
            BY <2>2
        <3>2. (before \o after)[i] = after[i - (p - 1)]
            BY <1>1, <1>2, <2>2
        <3>3. after[i - (p - 1)] = list[p + (i - (p - 1))]
            BY <3>1
        <3>. QED  BY <2>2, <3>1, <3>2, <3>3
    <2>. QED  BY <2>1, <2>2
<1>. QED  BY <1>1, <1>2, <1>3 DEF ClosesGap

-----------------------------------------------------------------------------
(* The operators.                                                          *)

\* The index of a key of the list is where the key stands.
LEMMA IndexOfKey ==
    ASSUME NEW S, NEW list \in Seq(S), NEW key \in Range(list)
    PROVE  /\ IndexOf(list, key) \in 1..Len(list)
           /\ list[IndexOf(list, key)] = key
<1>1. \E i \in 1..Len(list) : list[i] = key
    BY DEF Range
<1>. QED  BY <1>1 DEF IndexOf

\* In a list without duplicates it is the only place.
LEMMA IndexOfElement ==
    ASSUME NEW S, NEW list \in Seq(S), IsInjective(list), NEW i \in 1..Len(list)
    PROVE  /\ list[i] \in Range(list)
           /\ IndexOf(list, list[i]) = i
<1>1. list[i] \in Range(list)
    BY DEF Range
<1>2. IndexOf(list, list[i]) \in 1..Len(list) /\ list[IndexOf(list, list[i])] = list[i]
    BY <1>1, IndexOfKey
<1>. QED  BY <1>1, <1>2 DEF IsInjective

\* The elements of a list, by index.
LEMMA RangeByIndex ==
    ASSUME NEW S, NEW list \in Seq(S)
    PROVE  /\ Len(list) \in Nat
           /\ DOMAIN list = 1..Len(list)
           /\ Range(list) = Elements(list, Len(list))
           /\ \A i \in 1..Len(list) : list[i] \in S
           /\ Range(list) \subseteq S
           /\ IsInjective(list) <=> Distinct(list, Len(list))
<1>1. Len(list) \in Nat /\ DOMAIN list = 1..Len(list) /\ \A i \in 1..Len(list) : list[i] \in S
    BY LenProperties
<1>. QED  BY <1>1 DEF Range, IsInjective, Distinct, Elements

\* Unlinking a key closes the gap it leaves and moves nothing else.
LEMMA UnlinkElements ==
    ASSUME NEW S, NEW list \in Seq(S), NEW key \in Range(list)
    PROVE  /\ Unlink(list, key) \in Seq(S)
           /\ Len(Unlink(list, key)) = Len(list) - 1
           /\ ClosesGap(Unlink(list, key), list, Len(list), IndexOf(list, key))
<1>. DEFINE p == IndexOf(list, key)
            before == SubSeq(list, 1, p - 1)
            after == SubSeq(list, p + 1, Len(list))
<1>1. p \in 1..Len(list) /\ Len(list) \in Nat
    BY IndexOfKey, LenProperties
<1>2. before \in Seq(S) /\ IsSlice(before, list, 0, p - 1)
    BY <1>1, SubSeqProperties DEF IsSlice
<1>3. after \in Seq(S) /\ IsSlice(after, list, p, Len(list) - p)
    BY <1>1, SubSeqProperties DEF IsSlice
<1>4. Unlink(list, key) = before \o after
    BY DEF Unlink, RemoveAt
<1>. HIDE DEF before, after, p
<1>5. /\ before \o after \in Seq(S)
      /\ Len(before \o after) = Len(list) - 1
      /\ ClosesGap(before \o after, list, Len(list), p)
    BY <1>1, <1>2, <1>3, JoinedAroundTheGap
<1>. QED  BY <1>4, <1>5 DEF p

\* What is left of a list without duplicates has none, and lost the key only.
LEMMA UnlinkInjective ==
    ASSUME NEW S, NEW list \in Seq(S), NEW key \in Range(list), IsInjective(list)
    PROVE  /\ IsInjective(Unlink(list, key))
           /\ Range(Unlink(list, key)) = Range(list) \ {key}
<1>. DEFINE n == Len(list)
            p == IndexOf(list, key)
            rest == Unlink(list, key)
<1>1. p \in 1..n /\ list[p] = key
    BY IndexOfKey
<1>2. n \in Nat /\ Distinct(list, n) /\ Range(list) = Elements(list, n)
    BY RangeByIndex
<1>3. rest \in Seq(S) /\ Len(rest) = n - 1 /\ ClosesGap(rest, list, n, p)
    BY UnlinkElements
<1>. HIDE DEF n, p, rest
<1>4. Distinct(rest, n - 1) /\ Elements(rest, n - 1) = Elements(list, n) \ {list[p]}
    BY <1>1, <1>2, <1>3, ClosingTheGap
<1>5. IsInjective(rest)
    BY <1>3, <1>4, RangeByIndex
<1>6. Range(rest) = Elements(rest, n - 1)
    BY <1>3, RangeByIndex
<1>. QED  BY <1>1, <1>2, <1>4, <1>5, <1>6 DEF rest

\* A key put in front of a list moves every other element down by one.
LEMMA ConsElements ==
    ASSUME NEW S, NEW list \in Seq(S), NEW key \in S
    PROVE  /\ Cons(key, list) \in Seq(S)
           /\ Len(Cons(key, list)) = Len(list) + 1
           /\ PutsInFront(Cons(key, list), list, Len(list), key)
<1>1. /\ <<key>> \in Seq(S) /\ Len(<<key>>) = 1 /\ <<key>>[1] = key
      /\ Len(list) \in Nat
    BY LenProperties
<1>2. /\ <<key>> \o list \in Seq(S)
      /\ Len(<<key>> \o list) = 1 + Len(list)
      /\ \A i \in 1..(1 + Len(list)) :
             (<<key>> \o list)[i] = IF i <= 1 THEN <<key>>[i] ELSE list[i - 1]
    BY <1>1, ConcatProperties
<1>. QED  BY <1>1, <1>2 DEF Cons, PutsInFront

\* A key the list does not hold, put in front, keeps it without duplicates.
LEMMA ConsInjective ==
    ASSUME NEW S, NEW list \in Seq(S), IsInjective(list), NEW key \in S, key \notin Range(list)
    PROVE  /\ IsInjective(Cons(key, list))
           /\ Range(Cons(key, list)) = Range(list) \cup {key}
<1>. DEFINE n == Len(list)
            longer == Cons(key, list)
<1>1. n \in Nat /\ Distinct(list, n) /\ Range(list) = Elements(list, n)
    BY RangeByIndex
<1>2. longer \in Seq(S) /\ Len(longer) = n + 1 /\ PutsInFront(longer, list, n, key)
    BY ConsElements
<1>. HIDE DEF n, longer
<1>3. Distinct(longer, n + 1) /\ Elements(longer, n + 1) = Elements(list, n) \cup {key}
    BY <1>1, <1>2, NewFront
<1>4. IsInjective(longer) /\ Range(longer) = Elements(longer, n + 1)
    BY <1>2, <1>3, RangeByIndex
<1>. QED  BY <1>1, <1>3, <1>4 DEF longer

\* Promoting a key of a list without duplicates permutes the list.
LEMMA PromotePermutes ==
    ASSUME NEW S, NEW list \in Seq(S), NEW key \in Range(list), IsInjective(list)
    PROVE  /\ Promote(list, key) \in Seq(S)
           /\ Len(Promote(list, key)) = Len(list)
           /\ IsInjective(Promote(list, key))
           /\ Range(Promote(list, key)) = Range(list)
<1>. DEFINE rest == Unlink(list, key)
<1>1. /\ rest \in Seq(S)
      /\ Len(rest) = Len(list) - 1
      /\ IsInjective(rest)
      /\ Range(rest) = Range(list) \ {key}
    BY UnlinkElements, UnlinkInjective
<1>2. key \in S /\ Len(list) \in Nat
    BY RangeByIndex
<1>. HIDE DEF rest
<1>3. Cons(key, rest) \in Seq(S) /\ Len(Cons(key, rest)) = Len(rest) + 1
    BY <1>1, <1>2, ConsElements
<1>4. key \notin Range(rest)
    BY <1>1
<1>5. IsInjective(Cons(key, rest)) /\ Range(Cons(key, rest)) = Range(rest) \cup {key}
    BY <1>1, <1>2, <1>4, ConsInjective
<1>6. Promote(list, key) = Cons(key, rest)
    BY DEF Promote, rest
<1>. QED  BY <1>1, <1>2, <1>3, <1>5, <1>6

\* The first n elements of a list without duplicates.
LEMMA PrefixInjective ==
    ASSUME NEW S, NEW list \in Seq(S), IsInjective(list), NEW n \in 0..Len(list)
    PROVE  /\ SubSeq(list, 1, n) \in Seq(S)
           /\ Len(SubSeq(list, 1, n)) = n
           /\ IsInjective(SubSeq(list, 1, n))
           /\ Range(SubSeq(list, 1, n)) = Elements(list, n)
           /\ \A i \in 1..n : SubSeq(list, 1, n)[i] = list[i]
<1>. DEFINE prefix == SubSeq(list, 1, n)
<1>1. /\ Len(list) \in Nat
      /\ \A i \in 1..Len(list) : list[i] \in S
      /\ Distinct(list, Len(list))
    BY RangeByIndex
<1>2. \A i \in 1..n : list[i] \in S
    BY <1>1
<1>3. /\ prefix \in Seq(S)
      /\ Len(prefix) = n
      /\ \A i \in 1..n : prefix[i] = list[i]
    BY <1>2, SubSeqProperties
<1>. HIDE DEF prefix
<1>4. Distinct(prefix, n) /\ Elements(prefix, n) = Elements(list, n)
    BY <1>1, <1>3 DEF Distinct, Elements
<1>5. IsInjective(prefix) /\ Range(prefix) = Elements(prefix, n)
    BY <1>3, <1>4, RangeByIndex
<1>. QED  BY <1>3, <1>4, <1>5 DEF prefix

-----------------------------------------------------------------------------
(* The order of the list.                                                  *)

\* Where the keys of a list with one more key in front stand.
LEMMA IndexOfCons ==
    ASSUME NEW S, NEW list \in Seq(S), IsInjective(list), NEW key \in S, key \notin Range(list)
    PROVE  /\ IndexOf(Cons(key, list), key) = 1
           /\ \A k \in Range(list) : IndexOf(Cons(key, list), k) = IndexOf(list, k) + 1
<1>. DEFINE longer == Cons(key, list)
<1>1. /\ longer \in Seq(S) /\ IsInjective(longer)
      /\ Len(longer) = Len(list) + 1
      /\ PutsInFront(longer, list, Len(list), key)
      /\ Len(list) \in Nat
    BY ConsElements, ConsInjective, RangeByIndex
<1>. HIDE DEF longer
<1>2. IndexOf(longer, key) = 1
    <2>1. 1 \in 1..Len(longer) /\ longer[1] = key
        BY <1>1 DEF PutsInFront
    <2>2. IndexOf(longer, longer[1]) = 1
        BY <1>1, <2>1, IndexOfElement
    <2>. QED  BY <2>1, <2>2
<1>3. ASSUME NEW k \in Range(list)
      PROVE  IndexOf(longer, k) = IndexOf(list, k) + 1
    <2>. DEFINE i == IndexOf(list, k)
    <2>1. i \in 1..Len(list) /\ list[i] = k
        BY IndexOfKey
    <2>. HIDE DEF i
    <2>2. i + 1 \in 1..Len(longer) /\ longer[i + 1] = k
        BY <1>1, <2>1 DEF PutsInFront
    <2>3. IndexOf(longer, longer[i + 1]) = i + 1
        BY <1>1, <2>2, IndexOfElement
    <2>. QED  BY <2>2, <2>3 DEF i
<1>. QED  BY <1>2, <1>3 DEF longer

\* A new front key is refreshed later than every other key.
LEMMA EarlierInCons ==
    ASSUME NEW S, NEW list \in Seq(S), IsInjective(list), NEW key \in S, key \notin Range(list)
    PROVE  EarlierIn(Cons(key, list)) = EarlierIn(list) \cup (Range(list) \X {key})
<1>1. Range(Cons(key, list)) = Range(list) \cup {key}
    BY ConsInjective
<1>2. \A k \in Range(list) : IndexOf(list, k) \in 1..Len(list)
    BY IndexOfKey
<1>3. Len(list) \in Nat
    BY RangeByIndex
<1>4. ASSUME NEW a \in Range(list) \cup {key}, NEW b \in Range(list) \cup {key}
      PROVE  <<a, b>> \in EarlierIn(Cons(key, list))
                 <=> <<a, b>> \in EarlierIn(list) \cup (Range(list) \X {key})
    <2>1. CASE a # key /\ b # key
        BY <2>1, <1>1, <1>2, <1>3, IndexOfCons DEF EarlierIn
    <2>2. CASE a # key /\ b = key
        BY <2>2, <1>1, <1>2, <1>3, IndexOfCons DEF EarlierIn
    <2>3. CASE a = key
        BY <2>3, <1>1, <1>2, <1>3, IndexOfCons DEF EarlierIn
    <2>. QED  BY <2>1, <2>2, <2>3
<1>. QED  BY <1>1, <1>4 DEF EarlierIn

\* Taking a key out keeps the order of the others.
LEMMA EarlierInUnlink ==
    ASSUME NEW S, NEW list \in Seq(S), IsInjective(list), NEW key \in Range(list)
    PROVE  EarlierIn(Unlink(list, key)) =
               {pair \in EarlierIn(list) : pair[1] # key /\ pair[2] # key}
<1>. DEFINE n == Len(list)
            p == IndexOf(list, key)
            rest == Unlink(list, key)
<1>1. /\ rest \in Seq(S) /\ Len(rest) = n - 1 /\ ClosesGap(rest, list, n, p)
      /\ IsInjective(rest) /\ Range(rest) = Range(list) \ {key}
    BY UnlinkElements, UnlinkInjective
<1>2. n \in Nat /\ p \in 1..n /\ list[p] = key
    BY RangeByIndex, IndexOfKey
<1>. HIDE DEF n, p, rest
<1>3. ASSUME NEW k \in Range(list) \ {key}
      PROVE  /\ IndexOf(list, k) \in 1..n
             /\ IndexOf(list, k) # p
             /\ IndexOf(rest, k) = IF IndexOf(list, k) < p
                                   THEN IndexOf(list, k) ELSE IndexOf(list, k) - 1
    <2>. DEFINE i == IndexOf(list, k)
                j == IF i < p THEN i ELSE i - 1
    <2>1. i \in 1..n /\ list[i] = k
        BY IndexOfKey DEF n
    <2>. HIDE DEF i
    <2>2. i # p
        BY <1>2, <2>1
    <2>3. j \in 1..(n - 1) /\ rest[j] = k
        <3>1. CASE i < p
            BY <3>1, <1>1, <1>2, <2>1 DEF ClosesGap
        <3>2. CASE i > p
            <4>1. i - 1 \in 1..(n - 1) /\ ~(i - 1 < p) /\ (i - 1) + 1 = i
                BY <3>2, <1>2, <2>1
            <4>2. rest[i - 1] = list[i]
                BY <4>1, <1>1 DEF ClosesGap
            <4>. QED  BY <3>2, <4>1, <4>2, <2>1, <1>2
        <3>. QED  BY <3>1, <3>2, <2>1, <2>2, <1>2
    <2>. HIDE DEF j
    <2>4. IndexOf(rest, rest[j]) = j
        BY <1>1, <2>3, IndexOfElement
    <2>. QED  BY <2>1, <2>2, <2>3, <2>4 DEF i, j
<1>4. ASSUME NEW a \in Range(list) \ {key}, NEW b \in Range(list) \ {key}
      PROVE  IndexOf(rest, a) > IndexOf(rest, b) <=> IndexOf(list, a) > IndexOf(list, b)
    <2>1. /\ IndexOf(list, a) = IndexOf(list, b) => a = b
        <3>1. list[IndexOf(list, a)] = a /\ list[IndexOf(list, b)] = b
            BY IndexOfKey
        <3>. QED  BY <3>1
    <2>2. CASE a = b
        BY <2>2, <1>2, <1>3
    <2>3. CASE a # b
        BY <2>1, <2>3, <1>2, <1>3
    <2>. QED  BY <2>2, <2>3
<1>. QED  BY <1>1, <1>4 DEF EarlierIn, rest

\* A prefix orders its keys as the list does.
LEMMA EarlierInPrefix ==
    ASSUME NEW S, NEW list \in Seq(S), IsInjective(list), NEW n \in 0..Len(list)
    PROVE  EarlierIn(SubSeq(list, 1, n)) =
               {pair \in EarlierIn(list) :
                    pair[1] \in Elements(list, n) /\ pair[2] \in Elements(list, n)}
<1>. DEFINE prefix == SubSeq(list, 1, n)
<1>1. /\ prefix \in Seq(S) /\ Len(prefix) = n /\ IsInjective(prefix)
      /\ Range(prefix) = Elements(list, n)
      /\ \A i \in 1..n : prefix[i] = list[i]
    BY PrefixInjective
<1>2. Len(list) \in Nat /\ Elements(list, n) \subseteq Range(list)
    BY RangeByIndex DEF Elements
<1>. HIDE DEF prefix
<1>3. ASSUME NEW k \in Elements(list, n)
      PROVE  IndexOf(prefix, k) = IndexOf(list, k)
    <2>1. PICK i \in 1..n : list[i] = k
        BY DEF Elements
    <2>2. i \in 1..Len(list) /\ i \in 1..Len(prefix) /\ prefix[i] = k
        BY <1>1, <1>2, <2>1
    <2>3. IndexOf(list, list[i]) = i
        BY <2>2, IndexOfElement
    <2>4. IndexOf(prefix, prefix[i]) = i
        BY <1>1, <2>2, IndexOfElement
    <2>. QED  BY <2>1, <2>2, <2>3, <2>4
<1>. QED  BY <1>1, <1>2, <1>3 DEF EarlierIn, prefix

-----------------------------------------------------------------------------
(* The list after an insertion, and the table after a removal.             *)

\* Making room keeps the front of the list and leaves a free place.
LEMMA RoomMade ==
    ASSUME Capacity > 0,
           NEW list \in Seq(Keys), IsInjective(list), Len(list) <= Capacity
    PROVE  /\ MakeRoom(list) \in Seq(Keys)
           /\ IsInjective(MakeRoom(list))
           /\ Range(MakeRoom(list)) \subseteq Range(list)
           /\ Len(MakeRoom(list)) < Capacity
           /\ Len(list) < Capacity => MakeRoom(list) = SubSeq(list, 1, Len(list))
           /\ Len(list) = Capacity => MakeRoom(list) = SubSeq(list, 1, Len(list) - 1)
<1>. DEFINE n == IF Len(list) < Capacity THEN Len(list) ELSE Capacity - 1
<1>1. Len(list) \in Nat
    BY LenProperties
<1>2. n \in 0..Len(list) /\ n < Capacity
    BY <1>1, CapacityAssumption
<1>3. MakeRoom(list) = SubSeq(list, 1, n)
    BY DEF MakeRoom
<1>4. /\ SubSeq(list, 1, n) \in Seq(Keys)
      /\ Len(SubSeq(list, 1, n)) = n
      /\ IsInjective(SubSeq(list, 1, n))
      /\ Range(SubSeq(list, 1, n)) = Elements(list, n)
    BY <1>2, PrefixInjective
<1>5. Elements(list, n) \subseteq Elements(list, Len(list))
    BY <1>1, <1>2 DEF Elements
<1>6. Range(list) = Elements(list, Len(list))
    BY RangeByIndex
<1>. QED  BY <1>1, <1>2, <1>3, <1>4, <1>5, <1>6, CapacityAssumption

\* A key is a triple of its session, its domain and its id.
LEMMA KeyOfRecord ==
    ASSUME NEW session \in Sessions, NEW odid \in Odids, NEW record \in Template
    PROVE  /\ <<session, odid, record.id>> \in Keys
           /\ <<session, odid, record.id>>[3] = record.id
BY DEF Keys, Template

-----------------------------------------------------------------------------
(* The inductive invariant.                                                *)

LEMMA InitInv == Init => IndInv
<1>. SUFFICES ASSUME Init  PROVE IndInv
    OBVIOUS
<1>1. DOMAIN templates = {} /\ Range(recency) = {} /\ Len(recency) = 0
    BY DEF Init, Range
<1>2. TypeOK
    BY <1>1 DEF Init, TypeOK, Calls
<1>3. ListMatchesTable
    BY <1>1 DEF Init, ListMatchesTable, IsInjective
<1>4. EntriesKeepTheirId /\ RemovalUnderWay
    BY <1>1 DEF Init, EntriesKeepTheirId, RemovalUnderWay
<1>. QED  BY <1>1, <1>2, <1>3, <1>4, CapacityAssumption DEF IndInv

\* A collision changes the answer only.
LEMMA CollideInv ==
    ASSUME IndInv, Idle, UNCHANGED to_remove,
           NEW key \in Keys, NEW record \in Template, Collide(key, record)
    PROVE  IndInv'
<1>. USE DEF Collide, Returns, IndInv
<1>1. TypeOK'
    BY DEF TypeOK, Calls, Outcomes
<1>2. ListMatchesTable' /\ (Len(recency) <= Capacity)' /\ EntriesKeepTheirId'
    BY DEF ListMatchesTable, EntriesKeepTheirId
<1>3. RemovalUnderWay'
    BY DEF Idle, RemovalUnderWay
<1>. QED  BY <1>1, <1>2, <1>3

\* A refresh permutes the list.
LEMMA RefreshInv ==
    ASSUME IndInv, Idle, UNCHANGED to_remove,
           NEW key \in Keys, NEW record \in Template, Refresh(key, record)
    PROVE  IndInv'
<1>. USE DEF Refresh, Returns, IndInv
<1>1. recency \in Seq(Keys) /\ IsInjective(recency) /\ key \in Range(recency)
    BY DEF TypeOK, ListMatchesTable
<1>2. /\ recency' \in Seq(Keys)
      /\ Len(recency') = Len(recency)
      /\ IsInjective(recency')
      /\ Range(recency') = Range(recency)
    BY <1>1, PromotePermutes
<1>3. TypeOK'
    BY <1>2 DEF TypeOK, Calls, Outcomes
<1>4. ListMatchesTable' /\ (Len(recency) <= Capacity)' /\ EntriesKeepTheirId'
    BY <1>2 DEF ListMatchesTable, EntriesKeepTheirId
<1>5. RemovalUnderWay'
    BY DEF Idle, RemovalUnderWay
<1>. QED  BY <1>3, <1>4, <1>5

\* An installation puts one key in front of what it left room for.
LEMMA InstallInv ==
    ASSUME IndInv, Idle, UNCHANGED to_remove,
           NEW key \in Keys, NEW record \in Template, record.id = key[3],
           Install(key, record)
    PROVE  IndInv'
<1>. USE DEF Install, Returns, IndInv
<1>1. /\ recency \in Seq(Keys) /\ IsInjective(recency)
      /\ Range(recency) = DOMAIN templates /\ key \notin Range(recency)
    BY DEF TypeOK, ListMatchesTable
<1>2. RemovalUnderWay'
    BY DEF Idle, RemovalUnderWay
<1>3. CASE Capacity = 0
    <2>1. UNCHANGED <<templates, recency>>
        BY <1>3 DEF LruInsert
    <2>2. TypeOK'
        BY <1>3, <2>1 DEF TypeOK, Calls, Outcomes
    <2>. QED  BY <1>2, <2>1, <2>2 DEF ListMatchesTable, EntriesKeepTheirId
<1>4. CASE Capacity # 0
    <2>. DEFINE kept == MakeRoom(recency)
    <2>1. /\ kept \in Seq(Keys) /\ IsInjective(kept)
          /\ Range(kept) \subseteq DOMAIN templates
          /\ Len(kept) < Capacity
        BY <1>1, <1>4, CapacityAssumption, RoomMade
    <2>2. /\ recency' = Cons(key, kept)
          /\ templates' = [k \in Range(kept) \cup {key} |->
                               IF k = key THEN record ELSE templates[k]]
        BY <1>4 DEF LruInsert
    <2>. HIDE DEF kept
    <2>3. /\ recency' \in Seq(Keys)
          /\ Len(recency') = Len(kept) + 1
        BY <2>1, <2>2, ConsElements
    <2>4. /\ IsInjective(recency')
          /\ Range(recency') = Range(kept) \cup {key}
        BY <1>1, <2>1, <2>2, ConsInjective
    <2>5. Len(kept) \in Nat
        BY <2>1, LenProperties
    <2>6. TypeOK'
        <3>1. call' \in Calls
            BY DEF Calls, Outcomes
        <3>. QED  BY <2>1, <2>2, <2>3, <3>1 DEF TypeOK
    <2>7. EntriesKeepTheirId'
        BY <2>1, <2>2 DEF EntriesKeepTheirId
    <2>8. ListMatchesTable' /\ (Len(recency) <= Capacity)'
        BY <2>1, <2>2, <2>3, <2>4, <2>5, CapacityAssumption DEF ListMatchesTable
    <2>. QED  BY <1>2, <2>6, <2>7, <2>8
<1>. QED  BY <1>3, <1>4

\* LruMap::remove takes one key out of both structures, or changes neither.
LEMMA LruRemoveFacts ==
    ASSUME IndInv, NEW key, LruRemove(key)
    PROVE  /\ recency' \in Seq(Keys)
           /\ IsInjective(recency')
           /\ Range(recency') = DOMAIN templates'
           /\ Len(recency') <= Capacity
           /\ DOMAIN templates' = DOMAIN templates \ {key}
           /\ \A k \in DOMAIN templates' : templates'[k] = templates[k]
           /\ templates' = [k \in DOMAIN templates' |-> templates'[k]]
<1>. USE DEF LruRemove, IndInv
<1>1. /\ recency \in Seq(Keys) /\ IsInjective(recency)
      /\ Range(recency) = DOMAIN templates
      /\ templates = [k \in DOMAIN templates |-> templates[k]]
    BY DEF TypeOK, ListMatchesTable
<1>2. CASE key \in DOMAIN templates
    <2>1. recency' = Unlink(recency, key) /\ Len(recency) \in Nat
        BY <1>1, <1>2, LenProperties
    <2>2. recency' \in Seq(Keys) /\ Len(recency') = Len(recency) - 1
        BY <1>1, <1>2, <2>1, UnlinkElements
    <2>3. IsInjective(recency') /\ Range(recency') = Range(recency) \ {key}
        BY <1>1, <1>2, <2>1, UnlinkInjective
    <2>4. templates' = [k \in DOMAIN templates \ {key} |-> templates[k]]
        BY <1>2 DEF Restrict
    <2>. QED  BY <1>1, <2>1, <2>2, <2>3, <2>4, CapacityAssumption
<1>3. CASE key \notin DOMAIN templates
    BY <1>1, <1>3
<1>. QED  BY <1>2, <1>3

LEMMA RemoveInv ==
    ASSUME IndInv,
           NEW session \in Sessions, NEW odid \in Odids, NEW id \in TemplateIds,
           RemoveTemplate(session, odid, id)
    PROVE  IndInv'
<1>. DEFINE key == <<session, odid, id>>
<1>1. LruRemove(key) /\ call' = [op |-> "remove", key |-> key] /\ to_remove = {} /\ to_remove' = {}
    BY DEF RemoveTemplate, Idle
<1>2. call' \in Calls
    BY <1>1 DEF Calls, Keys
<1>3. TypeOK'
    BY <1>1, <1>2, LruRemoveFacts DEF TypeOK, IndInv
<1>4. ListMatchesTable' /\ (Len(recency) <= Capacity)' /\ EntriesKeepTheirId'
    BY <1>1, LruRemoveFacts DEF ListMatchesTable, EntriesKeepTheirId, IndInv
<1>5. RemovalUnderWay'
    BY <1>1 DEF RemovalUnderWay
<1>. QED  BY <1>3, <1>4, <1>5 DEF IndInv

LEMMA RemoveCollectedInv ==
    ASSUME IndInv, RemoveCollected
    PROVE  IndInv'
<1>1. PICK key \in to_remove :
          LruRemove(key) /\ to_remove' = to_remove \ {key} /\ call' = call
    BY DEF RemoveCollected
<1>2. TypeOK'
    BY <1>1, LruRemoveFacts DEF TypeOK, IndInv
<1>3. ListMatchesTable' /\ (Len(recency) <= Capacity)' /\ EntriesKeepTheirId'
    BY <1>1, LruRemoveFacts DEF ListMatchesTable, EntriesKeepTheirId, IndInv
<1>4. RemovalUnderWay'
    BY <1>1, LruRemoveFacts DEF RemovalUnderWay, IndInv
<1>. QED  BY <1>2, <1>3, <1>4 DEF IndInv

LEMMA NextInv == IndInv /\ [Next]_vars => IndInv'
<1>. SUFFICES ASSUME IndInv, [Next]_vars  PROVE IndInv'
    OBVIOUS
<1>1. ASSUME NEW session \in Sessions, NEW odid \in Odids, NEW record \in Template,
             Insert(session, odid, record)
      PROVE  IndInv'
    <2>. DEFINE key == <<session, odid, record.id>>
    <2>1. key \in Keys /\ key[3] = record.id
        BY KeyOfRecord
    <2>2. /\ Idle /\ UNCHANGED to_remove
          /\ Collide(key, record) \/ Refresh(key, record) \/ Install(key, record)
        BY <1>1 DEF Insert
    <2>. HIDE DEF key
    <2>. QED  BY <2>1, <2>2, CollideInv, RefreshInv, InstallInv
<1>2. ASSUME NEW session \in Sessions, NEW odid \in Odids, NEW id \in TemplateIds,
             RemoveTemplate(session, odid, id)
      PROVE  IndInv'
    BY <1>2, RemoveInv
<1>3. ASSUME NEW session \in Sessions, NEW odid \in Odids, NEW id \in TemplateIds,
             Get(session, odid, id)
      PROVE  IndInv'
    <2>1. call' \in Calls
        BY <1>3 DEF Get, Calls, Keys
    <2>. QED  BY <1>3, <2>1 DEF Get, IndInv, TypeOK, ListMatchesTable, EntriesKeepTheirId,
                              RemovalUnderWay, Idle
<1>4. ASSUME NEW session \in Sessions, RemoveSession(session)
      PROVE  IndInv'
    <2>1. call' \in Calls
        BY <1>4 DEF RemoveSession, Calls
    <2>2. TypeOK'
        BY <1>4, <2>1 DEF RemoveSession, IndInv, TypeOK
    <2>3. RemovalUnderWay'
        BY <1>4 DEF RemoveSession, RemovalUnderWay
    <2>. QED  BY <1>4, <2>2, <2>3 DEF RemoveSession, IndInv, ListMatchesTable, EntriesKeepTheirId
<1>5. CASE RemoveCollected
    BY <1>5, RemoveCollectedInv
<1>6. CASE UNCHANGED vars
    BY <1>6 DEF vars, IndInv, TypeOK, ListMatchesTable, EntriesKeepTheirId, RemovalUnderWay
<1>. QED  BY <1>1, <1>2, <1>3, <1>4, <1>5, <1>6 DEF Next

\* In every reachable state of the store, for any traffic, the table and the
\* list agree, the bound holds, entries carry their own id, and a removal of a
\* session under way has exactly that session's entries left to remove.
THEOREM Invariance == Spec => []IndInv
<1>. QED  BY InitInv, NextInv, PTL DEF Spec

-----------------------------------------------------------------------------
(* What follows for the store's users.                                     *)

\* A table that agrees with a list without duplicates has as many entries.
LEMMA TableSize ==
    ASSUME IndInv
    PROVE  /\ IsFiniteSet(DOMAIN templates)
           /\ Cardinality(DOMAIN templates) = Len(recency)
<1>1. /\ Len(recency) \in Nat
      /\ DOMAIN recency = 1..Len(recency)
      /\ recency \in Seq(Keys)
      /\ IsInjective(recency)
      /\ Range(recency) = DOMAIN templates
    BY LenProperties DEF IndInv, TypeOK, ListMatchesTable
<1>2. \A i \in 1..Len(recency) : recency[i] \in DOMAIN templates
    BY <1>1 DEF Range
<1>3. recency \in [1..Len(recency) -> DOMAIN templates]
    <2>1. recency = [i \in 1..Len(recency) |-> recency[i]]
        BY <1>1
    <2>. QED  BY <1>2, <2>1
<1>4. recency \in Surjection(1..Len(recency), DOMAIN templates)
    BY <1>1, <1>3 DEF Surjection, Range
<1>5. recency \in Injection(1..Len(recency), DOMAIN templates)
    BY <1>1, <1>3 DEF Injection, IsInjective
<1>6. /\ IsFiniteSet(1..Len(recency))
      /\ Cardinality(1..Len(recency)) =
             IF 1 > Len(recency) THEN 0 ELSE Len(recency) - 1 + 1
    BY <1>1, FS_Interval
<1>7. Cardinality(1..Len(recency)) = Len(recency)
    BY <1>1, <1>6
<1>. QED  BY <1>4, <1>5, <1>6, <1>7, FS_Surjection

\* The store never outgrows the capacity it was created with.
THEOREM Bounded == Spec => []CapacityRespected
<1>1. IndInv => CapacityRespected
    BY TableSize DEF IndInv, CapacityRespected
<1>. QED  BY <1>1, Invariance, PTL

\* The table and the list of the LRU map hold the same keys, each once.
THEOREM Agreement == Spec => [](ListMatchesTable /\ EntriesKeepTheirId)
<1>1. IndInv => ListMatchesTable /\ EntriesKeepTheirId
    BY DEF IndInv
<1>. QED  BY <1>1, Invariance, PTL

\* An entry always has the template id it is filed under.
THEOREM IdsKept == Spec => []EntriesKeepTheirId
<1>1. IndInv => EntriesKeepTheirId
    BY DEF IndInv
<1>. QED  BY <1>1, Invariance, PTL

\* Every variable has its type.
THEOREM TypeCorrect == Spec => []TypeOK
<1>1. IndInv => TypeOK
    BY DEF IndInv
<1>. QED  BY <1>1, Invariance, PTL

\* After remove_session nothing of the session is left in the store.
THEOREM SessionRemoved == Spec => []SessionIsGone
<1>1. IndInv => SessionIsGone
    BY DEF IndInv, RemovalUnderWay, SessionIsGone, Idle
<1>. QED  BY <1>1, Invariance, PTL

\* What insert accepted, a view finds, unless the store has no room at all.
THEOREM AcceptedInstalled == ASSUME Capacity > 0  PROVE Spec => []AcceptedIsVisible
<1>. DEFINE Inv == IndInv /\ AcceptedIsVisible
<1>1. Init => AcceptedIsVisible
    BY DEF Init, AcceptedIsVisible
<1>2. ASSUME IndInv, AcceptedIsVisible, [Next]_vars  PROVE AcceptedIsVisible'
    <2>1. ASSUME NEW session \in Sessions, NEW odid \in Odids, NEW record \in Template,
                 Insert(session, odid, record)
          PROVE  AcceptedIsVisible'
        <3>. DEFINE key == <<session, odid, record.id>>
        <3>1. key \in Keys /\ key[3] = record.id
            BY KeyOfRecord
        <3>2. CASE Collide(key, record)
            BY <3>2 DEF Collide, Returns, AcceptedIsVisible
        <3>3. CASE Refresh(key, record)
            <4>1. templates[key] \in Template /\ templates[key].id = record.id
                BY <1>2, <3>1, <3>3 DEF Refresh, IndInv, TypeOK, EntriesKeepTheirId
            <4>2. templates[key] = record
                BY <3>3, <4>1 DEF Refresh, SameTemplate, Template
            <4>. QED  BY <3>3, <4>2 DEF Refresh, Returns, AcceptedIsVisible
        <3>4. CASE Install(key, record)
            <4>1. /\ key \in DOMAIN templates' /\ templates'[key] = record
                  /\ call'.key = key /\ call'.record = record
                BY <3>4, CapacityAssumption DEF Install, LruInsert, Returns
            <4>. QED  BY <4>1 DEF AcceptedIsVisible
        <3>. QED  BY <2>1, <3>2, <3>3, <3>4 DEF Insert
    <2>2. ASSUME NEW session \in Sessions, NEW odid \in Odids, NEW id \in TemplateIds,
                 RemoveTemplate(session, odid, id) \/ Get(session, odid, id)
          PROVE  AcceptedIsVisible'
        BY <2>2 DEF RemoveTemplate, Get, AcceptedIsVisible
    <2>3. ASSUME NEW session \in Sessions, RemoveSession(session)
          PROVE  AcceptedIsVisible'
        BY <2>3 DEF RemoveSession, AcceptedIsVisible
    <2>4. CASE RemoveCollected
        <3>1. to_remove # {} /\ call' = call
            BY <2>4 DEF RemoveCollected
        <3>2. call.op = "remove_session"
            BY <1>2, <3>1 DEF IndInv, RemovalUnderWay
        <3>. QED  BY <3>1, <3>2 DEF AcceptedIsVisible
    <2>5. CASE UNCHANGED vars
        BY <1>2, <2>5 DEF vars, AcceptedIsVisible
    <2>. QED  BY <1>2, <2>1, <2>2, <2>3, <2>4, <2>5 DEF Next
<1>. QED  BY <1>1, <1>2, InitInv, NextInv, PTL DEF Spec

\* RFC 7011 section 8: while a key stays in the store its definition stays.
THEOREM NeverRedefined == Spec => NoRedefinition
<1>. DEFINE Kept == \A key \in DOMAIN templates \cap DOMAIN templates' :
                        templates'[key] = templates[key]
<1>1. ASSUME IndInv, [Next]_vars  PROVE Kept
    <2>1. ASSUME NEW session \in Sessions, NEW odid \in Odids, NEW record \in Template,
                 Insert(session, odid, record)
          PROVE  Kept
        <3>. DEFINE key == <<session, odid, record.id>>
        <3>1. CASE Collide(key, record) \/ Refresh(key, record)
            BY <3>1 DEF Collide, Refresh
        <3>2. CASE Install(key, record)
            BY <3>2 DEF Install, LruInsert
        <3>. QED  BY <2>1, <3>1, <3>2 DEF Insert
    <2>2. ASSUME NEW session \in Sessions, NEW odid \in Odids, NEW id \in TemplateIds,
                 RemoveTemplate(session, odid, id)
          PROVE  Kept
        BY <1>1, <2>2, LruRemoveFacts DEF RemoveTemplate
    <2>3. CASE RemoveCollected
        BY <1>1, <2>3, LruRemoveFacts DEF RemoveCollected
    <2>4. CASE UNCHANGED templates
        BY <2>4
    <2>. QED  BY <1>1, <2>1, <2>2, <2>3, <2>4 DEF Next, Get, RemoveSession, vars
<1>. QED  BY <1>1, Invariance, PTL DEF Spec, NoRedefinition

-----------------------------------------------------------------------------
(* The store implements the cache of TemplateCache, for every capacity but *)
(* zero: every step of the store is a step of the cache, or a stutter,     *)
(* under the mapping of SessionTemplateStore.  First, what an insertion    *)
(* keeps.                                                                  *)

\* The tail of a full list is the only key an insertion gives up, and the
\* keys that stay keep their order.
LEMMA KeptKeys ==
    ASSUME IndInv, Capacity > 0
    PROVE  /\ Range(MakeRoom(recency)) =
                  IF Len(recency) < Capacity THEN DOMAIN templates
                  ELSE DOMAIN templates \ {Last(recency)}
           /\ EarlierIn(MakeRoom(recency)) =
                  {pair \in EarlierIn(recency) :
                       /\ pair[1] \in Range(MakeRoom(recency))
                       /\ pair[2] \in Range(MakeRoom(recency))}
<1>. DEFINE n == IF Len(recency) < Capacity THEN Len(recency) ELSE Capacity - 1
<1>1. /\ recency \in Seq(Keys) /\ IsInjective(recency)
      /\ Range(recency) = DOMAIN templates
      /\ Len(recency) <= Capacity
    BY DEF IndInv, TypeOK, ListMatchesTable
<1>2. /\ Len(recency) \in Nat
      /\ Range(recency) = Elements(recency, Len(recency))
      /\ Distinct(recency, Len(recency))
    BY <1>1, RangeByIndex
<1>3. n \in 0..Len(recency)
    BY <1>1, <1>2, CapacityAssumption
<1>4. MakeRoom(recency) = SubSeq(recency, 1, n)
    BY DEF MakeRoom
<1>. HIDE DEF n
<1>5. Range(SubSeq(recency, 1, n)) = Elements(recency, n)
    BY <1>1, <1>3, PrefixInjective
<1>6. EarlierIn(SubSeq(recency, 1, n)) =
          {pair \in EarlierIn(recency) :
               pair[1] \in Elements(recency, n) /\ pair[2] \in Elements(recency, n)}
    BY <1>1, <1>3, EarlierInPrefix
<1>7. CASE Len(recency) < Capacity
    <2>1. n = Len(recency)
        BY <1>7 DEF n
    <2>. QED  BY <1>1, <1>2, <1>4, <1>5, <1>6, <1>7, <2>1
<1>8. CASE ~(Len(recency) < Capacity)
    <2>1. n = Len(recency) - 1 /\ Len(recency) >= 1
        BY <1>1, <1>2, <1>8, CapacityAssumption DEF n
    <2>2. Elements(recency, Len(recency) - 1) =
              Elements(recency, Len(recency)) \ {recency[Len(recency)]}
        BY <1>2, <2>1 DEF Elements, Distinct
    <2>. QED  BY <1>1, <1>2, <1>4, <1>5, <1>6, <1>8, <2>1, <2>2 DEF Last
<1>. QED  BY <1>7, <1>8

\* insert warns exactly when it gives up a template, and gives up the tail;
\* every other call costs only what it was asked to remove.
THEOREM EvictionReported == Spec => EvictionIsReported
<1>. DEFINE Reported ==
         /\ call'.op = "insert" =>
               /\ call'.warned <=> Lost # {}
               /\ \A key \in Lost : key = Last(recency)
         /\ call'.op = "remove" => Lost \subseteq {call'.key}
         /\ call'.op = "get" => Lost = {}
         /\ call'.op = "remove_session" =>
               \A key \in Lost : SessionOf(key) = call'.session
<1>1. ASSUME IndInv, Next  PROVE Reported
    <2>1. ASSUME NEW session \in Sessions, NEW odid \in Odids, NEW record \in Template,
                 Insert(session, odid, record)
          PROVE  Reported
        <3>. DEFINE key == <<session, odid, record.id>>
        <3>1. CASE Collide(key, record) \/ Refresh(key, record)
            <4>1. /\ call'.op = "insert" /\ call'.warned = FALSE
                  /\ templates' = templates
                BY <3>1 DEF Collide, Refresh, Returns
            <4>. QED  BY <4>1 DEF Lost
        <3>2. CASE Install(key, record)
            <4>1. /\ call'.op = "insert"
                  /\ call'.warned <=> (Capacity > 0 /\ Len(recency) >= Capacity)
                  /\ key \notin DOMAIN templates
                BY <3>2 DEF Install, Returns
            <4>2. /\ Len(recency) \in Nat /\ Len(recency) <= Capacity
                  /\ Range(recency) = DOMAIN templates
                  /\ DOMAIN recency = 1..Len(recency)
                BY <1>1, LenProperties DEF IndInv, TypeOK, ListMatchesTable
            <4>3. CASE Capacity = 0
                <5>1. Lost = {}
                    BY <3>2, <4>3 DEF Install, LruInsert, Lost
                <5>. QED  BY <4>1, <4>3, <5>1
            <4>4. CASE Capacity # 0
                <5>1. DOMAIN templates' = Range(MakeRoom(recency)) \cup {key}
                    BY <3>2, <4>4 DEF Install, LruInsert
                <5>2. Capacity > 0
                    BY <4>4, CapacityAssumption
                <5>3. CASE Len(recency) < Capacity
                    <6>1. Lost = {}
                        BY <1>1, <5>1, <5>2, <5>3, KeptKeys DEF Lost
                    <6>. QED  BY <4>1, <4>2, <5>3, <6>1, CapacityAssumption
                <5>4. CASE ~(Len(recency) < Capacity)
                    <6>1. Last(recency) \in DOMAIN templates
                        BY <4>2, <5>2, <5>4, CapacityAssumption DEF Last, Range
                    <6>2. Lost = {Last(recency)}
                        BY <1>1, <4>1, <5>1, <5>2, <5>4, <6>1, KeptKeys DEF Lost
                    <6>. QED  BY <4>1, <4>2, <5>2, <5>4, <6>2, CapacityAssumption
                <5>. QED  BY <5>3, <5>4
            <4>. QED  BY <4>3, <4>4
        <3>. QED  BY <2>1, <3>1, <3>2 DEF Insert
    <2>2. ASSUME NEW session \in Sessions, NEW odid \in Odids, NEW id \in TemplateIds,
                 RemoveTemplate(session, odid, id)
          PROVE  Reported
        <3>. DEFINE key == <<session, odid, id>>
        <3>1. LruRemove(key) /\ call' = [op |-> "remove", key |-> key]
            BY <2>2 DEF RemoveTemplate
        <3>2. DOMAIN templates' = DOMAIN templates \ {key}
            BY <1>1, <3>1, LruRemoveFacts
        <3>. QED  BY <3>1, <3>2 DEF Lost
    <2>3. ASSUME NEW session \in Sessions, NEW odid \in Odids, NEW id \in TemplateIds,
                 Get(session, odid, id)
          PROVE  Reported
        BY <2>3 DEF Get, Lost
    <2>4. ASSUME NEW session \in Sessions, RemoveSession(session)
          PROVE  Reported
        BY <2>4 DEF RemoveSession, Lost
    <2>5. CASE RemoveCollected
        <3>1. PICK key \in to_remove : LruRemove(key) /\ call' = call
            BY <2>5 DEF RemoveCollected
        <3>2. DOMAIN templates' = DOMAIN templates \ {key}
            BY <1>1, <3>1, LruRemoveFacts
        <3>3. call.op = "remove_session" /\ SessionOf(key) = call.session
            BY <1>1 DEF IndInv, RemovalUnderWay
        <3>. QED  BY <3>1, <3>2, <3>3 DEF Lost
    <2>. QED  BY <1>1, <2>1, <2>2, <2>3, <2>4, <2>5 DEF Next
<1>. QED  BY <1>1, Invariance, PTL DEF Spec, EvictionIsReported

-----------------------------------------------------------------------------
(* The refinement, action by action.                                       *)

LEMMA CollideRefuses ==
    ASSUME IndInv, NEW key \in Keys, NEW record \in Template, Collide(key, record)
    PROVE  Cache!Refuse(key, record)
<1>1. templates[key] # record
    BY DEF Collide, SameTemplate
<1>. QED  BY <1>1 DEF Collide, Returns, Reply, Cache!Refuse, Cache!Answer

LEMMA RefreshConfirms ==
    ASSUME IndInv, NEW key \in Keys, NEW record \in Template, record.id = key[3],
           Refresh(key, record)
    PROVE  Cache!Confirm(key, record)
<1>. DEFINE rest == Unlink(recency, key)
<1>1. /\ recency \in Seq(Keys) /\ IsInjective(recency)
      /\ Range(recency) = DOMAIN templates /\ key \in Range(recency)
    BY DEF IndInv, TypeOK, ListMatchesTable, Refresh
<1>2. /\ rest \in Seq(Keys) /\ IsInjective(rest)
      /\ Range(rest) = DOMAIN templates \ {key}
      /\ EarlierIn(rest) = {pair \in EarlierIn(recency) : pair[1] # key /\ pair[2] # key}
    BY <1>1, UnlinkElements, UnlinkInjective, EarlierInUnlink
<1>3. recency' = Cons(key, rest) /\ key \notin Range(rest)
    BY <1>2 DEF Refresh, Promote
<1>. HIDE DEF rest
<1>4. EarlierIn(recency') = EarlierIn(rest) \cup (Range(rest) \X {key})
    BY <1>2, <1>3, EarlierInCons
<1>5. \A pair \in EarlierIn(recency) : pair[1] \in DOMAIN templates /\ pair[2] \in DOMAIN templates
    BY <1>1 DEF EarlierIn
<1>6. EarlierIn(recency') = Cache!Newest(key, DOMAIN templates \ {key})
    BY <1>2, <1>4, <1>5 DEF Cache!Newest
<1>7. templates[key] = record
    <2>1. templates[key] \in Template /\ templates[key].id = record.id
        BY <1>1 DEF IndInv, TypeOK, EntriesKeepTheirId
    <2>. QED  BY <2>1 DEF Refresh, SameTemplate, Template
<1>. QED  BY <1>1, <1>6, <1>7 DEF Refresh, Returns, Reply, Cache!Confirm, Cache!Answer

LEMMA InstallDefines ==
    ASSUME IndInv, Capacity > 0, NEW key \in Keys, NEW record \in Template,
           Install(key, record)
    PROVE  Cache!Define(key, record)
<1>. DEFINE kept == MakeRoom(recency)
            evicted == IF Len(recency) < Capacity THEN {} ELSE {Last(recency)}
<1>1. /\ recency \in Seq(Keys) /\ IsInjective(recency)
      /\ Range(recency) = DOMAIN templates /\ key \notin DOMAIN templates
      /\ Len(recency) <= Capacity
    BY DEF IndInv, TypeOK, ListMatchesTable, Install
<1>2. /\ kept \in Seq(Keys) /\ IsInjective(kept)
      /\ Range(kept) = DOMAIN templates \ evicted
      /\ EarlierIn(kept) = {pair \in EarlierIn(recency) :
                                pair[1] \in Range(kept) /\ pair[2] \in Range(kept)}
    BY <1>1, RoomMade, KeptKeys
<1>3. /\ recency' = Cons(key, kept)
      /\ templates' = [k \in Range(kept) \cup {key} |->
                           IF k = key THEN record ELSE templates[k]]
    BY DEF Install, LruInsert
<1>. HIDE DEF kept
<1>4. EarlierIn(recency') = EarlierIn(kept) \cup (Range(kept) \X {key})
    BY <1>1, <1>2, <1>3, EarlierInCons
<1>5. EarlierIn(recency') = Cache!Newest(key, DOMAIN templates \ evicted)
    BY <1>2, <1>4 DEF Cache!Newest
<1>6. Len(recency) \in Nat /\ (Cache!Full <=> ~(Len(recency) < Capacity))
    BY <1>1, TableSize, LenProperties, CapacityAssumption
       DEF Cache!Full, Cache!Cardinality, Cache!IsFiniteSet, Cardinality, IsFiniteSet
<1>7. evicted \in Cache!Victims
    <2>1. CASE Len(recency) < Capacity
        BY <2>1, <1>6 DEF Cache!Victims
    <2>2. CASE ~(Len(recency) < Capacity)
        <3>1. Len(recency) \in 1..Len(recency) /\ Last(recency) = recency[Len(recency)]
            BY <1>1, <1>6, <2>2, CapacityAssumption DEF Last
        <3>2. /\ Last(recency) \in DOMAIN templates
              /\ IndexOf(recency, Last(recency)) = Len(recency)
            BY <1>1, <3>1, IndexOfElement
        <3>3. ASSUME NEW other \in DOMAIN templates \ {Last(recency)}
              PROVE  <<Last(recency), other>> \in EarlierIn(recency)
            <4>1. /\ IndexOf(recency, other) \in 1..Len(recency)
                  /\ recency[IndexOf(recency, other)] = other
                BY <1>1, IndexOfKey
            <4>2. IndexOf(recency, other) # Len(recency)
                BY <3>1, <4>1
            <4>. QED  BY <1>1, <1>6, <3>2, <4>1, <4>2 DEF EarlierIn
        <3>4. Cache!Oldest(Last(recency))
            BY <3>3 DEF Cache!Oldest
        <3>. QED  BY <1>6, <2>2, <3>2, <3>4 DEF Cache!Victims
    <2>. QED  BY <2>1, <2>2
<1>8. Reply' = Cache!Answer("Inserted", key, record)
    BY DEF Install, Returns, Reply, Cache!Answer
<1>. HIDE DEF evicted
<1>9. templates' = [k \in (DOMAIN templates \ evicted) \cup {key} |->
                        IF k = key THEN record ELSE templates[k]]
    BY <1>2, <1>3
<1>. QED  BY <1>1, <1>5, <1>7, <1>8, <1>9 DEF Cache!Define

LEMMA LruRemoveWithdraws ==
    ASSUME IndInv, NEW key, LruRemove(key), Reply' = Cache!NoReply
    PROVE  Cache!Withdraw(key)
<1>1. /\ recency \in Seq(Keys) /\ IsInjective(recency)
      /\ Range(recency) = DOMAIN templates
      /\ templates = [k \in DOMAIN templates |-> templates[k]]
    BY DEF IndInv, TypeOK, ListMatchesTable
<1>2. \A pair \in EarlierIn(recency) : pair[1] \in DOMAIN templates /\ pair[2] \in DOMAIN templates
    BY <1>1 DEF EarlierIn
<1>3. CASE key \in DOMAIN templates
    <2>1. EarlierIn(recency') =
              {pair \in EarlierIn(recency) : pair[1] # key /\ pair[2] # key}
        BY <1>1, <1>3, EarlierInUnlink DEF LruRemove
    <2>. QED  BY <1>3, <2>1 DEF LruRemove, Restrict, Cache!Restrict, Cache!Withdraw, Cache!Without
<1>4. CASE key \notin DOMAIN templates
    <2>1. EarlierIn(recency) = Cache!Without({key})
        BY <1>2, <1>4 DEF Cache!Without
    <2>2. templates = Cache!Restrict(templates, DOMAIN templates \ {key})
        BY <1>1, <1>4 DEF Cache!Restrict
    <2>. QED  BY <1>4, <2>1, <2>2 DEF LruRemove, Cache!Withdraw
<1>. QED  BY <1>3, <1>4

-----------------------------------------------------------------------------
(* Only refreshes reorder.                                                 *)

\* Which pairs a step turns round, stated by the order the list stands for.
TurnedRound(a, b) ==
    /\ <<a, b>> \notin EarlierIn(recency)
    /\ <<a, b>> \in EarlierIn(recency')

LEMMA TurnedByPosition ==
    ASSUME IndInv, IndInv',
           NEW a \in DOMAIN templates \cap DOMAIN templates',
           NEW b \in DOMAIN templates \cap DOMAIN templates',
           IndexOf(recency, a) < IndexOf(recency, b),
           IndexOf(recency', b) < IndexOf(recency', a)
    PROVE  TurnedRound(a, b)
<1>1. /\ recency \in Seq(Keys) /\ Range(recency) = DOMAIN templates
      /\ recency' \in Seq(Keys) /\ Range(recency') = DOMAIN templates'
    BY DEF IndInv, TypeOK, ListMatchesTable
<1>2. /\ IndexOf(recency, a) \in 1..Len(recency) /\ IndexOf(recency, b) \in 1..Len(recency)
      /\ IndexOf(recency', a) \in 1..Len(recency') /\ IndexOf(recency', b) \in 1..Len(recency')
    BY <1>1, IndexOfKey
<1>3. Len(recency) \in Nat /\ Len(recency') \in Nat
    BY <1>1, LenProperties
<1>. QED  BY <1>1, <1>2, <1>3 DEF TurnedRound, EarlierIn

LEMMA RefreshTurns ==
    ASSUME IndInv, NEW key \in Keys, NEW record \in Template, record.id = key[3],
           Refresh(key, record), NEW a, NEW b, TurnedRound(a, b)
    PROVE  call'.op = "insert" /\ call'.key = b
<1>1. EarlierIn(recency') = Cache!Newest(key, DOMAIN templates \ {key})
    BY RefreshConfirms DEF Cache!Confirm
<1>2. b = key
    BY <1>1 DEF Cache!Newest, TurnedRound
<1>. QED  BY <1>2 DEF Refresh, Returns

LEMMA InstallTurns ==
    ASSUME IndInv, NEW key \in Keys, NEW record \in Template,
           Install(key, record), NEW a, NEW b, TurnedRound(a, b)
    PROVE  call'.op = "insert" /\ call'.key = b
<1>1. Capacity > 0
    BY CapacityAssumption DEF Install, LruInsert, TurnedRound
<1>2. Cache!Define(key, record)
    BY <1>1, InstallDefines
<1>3. PICK evicted \in Cache!Victims :
          EarlierIn(recency') = Cache!Newest(key, DOMAIN templates \ evicted)
    BY <1>2 DEF Cache!Define
<1>4. b = key
    BY <1>3 DEF Cache!Newest, TurnedRound
<1>. QED  BY <1>4 DEF Install, Returns

\* A removal turns no pair round.
LEMMA RemovalTurnsNone ==
    ASSUME IndInv, NEW key, LruRemove(key), NEW a, NEW b
    PROVE  ~TurnedRound(a, b)
<1>1. /\ recency \in Seq(Keys) /\ IsInjective(recency)
      /\ Range(recency) = DOMAIN templates
    BY DEF IndInv, TypeOK, ListMatchesTable
<1>2. EarlierIn(recency') \subseteq EarlierIn(recency)
    BY <1>1, EarlierInUnlink DEF LruRemove
<1>. QED  BY <1>2 DEF TurnedRound

\* A call changes the order of two entries only by refreshing the one that
\* stood behind the other; removals and lookups keep it.
THEOREM RefreshesReorder == Spec => OnlyRefreshesReorder
<1>. DEFINE RefreshOnly ==
         \A a, b \in DOMAIN templates \cap DOMAIN templates' :
             (/\ IndexOf(recency, a) < IndexOf(recency, b)
              /\ IndexOf(recency', b) < IndexOf(recency', a))
             => (call'.op = "insert" /\ call'.key = b)
<1>1. ASSUME IndInv, Next  PROVE RefreshOnly
    <2>. SUFFICES ASSUME NEW a \in DOMAIN templates \cap DOMAIN templates',
                         NEW b \in DOMAIN templates \cap DOMAIN templates',
                         IndexOf(recency, a) < IndexOf(recency, b),
                         IndexOf(recency', b) < IndexOf(recency', a)
                  PROVE  call'.op = "insert" /\ call'.key = b
        OBVIOUS
    <2>1. TurnedRound(a, b)
        BY <1>1, NextInv, TurnedByPosition
    <2>2. ASSUME NEW session \in Sessions, NEW odid \in Odids, NEW record \in Template,
                 Insert(session, odid, record)
          PROVE  call'.op = "insert" /\ call'.key = b
        <3>. DEFINE key == <<session, odid, record.id>>
        <3>1. key \in Keys /\ record.id = key[3]
            BY KeyOfRecord
        <3>2. Collide(key, record) \/ Refresh(key, record) \/ Install(key, record)
            BY <2>2 DEF Insert
        <3>. HIDE DEF key
        <3>3. ~Collide(key, record)
            BY <2>1 DEF Collide, TurnedRound
        <3>. QED  BY <1>1, <2>1, <3>1, <3>2, <3>3, RefreshTurns, InstallTurns
    <2>3. ASSUME NEW session \in Sessions, NEW odid \in Odids, NEW id \in TemplateIds
          PROVE  ~RemoveTemplate(session, odid, id) /\ ~Get(session, odid, id)
        BY <1>1, <2>1, RemovalTurnsNone DEF RemoveTemplate, Get, TurnedRound
    <2>4. ASSUME NEW session \in Sessions  PROVE ~RemoveSession(session)
        BY <2>1 DEF RemoveSession, TurnedRound
    <2>5. ~RemoveCollected
        BY <1>1, <2>1, RemovalTurnsNone DEF RemoveCollected
    <2>. QED  BY <1>1, <2>2, <2>3, <2>4, <2>5 DEF Next
<1>. QED  BY <1>1, Invariance, PTL DEF Spec, OnlyRefreshesReorder

-----------------------------------------------------------------------------
(* The refinement as a whole.                                              *)

LEMMA InitRefines == Init => Cache!Init
<1>. SUFFICES ASSUME Init  PROVE Cache!Init
    OBVIOUS
<1>1. Range(recency) = {}
    BY DEF Init, Range
<1>2. EarlierIn(recency) = {}
    BY <1>1 DEF EarlierIn
<1>. QED  BY <1>2 DEF Init, Reply, Cache!Init, Cache!NoReply

LEMMA NextRefines ==
    ASSUME Capacity > 0, IndInv, [Next]_vars
    PROVE  [Cache!Next]_(Cache!vars)
<1>1. ASSUME NEW session \in Sessions, NEW odid \in Odids, NEW record \in Template,
             Insert(session, odid, record)
      PROVE  Cache!Next
    <2>. DEFINE key == <<session, odid, record.id>>
    <2>1. key \in Keys /\ record.id = key[3]
        BY KeyOfRecord
    <2>2. Collide(key, record) \/ Refresh(key, record) \/ Install(key, record)
        BY <1>1 DEF Insert
    <2>. HIDE DEF key
    <2>3. Cache!Refuse(key, record) \/ Cache!Confirm(key, record) \/ Cache!Define(key, record)
        BY <2>1, <2>2, CollideRefuses, RefreshConfirms, InstallDefines
    <2>. QED  BY <2>1, <2>3 DEF Cache!Next
<1>2. ASSUME NEW session \in Sessions, NEW odid \in Odids, NEW id \in TemplateIds,
             RemoveTemplate(session, odid, id)
      PROVE  Cache!Next
    <2>. DEFINE key == <<session, odid, id>>
    <2>1. key \in Keys /\ LruRemove(key) /\ Reply' = Cache!NoReply
        BY <1>2 DEF RemoveTemplate, Keys, Reply, Cache!NoReply
    <2>. HIDE DEF key
    <2>2. Cache!Withdraw(key)
        BY <2>1, LruRemoveWithdraws
    <2>. QED  BY <2>1, <2>2 DEF Cache!Next
<1>3. ASSUME NEW session \in Sessions, NEW odid \in Odids, NEW id \in TemplateIds,
             Get(session, odid, id)
      PROVE  Cache!Next
    BY <1>3 DEF Get, Reply, Cache!Next, Cache!Observe, Cache!NoReply
<1>4. ASSUME NEW session \in Sessions, RemoveSession(session)
      PROVE  Cache!Next
    BY <1>4 DEF RemoveSession, Reply, Cache!Next, Cache!Observe, Cache!NoReply
<1>5. CASE RemoveCollected
    <2>1. PICK key \in to_remove : LruRemove(key) /\ call' = call
        BY <1>5 DEF RemoveCollected
    <2>2. key \in Keys /\ call.op = "remove_session"
        BY DEF IndInv, TypeOK, RemovalUnderWay
    <2>3. Cache!Withdraw(key)
        BY <2>1, <2>2, LruRemoveWithdraws DEF Reply, Cache!NoReply
    <2>. QED  BY <2>2, <2>3 DEF Cache!Next
<1>6. CASE UNCHANGED vars
    BY <1>6 DEF vars, Reply, Cache!vars
<1>. QED  BY <1>1, <1>2, <1>3, <1>4, <1>5, <1>6 DEF Next

\* A store with room for a template is a bounded cache that evicts the entry
\* refreshed before all others and never replaces a definition.
THEOREM Refinement == ASSUME Capacity > 0  PROVE Spec => ImplementsCache
<1>. QED  BY InitRefines, NextRefines, Invariance, PTL DEF Spec, ImplementsCache, Cache!Spec
=============================================================================
