-------------------------- MODULE DecodePlanProofs --------------------------
(***************************************************************************)
(* For any templates, mappings and integer limits: no operation of a plan  *)
(* reaches beyond the record or the destination buffer the plan asks for,  *)
(* which apply takes for granted; build accepts only the inputs it should  *)
(* and asks for no more than they need; and merging operations changes     *)
(* nothing of what they write.                                             *)
(***************************************************************************)
EXTENDS DecodePlan, Induction, SequenceTheorems, TLAPS

\* The limits are numbers.
LEMMA Limits == MaxU32 \in Nat /\ MaxU16 \in Nat \ {0}
BY PlanAssumption DEF PlanAssumption

-----------------------------------------------------------------------------
(* One operation.                                                          *)

\* A run is as long as its elements together.
LEMMA OneElement == \A width \in SwapWidths : width \in Nat /\ width * 1 = width
BY DEF SwapWidths

LEMMA RunLength ==
    ASSUME NEW width \in SwapWidths, NEW count \in Nat
    PROVE  /\ width * count \in Nat
           /\ width * (count + 1) = width * count + width
BY DEF SwapWidths

\* An operation moves a number of bytes between two offsets.
LEMMA OperationType ==
    ASSUME NEW op \in Operations
    PROVE  /\ op.src \in 0..MaxU32 /\ op.dst \in 0..MaxU32
           /\ op.src \in Nat /\ op.dst \in Nat /\ Extent(op) \in Nat
           /\ op.kind = "Swap" => op.width \in SwapWidths /\ op.count \in 1..MaxU16
           /\ op.kind = "Copy" => Extent(op) = op.count /\ op.count \in 0..MaxU32
<1>1. CASE op \in [kind : {"Swap"}, width : SwapWidths, count : 1..MaxU16,
                   src : 0..MaxU32, dst : 0..MaxU32]
  <2>1. op.width \in SwapWidths /\ op.count \in Nat
      BY <1>1, Limits
  <2>2. op.width * op.count \in Nat
      BY <2>1, RunLength
  <2>. QED  BY <1>1, Limits, <2>2 DEF Extent
<1>2. CASE op \in [kind : {"Copy"}, width : {1}, count : 0..MaxU32,
                   src : 0..MaxU32, dst : 0..MaxU32]
    BY <1>2, Limits DEF Extent
<1>. QED  BY <1>1, <1>2 DEF Operations

\* A new operation of either kind.
LEMMA NewSwap ==
    ASSUME NEW width \in SwapWidths, NEW count \in 1..MaxU16,
           NEW from \in 0..MaxU32, NEW to \in 0..MaxU32
    PROVE  LET op == Swap(width, count, from, to)
           IN  op \in Operations /\ op.src = from /\ op.dst = to /\ Extent(op) = width * count
BY DEF Swap, Operations, Extent

LEMMA NewCopy ==
    ASSUME NEW len \in 0..MaxU32, NEW from \in 0..MaxU32, NEW to \in 0..MaxU32
    PROVE  LET op == Copy(len, from, to)
           IN  op \in Operations /\ op.src = from /\ op.dst = to /\ Extent(op) = len
BY Limits DEF Copy, Operations, Extent

\* Below the limit, an addition that saturates is the sum (decode.rs 383-384).
LEMMA SumIsExact ==
    ASSUME NEW offset \in Nat, NEW len \in Nat, NEW end \in 0..MaxU32, offset + len <= end
    PROVE  SaturatingAdd(offset, len) = offset + len
BY Limits DEF SaturatingAdd

\* An operation that is made longer ends as much later.
LEMMA Lengthened ==
    ASSUME NEW old, NEW new, NEW more \in Nat, NEW from \in Nat, NEW to \in Nat,
           old.src \in Nat, old.dst \in Nat, Extent(old) \in Nat,
           old.src + Extent(old) = from, old.dst + Extent(old) = to,
           new.src = old.src, new.dst = old.dst, Extent(new) = Extent(old) + more
    PROVE  new.src + Extent(new) = from + more /\ new.dst + Extent(new) = to + more
OBVIOUS

\* A run with one more element, a copy with more bytes.
LEMMA LongerSwap ==
    ASSUME NEW last \in Operations, last.kind = "Swap", last.count < MaxU16,
           NEW from \in Nat, NEW to \in Nat,
           last.src + Extent(last) = from, last.dst + Extent(last) = to
    PROVE  LET op == Swap(last.width, last.count + 1, last.src, last.dst)
           IN  /\ op \in Operations
               /\ op.src + Extent(op) = from + last.width
               /\ op.dst + Extent(op) = to + last.width
<1>. DEFINE op == Swap(last.width, last.count + 1, last.src, last.dst)
<1>1. /\ last.width \in SwapWidths /\ last.width \in Nat /\ last.count \in Nat
      /\ last.count + 1 \in 1..MaxU16
      /\ last.src \in 0..MaxU32 /\ last.dst \in 0..MaxU32
      /\ last.src \in Nat /\ last.dst \in Nat /\ Extent(last) \in Nat
    BY Limits, OperationType, OneElement
<1>2. /\ op \in Operations /\ op.src = last.src /\ op.dst = last.dst
      /\ Extent(op) = last.width * (last.count + 1)
    BY <1>1, NewSwap
<1>3. Extent(op) = Extent(last) + last.width
    BY <1>1, <1>2, RunLength DEF Extent
<1>. HIDE DEF op
<1>4. op.src + Extent(op) = from + last.width /\ op.dst + Extent(op) = to + last.width
    BY <1>1, <1>2, <1>3, Lengthened
<1>. QED  BY <1>2, <1>4 DEF op

LEMMA LongerCopy ==
    ASSUME NEW last \in Operations, last.kind = "Copy", NEW len \in Nat,
           last.count + len <= MaxU32, NEW from \in Nat, NEW to \in Nat,
           last.src + Extent(last) = from, last.dst + Extent(last) = to
    PROVE  LET op == Copy(last.count + len, last.src, last.dst)
           IN  /\ op \in Operations
               /\ op.src + Extent(op) = from + len
               /\ op.dst + Extent(op) = to + len
<1>. DEFINE op == Copy(last.count + len, last.src, last.dst)
<1>1. /\ last.count + len \in 0..MaxU32 /\ Extent(last) = last.count
      /\ last.src \in 0..MaxU32 /\ last.dst \in 0..MaxU32
      /\ last.src \in Nat /\ last.dst \in Nat /\ Extent(last) \in Nat
    BY Limits, OperationType
<1>2. /\ op \in Operations /\ op.src = last.src /\ op.dst = last.dst
      /\ Extent(op) = Extent(last) + len
    BY <1>1, NewCopy
<1>. HIDE DEF op
<1>4. op.src + Extent(op) = from + len /\ op.dst + Extent(op) = to + len
    BY <1>1, <1>2, Lengthened
<1>. QED  BY <1>2, <1>4 DEF op

-----------------------------------------------------------------------------
(* A list of operations.                                                   *)

LEMMA LenIsNat == \A list \in Seq(Operations) : Len(list) \in Nat
OBVIOUS

\* What stays within some lengths stays within longer ones.
LEMMA LongerLengths ==
    ASSUME NEW list \in Seq(Operations), NEW s \in Nat, NEW d \in Nat, NEW s2 \in Nat,
           s <= s2, Within(list, s, d)
    PROVE  Within(list, s2, d)
<1>1. ASSUME NEW i \in 1..Len(list)
      PROVE  list[i].src + Extent(list[i]) <= s2 /\ list[i].dst + Extent(list[i]) <= d
  <2>1. list[i].src + Extent(list[i]) <= s /\ list[i].dst + Extent(list[i]) <= d
      BY DEF Within
  <2>2. list[i] \in Operations
      OBVIOUS
  <2>3. list[i].src \in Nat /\ Extent(list[i]) \in Nat
      BY <2>2, OperationType
  <2>. QED  BY <2>1, <2>3
<1>. QED  BY <1>1 DEF Within

\* The same with one more operation that stays within the longer lengths.
LEMMA AppendWithin ==
    ASSUME NEW list \in Seq(Operations), NEW op \in Operations,
           NEW s \in Nat, NEW d \in Nat, NEW s2 \in Nat, NEW d2 \in Nat, s <= s2, d <= d2,
           Within(list, s, d), op.src + Extent(op) <= s2, op.dst + Extent(op) <= d2
    PROVE  /\ Append(list, op) \in Seq(Operations)
           /\ Len(list) <= Len(Append(list, op))
           /\ Within(Append(list, op), s2, d2)
<1>1. Append(list, op) \in Seq(Operations) /\ Len(Append(list, op)) = Len(list) + 1
    OBVIOUS
<1>2. ASSUME NEW i \in 1..Len(Append(list, op))
      PROVE  /\ Append(list, op)[i].src + Extent(Append(list, op)[i]) <= s2
             /\ Append(list, op)[i].dst + Extent(Append(list, op)[i]) <= d2
  <2>1. CASE i \in 1..Len(list)
    <3>1. Append(list, op)[i] = list[i] /\ list[i] \in Operations
        BY <2>1
    <3>2. list[i].src + Extent(list[i]) <= s /\ list[i].dst + Extent(list[i]) <= d
        BY <2>1 DEF Within
    <3>3. list[i].src \in Nat /\ list[i].dst \in Nat /\ Extent(list[i]) \in Nat
        BY <3>1, OperationType
    <3>. QED  BY <3>1, <3>2, <3>3
  <2>2. CASE i = Len(list) + 1
      BY <2>2
  <2>. QED  BY <1>1, <2>1, <2>2
<1>. QED  BY <1>1, <1>2 DEF Within

\* How a merge changes the list.
LastReplaced(list, op) == [list EXCEPT ![Len(list)] = op]

\* The same with such an operation in place of the last one.
LEMMA ReplaceWithin ==
    ASSUME NEW list \in Seq(Operations), list # <<>>, NEW op \in Operations,
           NEW s \in Nat, NEW d \in Nat, NEW s2 \in Nat, NEW d2 \in Nat, s <= s2, d <= d2,
           Within(list, s, d), op.src + Extent(op) <= s2, op.dst + Extent(op) <= d2
    PROVE  /\ LastReplaced(list, op) \in Seq(Operations)
           /\ Len(list) <= Len(LastReplaced(list, op))
           /\ Within(LastReplaced(list, op), s2, d2)
<1>. DEFINE new == LastReplaced(list, op)
<1>1. new \in Seq(Operations) /\ Len(new) = Len(list)
    BY DEF LastReplaced
<1>2. ASSUME NEW i \in 1..Len(new)
      PROVE  new[i].src + Extent(new[i]) <= s2 /\ new[i].dst + Extent(new[i]) <= d2
  <2>1. CASE i # Len(list)
    <3>1. i \in 1..Len(list) /\ list[i] \in Operations
        BY <1>1
    <3>2. new[i] = list[i]
        BY <2>1, <3>1 DEF LastReplaced
    <3>3. list[i].src + Extent(list[i]) <= s /\ list[i].dst + Extent(list[i]) <= d
        BY <3>1 DEF Within
    <3>4. list[i].src \in Nat /\ list[i].dst \in Nat /\ Extent(list[i]) \in Nat
        BY <3>1, OperationType
    <3>. HIDE DEF new
    <3>. QED  BY <3>2, <3>3, <3>4
  <2>2. CASE i = Len(list)
    <3>1. new[i] = op
        BY <1>1, <2>2 DEF LastReplaced
    <3>. HIDE DEF new
    <3>. QED  BY <3>1
  <2>. HIDE DEF new
  <2>. QED  BY <2>1, <2>2
<1>. HIDE DEF new
<1>3. new \in Seq(Operations) /\ Len(list) <= Len(new) /\ Within(new, s2, d2)
    BY <1>1, <1>2 DEF Within
<1>. QED  BY <1>3 DEF new

\* The last operation of a list within the lengths, and where it ends.
LEMMA LastAbuts ==
    ASSUME NEW list \in Seq(Operations), list # <<>>,
           NEW from \in 0..MaxU32, NEW to \in 0..MaxU32, NEW d \in 0..MaxU32,
           Within(list, from, d), Abuts(Last(list), from, to)
    PROVE  /\ Last(list) \in Operations /\ Last(list) = list[Len(list)]
           /\ Last(list).src + Extent(Last(list)) = from
           /\ Last(list).dst + Extent(Last(list)) = to
<1>1. Last(list) = list[Len(list)] /\ Len(list) \in 1..Len(list) /\ Last(list) \in Operations
    BY DEF Last
<1>2. Last(list).src + Extent(Last(list)) <= from /\ Last(list).dst + Extent(Last(list)) <= d
    BY <1>1 DEF Within
<1>3. Last(list).src \in Nat /\ Last(list).dst \in Nat /\ Extent(Last(list)) \in Nat
    BY <1>1, OperationType
<1>4. /\ SaturatingAdd(Last(list).src, Extent(Last(list))) = Last(list).src + Extent(Last(list))
      /\ SaturatingAdd(Last(list).dst, Extent(Last(list))) = Last(list).dst + Extent(Last(list))
    BY <1>2, <1>3, SumIsExact
<1>. QED  BY <1>1, <1>4 DEF Abuts

\* push_swap (decode.rs 372-396): whether an element starts a run or extends
\* the last one, the operations stay within what is planned so far.
LEMMA PushSwapWithin ==
    ASSUME NEW list \in Seq(Operations), NEW width \in SwapWidths,
           NEW from \in 0..MaxU32, NEW to \in 0..MaxU32, NEW d \in 0..MaxU32,
           NEW d2 \in 0..MaxU32, d <= d2, to + width <= d2,
           from + width <= MaxU32, Within(list, from, d)
    PROVE  /\ PushSwap(list, width, from, to) \in Seq(Operations)
           /\ Len(list) <= Len(PushSwap(list, width, from, to))
           /\ Within(PushSwap(list, width, from, to), from + width, d2)
<1>. DEFINE merges == /\ list # <<>> /\ Last(list).kind = "Swap" /\ Last(list).width = width
                      /\ Last(list).count < MaxU16
                      /\ Abuts(Last(list), from, to)
<1>1. /\ width \in Nat /\ width * 1 = width /\ from + width \in Nat /\ from <= from + width
      /\ from \in Nat /\ to \in Nat /\ d \in Nat /\ d2 \in Nat
    BY Limits, OneElement
<1>2. CASE ~merges
  <2>. DEFINE op == Swap(width, 1, from, to)
  <2>1. PushSwap(list, width, from, to) = Append(list, op)
      BY <1>2 DEF PushSwap
  <2>2. op \in Operations /\ op.src = from /\ op.dst = to /\ Extent(op) = width
      BY <1>1, Limits, NewSwap
  <2>. HIDE DEF op
  <2>3. op.src + Extent(op) <= from + width /\ op.dst + Extent(op) <= d2
      BY <1>1, <2>2, Limits
  <2>. QED  BY <1>1, <2>1, <2>2, <2>3, Limits, AppendWithin
<1>3. CASE merges
  <2>. DEFINE last == Last(list)
              op == Swap(width, last.count + 1, last.src, last.dst)
  <2>1. /\ last \in Operations /\ last = list[Len(list)]
        /\ last.src + Extent(last) = from /\ last.dst + Extent(last) = to
      BY <1>3, LastAbuts
  <2>2. PushSwap(list, width, from, to) = LastReplaced(list, op)
      BY <1>3, <2>1 DEF PushSwap, LastReplaced
  <2>3. last.kind = "Swap" /\ last.width = width /\ last.count < MaxU16 /\ list # <<>>
      BY <1>3
  <2>. HIDE DEF last, merges
  <2>4. /\ op \in Operations
        /\ op.src + Extent(op) = from + width /\ op.dst + Extent(op) = to + width
      BY <1>1, <2>1, <2>3, LongerSwap
  <2>. HIDE DEF op
  <2>5. op.src + Extent(op) <= from + width /\ op.dst + Extent(op) <= d2
      BY <1>1, <2>4
  <2>. QED  BY <1>1, <2>2, <2>3, <2>4, <2>5, ReplaceWithin
<1>. QED  BY <1>2, <1>3

\* push_copy (decode.rs 400-415) as push_swap.
LEMMA PushCopyWithin ==
    ASSUME NEW list \in Seq(Operations), NEW len \in 0..MaxU32,
           NEW from \in 0..MaxU32, NEW to \in 0..MaxU32, NEW d \in 0..MaxU32,
           NEW d2 \in 0..MaxU32, d <= d2, to + len <= d2,
           from + len <= MaxU32, Within(list, from, d)
    PROVE  /\ PushCopy(list, len, from, to) \in Seq(Operations)
           /\ Len(list) <= Len(PushCopy(list, len, from, to))
           /\ Within(PushCopy(list, len, from, to), from + len, d2)
<1>. DEFINE merges == /\ list # <<>> /\ Last(list).kind = "Copy"
                      /\ Abuts(Last(list), from, to)
                      /\ Last(list).count + len <= MaxU32
<1>1. /\ len \in Nat /\ from + len \in Nat /\ from <= from + len
      /\ from \in Nat /\ to \in Nat /\ d \in Nat /\ d2 \in Nat
    BY Limits
<1>2. CASE ~merges
  <2>. DEFINE op == Copy(len, from, to)
  <2>1. PushCopy(list, len, from, to) = Append(list, op)
      BY <1>2 DEF PushCopy
  <2>2. op \in Operations /\ op.src = from /\ op.dst = to /\ Extent(op) = len
      BY NewCopy
  <2>. HIDE DEF op
  <2>3. op.src + Extent(op) <= from + len /\ op.dst + Extent(op) <= d2
      BY <1>1, <2>2, Limits
  <2>. QED  BY <1>1, <2>1, <2>2, <2>3, Limits, AppendWithin
<1>3. CASE merges
  <2>. DEFINE last == Last(list)
              op == Copy(last.count + len, last.src, last.dst)
  <2>1. /\ last \in Operations /\ last = list[Len(list)]
        /\ last.src + Extent(last) = from /\ last.dst + Extent(last) = to
      BY <1>3, LastAbuts
  <2>2. PushCopy(list, len, from, to) = LastReplaced(list, op)
      BY <1>3, <2>1 DEF PushCopy, LastReplaced
  <2>3. last.kind = "Copy" /\ last.count + len <= MaxU32 /\ list # <<>>
      BY <1>3
  <2>. HIDE DEF last, merges
  <2>4. /\ op \in Operations
        /\ op.src + Extent(op) = from + len /\ op.dst + Extent(op) = to + len
      BY <1>1, <2>1, <2>3, LongerCopy
  <2>. HIDE DEF op
  <2>5. op.src + Extent(op) <= from + len /\ op.dst + Extent(op) <= d2
      BY <1>1, <2>4
  <2>. QED  BY <1>1, <2>2, <2>3, <2>4, <2>5, ReplaceWithin
<1>. QED  BY <1>2, <1>3

-----------------------------------------------------------------------------
(* The invariant.                                                          *)

\* Neither part can do without the inputs' types, nor the bounds without the
\* types of what is bounded.
PlanInv ==
    /\ template \in Templates /\ mappings \in MappingLists
    /\ TypeOK
    /\ OpsStayInBounds

\* The field that is planned next, and where it is mapped to if it is.
LEMMA FieldToPlan ==
    ASSUME PlanInv, field < Len(template)
    PROVE  LET f == template[field + 1]
           IN  /\ f.length \in Nat
               /\ field + 1 \in 0..Len(template)
               /\ MappingOf(f.element) # {} =>
                      mappings[CHOOSE i \in MappingOf(f.element) : TRUE].dst \in 0..MaxU32
<1>. DEFINE f == template[field + 1]
<1>1. template \in Seq([element : Elements, length : Nat])
    BY PlanAssumption DEF PlanInv, PlanAssumption
<1>2. mappings \in Seq([element : Elements, dst : 0..MaxU32])
    BY PlanAssumption DEF PlanInv, PlanAssumption
<1>3. field + 1 \in 1..Len(template)
    BY <1>1 DEF PlanInv, TypeOK
<1>4. f \in [element : Elements, length : Nat]
    BY <1>1, <1>3, ElementOfSeq
<1>. HIDE DEF f
<1>5. ASSUME MappingOf(f.element) # {}
      PROVE  mappings[CHOOSE i \in MappingOf(f.element) : TRUE].dst \in 0..MaxU32
  <2>1. PICK j : j = CHOOSE i \in MappingOf(f.element) : TRUE
      OBVIOUS
  <2>2. j \in MappingOf(f.element)
      BY <1>5, <2>1
  <2>3. j \in 1..Len(mappings)
      BY <2>2 DEF MappingOf
  <2>4. mappings[j] \in [element : Elements, dst : 0..MaxU32]
      BY <1>2, <2>3, ElementOfSeq
  <2>5. mappings[j].dst \in 0..MaxU32
      BY <2>4
  <2>. QED  BY <2>1, <2>5
<1>6. f.length \in Nat
    BY <1>4
<1>. QED  BY <1>1, <1>3, <1>5, <1>6 DEF f

\* Planning a field leaves every operation within what is planned by then.
LEMMA PlanFieldKeeps ==
    ASSUME PlanInv, PlanField
    PROVE  PlanInv'
<1>. DEFINE f == template[field + 1]
            to == mappings[CHOOSE i \in MappingOf(f.element) : TRUE].dst
<1>1. /\ field < Len(template) /\ status = "Building"
      /\ src_record_len + f.length <= MaxU32
      /\ src_record_len' = src_record_len + f.length
      /\ field' = field + 1
      /\ UNCHANGED <<template, mappings, status, result, next_op>>
    BY DEF PlanField, Planning, inputs, run
<1>2. /\ f.length \in Nat /\ field + 1 \in 0..Len(template)
      /\ MappingOf(f.element) # {} => to \in 0..MaxU32
    BY <1>1, FieldToPlan
<1>3. CASE MappingOf(f.element) = {}
  <2>1. dst_buf_len' = dst_buf_len /\ ops' = ops
      BY <1>3 DEF PlanField
  <2>. HIDE DEF f, to
  <2>2. /\ src_record_len' \in 0..MaxU32 /\ src_record_len <= src_record_len'
        /\ field' \in 0..Len(template')
      BY <1>1, <1>2, Limits DEF PlanInv, TypeOK
  <2>3. Within(ops, src_record_len', dst_buf_len)
      BY <2>2, Limits, LongerLengths DEF PlanInv, TypeOK, OpsStayInBounds
  <2>4. TypeOK'
      BY <1>1, <2>1, <2>2 DEF PlanInv, TypeOK
  <2>. QED  BY <1>1, <2>1, <2>3, <2>4 DEF PlanInv, OpsStayInBounds
<1>4. CASE MappingOf(f.element) # {}
  <2>. DEFINE push == IF f.length \in SwapWidths
                      THEN PushSwap(ops, f.length, src_record_len, to)
                      ELSE PushCopy(ops, f.length, src_record_len, to)
  <2>1. /\ to + f.length <= MaxU32
        /\ dst_buf_len' = IF to + f.length > dst_buf_len THEN to + f.length ELSE dst_buf_len
        /\ ops' = push
      BY <1>4 DEF PlanField
  <2>. HIDE DEF f, to
  <2>2. /\ src_record_len \in 0..MaxU32 /\ dst_buf_len \in 0..MaxU32
        /\ ops \in Seq(Operations) /\ Within(ops, src_record_len, dst_buf_len)
        /\ to \in 0..MaxU32
      BY <1>2, <1>4 DEF PlanInv, TypeOK, OpsStayInBounds
  <2>3. /\ src_record_len' \in 0..MaxU32 /\ field' \in 0..Len(template')
        /\ f.length \in 0..MaxU32
        /\ dst_buf_len' \in 0..MaxU32 /\ dst_buf_len <= dst_buf_len'
        /\ to + f.length <= dst_buf_len'
    <3>1. /\ src_record_len \in Nat /\ dst_buf_len \in Nat /\ to \in Nat /\ f.length \in Nat
          /\ dst_buf_len <= MaxU32
        BY <1>2, <2>2, Limits
    <3>2. src_record_len' \in 0..MaxU32 /\ f.length \in 0..MaxU32
        BY <1>1, <3>1, Limits
    <3>3. field' \in 0..Len(template')
        BY <1>1, <1>2
    <3>4. CASE to + f.length > dst_buf_len
        BY <2>1, <3>1, <3>2, <3>3, <3>4, Limits
    <3>5. CASE ~(to + f.length > dst_buf_len)
        BY <2>1, <3>1, <3>2, <3>3, <3>5, Limits
    <3>. QED  BY <3>4, <3>5
  <2>4. /\ ops' \in Seq(Operations) /\ Len(ops) <= Len(ops')
        /\ Within(ops', src_record_len + f.length, dst_buf_len')
    <3>1. CASE f.length \in SwapWidths
        BY <1>1, <2>1, <2>2, <2>3, <3>1, PushSwapWithin
    <3>2. CASE f.length \notin SwapWidths
        BY <1>1, <2>1, <2>2, <2>3, <3>2, PushCopyWithin
    <3>. QED  BY <3>1, <3>2
  <2>5. next_op' \in 0..Len(ops')
    <3>1. next_op \in 0..Len(ops) /\ Len(ops) \in Nat /\ Len(ops') \in Nat
        BY <2>2, <2>4, LenIsNat DEF PlanInv, TypeOK
    <3>. QED  BY <1>1, <2>4, <3>1
  <2>6. TypeOK'
      BY <1>1, <2>3, <2>4, <2>5 DEF PlanInv, TypeOK
  <2>. QED  BY <1>1, <2>4, <2>6 DEF PlanInv, OpsStayInBounds
<1>. QED  BY <1>3, <1>4

THEOREM PlanInvariance == Spec => []PlanInv
<1>1. Init => PlanInv
  <2>. SUFFICES ASSUME Init  PROVE PlanInv
      OBVIOUS
  <2>1. template \in Seq([element : Elements, length : Nat])
      BY PlanAssumption DEF Init, PlanAssumption
  <2>2. ops = <<>> /\ ops \in Seq(Operations) /\ Len(ops) = 0 /\ Len(template) \in Nat
      BY <2>1 DEF Init
  <2>3. TypeOK
      BY <2>2, Limits DEF Init, TypeOK, Statuses
  <2>. QED  BY <2>2, <2>3 DEF Init, PlanInv, OpsStayInBounds, Within
<1>2. ASSUME PlanInv, [Next]_vars  PROVE PlanInv'
  <2>1. CASE RefuseInputs
      BY <1>2, <2>1 DEF RefuseInputs, PlanInv, TypeOK, Statuses, OpsStayInBounds, inputs, run
  <2>2. CASE PlanField
      BY <1>2, <2>2, PlanFieldKeeps
  <2>3. CASE RefuseLength
      BY <1>2, <2>3 DEF RefuseLength, PlanInv, TypeOK, Statuses, OpsStayInBounds, inputs, run
  <2>4. CASE FinishBuild
      BY <1>2, <2>4 DEF FinishBuild, PlanInv, TypeOK, Statuses, OpsStayInBounds, inputs, run
  <2>5. CASE StartApply
      BY <1>2, <2>5 DEF StartApply, PlanInv, TypeOK, OpsStayInBounds, inputs, plan
  <2>6. CASE ApplyOp
    <3>1. next_op' \in 0..Len(ops)
        BY <1>2, <2>6, LenIsNat DEF ApplyOp, PlanInv, TypeOK
    <3>. QED  BY <1>2, <2>6, <3>1 DEF ApplyOp, PlanInv, TypeOK, OpsStayInBounds, inputs, plan
  <2>7. CASE FinishApply
      BY <1>2, <2>7 DEF FinishApply, PlanInv, TypeOK, OpsStayInBounds, inputs, plan
  <2>8. CASE UNCHANGED vars
      BY <1>2, <2>8 DEF PlanInv, TypeOK, OpsStayInBounds, vars, inputs, plan, run
  <2>. QED  BY <1>2, <2>1, <2>2, <2>3, <2>4, <2>5, <2>6, <2>7, <2>8 DEF Next, Build
<1>. QED  BY <1>1, <1>2, PTL DEF Spec

\* Every plan fits the integers that hold it (decode.rs 124-150): no offset
\* passes u32::MAX, no run passes u16::MAX.
THEOREM PlanTypeOK == Spec => []TypeOK
<1>1. PlanInv => TypeOK
    BY DEF PlanInv
<1>. QED  BY <1>1, PlanInvariance, PTL

\* No operation of a plan, merged or not, reaches beyond the record or the
\* buffer whose lengths apply checks (decode.rs 291-293).
THEOREM PlanInBounds == Spec => []OpsStayInBounds
<1>1. PlanInv => OpsStayInBounds
    BY DEF PlanInv
<1>. QED  BY <1>1, PlanInvariance, PTL

-----------------------------------------------------------------------------
(* What a plan is, beside its operations.                                  *)

LEMMA OffsetSteps ==
    ASSUME template \in Templates
    PROVE  /\ OffsetOf(0) = 0
           /\ \A n \in 0..Len(template) : OffsetOf(n) \in Nat
           /\ \A n \in 1..Len(template) : OffsetOf(n) = OffsetOf(n - 1) + template[n].length
<1>. DEFINE N == Len(template)
            step == [i \in 1..N |-> [s \in Nat |-> s + template[i].length]]
<1>1. template \in Seq([element : Elements, length : Nat])
    BY PlanAssumption DEF PlanAssumption
<1>2. N \in Nat /\ \A i \in 1..N : template[i].length \in Nat
    <2>1. ASSUME NEW i \in 1..N  PROVE template[i].length \in Nat
        <3>1. template[i] \in [element : Elements, length : Nat]
            BY <1>1, ElementOfSeq
        <3>. QED  BY <3>1
    <2>. QED  BY <1>1, <2>1
<1>3. step \in [1..N -> [Nat -> Nat]]
    BY <1>2
<1>4. \A i \in 1..N : \A s \in Nat : step[i][s] = s + template[i].length
    OBVIOUS
<1>. HIDE DEF step
<1>5. PICK f \in [0..N -> Nat] : Steps(f, N, 0, step)
    BY <1>2, <1>3, Recursion
<1>6. ASSUME NEW n \in 1..N  PROVE f[n] = f[n - 1] + template[n].length
    <2>1. f[n - 1] \in Nat /\ f[n] = step[n][f[n - 1]]
        BY <1>2, <1>5, SMTT(30) DEF Steps
    <2>. QED  BY <1>4, <2>1
<1>7. f = [n \in 0..N |-> IF n = 0 THEN 0 ELSE f[n - 1] + template[n].length]
    BY <1>5, <1>6 DEF Steps
<1>8. Offsets = [n \in 0..N |-> IF n = 0 THEN 0 ELSE Offsets[n - 1] + template[n].length]
    BY <1>7, Zenon DEF Offsets
<1>9. /\ Offsets[0] = 0
      /\ \A n \in 1..N : Offsets[n] = Offsets[n - 1] + template[n].length
    BY <1>2, <1>8
<1>. DEFINE T == {n \in 0..N : Offsets[n] \in Nat}
<1>10. 0..N \subseteq T
    <2>1. 0 \in T
        BY <1>2, <1>9
    <2>2. ASSUME NEW n \in 1..N, n - 1 \in T  PROVE n \in T
        <3>1. /\ Offsets[n - 1] \in Nat /\ template[n].length \in Nat
              /\ Offsets[n] = Offsets[n - 1] + template[n].length
            BY <1>2, <1>9, <2>2
        <3>. QED  BY <1>2, <3>1
    <2>3. \A n \in 1..N : n - 1 \in T => n \in T
        BY <2>2
    <2>. HIDE DEF T
    <2>. QED  BY <1>2, <2>1, <2>3, UpTo
<1>. QED  BY <1>9, <1>10 DEF OffsetOf

\* Where mapped fields end are numbers.
LEMMA EndsAreNumbers ==
    ASSUME template \in Templates, mappings \in MappingLists, NEW n \in 0..Len(template)
    PROVE  EndsOf(n) \subseteq Nat
<1>1. /\ template \in Seq([element : Elements, length : Nat])
      /\ mappings \in Seq([element : Elements, dst : 0..MaxU32])
    BY PlanAssumption DEF PlanAssumption
<1>2. ASSUME NEW j \in 1..n, NEW i \in MappingOf(template[j].element)
      PROVE  mappings[i].dst + template[j].length \in Nat
    <2>1. i \in 1..Len(mappings) /\ j \in 1..Len(template)
        BY <1>1 DEF MappingOf
    <2>2. mappings[i] \in [element : Elements, dst : 0..MaxU32]
        BY <1>1, <2>1, ElementOfSeq
    <2>3. template[j] \in [element : Elements, length : Nat]
        BY <1>1, <2>1, ElementOfSeq
    <2>4. mappings[i].dst \in Nat /\ template[j].length \in Nat
        BY <2>2, <2>3, Limits
    <2>. QED  BY <2>4
<1>. QED  BY <1>2 DEF EndsOf

\* The next field adds the end of its own, if it is mapped.
LEMMA NextEnds ==
    ASSUME NEW n \in Nat
    PROVE  EndsOf(n + 1) =
               EndsOf(n) \cup {mappings[i].dst + template[n + 1].length :
                                   i \in MappingOf(template[n + 1].element)}
<1>1. 1..(n + 1) = (1..n) \cup {n + 1}
    OBVIOUS
<1>. DEFINE Own(j) == {mappings[i].dst + template[j].length : i \in MappingOf(template[j].element)}
<1>2. /\ EndsOf(n) = UNION {Own(j) : j \in 1..n}
      /\ EndsOf(n + 1) = UNION {Own(j) : j \in 1..(n + 1)}
    BY DEF EndsOf
<1>. HIDE DEF Own
<1>3. EndsOf(n + 1) = EndsOf(n) \cup Own(n + 1)
    BY <1>1, <1>2
<1>. QED  BY <1>3 DEF Own

\* What has been checked and added up when a number of fields is planned.
PlanSoFar ==
    /\ field > 0 \/ status = "Ok" => ~HasVariableLength /\ ~HasDuplicate
    /\ status = "Ok" =>
           /\ field = Len(template)
           /\ \A i \in 1..Len(mappings) : InTemplate(mappings[i].element)
    /\ src_record_len = OffsetOf(field)
    /\ ReachesFurthest(dst_buf_len, EndsOf(field))

\* The inputs are fixed, and with them what is said of them alone.
LEMMA SameInputs ==
    ASSUME template' = template, mappings' = mappings
    PROVE  /\ HasVariableLength' = HasVariableLength /\ HasDuplicate' = HasDuplicate
           /\ OffsetOf(field)' = OffsetOf(field') /\ EndsOf(field)' = EndsOf(field')
<1>1. HasVariableLength' = HasVariableLength /\ HasDuplicate' = HasDuplicate
    BY Zenon DEF HasVariableLength, HasDuplicate
<1>2. Offsets' = Offsets
    BY Zenon DEF Offsets
<1>3. OffsetOf(field)' = OffsetOf(field')
    BY <1>2 DEF OffsetOf
<1>4. EndsOf(field)' = EndsOf(field')
    BY SMT DEF EndsOf, MappingOf
<1>. QED  BY <1>1, <1>3, <1>4

\* An element has one mapping at most.
LEMMA OneMapping ==
    ASSUME PlanInv, ~HasDuplicate, NEW element, NEW i \in MappingOf(element)
    PROVE  MappingOf(element) = {i} /\ i = CHOOSE j \in MappingOf(element) : TRUE
<1>1. Len(mappings) \in Nat
    <2>1. mappings \in Seq([element : Elements, dst : 0..MaxU32])
        BY PlanAssumption DEF PlanInv, PlanAssumption
    <2>. QED  BY <2>1
<1>2. ASSUME NEW j \in MappingOf(element)  PROVE j = i
    <2>1. /\ i \in 1..Len(mappings) /\ j \in 1..Len(mappings)
          /\ mappings[i].element = mappings[j].element
        BY DEF MappingOf
    <2>2. ~(i < j) /\ ~(j < i)
        BY <2>1 DEF HasDuplicate
    <2>. QED  BY <1>1, <2>1, <2>2
<1>3. MappingOf(element) = {i}
    BY <1>2
<1>. QED  BY <1>3

LEMMA PlanFieldAdds ==
    ASSUME PlanInv, PlanSoFar, PlanField
    PROVE  PlanSoFar'
<1>. DEFINE f == template[field + 1]
            to == mappings[CHOOSE i \in MappingOf(f.element) : TRUE].dst
            own == {mappings[i].dst + f.length : i \in MappingOf(f.element)}
<1>1. /\ field < Len(template) /\ status = "Building" /\ ~HasVariableLength /\ ~HasDuplicate
      /\ src_record_len' = src_record_len + f.length
      /\ field' = field + 1
      /\ UNCHANGED <<template, mappings, status>>
    BY DEF PlanField, Planning, inputs
<1>2. /\ field \in Nat /\ field \in 0..Len(template)
      /\ field + 1 \in 1..Len(template) /\ field + 1 - 1 = field /\ field + 1 > 0
      /\ field + 1 \in 0..Len(template)
      /\ template \in Templates /\ mappings \in MappingLists
    <2>1. template \in Templates /\ mappings \in MappingLists /\ field \in 0..Len(template)
        BY DEF PlanInv, TypeOK
    <2>2. Len(template) \in Nat
        BY <2>1, PlanAssumption DEF PlanAssumption
    <2>. QED  BY <1>1, <2>1, <2>2
<1>3. src_record_len' = OffsetOf(field + 1)
    BY <1>1, <1>2, OffsetSteps DEF PlanSoFar
<1>4. /\ HasVariableLength' = HasVariableLength /\ HasDuplicate' = HasDuplicate
      /\ OffsetOf(field)' = OffsetOf(field + 1) /\ EndsOf(field)' = EndsOf(field + 1)
    BY <1>1, SameInputs
<1>6. EndsOf(field + 1) = EndsOf(field) \cup own
    BY <1>2, NextEnds
<1>7. EndsOf(field) \subseteq Nat /\ EndsOf(field + 1) \subseteq Nat
    BY <1>2, EndsAreNumbers
<1>8. ReachesFurthest(dst_buf_len', EndsOf(field + 1))
    <2>0. ReachesFurthest(dst_buf_len, EndsOf(field)) /\ dst_buf_len \in Nat
        BY Limits DEF PlanSoFar, PlanInv, TypeOK
    <2>1. CASE MappingOf(f.element) = {}
        <3>1. dst_buf_len' = dst_buf_len
            BY <2>1 DEF PlanField
        <3>2. own = {}
            BY <2>1
        <3>. QED  BY <1>6, <2>0, <3>1, <3>2
    <2>2. CASE MappingOf(f.element) # {}
        <3>1. dst_buf_len' = IF to + f.length > dst_buf_len THEN to + f.length ELSE dst_buf_len
            BY <2>2 DEF PlanField
        <3>2. own = {to + f.length}
            BY <1>1, <2>2, OneMapping
        <3>. DEFINE end == to + f.length
        <3>. HIDE DEF to, f, own, end
        <3>3. EndsOf(field + 1) = EndsOf(field) \cup {end}
            BY <1>6, <3>2 DEF end
        <3>4. end \in Nat
            BY <1>7, <3>3
        <3>5. dst_buf_len' = IF end > dst_buf_len THEN end ELSE dst_buf_len
            BY <3>1 DEF end
        <3>6. CASE EndsOf(field) = {}
            BY <2>0, <3>3, <3>4, <3>5, <3>6 DEF ReachesFurthest
        <3>7. CASE EndsOf(field) # {}
            <4>1. dst_buf_len \in EndsOf(field) /\ \A e \in EndsOf(field) : e <= dst_buf_len
                BY <2>0, <3>7 DEF ReachesFurthest
            <4>2. dst_buf_len' \in EndsOf(field + 1)
                BY <3>3, <3>5, <4>1
            <4>3. \A e \in EndsOf(field + 1) : e <= dst_buf_len'
                BY <1>7, <2>0, <3>3, <3>4, <3>5, <4>1
            <4>. QED  BY <4>2, <4>3 DEF ReachesFurthest
        <3>. QED  BY <3>6, <3>7
    <2>. QED  BY <2>1, <2>2
<1>9. ReachesFurthest(dst_buf_len, EndsOf(field))'
    BY <1>4, <1>8 DEF ReachesFurthest
<1>. QED  BY <1>1, <1>3, <1>4, <1>9 DEF PlanSoFar

\* Until a field is planned, nothing of this is disturbed.
LEMMA SoFarStays ==
    ASSUME PlanSoFar, UNCHANGED <<inputs, field, src_record_len, dst_buf_len>>,
           status' = "Ok" => /\ ~HasVariableLength /\ ~HasDuplicate /\ field = Len(template)
                            /\ \A i \in 1..Len(mappings) : InTemplate(mappings[i].element)
    PROVE  PlanSoFar'
<1>1. /\ HasVariableLength' = HasVariableLength /\ HasDuplicate' = HasDuplicate
      /\ OffsetOf(field)' = OffsetOf(field) /\ EndsOf(field)' = EndsOf(field)
    BY SameInputs DEF inputs
<1>2. /\ ReachesFurthest(dst_buf_len, EndsOf(field))' = ReachesFurthest(dst_buf_len, EndsOf(field))
      /\ template' = template /\ mappings' = mappings
    BY <1>1, Zenon DEF ReachesFurthest, inputs
<1>. QED  BY <1>1, <1>2 DEF PlanSoFar, InTemplate

LEMMA PlanSoFarInvariance == Spec => []PlanSoFar
<1>1. Init => PlanSoFar
    <2>. SUFFICES ASSUME Init  PROVE PlanSoFar
        OBVIOUS
    <2>1. OffsetOf(0) = 0
        BY OffsetSteps DEF Init
    <2>2. EndsOf(0) = {}
        BY DEF EndsOf
    <2>. QED  BY <2>1, <2>2 DEF Init, PlanSoFar, ReachesFurthest
<1>2. ASSUME PlanInv, PlanSoFar, [Next]_vars  PROVE PlanSoFar'
    <2>1. CASE RefuseInputs
        BY <1>2, <2>1, SoFarStays DEF RefuseInputs, inputs
    <2>2. CASE PlanField
        BY <1>2, <2>2, PlanFieldAdds
    <2>3. CASE RefuseLength
        BY <1>2, <2>3, SoFarStays DEF RefuseLength
    <2>4. CASE FinishBuild
        BY <1>2, <2>4, SoFarStays DEF FinishBuild, Planning
    <2>5. CASE StartApply
        BY <1>2, <2>5, SoFarStays DEF StartApply, plan, PlanSoFar
    <2>6. CASE ApplyOp
        BY <1>2, <2>6, SoFarStays DEF ApplyOp, plan, PlanSoFar
    <2>7. CASE FinishApply
        BY <1>2, <2>7, SoFarStays DEF FinishApply, plan, PlanSoFar
    <2>8. CASE UNCHANGED vars
        BY <1>2, <2>8, SoFarStays DEF vars, plan, PlanSoFar
    <2>. QED  BY <1>2, <2>1, <2>2, <2>3, <2>4, <2>5, <2>6, <2>7, <2>8 DEF Next, Build
<1>. QED  BY <1>1, <1>2, PlanInvariance, PTL DEF Spec

\* build accepts only what the documentation says, and asks for exactly the
\* record and for no more of the destination than is written (decode.rs
\* 115-120, 183-240).
THEOREM PlanFits == Spec => []PlanFitsTemplate
<1>1. PlanInv /\ PlanSoFar => PlanFitsTemplate
    <2>. SUFFICES ASSUME PlanInv, PlanSoFar, status = "Ok"
                  PROVE  /\ \A i \in 1..Len(template) : template[i].length # VariableLength
                         /\ IsInjective([i \in 1..Len(mappings) |-> mappings[i].element])
                         /\ \A i \in 1..Len(mappings) : InTemplate(mappings[i].element)
                         /\ src_record_len = OffsetOf(Len(template))
                         /\ ReachesFurthest(dst_buf_len, EndsOf(Len(template)))
        BY DEF PlanFitsTemplate
    <2>1. ~HasVariableLength /\ ~HasDuplicate
        BY DEF PlanSoFar
    <2>2. \A i \in 1..Len(template) : template[i].length # VariableLength
        BY <2>1 DEF HasVariableLength
    <2>3. IsInjective([i \in 1..Len(mappings) |-> mappings[i].element])
        <3>1. \A i, j \in 1..Len(mappings) : mappings[i].element = mappings[j].element => i = j
            <4>. SUFFICES ASSUME NEW i \in 1..Len(mappings), NEW j \in 1..Len(mappings),
                                 mappings[i].element = mappings[j].element
                          PROVE  i = j
                OBVIOUS
            <4>1. ~(i < j) /\ ~(j < i)
                BY <2>1 DEF HasDuplicate
            <4>. QED  BY <4>1
        <3>. QED  BY <3>1 DEF IsInjective
    <2>. QED  BY <2>2, <2>3 DEF PlanSoFar
<1>. QED  BY <1>1, PlanInvariance, PlanSoFarInvariance, PTL

-----------------------------------------------------------------------------
(* What an operation writes.                                               *)

Buffers(len) == {buffer \in Seq(Nat) : Len(buffer) = len}

\* new is buffer with the bytes over it.
Overwrites(new, len, buffer, offset, bytes) ==
    \A i \in 1..len :
        new[i] = IF i \in (offset + 1)..(offset + Len(bytes)) THEN bytes[i - offset] ELSE buffer[i]

\* Writing over a buffer keeps its length.
LEMMA WrittenOver ==
    ASSUME NEW len \in Nat, NEW buffer \in Buffers(len), NEW offset \in Nat, NEW bytes \in Seq(Nat)
    PROVE  /\ Written(buffer, offset, bytes) \in Buffers(len)
           /\ Overwrites(Written(buffer, offset, bytes), len, buffer, offset, bytes)
<1>. DEFINE new == Written(buffer, offset, bytes)
<1>1. /\ buffer \in Seq(Nat) /\ Len(buffer) = len /\ Len(bytes) \in Nat
      /\ \A i \in 1..len : buffer[i] \in Nat
      /\ \A i \in 1..Len(bytes) : bytes[i] \in Nat
    BY ElementOfSeq DEF Buffers
<1>2. new = [i \in 1..len |-> IF i \in (offset + 1)..(offset + Len(bytes))
                              THEN bytes[i - offset] ELSE buffer[i]]
    BY <1>1 DEF Written
<1>3. ASSUME NEW i \in 1..len
      PROVE  (IF i \in (offset + 1)..(offset + Len(bytes)) THEN bytes[i - offset] ELSE buffer[i]) \in Nat
    <2>1. CASE i \in (offset + 1)..(offset + Len(bytes))
        <3>1. i - offset \in 1..Len(bytes)
            BY <1>1, <2>1
        <3>. QED  BY <1>1, <2>1, <3>1
    <2>2. CASE i \notin (offset + 1)..(offset + Len(bytes))
        BY <1>1, <2>2
    <2>. QED  BY <2>1, <2>2
<1>4. new \in [1..len -> Nat]
    BY <1>2, <1>3
<1>5. Overwrites(new, len, buffer, offset, bytes)
    BY <1>2 DEF Overwrites
<1>. HIDE DEF new
<1>6. new \in Seq(Nat) /\ Len(new) = len
    BY <1>4, SeqDef, LenProperties
<1>. QED  BY <1>5, <1>6 DEF Buffers, new

\* Two writes, the second behind the first, are one.
LEMMA WrittenTwice ==
    ASSUME NEW len \in Nat, NEW buffer \in Buffers(len), NEW offset \in Nat,
           NEW head \in Seq(Nat), NEW tail \in Seq(Nat)
    PROVE  Written(Written(buffer, offset, head), offset + Len(head), tail)
               = Written(buffer, offset, head \o tail)
<1>. DEFINE first == Written(buffer, offset, head)
            twice == Written(first, offset + Len(head), tail)
            once == Written(buffer, offset, head \o tail)
<1>1. /\ Len(head) \in Nat /\ Len(tail) \in Nat /\ offset + Len(head) \in Nat
      /\ head \o tail \in Seq(Nat) /\ Len(head \o tail) = Len(head) + Len(tail)
      /\ \A i \in 1..(Len(head) + Len(tail)) :
             (head \o tail)[i] = IF i <= Len(head) THEN head[i] ELSE tail[i - Len(head)]
    BY ConcatProperties, LenProperties
<1>2. first \in Buffers(len) /\ Overwrites(first, len, buffer, offset, head)
    BY WrittenOver
<1>. HIDE DEF first
<1>3. twice \in Buffers(len) /\ Overwrites(twice, len, first, offset + Len(head), tail)
    BY <1>1, <1>2, WrittenOver
<1>4. once \in Buffers(len) /\ Overwrites(once, len, buffer, offset, head \o tail)
    BY <1>1, WrittenOver
<1>. HIDE DEF twice, once
<1>5. ASSUME NEW i \in 1..len  PROVE twice[i] = once[i]
    <2>1. CASE i \in (offset + 1)..(offset + Len(head))
        <3>1. i - offset \in 1..(Len(head) + Len(tail)) /\ i - offset <= Len(head)
            BY <1>1, <2>1
        <3>2. twice[i] = head[i - offset]
            BY <1>1, <1>2, <1>3, <2>1 DEF Overwrites
        <3>3. i \in (offset + 1)..(offset + Len(head \o tail))
            BY <1>1, <2>1
        <3>4. once[i] = (head \o tail)[i - offset]
            BY <1>4, <3>3 DEF Overwrites
        <3>. QED  BY <1>1, <3>1, <3>2, <3>4
    <2>2. CASE i \in (offset + Len(head) + 1)..(offset + Len(head) + Len(tail))
        <3>1. /\ i - offset \in 1..(Len(head) + Len(tail)) /\ ~(i - offset <= Len(head))
              /\ i - offset - Len(head) = i - (offset + Len(head))
            BY <1>1, <2>2
        <3>2. twice[i] = tail[i - (offset + Len(head))]
            BY <1>1, <1>3, <2>2 DEF Overwrites
        <3>3. i \in (offset + 1)..(offset + Len(head \o tail))
            BY <1>1, <2>2
        <3>4. once[i] = (head \o tail)[i - offset]
            BY <1>4, <3>3 DEF Overwrites
        <3>. QED  BY <1>1, <3>1, <3>2, <3>4
    <2>3. CASE /\ i \notin (offset + 1)..(offset + Len(head))
               /\ i \notin (offset + Len(head) + 1)..(offset + Len(head) + Len(tail))
        <3>1. twice[i] = buffer[i]
            BY <1>2, <1>3, <2>3 DEF Overwrites
        <3>2. i \notin (offset + 1)..(offset + Len(head \o tail))
            BY <1>1, <2>3
        <3>. QED  BY <1>4, <3>1, <3>2 DEF Overwrites
    <2>. QED  BY <2>1, <2>2, <2>3
<1>6. twice \in Seq(Nat) /\ once \in Seq(Nat) /\ Len(twice) = len /\ Len(once) = len
    BY <1>3, <1>4 DEF Buffers
<1>7. twice = once
    BY <1>5, <1>6, SeqEqual
<1>. QED  BY <1>7 DEF twice, once, first

\* The bytes of a run between two of its elements.
LEMMA Slice ==
    ASSUME NEW bytes \in Seq(Nat), NEW from \in Nat, NEW len \in Nat, from + len <= Len(bytes)
    PROVE  /\ SubSeq(bytes, from + 1, from + len) \in Seq(Nat)
           /\ Len(SubSeq(bytes, from + 1, from + len)) = len
           /\ \A i \in 1..len : SubSeq(bytes, from + 1, from + len)[i] = bytes[from + i]
<1>1. /\ Len(bytes) \in Nat /\ from + 1 \in 1..(Len(bytes) + 1)
      /\ from + len \in (from + 1 - 1)..Len(bytes) /\ from + len - (from + 1) + 1 = len
    BY LenProperties
<1>2. \A i \in 1..len : (from + 1) + i - 1 = from + i
    OBVIOUS
<1>. QED  BY <1>1, <1>2, SubSeqProperties

\* Swapping stays within an element: place r of element q comes from its
\* mirror place.
LEMMA Mirror ==
    ASSUME NEW width \in SwapWidths, NEW q \in Nat, NEW r \in 0..(width - 1)
    PROVE  /\ width * q \in Nat
           /\ (width * q + r) % width = r
           /\ width * (q + 1) = width * q + width
BY DEF SwapWidths

LEMMA PlaceInRun ==
    ASSUME NEW width \in SwapWidths, NEW i \in Nat \ {0}
    PROVE  /\ (i - 1) % width \in 0..(width - 1)
           /\ \E q \in Nat : i = width * q + ((i - 1) % width) + 1
<1>1. ASSUME NEW w \in Nat \ {0}
      PROVE  /\ (i - 1) % w \in 0..(w - 1)
             /\ (i - 1) \div w \in Nat
             /\ i - 1 = w * ((i - 1) \div w) + ((i - 1) % w)
    OBVIOUS
<1>2. width \in Nat \ {0}
    BY DEF SwapWidths
<1>3. /\ (i - 1) % width \in 0..(width - 1)
      /\ (i - 1) \div width \in Nat
      /\ i - 1 = width * ((i - 1) \div width) + ((i - 1) % width)
    BY <1>1, <1>2, Zenon
<1>4. PICK q \in Nat : q = (i - 1) \div width
    BY <1>3
<1>5. PICK r \in 0..(width - 1) : r = (i - 1) % width
    BY <1>3
<1>6. i - 1 = width * q + r
    BY <1>3, <1>4, <1>5, Zenon
<1>7. width * q \in Nat /\ r \in Nat
    BY <1>2, <1>5, Mirror
<1>8. i = width * q + r + 1
    BY <1>6, <1>7
<1>. QED  BY <1>3, <1>5, <1>8

LEMMA ElementsInRun ==
    ASSUME NEW width \in SwapWidths, NEW count \in Nat, NEW q \in Nat, NEW r \in 0..(width - 1)
    PROVE  /\ q < count => width * q + width <= width * count
           /\ q >= count => width * q >= width * count
           /\ q < count <=> width * q + r + 1 <= width * count
           /\ width * count \in Nat /\ width * q \in Nat
BY DEF SwapWidths

\* new is old with every element of it reversed.
Swapped(new, old, width, count) ==
    \A q \in Nat : \A r \in 0..(width - 1) :
        q < count => new[width * q + r + 1] = old[width * q + width - r]

\* swap_run reverses every element of a run.
LEMMA SwapRunFacts ==
    ASSUME NEW width \in SwapWidths, NEW count \in Nat,
           NEW bytes \in Seq(Nat), Len(bytes) = width * count
    PROVE  /\ SwapRun(bytes, width) \in Seq(Nat)
           /\ Len(SwapRun(bytes, width)) = width * count
           /\ Swapped(SwapRun(bytes, width), bytes, width, count)
<1>. DEFINE new == SwapRun(bytes, width)
            From(i) == LET at == (i - 1) % width IN i - at + (width - 1 - at)
            N == Len(bytes)
<1>1. /\ N \in Nat /\ width \in Nat
      /\ \A i \in 1..N : bytes[i] \in Nat
    BY LenProperties, ElementOfSeq, OneElement
<1>2. new = [i \in 1..N |-> bytes[From(i)]]
    BY DEF SwapRun
<1>3. ASSUME NEW q \in Nat, NEW r \in 0..(width - 1)
      PROVE  From(width * q + r + 1) = width * q + width - r
    <2>1. width * q \in Nat /\ (width * q + r) % width = r
        BY Mirror
    <2>2. PICK base \in Nat : base = width * q
        BY <2>1
    <2>3. (base + r + 1) - 1 = base + r /\ (base + r) % width = r
        BY <1>1, <2>1, <2>2
    <2>4. From(base + r + 1) = base + r + 1 - r + (width - 1 - r)
        BY <2>3
    <2>. QED  BY <1>1, <2>2, <2>4
<1>. HIDE DEF From
<1>4. ASSUME NEW i \in 1..N  PROVE From(i) \in 1..N
    <2>0. i \in Nat \ {0}
        BY <1>1
    <2>1. PICK q \in Nat : i = width * q + ((i - 1) % width) + 1
        BY <2>0, PlaceInRun
    <2>2. PICK r \in 0..(width - 1) : r = (i - 1) % width
        BY <2>0, PlaceInRun
    <2>3. i = width * q + r + 1 /\ From(i) = width * q + width - r
        BY <1>3, <2>1, <2>2
    <2>4. q < count
        <3>1. i <= N
            BY <1>1
        <3>2. width * q + r + 1 <= width * count
            BY <2>3, <3>1, Zenon
        <3>. QED  BY <3>2, ElementsInRun
    <2>5. width * q \in Nat /\ width * q + width <= N
        BY <1>1, <2>4, ElementsInRun
    <2>6. PICK base \in Nat : base = width * q
        BY <2>5
    <2>7. From(i) = base + width - r /\ base + width <= N
        BY <2>3, <2>5, <2>6
    <2>. HIDE DEF N
    <2>. QED  BY <1>1, <2>7
<1>5. new \in [1..N -> Nat]
    BY <1>1, <1>2, <1>4
<1>6. Swapped(new, bytes, width, count)
    <2>. SUFFICES ASSUME NEW q \in Nat, NEW r \in 0..(width - 1), q < count
                  PROVE  new[width * q + r + 1] = bytes[width * q + width - r]
        BY DEF Swapped
    <2>1. width * q + r + 1 \in 1..N
        BY <1>1, ElementsInRun
    <2>. QED  BY <1>2, <1>3, <2>1
<1>. HIDE DEF new
<1>7. new \in Seq(Nat) /\ Len(new) = N
    BY <1>1, <1>5, SeqDef, LenProperties
<1>. QED  BY <1>6, <1>7 DEF new

LEMMA ReverseFacts ==
    ASSUME NEW bytes \in Seq(Nat)
    PROVE  /\ Reverse(bytes) \in Seq(Nat) /\ Len(Reverse(bytes)) = Len(bytes)
           /\ \A i \in 1..Len(bytes) : Reverse(bytes)[i] = bytes[Len(bytes) - i + 1]
<1>1. Len(bytes) \in Nat /\ \A i \in 1..Len(bytes) : bytes[i] \in Nat
    BY LenProperties, ElementOfSeq
<1>2. Reverse(bytes) = [i \in 1..Len(bytes) |-> bytes[(Len(bytes) - i) + 1]]
    BY DEF Reverse
<1>3. \A i \in 1..Len(bytes) : (Len(bytes) - i) + 1 \in 1..Len(bytes)
    BY <1>1
<1>4. Reverse(bytes) \in [1..Len(bytes) -> Nat]
    BY <1>1, <1>2, <1>3
<1>5. Reverse(bytes) \in Seq(Nat) /\ Len(Reverse(bytes)) = Len(bytes)
    BY <1>1, <1>4, SeqDef, LenProperties
<1>. QED  BY <1>2, <1>5

\* A run with one more element is swapped as the run and the element are.
LEMMA SwapLonger ==
    ASSUME NEW width \in SwapWidths, NEW count \in Nat,
           NEW bytes \in Seq(Nat), Len(bytes) = width * count,
           NEW more \in Seq(Nat), Len(more) = width
    PROVE  SwapRun(bytes \o more, width) = SwapRun(bytes, width) \o Reverse(more)
<1>. DEFINE base == width * count
            joined == bytes \o more
            long == SwapRun(joined, width)
            short == SwapRun(bytes, width)
            end == Reverse(more)
            parts == short \o end
<1>1. /\ base \in Nat /\ width \in Nat /\ count + 1 \in Nat
      /\ width * (count + 1) = base + width
    BY OneElement, RunLength
<1>2. /\ joined \in Seq(Nat) /\ Len(joined) = base + width
      /\ \A i \in 1..(base + width) :
             joined[i] = IF i <= base THEN bytes[i] ELSE more[i - base]
    BY ConcatProperties
<1>3. short \in Seq(Nat) /\ Len(short) = base /\ Swapped(short, bytes, width, count)
    BY SwapRunFacts
<1>4. /\ end \in Seq(Nat) /\ Len(end) = width
      /\ \A i \in 1..width : end[i] = more[width - i + 1]
    BY ReverseFacts
<1>. HIDE DEF joined, short, end, base
<1>5. /\ long \in Seq(Nat) /\ Len(long) = base + width
      /\ Swapped(long, joined, width, count + 1)
    BY <1>1, <1>2, SwapRunFacts
<1>6. /\ parts \in Seq(Nat) /\ Len(parts) = base + width
      /\ \A i \in 1..(base + width) :
             parts[i] = IF i <= base THEN short[i] ELSE end[i - base]
    <2>1. /\ short \o end \in Seq(Nat) /\ Len(short \o end) = Len(short) + Len(end)
          /\ \A i \in 1..(Len(short) + Len(end)) :
                 (short \o end)[i] = IF i <= Len(short) THEN short[i] ELSE end[i - Len(short)]
        BY <1>3, <1>4, ConcatProperties
    <2>. QED  BY <1>3, <1>4, <2>1
<1>. HIDE DEF long, parts
<1>7. ASSUME NEW i \in 1..(base + width)  PROVE long[i] = parts[i]
    <2>0. i \in Nat \ {0}
        BY <1>1
    <2>1. PICK q \in Nat : i = width * q + ((i - 1) % width) + 1
        BY <2>0, PlaceInRun
    <2>2. PICK r \in 0..(width - 1) : r = (i - 1) % width
        BY <2>0, PlaceInRun
    <2>3. i = width * q + r + 1 /\ width * q \in Nat /\ r \in Nat
        BY <1>1, <2>1, <2>2, Mirror
    <2>4. q < count + 1
        <3>1. width * q + r + 1 <= width * (count + 1)
            BY <1>1, <2>3
        <3>. QED  BY <1>1, <3>1, ElementsInRun
    <2>5. long[width * q + r + 1] = joined[width * q + width - r]
        <3>1. count + 1 \in Nat /\ Swapped(long, joined, width, count + 1)
            BY <1>5
        <3>. QED  BY <2>4, <3>1, Zenon DEF Swapped
    <2>8. PICK at \in Nat : at = width * q
        BY <2>3
    <2>9. i = at + r + 1 /\ long[i] = joined[at + width - r]
        BY <2>3, <2>5, <2>8
    <2>6. CASE q < count
        <3>1. width * q + width <= base
            BY <2>6, ElementsInRun DEF base
        <3>2. short[width * q + r + 1] = bytes[width * q + width - r]
            BY <1>3, <2>6, Zenon DEF Swapped
        <3>3. at + width <= base /\ short[i] = bytes[at + width - r]
            BY <2>3, <2>8, <3>1, <3>2
        <3>4. i <= base /\ at + width - r \in 1..(base + width) /\ at + width - r <= base
            BY <1>1, <2>9, <3>3
        <3>5. long[i] = bytes[at + width - r]
            BY <1>2, <2>9, <3>4
        <3>6. parts[i] = short[i]
            BY <1>6, <3>4
        <3>. QED  BY <3>3, <3>5, <3>6
    <2>7. CASE q = count
        <3>1. at = base
            BY <2>7, <2>8 DEF base
        <3>2. /\ ~(i <= base) /\ i - base = r + 1 /\ r + 1 \in 1..width
              /\ at + width - r \in 1..(base + width) /\ ~(at + width - r <= base)
              /\ at + width - r - base = width - r /\ width - (r + 1) + 1 = width - r
            BY <1>1, <2>9, <3>1
        <3>3. long[i] = more[width - r]
            <4>1. PICK k \in 1..(base + width) : k = at + width - r
                BY <3>2
            <4>2. joined[k] = more[k - base]
                BY <1>2, <3>2, <4>1
            <4>3. k - base = width - r
                BY <1>1, <3>1, <3>2, <4>1
            <4>4. long[i] = joined[k]
                BY <2>9, <4>1
            <4>. QED  BY <4>2, <4>3, <4>4, Zenon
        <3>4. parts[i] = end[r + 1]
            BY <1>6, <3>2
        <3>. QED  BY <1>4, <3>2, <3>3, <3>4
    <2>. QED  BY <2>4, <2>6, <2>7
<1>8. long = parts
    BY <1>5, <1>6, <1>7, SeqEqual
<1>. QED  BY <1>8 DEF long, parts, joined, short, end

\* One element alone.
LEMMA SwapOne ==
    ASSUME NEW width \in SwapWidths, NEW bytes \in Seq(Nat), Len(bytes) = width
    PROVE  SwapRun(bytes, width) = Reverse(bytes)
<1>1. width \in Nat /\ width * 1 = width /\ width * 0 = 0
    BY DEF SwapWidths
<1>2. /\ SwapRun(bytes, width) \in Seq(Nat) /\ Len(SwapRun(bytes, width)) = width
      /\ Swapped(SwapRun(bytes, width), bytes, width, 1)
    BY <1>1, SwapRunFacts
<1>3. /\ Reverse(bytes) \in Seq(Nat) /\ Len(Reverse(bytes)) = width
      /\ \A i \in 1..width : Reverse(bytes)[i] = bytes[width - i + 1]
    BY ReverseFacts
<1>4. ASSUME NEW i \in 1..width  PROVE SwapRun(bytes, width)[i] = Reverse(bytes)[i]
    <2>1. PICK r \in 0..(width - 1) : r = i - 1
        BY <1>1
    <2>2. SwapRun(bytes, width)[width * 0 + r + 1] = bytes[width * 0 + width - r]
        <3>1. 0 \in Nat /\ 0 < 1
            OBVIOUS
        <3>. QED  BY <1>2, <3>1, Zenon DEF Swapped
    <2>3. width * 0 + r + 1 = i /\ width * 0 + width - r = width - i + 1
        BY <1>1, <2>1
    <2>. QED  BY <1>3, <2>2, <2>3
<1>. QED  BY <1>2, <1>3, <1>4, SeqEqual

\* The bytes an operation or a field reads.
Bytes(bytes, from, len) == SubSeq(bytes, from + 1, from + len)

LEMMA BytesJoin ==
    ASSUME NEW bytes \in Seq(Nat), NEW from \in Nat, NEW len \in Nat, NEW more \in Nat,
           from + len + more <= Len(bytes)
    PROVE  Bytes(bytes, from, len) \o Bytes(bytes, from + len, more) = Bytes(bytes, from, len + more)
<1>. DEFINE head == Bytes(bytes, from, len)
            tail == Bytes(bytes, from + len, more)
            all == Bytes(bytes, from, len + more)
            joined == head \o tail
<1>0. Len(bytes) \in Nat /\ from + len \in Nat /\ len + more \in Nat
    BY LenProperties
<1>1. /\ head \in Seq(Nat) /\ Len(head) = len
      /\ \A i \in 1..len : head[i] = bytes[from + i]
    BY <1>0, Slice DEF Bytes
<1>2. /\ tail \in Seq(Nat) /\ Len(tail) = more
      /\ \A i \in 1..more : tail[i] = bytes[from + len + i]
    BY <1>0, Slice DEF Bytes
<1>3. /\ all \in Seq(Nat) /\ Len(all) = len + more
      /\ \A i \in 1..(len + more) : all[i] = bytes[from + i]
    BY <1>0, Slice DEF Bytes
<1>. HIDE DEF head, tail, all
<1>4. /\ joined \in Seq(Nat) /\ Len(joined) = len + more
      /\ \A i \in 1..(len + more) : joined[i] = IF i <= len THEN head[i] ELSE tail[i - len]
    <2>1. /\ head \o tail \in Seq(Nat) /\ Len(head \o tail) = Len(head) + Len(tail)
          /\ \A i \in 1..(Len(head) + Len(tail)) :
                 (head \o tail)[i] = IF i <= Len(head) THEN head[i] ELSE tail[i - Len(head)]
        BY <1>1, <1>2, ConcatProperties
    <2>. QED  BY <1>1, <1>2, <2>1
<1>. HIDE DEF joined
<1>5. ASSUME NEW i \in 1..(len + more)  PROVE joined[i] = all[i]
    <2>1. CASE i <= len
        <3>1. i \in 1..len
            BY <2>1
        <3>. QED  BY <1>1, <1>3, <1>4, <2>1, <3>1
    <2>2. CASE ~(i <= len)
        <3>1. i - len \in 1..more /\ from + len + (i - len) = from + i
            BY <2>2
        <3>. QED  BY <1>2, <1>3, <1>4, <2>2, <3>1
    <2>. QED  BY <2>1, <2>2
<1>6. joined = all
    BY <1>3, <1>4, <1>5, SeqEqual
<1>. QED  BY <1>6 DEF joined, head, tail, all

\* What an operation writes is as long as what it reads.
LEMMA MovedBytes ==
    ASSUME NEW op \in Operations, NEW bytes \in Seq(Nat), op.src + Extent(op) <= Len(bytes)
    PROVE  /\ Moved(op, bytes) \in Seq(Nat)
           /\ Len(Moved(op, bytes)) = Extent(op)
<1>1. op.src \in Nat /\ Extent(op) \in Nat
    BY OperationType
<1>2. /\ Bytes(bytes, op.src, Extent(op)) \in Seq(Nat)
      /\ Len(Bytes(bytes, op.src, Extent(op))) = Extent(op)
    BY <1>1, Slice DEF Bytes
<1>3. CASE op.kind = "Swap"
    <2>1. op.width \in SwapWidths /\ op.count \in Nat /\ Extent(op) = op.width * op.count
        BY <1>3, Limits, OperationType DEF Extent
    <2>2. Moved(op, bytes) = SwapRun(Bytes(bytes, op.src, Extent(op)), op.width)
        BY <1>3 DEF Moved, Bytes
    <2>3. PICK run_bytes \in Seq(Nat) : run_bytes = Bytes(bytes, op.src, Extent(op))
        BY <1>2
    <2>4. Len(run_bytes) = op.width * op.count
        BY <1>2, <2>1, <2>3
    <2>5. SwapRun(run_bytes, op.width) \in Seq(Nat) /\ Len(SwapRun(run_bytes, op.width)) = op.width * op.count
        BY <2>1, <2>4, SwapRunFacts
    <2>. QED  BY <2>1, <2>2, <2>3, <2>5, Zenon
<1>4. CASE op.kind # "Swap"
    <2>1. Moved(op, bytes) = Bytes(bytes, op.src, Extent(op))
        BY <1>4 DEF Moved, Bytes
    <2>. QED  BY <1>2, <2>1
<1>. QED  BY <1>3, <1>4

\* An operation for one field writes the field in native byte order.
LEMMA OneFieldMoved ==
    ASSUME NEW bytes \in Seq(Nat), NEW from \in Nat, NEW to, NEW len \in Nat,
           from + len <= Len(bytes)
    PROVE  /\ len \in SwapWidths =>
                  Moved(Swap(len, 1, from, to), bytes) = Native(Bytes(bytes, from, len))
           /\ len \notin SwapWidths =>
                  Moved(Copy(len, from, to), bytes) = Native(Bytes(bytes, from, len))
           /\ Native(Bytes(bytes, from, len)) \in Seq(Nat)
           /\ Len(Native(Bytes(bytes, from, len))) = len
<1>. DEFINE value == Bytes(bytes, from, len)
<1>1. value \in Seq(Nat) /\ Len(value) = len
    BY Slice DEF Bytes
<1>2. ASSUME len \in SwapWidths
      PROVE  Moved(Swap(len, 1, from, to), bytes) = SwapRun(value, len)
    <2>1. /\ Swap(len, 1, from, to).kind = "Swap" /\ Swap(len, 1, from, to).src = from
          /\ Extent(Swap(len, 1, from, to)) = len /\ Swap(len, 1, from, to).width = len
        BY <1>2, OneElement DEF Swap, Extent
    <2>. QED  BY <2>1 DEF Moved, Bytes
<1>3. Moved(Copy(len, from, to), bytes) = value
    <2>1. /\ Copy(len, from, to).kind = "Copy" /\ Copy(len, from, to).src = from
          /\ Extent(Copy(len, from, to)) = len
        BY DEF Copy, Extent
    <2>. QED  BY <2>1 DEF Moved, Bytes
<1>. HIDE DEF value
<1>4. Reverse(value) \in Seq(Nat) /\ Len(Reverse(value)) = len
    BY <1>1, ReverseFacts
<1>5. len \in SwapWidths => SwapRun(value, len) = Reverse(value)
    BY <1>1, SwapOne
<1>6. Native(value) = IF len \in SwapWidths THEN Reverse(value) ELSE value
    BY <1>1 DEF Native
<1>7. /\ len \in SwapWidths =>
             Moved(Swap(len, 1, from, to), bytes) = Native(value)
      /\ len \notin SwapWidths =>
             Moved(Copy(len, from, to), bytes) = Native(value)
      /\ Native(value) \in Seq(Nat) /\ Len(Native(value)) = len
    BY <1>1, <1>2, <1>3, <1>4, <1>5, <1>6
<1>. QED  BY <1>7 DEF value

\* One more element, or more bytes, are moved behind what was moved before.
LEMMA LongerSwapMoved ==
    ASSUME NEW last \in Operations, last.kind = "Swap", NEW bytes \in Seq(Nat),
           NEW from \in Nat, last.src + Extent(last) = from, from + last.width <= Len(bytes)
    PROVE  Moved(Swap(last.width, last.count + 1, last.src, last.dst), bytes)
               = Moved(last, bytes) \o Native(Bytes(bytes, from, last.width))
<1>. DEFINE op == Swap(last.width, last.count + 1, last.src, last.dst)
            width == last.width
            head == Bytes(bytes, last.src, Extent(last))
            tail == Bytes(bytes, from, width)
<1>1. /\ last.src \in Nat /\ Extent(last) \in Nat /\ width \in SwapWidths /\ width \in Nat
      /\ last.count \in Nat /\ Extent(last) = width * last.count
    BY Limits, OperationType, OneElement DEF Extent
<1>2. Extent(op) = Extent(last) + width
    <2>1. Extent(op) = width * (last.count + 1)
        BY DEF Extent, Swap
    <2>. QED  BY <1>1, <2>1, RunLength
<1>3. op.kind = "Swap" /\ op.src = last.src /\ op.width = width
    BY DEF Swap
<1>4. Moved(op, bytes) = SwapRun(Bytes(bytes, last.src, Extent(last) + width), width)
    BY <1>2, <1>3 DEF Moved, Bytes
<1>5. Moved(last, bytes) = SwapRun(head, width)
    BY DEF Moved, Bytes
<1>6. Bytes(bytes, last.src, Extent(last) + width) = head \o tail
    <2>1. PICK offset \in Nat : offset = last.src
        BY <1>1
    <2>2. PICK len \in Nat : len = Extent(last)
        BY <1>1
    <2>3. PICK more \in Nat : more = width
        BY <1>1
    <2>4. from = offset + len /\ offset + len + more <= Len(bytes)
        BY <2>1, <2>2, <2>3
    <2>5. Bytes(bytes, offset, len) \o Bytes(bytes, offset + len, more) = Bytes(bytes, offset, len + more)
        BY <2>4, BytesJoin
    <2>. QED  BY <2>1, <2>2, <2>3, <2>4, <2>5, Zenon
<1>7. Len(bytes) \in Nat /\ last.src + Extent(last) <= Len(bytes)
    BY <1>1, LenProperties
<1>8. head \in Seq(Nat) /\ Len(head) = Extent(last)
    <2>1. PICK offset \in Nat : offset = last.src
        BY <1>1
    <2>2. PICK len \in Nat : len = Extent(last)
        BY <1>1
    <2>3. offset + len <= Len(bytes)
        BY <1>7, <2>1, <2>2
    <2>4. Bytes(bytes, offset, len) \in Seq(Nat) /\ Len(Bytes(bytes, offset, len)) = len
        BY <2>3, Slice DEF Bytes
    <2>. QED  BY <2>1, <2>2, <2>4, Zenon
<1>9. tail \in Seq(Nat) /\ Len(tail) = width
    BY <1>1, Slice, ZenonT(40) DEF Bytes
<1>10. Native(tail) = Reverse(tail)
    BY <1>1, <1>9 DEF Native
<1>. HIDE DEF head, tail, op, width
<1>11. SwapRun(head \o tail, width) = SwapRun(head, width) \o Reverse(tail)
    <2>1. Len(head) = width * last.count
        BY <1>1, <1>8
    <2>. QED  BY <1>1, <1>8, <1>9, <2>1, SwapLonger, ZenonT(40)
<1>12. Moved(op, bytes) = Moved(last, bytes) \o Native(tail)
    BY <1>4, <1>5, <1>6, <1>10, <1>11, Zenon
<1>. QED  BY <1>12 DEF op, tail, width

LEMMA LongerCopyMoved ==
    ASSUME NEW last \in Operations, last.kind = "Copy", NEW bytes \in Seq(Nat),
           NEW len \in Nat, len \notin SwapWidths,
           NEW from \in Nat, last.src + Extent(last) = from, from + len <= Len(bytes)
    PROVE  Moved(Copy(last.count + len, last.src, last.dst), bytes)
               = Moved(last, bytes) \o Native(Bytes(bytes, from, len))
<1>. DEFINE op == Copy(last.count + len, last.src, last.dst)
            tail == Bytes(bytes, from, len)
<1>1. last.src \in Nat /\ Extent(last) \in Nat /\ last.count = Extent(last)
    BY OperationType
<1>2. Extent(op) = Extent(last) + len /\ op.kind = "Copy" /\ op.src = last.src
    BY <1>1 DEF Extent, Copy
<1>3. Moved(op, bytes) = Bytes(bytes, last.src, Extent(last) + len)
    BY <1>2 DEF Moved, Bytes
<1>4. Moved(last, bytes) = Bytes(bytes, last.src, Extent(last))
    BY DEF Moved, Bytes
<1>5. Bytes(bytes, last.src, Extent(last)) \o tail = Bytes(bytes, last.src, Extent(last) + len)
    <2>1. PICK offset \in Nat : offset = last.src
        BY <1>1
    <2>2. PICK before \in Nat : before = Extent(last)
        BY <1>1
    <2>3. from = offset + before /\ offset + before + len <= Len(bytes)
        BY <2>1, <2>2
    <2>4. Bytes(bytes, offset, before) \o Bytes(bytes, offset + before, len)
              = Bytes(bytes, offset, before + len)
        BY <2>3, BytesJoin
    <2>. QED  BY <2>1, <2>2, <2>3, <2>4, Zenon
<1>6. Len(tail) = len
    BY Slice DEF Bytes
<1>7. Native(tail) = tail
    BY <1>6 DEF Native
<1>. QED  BY <1>3, <1>4, <1>5, <1>7, Zenon

-----------------------------------------------------------------------------
(* What a list of operations writes.                                       *)

\* The destination buffer after each operation of the list.
Runs(list, bytes, start) ==
    LET after[k \in 0..Len(list)] ==
            IF k = 0 THEN start ELSE Written(after[k - 1], list[k].dst, Moved(list[k], bytes))
    IN  after

Effect(list, bytes, start) == Runs(list, bytes, start)[Len(list)]

\* The operations read no further than the bytes go.
Reads(list, bytes) ==
    \A i \in 1..Len(list) : list[i].src + Extent(list[i]) <= Len(bytes)

LEMMA OperationRuns ==
    ASSUME NEW list \in Seq(Operations), NEW bytes \in Seq(Nat), Reads(list, bytes),
           NEW len \in Nat, NEW k \in 1..Len(list), NEW buffer \in Buffers(len)
    PROVE  Written(buffer, list[k].dst, Moved(list[k], bytes)) \in Buffers(len)
<1>1. list[k] \in Operations
    BY ElementOfSeq
<1>2. list[k].dst \in Nat /\ Moved(list[k], bytes) \in Seq(Nat)
    BY <1>1, OperationType, MovedBytes DEF Reads
<1>. QED  BY <1>2, WrittenOver

LEMMA RunsSteps ==
    ASSUME NEW list \in Seq(Operations), NEW bytes \in Seq(Nat), Reads(list, bytes),
           NEW len \in Nat, NEW start \in Buffers(len)
    PROVE  /\ Runs(list, bytes, start)[0] = start
           /\ \A k \in 0..Len(list) : Runs(list, bytes, start)[k] \in Buffers(len)
           /\ \A k \in 1..Len(list) :
                  Runs(list, bytes, start)[k] =
                      Written(Runs(list, bytes, start)[k - 1], list[k].dst, Moved(list[k], bytes))
<1>. DEFINE N == Len(list)
            S == Buffers(len)
            After(k, b) == Written(b, list[k].dst, Moved(list[k], bytes))
            step == [k \in 1..N |-> [b \in S |-> After(k, b)]]
            runs == Runs(list, bytes, start)
<1>1. N \in Nat
    BY LenProperties
<1>2. \A k \in 1..N : \A b \in S : After(k, b) \in S
    BY OperationRuns
<1>3. runs = CHOOSE f : f = [k \in 0..N |-> IF k = 0 THEN start ELSE After(k, f[k - 1])]
    BY DEF Runs
<1>. HIDE DEF After, S, N, runs
<1>4. step \in [1..N -> [S -> S]] /\ \A k \in 1..N : \A b \in S : step[k][b] = After(k, b)
    BY <1>2
<1>. HIDE DEF step
<1>5. start \in S
    BY DEF S
<1>6. PICK f \in [0..N -> S] : Steps(f, N, start, step)
    BY <1>1, <1>4, <1>5, Recursion
<1>7. ASSUME NEW k \in 1..N  PROVE f[k] = After(k, f[k - 1])
    <2>1. f[k - 1] \in S /\ f[k] = step[k][f[k - 1]]
        BY <1>1, <1>6 DEF Steps
    <2>. QED  BY <1>4, <2>1
<1>8. f = [k \in 0..N |-> IF k = 0 THEN start ELSE After(k, f[k - 1])]
    BY <1>6, <1>7 DEF Steps
<1>9. runs = [k \in 0..N |-> IF k = 0 THEN start ELSE After(k, runs[k - 1])]
    BY <1>3, <1>8, Zenon
<1>10. runs[0] = start /\ \A k \in 1..N : runs[k] = After(k, runs[k - 1])
    BY <1>1, <1>9
<1>. DEFINE T == {k \in 0..N : runs[k] \in S}
<1>11. 0..N \subseteq T
    <2>1. 0 \in T
        BY <1>1, <1>5, <1>10
    <2>2. ASSUME NEW k \in 1..N, k - 1 \in T  PROVE k \in T
        BY <1>1, <1>2, <1>10, <2>2
    <2>3. \A k \in 1..N : k - 1 \in T => k \in T
        BY <2>2
    <2>. HIDE DEF T
    <2>. QED  BY <1>1, <2>1, <2>3, UpTo
<1>12. \A k \in 0..N : runs[k] \in S
    BY <1>11
<1>. QED  BY <1>10, <1>12 DEF runs, After, S, N

\* Lists that begin alike have run alike so far.
LEMMA RunsAgree ==
    ASSUME NEW list \in Seq(Operations), NEW other \in Seq(Operations), NEW bytes \in Seq(Nat),
           Reads(list, bytes), Reads(other, bytes), NEW len \in Nat, NEW start \in Buffers(len),
           NEW n \in Nat, n <= Len(list), n <= Len(other), \A k \in 1..n : list[k] = other[k]
    PROVE  Runs(list, bytes, start)[n] = Runs(other, bytes, start)[n]
<1>. DEFINE first == Runs(list, bytes, start)
            second == Runs(other, bytes, start)
            T == {k \in 0..n : first[k] = second[k]}
<1>0. Len(list) \in Nat /\ Len(other) \in Nat
    BY LenProperties
<1>1. /\ first[0] = start
      /\ \A k \in 1..Len(list) : first[k] = Written(first[k - 1], list[k].dst, Moved(list[k], bytes))
    BY RunsSteps
<1>2. /\ second[0] = start
      /\ \A k \in 1..Len(other) : second[k] = Written(second[k - 1], other[k].dst, Moved(other[k], bytes))
    BY RunsSteps
<1>. HIDE DEF first, second
<1>3. 0 \in T
    BY <1>1, <1>2
<1>4. ASSUME NEW k \in 1..n, k - 1 \in T  PROVE k \in T
    <2>1. k \in 1..Len(list) /\ k \in 1..Len(other) /\ k \in 0..n
        BY <1>0
    <2>2. first[k - 1] = second[k - 1] /\ list[k] = other[k]
        BY <1>4
    <2>3. first[k] = second[k]
        BY <1>1, <1>2, <2>1, <2>2, Zenon
    <2>. QED  BY <2>1, <2>3
<1>5. n \in T
    <2>1. \A k \in 1..n : k - 1 \in T => k \in T
        BY <1>4
    <2>. HIDE DEF T
    <2>2. 0..n \subseteq T
        BY <1>3, <2>1, UpTo
    <2>. QED  BY <2>2
<1>. QED  BY <1>5 DEF first, second

\* One operation more writes once more.
LEMMA EffectOfAppend ==
    ASSUME NEW list \in Seq(Operations), NEW op \in Operations, NEW bytes \in Seq(Nat),
           Reads(list, bytes), op.src + Extent(op) <= Len(bytes),
           NEW len \in Nat, NEW start \in Buffers(len)
    PROVE  Effect(Append(list, op), bytes, start)
               = Written(Effect(list, bytes, start), op.dst, Moved(op, bytes))
<1>. DEFINE new == Append(list, op)
<1>1. /\ new \in Seq(Operations) /\ Len(list) \in Nat /\ Len(new) = Len(list) + 1
      /\ new[Len(list) + 1] = op /\ \A k \in 1..Len(list) : new[k] = list[k]
    BY AppendProperties, LenProperties
<1>. HIDE DEF new
<1>2. Reads(new, bytes)
    <2>. SUFFICES ASSUME NEW i \in 1..Len(new)  PROVE new[i].src + Extent(new[i]) <= Len(bytes)
        BY DEF Reads
    <2>1. CASE i \in 1..Len(list)
        BY <1>1, <2>1 DEF Reads
    <2>2. CASE i = Len(list) + 1
        BY <1>1, <2>2
    <2>. QED  BY <1>1, <2>1, <2>2
<1>3. PICK n \in Nat : n = Len(list)
    BY <1>1
<1>4. /\ n <= Len(list) /\ n <= Len(new) /\ \A k \in 1..n : list[k] = new[k]
      /\ n + 1 \in 1..Len(new) /\ n + 1 - 1 = n /\ new[n + 1] = op /\ Len(new) = n + 1
    BY <1>1, <1>3
<1>5. Runs(list, bytes, start)[n] = Runs(new, bytes, start)[n]
    BY <1>1, <1>2, <1>4, RunsAgree, ZenonT(40)
<1>6. \A k \in 1..Len(new) :
          Runs(new, bytes, start)[k] = Written(Runs(new, bytes, start)[k - 1], new[k].dst, Moved(new[k], bytes))
    BY <1>1, <1>2, RunsSteps, Zenon
<1>7. Runs(new, bytes, start)[n + 1] = Written(Runs(new, bytes, start)[n], op.dst, Moved(op, bytes))
    <2>1. Runs(new, bytes, start)[n + 1]
              = Written(Runs(new, bytes, start)[n + 1 - 1], new[n + 1].dst, Moved(new[n + 1], bytes))
        BY <1>4, <1>6
    <2>. QED  BY <1>4, <2>1, Zenon
<1>8. Effect(new, bytes, start) = Runs(new, bytes, start)[n + 1]
    BY <1>4, Zenon DEF Effect
<1>9. Effect(list, bytes, start) = Runs(list, bytes, start)[n]
    BY <1>3, Zenon DEF Effect
<1>. QED  BY <1>5, <1>7, <1>8, <1>9, Zenon DEF new

\* op moves what the last operation moves, and some bytes more behind it.
Extends(list, op, bytes, to, more) ==
    /\ list \in Seq(Operations) /\ op \in Operations /\ to \in Nat /\ more \in Seq(Nat)
    /\ list # <<>> /\ Reads(list, bytes) /\ op.src + Extent(op) <= Len(bytes)
    /\ op.dst = Last(list).dst /\ Last(list).dst + Extent(Last(list)) = to
    /\ Moved(op, bytes) = Moved(Last(list), bytes) \o more

\* Such an operation in place of the last one writes these bytes as well.
LEMMA EffectOfExtension ==
    ASSUME NEW list, NEW op, NEW bytes \in Seq(Nat), NEW to, NEW more,
           Extends(list, op, bytes, to, more),
           NEW len \in Nat, NEW start \in Buffers(len)
    PROVE  Effect(LastReplaced(list, op), bytes, start)
               = Written(Effect(list, bytes, start), to, more)
<1>. DEFINE new == LastReplaced(list, op)
            n == Len(list)
            last == Last(list)
<1>0. /\ list \in Seq(Operations) /\ op \in Operations /\ to \in Nat /\ more \in Seq(Nat)
      /\ list # <<>> /\ Reads(list, bytes) /\ op.src + Extent(op) <= Len(bytes)
      /\ op.dst = Last(list).dst /\ Last(list).dst + Extent(Last(list)) = to
      /\ Moved(op, bytes) = Moved(Last(list), bytes) \o more
    BY DEF Extends
<1>1. n \in Nat \ {0} /\ last = list[n] /\ last \in Operations
    BY <1>0, LenProperties, EmptySeq DEF Last
<1>2. /\ new \in Seq(Operations) /\ Len(new) = n /\ new[n] = op
      /\ \A k \in 1..(n - 1) : new[k] = list[k]
    BY <1>0, <1>1 DEF LastReplaced
<1>. HIDE DEF new, n, last
<1>3. Reads(new, bytes)
    <2>. SUFFICES ASSUME NEW i \in 1..Len(new)  PROVE new[i].src + Extent(new[i]) <= Len(bytes)
        BY DEF Reads
    <2>1. CASE i \in 1..(n - 1)
        BY <1>0, <1>1, <1>2, <2>1 DEF Reads, n
    <2>2. CASE i = n
        BY <1>0, <1>2, <2>2
    <2>. QED  BY <1>1, <1>2, <2>1, <2>2
<1>4. PICK buffer \in Buffers(len) : buffer = Runs(list, bytes, start)[n - 1]
    <2>1. n - 1 \in 0..n
        BY <1>1
    <2>. QED  BY <1>0, <2>1, RunsSteps DEF n
<1>5. Runs(new, bytes, start)[n - 1] = buffer
    <2>1. PICK m \in Nat : m = n - 1
        BY <1>1
    <2>2. m <= n /\ \A k \in 1..m : list[k] = new[k]
        BY <1>1, <1>2, <2>1
    <2>3. m <= Len(list) /\ m <= Len(new)
        BY <1>2, <2>2, Zenon DEF n
    <2>4. new \in Seq(Operations)
        BY <1>2
    <2>5. Runs(list, bytes, start)[m] = Runs(new, bytes, start)[m]
        BY <1>0, <1>3, <2>2, <2>3, <2>4, RunsAgree, ZenonT(80)
    <2>. QED  BY <1>4, <2>1, <2>5, Zenon
<1>6. n \in 1..n
    BY <1>1
<1>7. Effect(list, bytes, start) = Written(buffer, last.dst, Moved(last, bytes))
    <2>1. \A k \in 1..Len(list) :
              Runs(list, bytes, start)[k]
                  = Written(Runs(list, bytes, start)[k - 1], list[k].dst, Moved(list[k], bytes))
        BY <1>0, RunsSteps, ZenonT(40)
    <2>2. Runs(list, bytes, start)[n]
              = Written(Runs(list, bytes, start)[n - 1], list[n].dst, Moved(list[n], bytes))
        BY <1>6, <2>1 DEF n
    <2>. QED  BY <1>1, <1>4, <2>2, Zenon DEF Effect, n
<1>8. Effect(new, bytes, start) = Written(buffer, op.dst, Moved(op, bytes))
    BY <1>2, <1>3, <1>5, <1>6, RunsSteps DEF Effect
<1>9. /\ Moved(last, bytes) \in Seq(Nat) /\ Len(Moved(last, bytes)) = Extent(last)
      /\ last.dst \in Nat
    <2>1. last.src + Extent(last) <= Len(bytes)
        BY <1>0, <1>1, <1>6 DEF Reads, n
    <2>. QED  BY <1>1, <2>1, MovedBytes, OperationType
<1>10. Written(Written(buffer, last.dst, Moved(last, bytes)), last.dst + Len(Moved(last, bytes)), more)
           = Written(buffer, last.dst, Moved(last, bytes) \o more)
    <2>1. PICK head \in Seq(Nat) : head = Moved(last, bytes)
        BY <1>9
    <2>2. PICK at \in Nat : at = last.dst
        BY <1>9
    <2>3. Written(Written(buffer, at, head), at + Len(head), more) = Written(buffer, at, head \o more)
        BY <1>0, WrittenTwice
    <2>. QED  BY <2>1, <2>2, <2>3, Zenon
<1>11. last.dst + Len(Moved(last, bytes)) = to
    BY <1>0, <1>9 DEF last
<1>12. Effect(new, bytes, start) = Written(Effect(list, bytes, start), to, more)
    BY <1>0, <1>7, <1>8, <1>10, <1>11 DEF last
<1>. QED  BY <1>12 DEF new

\* A list within the bytes reads no further than they go.
LEMMA WithinReads ==
    ASSUME NEW list \in Seq(Operations), NEW bytes \in Seq(Nat), NEW s \in Nat, NEW d,
           Within(list, s, d), s <= Len(bytes)
    PROVE  Reads(list, bytes)
<1>. SUFFICES ASSUME NEW i \in 1..Len(list)  PROVE list[i].src + Extent(list[i]) <= Len(bytes)
    BY DEF Reads
<1>1. list[i].src \in Nat /\ Extent(list[i]) \in Nat /\ Len(bytes) \in Nat
    BY ElementOfSeq, OperationType, LenProperties
<1>2. list[i].src + Extent(list[i]) <= s
    BY DEF Within
<1>. QED  BY <1>1, <1>2

\* push_swap: the field is written over what was written before, wherever its
\* bytes end up in the list.
LEMMA EffectOfPushSwap ==
    ASSUME NEW list \in Seq(Operations), NEW width \in SwapWidths,
           NEW from \in 0..MaxU32, NEW to \in 0..MaxU32, NEW d \in 0..MaxU32,
           Within(list, from, d), width \in 0..MaxU32,
           NEW bytes \in Seq(Nat), from + width <= Len(bytes),
           NEW len \in Nat, NEW start \in Buffers(len)
    PROVE  Effect(PushSwap(list, width, from, to), bytes, start)
               = Written(Effect(list, bytes, start), to, Native(Bytes(bytes, from, width)))
<1>. DEFINE merges == /\ list # <<>> /\ Last(list).kind = "Swap" /\ Last(list).width = width
                      /\ Last(list).count < MaxU16
                      /\ Abuts(Last(list), from, to)
            value == Native(Bytes(bytes, from, width))
<1>1. /\ width \in Nat /\ width * 1 = width /\ from \in Nat /\ to \in Nat /\ Len(bytes) \in Nat
      /\ from <= Len(bytes)
    BY Limits, OneElement, LenProperties
<1>2. Reads(list, bytes)
    BY <1>1, WithinReads
<1>3. value \in Seq(Nat) /\ Moved(Swap(width, 1, from, to), bytes) = value
    BY <1>1, OneFieldMoved
<1>4. CASE ~merges
  <2>. DEFINE op == Swap(width, 1, from, to)
  <2>1. PushSwap(list, width, from, to) = Append(list, op)
      BY <1>4 DEF PushSwap
  <2>2. op \in Operations /\ op.src = from /\ op.dst = to /\ Extent(op) = width
      BY <1>1, Limits, NewSwap
  <2>. HIDE DEF op
  <2>3. op.src + Extent(op) <= Len(bytes)
      BY <1>1, <2>2
  <2>4. Effect(Append(list, op), bytes, start)
            = Written(Effect(list, bytes, start), op.dst, Moved(op, bytes))
      BY <1>2, <2>2, <2>3, EffectOfAppend
  <2>5. Moved(op, bytes) = value
      BY <1>3 DEF op
  <2>. QED  BY <2>1, <2>2, <2>4, <2>5, Zenon
<1>5. CASE merges
  <2>. DEFINE last == Last(list)
              op == Swap(last.width, last.count + 1, last.src, last.dst)
  <2>1. /\ last \in Operations /\ last = list[Len(list)]
        /\ last.src + Extent(last) = from /\ last.dst + Extent(last) = to
      BY <1>5, LastAbuts
  <2>2. last.kind = "Swap" /\ last.width = width /\ last.count < MaxU16 /\ list # <<>>
      BY <1>5
  <2>3. PushSwap(list, width, from, to) = LastReplaced(list, op)
      BY <1>5, <2>1, <2>2 DEF PushSwap, LastReplaced
  <2>4. op.dst = last.dst
      BY DEF Swap
  <2>. HIDE DEF last, merges
  <2>5. op \in Operations /\ op.src + Extent(op) = from + width
      BY <1>1, <2>1, <2>2, LongerSwap
  <2>6. Moved(op, bytes) = Moved(last, bytes) \o value
      BY <1>1, <2>1, <2>2, LongerSwapMoved
  <2>. HIDE DEF op, value
  <2>7. op.src + Extent(op) <= Len(bytes)
      BY <2>5
  <2>8. Effect(LastReplaced(list, op), bytes, start) = Written(Effect(list, bytes, start), to, value)
    <3>1. Extends(list, op, bytes, to, value)
        BY <1>1, <1>2, <1>3, <2>1, <2>2, <2>4, <2>5, <2>6, <2>7, Zenon DEF last, Extends
    <3>. QED  BY <3>1, EffectOfExtension
  <2>. QED  BY <2>3, <2>8, Zenon DEF value
<1>. QED  BY <1>4, <1>5

\* push_copy as push_swap.
LEMMA EffectOfPushCopy ==
    ASSUME NEW list \in Seq(Operations), NEW size \in 0..MaxU32, size \notin SwapWidths,
           NEW from \in 0..MaxU32, NEW to \in 0..MaxU32, NEW d \in 0..MaxU32,
           Within(list, from, d),
           NEW bytes \in Seq(Nat), from + size <= Len(bytes),
           NEW len \in Nat, NEW start \in Buffers(len)
    PROVE  Effect(PushCopy(list, size, from, to), bytes, start)
               = Written(Effect(list, bytes, start), to, Native(Bytes(bytes, from, size)))
<1>. DEFINE merges == /\ list # <<>> /\ Last(list).kind = "Copy"
                      /\ Abuts(Last(list), from, to)
                      /\ Last(list).count + size <= MaxU32
            value == Native(Bytes(bytes, from, size))
<1>1. /\ size \in Nat /\ from \in Nat /\ to \in Nat /\ Len(bytes) \in Nat
      /\ from <= Len(bytes)
    BY Limits, LenProperties
<1>2. Reads(list, bytes)
    BY <1>1, WithinReads
<1>3. value \in Seq(Nat) /\ Moved(Copy(size, from, to), bytes) = value
    BY <1>1, OneFieldMoved
<1>4. CASE ~merges
  <2>. DEFINE op == Copy(size, from, to)
  <2>1. PushCopy(list, size, from, to) = Append(list, op)
      BY <1>4 DEF PushCopy
  <2>2. op \in Operations /\ op.src = from /\ op.dst = to /\ Extent(op) = size
      BY NewCopy
  <2>. HIDE DEF op
  <2>3. op.src + Extent(op) <= Len(bytes)
      BY <1>1, <2>2
  <2>4. Effect(Append(list, op), bytes, start)
            = Written(Effect(list, bytes, start), op.dst, Moved(op, bytes))
      BY <1>2, <2>2, <2>3, EffectOfAppend
  <2>5. Moved(op, bytes) = value
      BY <1>3 DEF op
  <2>. QED  BY <2>1, <2>2, <2>4, <2>5, Zenon
<1>5. CASE merges
  <2>. DEFINE last == Last(list)
              op == Copy(last.count + size, last.src, last.dst)
  <2>1. /\ last \in Operations /\ last = list[Len(list)]
        /\ last.src + Extent(last) = from /\ last.dst + Extent(last) = to
      BY <1>5, LastAbuts
  <2>2. last.kind = "Copy" /\ last.count + size <= MaxU32 /\ list # <<>>
      BY <1>5
  <2>3. PushCopy(list, size, from, to) = LastReplaced(list, op)
      BY <1>5, <2>1 DEF PushCopy, LastReplaced
  <2>4. op.dst = last.dst
      BY DEF Copy
  <2>. HIDE DEF last, merges
  <2>5. op \in Operations /\ op.src + Extent(op) = from + size
      BY <1>1, <2>1, <2>2, LongerCopy
  <2>6. Moved(op, bytes) = Moved(last, bytes) \o value
    <3>1. PICK at \in Nat : at = from
        BY <1>1
    <3>2. PICK more \in Nat : more = size
        BY <1>1
    <3>3. more \notin SwapWidths /\ last.src + Extent(last) = at /\ at + more <= Len(bytes)
        BY <1>1, <2>1, <3>1, <3>2
    <3>4. Moved(Copy(last.count + more, last.src, last.dst), bytes)
              = Moved(last, bytes) \o Native(Bytes(bytes, at, more))
        BY <2>1, <2>2, <3>3, LongerCopyMoved, ZenonT(40)
    <3>. QED  BY <3>1, <3>2, <3>4, Zenon
  <2>. HIDE DEF op, value
  <2>7. op.src + Extent(op) <= Len(bytes)
      BY <2>5
  <2>8. Effect(LastReplaced(list, op), bytes, start) = Written(Effect(list, bytes, start), to, value)
    <3>1. Extends(list, op, bytes, to, value)
        BY <1>1, <1>2, <1>3, <2>1, <2>2, <2>4, <2>5, <2>6, <2>7, Zenon DEF last, Extends
    <3>. QED  BY <3>1, EffectOfExtension
  <2>. QED  BY <2>3, <2>8, Zenon DEF value
<1>. QED  BY <1>4, <1>5

-----------------------------------------------------------------------------
(* What decoding field by field writes.                                    *)

\* The record is as long as the offsets of its fields say.
LEMMA OffsetsGrow ==
    ASSUME template \in Templates, NEW n \in 0..Len(template)
    PROVE  OffsetOf(n) <= OffsetOf(Len(template))
<1>. DEFINE N == Len(template)
            T == {k \in 0..N : \A i \in 0..k : OffsetOf(i) <= OffsetOf(k)}
<1>1. template \in Seq([element : Elements, length : Nat])
    BY PlanAssumption DEF PlanAssumption
<1>2. N \in Nat /\ \A i \in 1..N : template[i].length \in Nat
    <2>1. ASSUME NEW i \in 1..N  PROVE template[i].length \in Nat
        <3>1. template[i] \in [element : Elements, length : Nat]
            BY <1>1, ElementOfSeq
        <3>. QED  BY <3>1
    <2>. QED  BY <1>1, <2>1
<1>3. /\ \A k \in 0..N : OffsetOf(k) \in Nat
      /\ \A k \in 1..N : OffsetOf(k) = OffsetOf(k - 1) + template[k].length
    BY OffsetSteps
<1>4. 0 \in T
    BY <1>2, <1>3
<1>5. ASSUME NEW k \in 1..N, k - 1 \in T  PROVE k \in T
    <2>1. /\ k \in 0..N /\ k - 1 \in 0..N /\ OffsetOf(k) \in Nat /\ OffsetOf(k - 1) \in Nat
          /\ OffsetOf(k - 1) <= OffsetOf(k)
        BY <1>2, <1>3
    <2>2. ASSUME NEW i \in 0..k  PROVE OffsetOf(i) <= OffsetOf(k)
        <3>1. CASE i \in 0..(k - 1)
            <4>1. OffsetOf(i) <= OffsetOf(k - 1) /\ OffsetOf(i) \in Nat
                BY <1>2, <1>3, <1>5, <3>1
            <4>. QED  BY <2>1, <4>1
        <3>2. CASE i = k
            BY <2>1, <3>2
        <3>. QED  BY <3>1, <3>2
    <2>. QED  BY <2>1, <2>2
<1>6. \A k \in 1..N : k - 1 \in T => k \in T
    BY <1>5
<1>7. 0..N \subseteq T
    <2>. HIDE DEF T
    <2>. QED  BY <1>2, <1>4, <1>6, UpTo
<1>8. N \in T
    BY <1>2, <1>7
<1>. QED  BY <1>8

\* The buffer with the n-th field written over it, if it is mapped.
AfterField(bytes, n, buffer) ==
    IF MappingOf(template[n].element) = {} THEN buffer
    ELSE Written(buffer,
                 mappings[CHOOSE i \in MappingOf(template[n].element) : TRUE].dst,
                 Native(FieldBytes(bytes, n)))

\* A field's value is read within the record and written somewhere.
LEMMA FieldFacts ==
    ASSUME template \in Templates, mappings \in MappingLists, NEW bytes \in Seq(Nat),
           OffsetOf(Len(template)) <= Len(bytes), NEW n \in 1..Len(template)
    PROVE  /\ OffsetOf(n - 1) \in Nat /\ template[n].length \in Nat
           /\ OffsetOf(n - 1) + template[n].length <= Len(bytes)
           /\ FieldBytes(bytes, n) = Bytes(bytes, OffsetOf(n - 1), template[n].length)
           /\ Native(FieldBytes(bytes, n)) \in Seq(Nat)
           /\ MappingOf(template[n].element) # {} =>
                  mappings[CHOOSE i \in MappingOf(template[n].element) : TRUE].dst \in Nat
<1>1. /\ template \in Seq([element : Elements, length : Nat])
      /\ mappings \in Seq([element : Elements, dst : 0..MaxU32])
    BY PlanAssumption DEF PlanAssumption
<1>2. template[n] \in [element : Elements, length : Nat]
    BY <1>1, ElementOfSeq
<1>3. n \in 0..Len(template) /\ n - 1 \in 0..Len(template)
    BY <1>1
<1>4. /\ OffsetOf(n - 1) \in Nat /\ OffsetOf(n) \in Nat /\ template[n].length \in Nat
      /\ OffsetOf(n) = OffsetOf(n - 1) + template[n].length
      /\ OffsetOf(n) <= OffsetOf(Len(template)) /\ OffsetOf(Len(template)) \in Nat
    BY <1>1, <1>2, <1>3, OffsetSteps, OffsetsGrow
<1>5. Len(bytes) \in Nat
    BY LenProperties
<1>6. OffsetOf(n - 1) + template[n].length <= Len(bytes)
    BY <1>4, <1>5
<1>7. FieldBytes(bytes, n) = Bytes(bytes, OffsetOf(n - 1), template[n].length)
    BY <1>4, Zenon DEF FieldBytes, Bytes
<1>8. Native(FieldBytes(bytes, n)) \in Seq(Nat)
    <2>1. PICK from \in Nat : from = OffsetOf(n - 1)
        BY <1>4
    <2>2. PICK len \in Nat : len = template[n].length
        BY <1>4
    <2>3. from + len <= Len(bytes)
        BY <1>6, <2>1, <2>2
    <2>4. Native(Bytes(bytes, from, len)) \in Seq(Nat)
        BY <2>3, OneFieldMoved
    <2>. QED  BY <1>7, <2>1, <2>2, <2>4, Zenon
<1>9. ASSUME MappingOf(template[n].element) # {}
      PROVE  mappings[CHOOSE i \in MappingOf(template[n].element) : TRUE].dst \in Nat
    <2>1. PICK j : j = CHOOSE i \in MappingOf(template[n].element) : TRUE
        OBVIOUS
    <2>2. j \in MappingOf(template[n].element)
        BY <1>9, <2>1
    <2>3. j \in 1..Len(mappings)
        BY <2>2 DEF MappingOf
    <2>4. mappings[j] \in [element : Elements, dst : 0..MaxU32]
        BY <1>1, <2>3, ElementOfSeq
    <2>5. mappings[j].dst \in Nat
        BY <2>4, Limits
    <2>. QED  BY <2>1, <2>5
<1>. QED  BY <1>4, <1>6, <1>7, <1>8, <1>9

LEMMA FieldwiseSteps ==
    ASSUME template \in Templates, mappings \in MappingLists, NEW bytes \in Seq(Nat),
           OffsetOf(Len(template)) <= Len(bytes), NEW len \in Nat, NEW start \in Buffers(len)
    PROVE  /\ Fieldwise(bytes, start)[0] = start
           /\ \A n \in 1..Len(template) :
                  Fieldwise(bytes, start)[n] = AfterField(bytes, n, Fieldwise(bytes, start)[n - 1])
<1>. DEFINE N == Len(template)
            S == Buffers(len)
            step == [n \in 1..N |-> [b \in S |-> AfterField(bytes, n, b)]]
            decoded == Fieldwise(bytes, start)
<1>1. N \in Nat
    BY PlanAssumption DEF PlanAssumption
<1>2. ASSUME NEW n \in 1..N, NEW b \in S  PROVE AfterField(bytes, n, b) \in S
    <2>1. CASE MappingOf(template[n].element) = {}
        BY <2>1 DEF AfterField
    <2>2. CASE MappingOf(template[n].element) # {}
        <3>1. PICK to \in Nat : to = mappings[CHOOSE i \in MappingOf(template[n].element) : TRUE].dst
            BY <2>2, FieldFacts
        <3>2. PICK value \in Seq(Nat) : value = Native(FieldBytes(bytes, n))
            BY FieldFacts
        <3>3. Written(b, to, value) \in S
            BY WrittenOver
        <3>. QED  BY <2>2, <3>1, <3>2, <3>3, Zenon DEF AfterField
    <2>. QED  BY <2>1, <2>2
<1>3. decoded = CHOOSE f : f = [n \in 0..N |-> IF n = 0 THEN start ELSE AfterField(bytes, n, f[n - 1])]
    BY DEF Fieldwise, AfterField
<1>4. start \in S
    OBVIOUS
<1>. HIDE DEF S, N, decoded
<1>5. /\ step \in [1..N -> [S -> S]]
      /\ \A n \in 1..N : \A b \in S : step[n][b] = AfterField(bytes, n, b)
    BY <1>2
<1>. HIDE DEF step
<1>6. PICK f \in [0..N -> S] : Steps(f, N, start, step)
    BY <1>1, <1>4, <1>5, Recursion
<1>7. ASSUME NEW n \in 1..N  PROVE f[n] = AfterField(bytes, n, f[n - 1])
    <2>1. f[n - 1] \in S /\ f[n] = step[n][f[n - 1]]
        BY <1>1, <1>6 DEF Steps
    <2>. QED  BY <1>5, <2>1
<1>8. f = [n \in 0..N |-> IF n = 0 THEN start ELSE AfterField(bytes, n, f[n - 1])]
    BY <1>6, <1>7 DEF Steps
<1>9. decoded = [n \in 0..N |-> IF n = 0 THEN start ELSE AfterField(bytes, n, decoded[n - 1])]
    BY <1>3, <1>8, Zenon
<1>10. decoded[0] = start /\ \A n \in 1..N : decoded[n] = AfterField(bytes, n, decoded[n - 1])
    BY <1>1, <1>9
<1>. QED  BY <1>10 DEF decoded, N

\* The operations planned so far write what decoding the planned fields one by
\* one writes, whatever the record and the buffer.
DecodesAlike(bytes, len, start) ==
    OffsetOf(Len(template)) <= Len(bytes) =>
        Effect(ops, bytes, start) = Fieldwise(bytes, start)[field]

PlanDecodes ==
    \A bytes \in Seq(Nat) : \A len \in Nat : \A start \in Buffers(len) :
        DecodesAlike(bytes, len, start)

LEMMA SameDecoding ==
    ASSUME template' = template, mappings' = mappings, NEW bytes, NEW start
    PROVE  /\ Fieldwise(bytes, start)' = Fieldwise(bytes, start)
           /\ OffsetOf(Len(template))' = OffsetOf(Len(template))
<1>. DEFINE After(f) == [n \in 0..Len(template) |-> IF n = 0 THEN start ELSE AfterField(bytes, n, f[n - 1])]
<1>1. Offsets' = Offsets
    BY Zenon DEF Offsets
<1>2. \A n : OffsetOf(n)' = OffsetOf(n) /\ FieldBytes(bytes, n)' = FieldBytes(bytes, n)
    BY <1>1, Zenon DEF OffsetOf, FieldBytes
<1>3. ASSUME NEW n, NEW buffer  PROVE AfterField(bytes, n, buffer)' = AfterField(bytes, n, buffer)
    BY <1>2, SMT DEF AfterField, MappingOf
<1>4. ASSUME NEW f  PROVE After(f)' = After(f)
    BY <1>3
<1>5. /\ Fieldwise(bytes, start) = CHOOSE f : f = After(f)
      /\ Fieldwise(bytes, start)' = CHOOSE f : f = After(f)'
    BY DEF Fieldwise, AfterField
<1>. HIDE DEF After
<1>6. Fieldwise(bytes, start)' = Fieldwise(bytes, start)
    BY <1>4, <1>5, Zenon
<1>7. OffsetOf(Len(template))' = OffsetOf(Len(template))
    BY <1>1 DEF OffsetOf
<1>. QED  BY <1>6, <1>7

LEMMA DecodesStays ==
    ASSUME PlanDecodes, UNCHANGED <<inputs, field, ops>>
    PROVE  PlanDecodes'
<1>. SUFFICES ASSUME NEW bytes \in Seq(Nat), NEW len \in Nat, NEW start \in Buffers(len)
              PROVE  DecodesAlike(bytes, len, start)'
    BY Zenon DEF PlanDecodes
<1>1. DecodesAlike(bytes, len, start)
    BY Zenon DEF PlanDecodes
<1>2. /\ Fieldwise(bytes, start)' = Fieldwise(bytes, start)
      /\ OffsetOf(Len(template))' = OffsetOf(Len(template))
    BY SameDecoding DEF inputs
<1>. QED  BY <1>1, <1>2, Zenon DEF DecodesAlike

LEMMA PlanFieldDecodes ==
    ASSUME PlanInv, PlanSoFar, PlanDecodes, PlanField
    PROVE  PlanDecodes'
<1>. SUFFICES ASSUME NEW bytes \in Seq(Nat), NEW len \in Nat, NEW start \in Buffers(len)
              PROVE  DecodesAlike(bytes, len, start)'
    BY Zenon DEF PlanDecodes
<1>. DEFINE f == template[field + 1]
            to == mappings[CHOOSE i \in MappingOf(f.element) : TRUE].dst
            decoded == Fieldwise(bytes, start)
<1>1. /\ field < Len(template) /\ src_record_len + f.length <= MaxU32
      /\ field' = field + 1
      /\ UNCHANGED <<template, mappings>>
    BY DEF PlanField, inputs
<1>2. /\ decoded' = decoded
      /\ OffsetOf(Len(template))' = OffsetOf(Len(template))
    BY <1>1, SameDecoding
<1>3. SUFFICES ASSUME OffsetOf(Len(template)) <= Len(bytes)
               PROVE  Effect(ops', bytes, start) = decoded[field + 1]
    BY <1>1, <1>2, Zenon DEF DecodesAlike
<1>4. Effect(ops, bytes, start) = decoded[field]
    BY <1>3, Zenon DEF PlanDecodes, DecodesAlike
<1>5. /\ field \in Nat /\ field + 1 \in 1..Len(template) /\ field + 1 - 1 = field
      /\ template \in Templates /\ mappings \in MappingLists
      /\ src_record_len = OffsetOf(field) /\ src_record_len \in 0..MaxU32
      /\ dst_buf_len \in 0..MaxU32 /\ ops \in Seq(Operations)
      /\ Within(ops, src_record_len, dst_buf_len)
    <2>1. /\ template \in Templates /\ mappings \in MappingLists /\ field \in 0..Len(template)
          /\ src_record_len \in 0..MaxU32
          /\ dst_buf_len \in 0..MaxU32 /\ ops \in Seq(Operations)
          /\ Within(ops, src_record_len, dst_buf_len)
        BY DEF PlanInv, TypeOK, OpsStayInBounds
    <2>2. Len(template) \in Nat
        BY <2>1, PlanAssumption DEF PlanAssumption
    <2>3. src_record_len = OffsetOf(field)
        BY DEF PlanSoFar
    <2>. QED  BY <1>1, <2>1, <2>2, <2>3
<1>6. decoded[field + 1] = AfterField(bytes, field + 1, decoded[field])
    <2>1. decoded[field + 1] = AfterField(bytes, field + 1, decoded[field + 1 - 1])
        <3>1. \A n \in 1..Len(template) : decoded[n] = AfterField(bytes, n, decoded[n - 1])
            BY <1>3, <1>5, FieldwiseSteps, Zenon
        <3>. HIDE DEF decoded
        <3>. QED  BY <1>5, <3>1
    <2>. QED  BY <1>5, <2>1, Zenon
<1>7. CASE MappingOf(f.element) = {}
    <2>1. ops' = ops
        BY <1>7 DEF PlanField
    <2>2. decoded[field + 1] = decoded[field]
        BY <1>6, <1>7 DEF AfterField
    <2>. QED  BY <1>4, <2>1, <2>2, Zenon
<1>8. CASE MappingOf(f.element) # {}
    <2>1. /\ to + f.length <= MaxU32
          /\ ops' = IF f.length \in SwapWidths
                    THEN PushSwap(ops, f.length, src_record_len, to)
                    ELSE PushCopy(ops, f.length, src_record_len, to)
        BY <1>8 DEF PlanField
    <2>2. decoded[field + 1] = Written(decoded[field], to, Native(FieldBytes(bytes, field + 1)))
        BY <1>6, <1>8 DEF AfterField
    <2>3. /\ OffsetOf(field) + f.length <= Len(bytes) /\ f.length \in Nat
          /\ FieldBytes(bytes, field + 1) = Bytes(bytes, OffsetOf(field), f.length)
        <3>1. PICK n \in 1..Len(template) : n = field + 1 /\ n - 1 = field /\ template[n] = f
            BY <1>5
        <3>2. /\ OffsetOf(n - 1) + template[n].length <= Len(bytes) /\ template[n].length \in Nat
              /\ FieldBytes(bytes, n) = Bytes(bytes, OffsetOf(n - 1), template[n].length)
            <4>1. template \in Templates /\ mappings \in MappingLists
                BY <1>5
            <4>. HIDE DEF f, to, decoded
            <4>. QED  BY <1>3, <4>1, FieldFacts
        <3>. HIDE DEF f
        <3>. QED  BY <3>1, <3>2
    <2>4. to \in 0..MaxU32
        BY <1>1, <1>8, FieldToPlan
    <2>. HIDE DEF f, to, decoded
    <2>5. PICK size \in 0..MaxU32 : size = f.length
        BY <1>1, <1>5, <2>3, Limits
    <2>6. PICK from \in 0..MaxU32 : from = src_record_len
        BY <1>5
    <2>7. PICK at \in 0..MaxU32 : at = to
        BY <2>4
    <2>8. /\ from + size <= Len(bytes) /\ Within(ops, from, dst_buf_len)
          /\ FieldBytes(bytes, field + 1) = Bytes(bytes, from, size)
        BY <1>5, <2>3, <2>5, <2>6, Zenon
    <2>9. CASE size \in SwapWidths
        <3>1. Effect(PushSwap(ops, size, from, at), bytes, start)
                  = Written(Effect(ops, bytes, start), at, Native(Bytes(bytes, from, size)))
            BY <1>5, <2>8, <2>9, EffectOfPushSwap
        <3>2. ops' = PushSwap(ops, size, from, at)
            BY <2>1, <2>5, <2>6, <2>7, <2>9, Zenon
        <3>. QED  BY <1>4, <2>2, <2>7, <2>8, <3>1, <3>2, Zenon
    <2>10. CASE size \notin SwapWidths
        <3>1. Effect(PushCopy(ops, size, from, at), bytes, start)
                  = Written(Effect(ops, bytes, start), at, Native(Bytes(bytes, from, size)))
            BY <1>5, <2>8, <2>10, EffectOfPushCopy
        <3>2. ops' = PushCopy(ops, size, from, at)
            BY <2>1, <2>5, <2>6, <2>7, <2>10, Zenon
        <3>. QED  BY <1>4, <2>2, <2>7, <2>8, <3>1, <3>2, Zenon
    <2>. QED  BY <2>9, <2>10
<1>. QED  BY <1>7, <1>8

LEMMA PlanDecodesInvariance == Spec => []PlanDecodes
<1>1. Init => PlanDecodes
    <2>. SUFFICES ASSUME Init, NEW bytes \in Seq(Nat), NEW len \in Nat, NEW start \in Buffers(len),
                         OffsetOf(Len(template)) <= Len(bytes)
                  PROVE  Effect(ops, bytes, start) = Fieldwise(bytes, start)[field]
        BY Zenon DEF PlanDecodes, DecodesAlike
    <2>1. /\ template \in Templates /\ mappings \in MappingLists /\ field = 0
          /\ ops = <<>> /\ ops \in Seq(Operations) /\ Len(ops) = 0
        BY DEF Init
    <2>2. Reads(ops, bytes)
        BY <2>1 DEF Reads
    <2>3. Effect(ops, bytes, start) = start
        <3>1. Runs(ops, bytes, start)[0] = start
            BY <2>1, <2>2, RunsSteps
        <3>. QED  BY <2>1, <3>1, Zenon DEF Effect
    <2>4. Fieldwise(bytes, start)[0] = start
        BY <2>1, FieldwiseSteps
    <2>. QED  BY <2>1, <2>3, <2>4, Zenon
<1>2. ASSUME PlanInv, PlanSoFar, PlanDecodes, [Next]_vars  PROVE PlanDecodes'
    <2>1. CASE RefuseInputs
        BY <1>2, <2>1, DecodesStays DEF RefuseInputs
    <2>2. CASE PlanField
        BY <1>2, <2>2, PlanFieldDecodes
    <2>3. CASE RefuseLength
        BY <1>2, <2>3, DecodesStays DEF RefuseLength
    <2>4. CASE FinishBuild
        BY <1>2, <2>4, DecodesStays DEF FinishBuild
    <2>5. CASE StartApply
        BY <1>2, <2>5, DecodesStays DEF StartApply, plan
    <2>6. CASE ApplyOp
        BY <1>2, <2>6, DecodesStays DEF ApplyOp, plan
    <2>7. CASE FinishApply
        BY <1>2, <2>7, DecodesStays DEF FinishApply, plan
    <2>8. CASE UNCHANGED vars
        BY <1>2, <2>8, DecodesStays DEF vars, plan
    <2>. QED  BY <1>2, <2>1, <2>2, <2>3, <2>4, <2>5, <2>6, <2>7, <2>8 DEF Next, Build
<1>. QED  BY <1>1, <1>2, PlanInvariance, PlanSoFarInvariance, PTL DEF Spec

-----------------------------------------------------------------------------
(* apply.                                                                  *)

\* While apply runs, the buffer is what the operations run so far have written.
RunSoFar ==
    /\ result = "None" => next_op = 0
    /\ result # "None" => status = "Ok"
    /\ result = "Ok" => next_op = Len(ops)
    /\ result \in {"Running", "Ok"} =>
           /\ src \in Seq(Nat) /\ src_record_len <= Len(src)
           /\ Len(dst) \in Nat /\ dst = Runs(ops, src, Zeroed(Len(dst)))[next_op]

LEMMA ZeroedBuffer == ASSUME NEW n \in Nat  PROVE Zeroed(n) \in Buffers(n) /\ Len(Zeroed(n)) = n
<1>1. Zeroed(n) \in [1..n -> Nat]
    BY DEF Zeroed
<1>2. Zeroed(n) \in Seq(Nat) /\ Len(Zeroed(n)) = n
    BY <1>1, SeqDef, LenProperties
<1>. QED  BY <1>2 DEF Buffers

LEMMA RecordBytes == ASSUME NEW n \in Nat  PROVE Record(n) \in Seq(Nat) /\ Len(Record(n)) = n
<1>1. Record(n) \in [1..n -> Nat]
    BY DEF Record
<1>. QED  BY <1>1, SeqDef, LenProperties

\* The operations of a plan read within a record it accepts.
LEMMA PlanReads ==
    ASSUME PlanInv, NEW bytes \in Seq(Nat), src_record_len <= Len(bytes)
    PROVE  ops \in Seq(Operations) /\ Reads(ops, bytes)
<1>1. /\ src_record_len \in Nat /\ ops \in Seq(Operations)
      /\ Within(ops, src_record_len, dst_buf_len)
    BY Limits DEF PlanInv, TypeOK, OpsStayInBounds
<1>. QED  BY <1>1, WithinReads

LEMMA StartRuns ==
    ASSUME PlanInv, RunSoFar, StartApply
    PROVE  RunSoFar'
<1>1. PICK n \in Around(src_record_len), m \in Around(dst_buf_len) :
          /\ src' = Record(n)
          /\ dst' = Zeroed(m)
          /\ result' = IF n < src_record_len THEN "UnexpectedEof"
                       ELSE IF m < dst_buf_len THEN "DestinationBufferTooSmall"
                       ELSE "Running"
    BY Zenon DEF StartApply
<1>2. /\ status = "Ok" /\ result = "None" /\ next_op' = next_op /\ next_op = 0
      /\ status' = status /\ ops' = ops /\ src_record_len' = src_record_len
    BY DEF StartApply, plan, RunSoFar
<1>3. n \in Nat /\ m \in Nat /\ src_record_len \in Nat
    BY Limits DEF Around, PlanInv, TypeOK
<1>4. result' # "None" /\ result' # "Ok"
    BY <1>1
<1>5. ASSUME result' = "Running"
      PROVE  /\ src' \in Seq(Nat) /\ src_record_len <= Len(src')
             /\ Len(dst') \in Nat /\ dst' = Runs(ops, src', Zeroed(Len(dst')))[0]
    <2>1. PICK bytes \in Seq(Nat) : bytes = src' /\ src_record_len <= Len(bytes)
        BY <1>1, <1>3, <1>5, RecordBytes
    <2>2. PICK start \in Buffers(m) : start = dst' /\ Len(start) = m
        BY <1>1, <1>3, ZeroedBuffer
    <2>3. Runs(ops, bytes, start)[0] = start
        BY <1>3, <2>1, PlanReads, RunsSteps
    <2>4. Zeroed(Len(dst')) = start
        BY <1>1, <2>2, Zenon
    <2>. QED  BY <1>3, <2>1, <2>2, <2>3, <2>4, Zenon
<1>. QED  BY <1>2, <1>4, <1>5, Zenon DEF RunSoFar

LEMMA ApplyRuns ==
    ASSUME PlanInv, RunSoFar, ApplyOp
    PROVE  RunSoFar'
<1>1. /\ result = "Running" /\ next_op < Len(ops) /\ next_op' = next_op + 1
      /\ dst' = Written(dst, ops[next_op + 1].dst, Moved(ops[next_op + 1], src))
      /\ UNCHANGED <<status, src_record_len, ops, src, result>>
    BY DEF ApplyOp, plan
<1>2. PICK bytes \in Seq(Nat) : bytes = src /\ src_record_len <= Len(bytes)
    BY <1>1 DEF RunSoFar
<1>3. PICK len \in Nat : len = Len(dst)
    BY <1>1 DEF RunSoFar
<1>4. PICK start \in Buffers(len) : start = Zeroed(len)
    BY <1>3, ZeroedBuffer
<1>5. ops \in Seq(Operations) /\ Reads(ops, bytes)
    BY <1>2, PlanReads
<1>6. dst = Runs(ops, bytes, start)[next_op]
    BY <1>1, <1>2, <1>3, <1>4, Zenon DEF RunSoFar
<1>7. PICK k \in Nat : k = next_op /\ k + 1 \in 1..Len(ops) /\ k + 1 \in 0..Len(ops) /\ k + 1 - 1 = k
    <2>1. next_op \in 0..Len(ops) /\ Len(ops) \in Nat
        BY <1>5, LenIsNat DEF PlanInv, TypeOK
    <2>. QED  BY <1>1, <2>1
<1>8. Runs(ops, bytes, start)[k + 1] = dst'
    <2>1. Runs(ops, bytes, start)[k + 1]
              = Written(Runs(ops, bytes, start)[k + 1 - 1], ops[k + 1].dst, Moved(ops[k + 1], bytes))
        BY <1>5, <1>7, RunsSteps
    <2>. QED  BY <1>1, <1>2, <1>6, <1>7, <2>1, Zenon
<1>9. Len(dst') = len
    <2>1. Runs(ops, bytes, start)[k + 1] \in Buffers(len)
        BY <1>5, <1>7, RunsSteps
    <2>. QED  BY <1>8, <2>1 DEF Buffers
<1>10. dst' = Runs(ops, bytes, Zeroed(Len(dst')))[next_op']
    BY <1>1, <1>4, <1>7, <1>8, <1>9, Zenon
<1>. QED  BY <1>1, <1>2, <1>9, <1>10 DEF RunSoFar

LEMMA RunSoFarInvariance == Spec => []RunSoFar
<1>1. Init => RunSoFar
    BY DEF Init, RunSoFar
<1>2. ASSUME PlanInv, RunSoFar, [Next]_vars  PROVE RunSoFar'
    <2>1. CASE RefuseInputs
        BY <1>2, <2>1 DEF RefuseInputs, run, RunSoFar
    <2>2. CASE PlanField
        BY <1>2, <2>2 DEF PlanField, Planning, run, RunSoFar
    <2>3. CASE RefuseLength
        BY <1>2, <2>3 DEF RefuseLength, Planning, run, RunSoFar
    <2>4. CASE FinishBuild
        BY <1>2, <2>4 DEF FinishBuild, Planning, run, RunSoFar
    <2>5. CASE StartApply
        BY <1>2, <2>5, StartRuns
    <2>6. CASE ApplyOp
        BY <1>2, <2>6, ApplyRuns
    <2>7. CASE FinishApply
        BY <1>2, <2>7 DEF FinishApply, plan, RunSoFar
    <2>8. CASE UNCHANGED vars
        BY <1>2, <2>8 DEF vars, plan, run, RunSoFar
    <2>. QED  BY <1>2, <2>1, <2>2, <2>3, <2>4, <2>5, <2>6, <2>7, <2>8 DEF Next, Build
<1>. QED  BY <1>1, <1>2, PlanInvariance, PTL DEF Spec

\* Merging changes nothing (decode.rs 372-415): when apply has run a plan, the
\* destination holds what decoding the template's fields one by one writes.
THEOREM MergedPlansDecode == Spec => []DecodesFieldByField
<1>1. PlanInv /\ PlanSoFar /\ PlanDecodes /\ RunSoFar => DecodesFieldByField
    <2>. SUFFICES ASSUME PlanInv, PlanSoFar, PlanDecodes, RunSoFar, result = "Ok"
                  PROVE  dst = DecodedFields
        BY DEF DecodesFieldByField
    <2>1. status = "Ok" /\ next_op = Len(ops) /\ field = Len(template)
        BY DEF RunSoFar, PlanSoFar
    <2>2. PICK bytes \in Seq(Nat) : bytes = src /\ src_record_len <= Len(bytes)
        BY DEF RunSoFar
    <2>3. PICK len \in Nat : len = Len(dst)
        BY DEF RunSoFar
    <2>4. PICK start \in Buffers(len) : start = Zeroed(len)
        BY <2>3, ZeroedBuffer
    <2>5. dst = Effect(ops, bytes, start)
        BY <2>1, <2>2, <2>3, <2>4, Zenon DEF RunSoFar, Effect
    <2>6. OffsetOf(Len(template)) <= Len(bytes)
        BY <2>1, <2>2 DEF PlanSoFar
    <2>7. Effect(ops, bytes, start) = Fieldwise(bytes, start)[field]
        BY <2>6, Zenon DEF PlanDecodes, DecodesAlike
    <2>. QED  BY <2>1, <2>2, <2>3, <2>4, <2>5, <2>7, Zenon DEF DecodedFields
<1>. QED  BY <1>1, PlanInvariance, PlanSoFarInvariance, PlanDecodesInvariance,
             RunSoFarInvariance, PTL
=============================================================================
