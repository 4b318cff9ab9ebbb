----------------------------- MODULE DecodePlan -----------------------------
(***************************************************************************)
(* Bulk decoding of src/decode.rs: DecodePlan::build turns a template and  *)
(* a list of mappings into a list of copy and byte-swap operations, merged *)
(* where source and destination are adjacent; apply runs them on a record. *)
(*                                                                         *)
(* build is one step per template field, apply one step per operation, so  *)
(* that what holds of a plan can be stated of every prefix of it.  Offsets *)
(* and counts have the limits MaxU32 and MaxU16 for u32::MAX and u16::MAX. *)
(* The native byte order is little-endian, as on the hosts it is tested on.*)
(***************************************************************************)
EXTENDS Integers, SequencesExt

CONSTANTS
    Elements,        \* information elements: id and enterprise number
    OctetElements,   \* those whose type is octetArray or string
    VariableLength,  \* VARIABLE_LENGTH
    MaxU32,          \* u32::MAX
    MaxU16,          \* u16::MAX
    Templates,       \* the templates plans are built for
    MappingLists     \* the lists of mappings they are built with

ASSUME PlanAssumption ==
    /\ OctetElements \subseteq Elements
    /\ MaxU32 \in Nat /\ MaxU16 \in Nat \ {0}
    /\ \A t \in Templates : t \in Seq([element : Elements, length : Nat])
    /\ \A m \in MappingLists : m \in Seq([element : Elements, dst : 0..MaxU32])

VARIABLES
    template,        \* the fields of the template: element and length
    mappings,        \* the mappings given to build: element and destination
    status,          \* what build has answered, "Building" until it has
    field,           \* fields build has planned
    src_record_len,  \* DecodePlan.src_record_len: src_off while building
    dst_buf_len,     \* DecodePlan.dst_buf_len: dst_max while building
    ops,             \* DecodePlan.ops
    src,             \* the record given to apply
    dst,             \* the destination buffer given to apply
    result,          \* what apply has answered, "Running" until it has
    next_op          \* operations apply has run

inputs == <<template, mappings>>
plan == <<status, field, src_record_len, dst_buf_len, ops>>
run == <<src, dst, result, next_op>>
vars == <<inputs, plan, run>>

SwapWidths == {2, 4, 8, 16}
Swap(width, count, from, to) ==
    [kind |-> "Swap", width |-> width, count |-> count, src |-> from, dst |-> to]
Copy(len, from, to) == [kind |-> "Copy", width |-> 1, count |-> len, src |-> from, dst |-> to]

Operations ==
    [kind : {"Swap"}, width : SwapWidths, count : 1..MaxU16, src : 0..MaxU32, dst : 0..MaxU32]
    \cup [kind : {"Copy"}, width : {1}, count : 0..MaxU32, src : 0..MaxU32, dst : 0..MaxU32]

\* The number of bytes an operation moves.
Extent(op) == op.width * op.count

SaturatingAdd(a, b) == IF a + b > MaxU32 THEN MaxU32 ELSE a + b

\* An operation ends where the next source and destination bytes begin.
Abuts(op, from, to) ==
    SaturatingAdd(op.src, Extent(op)) = from /\ SaturatingAdd(op.dst, Extent(op)) = to

\* Mutant: only the source has to be adjacent.
PushSwapAnywhere(list, width, from, to) ==
    IF /\ list # <<>> /\ Last(list).kind = "Swap" /\ Last(list).width = width
       /\ Last(list).count < MaxU16
       /\ SaturatingAdd(Last(list).src, Extent(Last(list))) = from
    THEN [list EXCEPT ![Len(list)] = Swap(width, @.count + 1, @.src, @.dst)]
    ELSE Append(list, Swap(width, 1, from, to))

\* Mutant: the counter of a run is not watched.
PushSwapUncapped(list, width, from, to) ==
    IF /\ list # <<>> /\ Last(list).kind = "Swap" /\ Last(list).width = width
       /\ Abuts(Last(list), from, to)
    THEN [list EXCEPT ![Len(list)] = Swap(width, @.count + 1, @.src, @.dst)]
    ELSE Append(list, Swap(width, 1, from, to))

\* push_swap
PushSwap(list, width, from, to) ==
    IF /\ list # <<>> /\ Last(list).kind = "Swap" /\ Last(list).width = width
       /\ Last(list).count < MaxU16
       /\ Abuts(Last(list), from, to)
    THEN [list EXCEPT ![Len(list)] = Swap(width, @.count + 1, @.src, @.dst)]
    ELSE Append(list, Swap(width, 1, from, to))

\* push_copy
PushCopy(list, len, from, to) ==
    IF /\ list # <<>> /\ Last(list).kind = "Copy"
       /\ Abuts(Last(list), from, to)
       /\ Last(list).count + len <= MaxU32
    THEN [list EXCEPT ![Len(list)] = Copy(@.count + len, @.src, @.dst)]
    ELSE Append(list, Copy(len, from, to))

-----------------------------------------------------------------------------
(* build                                                                   *)

Init ==
    /\ template \in Templates
    /\ mappings \in MappingLists
    /\ status = "Building"
    /\ field = 0
    /\ src_record_len = 0
    /\ dst_buf_len = 0
    /\ ops = <<>>
    /\ src = <<>>
    /\ dst = <<>>
    /\ result = "None"
    /\ next_op = 0

HasVariableLength == \E i \in 1..Len(template) : template[i].length = VariableLength
HasDuplicate == \E i, j \in 1..Len(mappings) : i < j /\ mappings[i].element = mappings[j].element

\* The two checks before the first field is planned.
RefuseInputs ==
    /\ status = "Building" /\ field = 0
    /\ \/ HasVariableLength /\ status' = "VariableLengthInPlan"
       \/ ~HasVariableLength /\ HasDuplicate /\ status' = "DuplicateMapping"
    /\ UNCHANGED <<inputs, field, src_record_len, dst_buf_len, ops, run>>

Planning == status = "Building" /\ ~HasVariableLength /\ ~HasDuplicate

\* The mapping of an element; there is one at most.
MappingOf(element) == {i \in 1..Len(mappings) : mappings[i].element = element}

\* Mutant: the destination is measured from the last field planned.
PlanFieldLastEnd ==
    /\ Planning /\ field < Len(template)
    /\ LET f == template[field + 1]
           to == mappings[CHOOSE i \in MappingOf(f.element) : TRUE].dst
       IN  /\ src_record_len + f.length <= MaxU32
           /\ src_record_len' = src_record_len + f.length
           /\ IF MappingOf(f.element) = {} THEN UNCHANGED <<dst_buf_len, ops>>
              ELSE /\ to + f.length <= MaxU32
                   /\ dst_buf_len' = to + f.length
                   /\ ops' = IF f.length \in SwapWidths
                             THEN PushSwap(ops, f.length, src_record_len, to)
                             ELSE PushCopy(ops, f.length, src_record_len, to)
    /\ field' = field + 1
    /\ UNCHANGED <<inputs, status, run>>

\* One field: an operation if it is mapped, and the offsets move on.
PlanField ==
    /\ Planning /\ field < Len(template)
    /\ LET f == template[field + 1]
           to == mappings[CHOOSE i \in MappingOf(f.element) : TRUE].dst
       IN  /\ src_record_len + f.length <= MaxU32
           /\ src_record_len' = src_record_len + f.length
           /\ IF MappingOf(f.element) = {} THEN UNCHANGED <<dst_buf_len, ops>>
              ELSE /\ to + f.length <= MaxU32
                   /\ dst_buf_len' = IF to + f.length > dst_buf_len THEN to + f.length ELSE dst_buf_len
                   /\ ops' = IF f.length \in SwapWidths
                             THEN PushSwap(ops, f.length, src_record_len, to)
                             ELSE PushCopy(ops, f.length, src_record_len, to)
    /\ field' = field + 1
    /\ UNCHANGED <<inputs, status, run>>

\* An offset does not fit u32.
RefuseLength ==
    /\ Planning /\ field < Len(template)
    /\ LET f == template[field + 1]
       IN  \/ src_record_len + f.length > MaxU32
           \/ \E i \in MappingOf(f.element) : mappings[i].dst + f.length > MaxU32
    /\ status' = "InvalidLength"
    /\ UNCHANGED <<inputs, field, src_record_len, dst_buf_len, ops, run>>

InTemplate(element) == \E i \in 1..Len(template) : template[i].element = element

\* Mutant: mappings are not checked against the template.
FinishBuildUnverified ==
    /\ Planning /\ field = Len(template)
    /\ status' = "Ok"
    /\ UNCHANGED <<inputs, field, src_record_len, dst_buf_len, ops, run>>

\* Every mapping must have met a field.
FinishBuild ==
    /\ Planning /\ field = Len(template)
    /\ status' = IF \A i \in 1..Len(mappings) : InTemplate(mappings[i].element)
                 THEN "Ok" ELSE "MappingNotFound"
    /\ UNCHANGED <<inputs, field, src_record_len, dst_buf_len, ops, run>>

Build == RefuseInputs \/ PlanField \/ RefuseLength \/ FinishBuild

-----------------------------------------------------------------------------
(* apply                                                                   *)

\* A buffer of this many bytes; no two bytes of a record are the same.
Record(n) == [i \in 1..n |-> i]
Zeroed(n) == [i \in 1..n |-> 0]

\* One byte less than the plan needs, as many, one more.
Around(n) == {n - 1, n, n + 1} \cap Nat

StartApply ==
    /\ status = "Ok" /\ result = "None"
    /\ \E n \in Around(src_record_len), m \in Around(dst_buf_len) :
           /\ src' = Record(n)
           /\ dst' = Zeroed(m)
           /\ result' = IF n < src_record_len THEN "UnexpectedEof"
                        ELSE IF m < dst_buf_len THEN "DestinationBufferTooSmall"
                        ELSE "Running"
    /\ UNCHANGED <<inputs, plan, next_op>>

\* Bytes from offset 0 on, reversed within every element of the given width.
SwapRun(bytes, width) ==
    [i \in 1..Len(bytes) |-> LET at == (i - 1) % width IN bytes[i - at + (width - 1 - at)]]

\* What an operation writes, out of the record it reads.
Moved(op, bytes) ==
    LET run_bytes == SubSeq(bytes, op.src + 1, op.src + Extent(op))
    IN  IF op.kind = "Swap" THEN SwapRun(run_bytes, op.width) ELSE run_bytes

\* The buffer with bytes written over it at an offset.
Written(buffer, offset, bytes) ==
    [i \in 1..Len(buffer) |-> IF i \in (offset + 1)..(offset + Len(bytes))
                              THEN bytes[i - offset] ELSE buffer[i]]

ApplyOp ==
    /\ result = "Running" /\ next_op < Len(ops)
    /\ dst' = Written(dst, ops[next_op + 1].dst, Moved(ops[next_op + 1], src))
    /\ next_op' = next_op + 1
    /\ UNCHANGED <<inputs, plan, src, result>>

FinishApply ==
    /\ result = "Running" /\ next_op = Len(ops)
    /\ result' = "Ok"
    /\ UNCHANGED <<inputs, plan, src, dst, next_op>>

Next == Build \/ StartApply \/ ApplyOp \/ FinishApply

Spec == Init /\ [][Next]_vars

-----------------------------------------------------------------------------
(* The reference: every field on its own, in the order of the template.    *)

Offsets ==
    LET offset[n \in 0..Len(template)] == IF n = 0 THEN 0 ELSE offset[n - 1] + template[n].length
    IN  offset

OffsetOf(n) == Offsets[n]

\* The value of a field in native byte order, where its width has one.
Native(bytes) == IF Len(bytes) \in SwapWidths THEN Reverse(bytes) ELSE bytes

FieldBytes(bytes, n) == SubSeq(bytes, OffsetOf(n - 1) + 1, OffsetOf(n))

\* The destination buffer after each field.
Fieldwise(bytes, start) ==
    LET buffer[n \in 0..Len(template)] ==
            IF n = 0 THEN start
            ELSE IF MappingOf(template[n].element) = {} THEN buffer[n - 1]
            ELSE Written(buffer[n - 1],
                         mappings[CHOOSE i \in MappingOf(template[n].element) : TRUE].dst,
                         Native(FieldBytes(bytes, n)))
    IN  buffer

DecodedFields == Fieldwise(src, Zeroed(Len(dst)))[Len(template)]

-----------------------------------------------------------------------------
Statuses == {"Building", "Ok", "VariableLengthInPlan", "DuplicateMapping",
             "MappingNotFound", "InvalidLength"}

\* The plan's offsets and counts fit the integers that hold them.
TypeOK ==
    /\ status \in Statuses
    /\ field \in 0..Len(template) /\ next_op \in 0..Len(ops)
    /\ src_record_len \in 0..MaxU32 /\ dst_buf_len \in 0..MaxU32
    /\ ops \in Seq(Operations)
    /\ result \in {"None", "Running", "Ok", "UnexpectedEof", "DestinationBufferTooSmall"}

\* All operations of a list read and write within the given lengths.
Within(list, src_len, dst_len) ==
    \A i \in 1..Len(list) :
        /\ list[i].src + Extent(list[i]) <= src_len
        /\ list[i].dst + Extent(list[i]) <= dst_len

\* "Build-phase invariants guarantee every op's src+w*count <= src_record_len
\* and dst+w*count <= dst_buf_len" (decode.rs 291-293): apply slices without
\* checking, and would panic otherwise.
OpsStayInBounds == Within(ops, src_record_len, dst_buf_len)

\* Running the merged operations has the effect of decoding field by field in
\* template order, where mapped fields overlap in the destination as well
\* (decode.rs 372-415 merge with the last operation only).
DecodesFieldByField == result = "Ok" => dst = DecodedFields

\* Where the first n fields end in the destination, those that are mapped.
EndsOf(n) ==
    UNION {{mappings[i].dst + template[j].length : i \in MappingOf(template[j].element)} : j \in 1..n}

ReachesFurthest(end, ends) ==
    IF ends = {} THEN end = 0 ELSE end \in ends /\ \A e \in ends : e <= end

\* A plan is what its documentation says (decode.rs 115-120, 183-190): it exists
\* for a fixed-length template and mappings that each name one of its fields
\* once, needs exactly the record, and no byte more of the destination than
\* the mapped field that reaches furthest.
PlanFitsTemplate ==
    status = "Ok" =>
        /\ \A i \in 1..Len(template) : template[i].length # VariableLength
        /\ IsInjective([i \in 1..Len(mappings) |-> mappings[i].element])
        /\ \A i \in 1..Len(mappings) : InTemplate(mappings[i].element)
        /\ src_record_len = OffsetOf(Len(template))
        /\ ReachesFurthest(dst_buf_len, EndsOf(Len(template)))

\* "Raw byte copy (no byte-swap). Used for 1-byte fields, MAC addresses,
\* octetArray, and string fields" (decode.rs 135-137): the bytes of such a
\* field are never moved by a swap.
OctetsAreCopied ==
    \A i \in 1..Len(ops) : \A n \in 1..field :
        (/\ template[n].element \in OctetElements /\ template[n].length > 0
         /\ ops[i].src = OffsetOf(n - 1))
        => ops[i].kind = "Copy"
=============================================================================
