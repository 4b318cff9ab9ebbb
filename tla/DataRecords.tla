---------------------------- MODULE DataRecords ----------------------------
(***************************************************************************)
(* The records of a data set (src/record.rs): DataRecordIter cuts the set  *)
(* into records under a template, FieldIter cuts a record into fields.     *)
(* What they compute from bytes is in RecordBytes; here are their state    *)
(* and their steps.                                                        *)
(***************************************************************************)
EXTENDS RecordBytes

CONSTANTS
    FieldLengths,      \* the field lengths templates are made of
    MaxFields,         \* bound: fields of a template
    MaxBytes           \* bound: bytes of a data set

ASSUME RecordAssumption ==
    /\ FieldLengths \subseteq U16
    /\ MaxFields \in Nat \ {0}
    /\ MaxBytes \in Nat

VARIABLES
    template,        \* the field lengths of the template in force
    input,           \* the bytes of the set, as they were handed to the iterator
    min_record_size, \* DataRecordIter.min_record_size
    layout,          \* DataRecordIter.layout
    buf,             \* DataRecordIter.buf: the bytes not yet cut
    last,            \* what DataRecordIter::next returned last
    consumed,        \* history: the bytes of the records returned so far
    rest,            \* FieldIter.buf of the record returned last
    field_idx,       \* FieldIter.field_idx
    values           \* what FieldIter::next has returned for that record

setVars == <<template, input, min_record_size, layout>>
recordVars == <<buf, last, consumed>>
fieldVars == <<rest, field_idx, values>>
vars == <<setVars, recordVars, fieldVars>>

Templates == UNION {[1..n -> FieldLengths] : n \in 1..MaxFields}
Buffers == UNION {[1..n -> Byte] : n \in 0..MaxBytes}

-----------------------------------------------------------------------------
(* DataRecordIter::new.                                                    *)

\* The strategy for finding where a record ends.
LayoutOf(s) ==
    LET trailing == s.min - s.last_end
        kind == CASE s.skips = <<>> -> "AllFixed"
                  [] s.skips # <<>> /\ (s.overflow \/ trailing \notin U16) -> "Fallback"
                  [] OTHER -> "Inline"
    IN  [kind |-> kind, skips |-> s.skips, trailing |-> trailing]

-----------------------------------------------------------------------------
(* The extent of one record.                                               *)

\* record_extent_inline: hop from varlen field to varlen field.
Hops(bytes) ==
    LET end[n \in 0..Len(layout.skips)] ==
            IF n = 0 THEN 0
            ELSE IF end[n - 1] = Eof THEN Eof
            ELSE VarlenEnd(bytes, end[n - 1] + layout.skips[n])
    IN  end

ExtentInline(bytes) ==
    LET last_hop == Hops(bytes)[Len(layout.skips)]
    IN  IF last_hop = Eof THEN Eof ELSE Within(bytes, last_hop + layout.trailing)

Walk(bytes) == WalkOver(template, bytes)
ExtentWalked(bytes) == RecordEnd(template, bytes)

Extent(bytes) ==
    CASE layout.kind = "AllFixed" -> min_record_size
      [] layout.kind = "Inline"   -> ExtentInline(bytes)
      [] layout.kind = "Fallback" -> ExtentWalked(bytes)

-----------------------------------------------------------------------------
Init ==
    /\ template \in Templates
    /\ input \in Buffers
    /\ min_record_size = Scan(template).min
    /\ layout = LayoutOf(Scan(template))
    /\ buf = input
    /\ last = "Start"
    /\ consumed = <<>>
    /\ rest = <<>>
    /\ field_idx = 0
    /\ values = <<>>

\* DataRecordIter::next is called until it has returned None.
Polled == last # "None"

\* Fewer bytes than the smallest record are padding.
StopAtPadding ==
    /\ Polled
    /\ Len(buf) < min_record_size
    /\ buf' = <<>>
    /\ last' = "None"
    /\ UNCHANGED <<setVars, consumed, fieldVars>>

\* Mutant: the iterator does not give up the bytes it could not cut.
FailAndKeep ==
    /\ Polled
    /\ Len(buf) >= min_record_size
    /\ Extent(buf) = Eof
    /\ last' = "Err"
    /\ UNCHANGED <<setVars, buf, consumed, fieldVars>>

FailTruncated ==
    /\ Polled
    /\ Len(buf) >= min_record_size
    /\ Extent(buf) = Eof
    /\ buf' = <<>>
    /\ last' = "Err"
    /\ UNCHANGED <<setVars, consumed, fieldVars>>

\* Mutant: the iterator advances by the smallest record.
YieldAndAdvanceByMin ==
    /\ Polled
    /\ Len(buf) >= min_record_size
    /\ Extent(buf) # Eof
    /\ buf' = Drop(buf, min_record_size)
    /\ last' = "Record"
    /\ consumed' = consumed \o Take(buf, Extent(buf))
    /\ rest' = Take(buf, Extent(buf))
    /\ field_idx' = 0
    /\ values' = <<>>
    /\ UNCHANGED setVars

\* A record is returned, and fields() starts over on it.
YieldRecord ==
    /\ Polled
    /\ Len(buf) >= min_record_size
    /\ Extent(buf) # Eof
    /\ buf' = Drop(buf, Extent(buf))
    /\ last' = "Record"
    /\ consumed' = consumed \o Take(buf, Extent(buf))
    /\ rest' = Take(buf, Extent(buf))
    /\ field_idx' = 0
    /\ values' = <<>>
    /\ UNCHANGED setVars

NextRecord == StopAtPadding \/ FailTruncated \/ YieldRecord

\* Mutant: the length prefix is left in front of the next field.
CutFieldNotPrefix(length) ==
    LET end == VarlenEnd(rest, 0)
    IN  IF length # VariableLength
        THEN IF Len(rest) < length THEN CannotCut ELSE CutOff(Take(rest, length), length)
        ELSE IF end = Eof \/ end > Len(rest) THEN CannotCut
             ELSE CutOff(SubSeq(rest, PrefixSize(rest) + 1, end), end - PrefixSize(rest))

CutField(length) == CutFrom(length, rest)

\* Mutant: one field more than the template has.
NextFieldPastEnd ==
    /\ last = "Record"
    /\ field_idx <= Len(template)
    /\ field_idx' = field_idx + 1
    /\ UNCHANGED <<setVars, recordVars, rest, values>>

\* FieldIter::next.  A field that cannot be cut is reported and skipped: the
\* bytes stay where they are.
NextField ==
    /\ last = "Record"
    /\ field_idx < Len(template)
    /\ field_idx' = field_idx + 1
    /\ LET field == CutField(template[field_idx + 1])
       IN  /\ rest' = Drop(rest, field.size)
           /\ values' = Append(values, [ok |-> field.ok, data |-> field.data])
    /\ UNCHANGED <<setVars, recordVars>>

Next == NextRecord \/ NextField

\* The caller's for loop polls the iterator until it returns None.
Spec == Init /\ [][Next]_vars /\ WF_vars(NextRecord)

-----------------------------------------------------------------------------
\* The ways to cut one record off the front of bytes.
Cuts(bytes) == CutsOf(template, bytes)

-----------------------------------------------------------------------------
\* The iterators' fields and what they have returned are of their types.
TypeOK ==
    /\ template \in Seq(FieldLengths)
    /\ input \in Seq(Byte) /\ buf \in Seq(Byte) /\ consumed \in Seq(Byte) /\ rest \in Seq(Byte)
    /\ min_record_size \in Nat
    /\ layout \in [kind : {"AllFixed", "Inline", "Fallback"}, skips : Seq(U16), trailing : Nat]
    /\ last \in {"Start", "Record", "Err", "None"}
    /\ field_idx \in 0..Len(template)
    /\ values \in Seq([ok : BOOLEAN, data : Seq(Byte)])

\* The iterator returns a record exactly where the reference has one, and the
\* same bytes, whichever of the three layouts finds its extent; it stops or
\* reports an error only where no complete record is left (record.rs 263-304).
CutsWhatTheReferenceCuts ==
    IF Len(buf) < min_record_size \/ Extent(buf) = Eof
    THEN Cuts(buf) = {}
    ELSE Cuts(buf) # {} /\ \A ends \in Cuts(buf) : ends[Len(template)] = Extent(buf)

\* Every field of a returned record can be read: FieldIter walks the record with
\* code and bounds checks of its own (record.rs 79-134), and must agree with
\* the extent to the last byte.
FieldsCoverTheRecord ==
    last = "Record" =>
        /\ \A i \in 1..Len(values) : values[i].ok
        /\ field_idx = Len(template) => rest = <<>>

\* The records returned and what is left make up the set, in order, nothing
\* twice and nothing missing, until the iterator stops (record.rs 293-303).
NothingLost ==
    IF last \in {"Start", "Record"} THEN consumed \o buf = input
    ELSE buf = <<>> /\ IsPrefix(consumed, input)

\* A set is used up by a caller that keeps polling, errors or not, provided a
\* record takes at least one byte (record.rs 266-292: both ways out clear buf).
Terminates == min_record_size > 0 => <>(last = "None")

\* "A DataRecordIter over an empty slice must yield None immediately"
\* (record.rs 592-593): nothing is returned for a set of no bytes.
EmptySliceYieldsNone == input = <<>> => last \in {"Start", "None"}

\* "All fields are fixed-length. The record extent is exactly min_record_size"
\* (record.rs 168-169): where the layout says so, every record is that long.
AllFixedIsFixed ==
    layout.kind = "AllFixed" =>
        \A ends \in Cuts(buf) : ends[Len(template)] = min_record_size
=============================================================================
