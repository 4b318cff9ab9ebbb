---------------------------- MODULE RecordBytes ----------------------------
(***************************************************************************)
(* How the bytes of a data set are cut into records and fields under a     *)
(* template (src/record.rs): what the iterators of DataRecords compute     *)
(* from bytes and field lengths, free of their state.                      *)
(*                                                                         *)
(* A byte is a number below Base (256 in the code), and every constant the *)
(* code derives from the width of a byte is derived from Base here: the    *)
(* marker of a long length prefix, the 16-bit lengths, the reserved field  *)
(* length.  A small Base keeps every case of the code within reach of      *)
(* short buffers.  A template is the sequence of its field lengths.        *)
(***************************************************************************)
EXTENDS Integers, SequencesExt

CONSTANTS
    Base,              \* number of values of a byte
    MaxInlineVarlens   \* MAX_INLINE_VARLENS

ASSUME ByteAssumption ==
    /\ Base \in Nat \ {0, 1}
    /\ MaxInlineVarlens \in Nat \ {0}

Byte == 0..(Base - 1)
U16 == 0..(Base * Base - 1)
LongMarker == Base - 1           \* 0xFF announces a two-byte length
VariableLength == Base * Base - 1  \* VARIABLE_LENGTH, 0xFFFF

Take(bytes, n) == SubSeq(bytes, 1, n)
Drop(bytes, n) == SubSeq(bytes, n + 1, Len(bytes))

-----------------------------------------------------------------------------
(* DataRecordIter::new: one pass over the template.                        *)

\* Mutant: the length byte of a varlen field is counted as part of the gap
\* before the next one.
ScanFieldNoPrefix(s, length) ==
    LET skip == s.min - s.last_end
        fits == Len(s.skips) < MaxInlineVarlens /\ skip \in U16
    IN  IF length = VariableLength
        THEN [min |-> s.min + 1, last_end |-> s.min,
              skips |-> IF fits THEN Append(s.skips, skip) ELSE s.skips,
              overflow |-> s.overflow \/ ~fits]
        ELSE [min |-> s.min + length, last_end |-> s.last_end,
              skips |-> s.skips, overflow |-> s.overflow]

\* One field: skips[i] is the gap before varlen field i, as long as it and
\* the number of gaps fit the inline table.
ScanField(s, length) ==
    LET skip == s.min - s.last_end
        fits == Len(s.skips) < MaxInlineVarlens /\ skip \in U16
    IN  IF length = VariableLength
        THEN [min |-> s.min + 1, last_end |-> s.min + 1,
              skips |-> IF fits THEN Append(s.skips, skip) ELSE s.skips,
              overflow |-> s.overflow \/ ~fits]
        ELSE [min |-> s.min + length, last_end |-> s.last_end,
              skips |-> s.skips, overflow |-> s.overflow]

NothingScanned == [min |-> 0, last_end |-> 0, skips |-> <<>>, overflow |-> FALSE]

\* The pass, field by field.
Scans(fields) ==
    LET scan[n \in 0..Len(fields)] ==
            IF n = 0 THEN NothingScanned ELSE ScanField(scan[n - 1], fields[n])
    IN  scan

Scan(fields) == Scans(fields)[Len(fields)]

-----------------------------------------------------------------------------
(* The extent of one record.                                               *)

Eof == -1  \* Err(UnexpectedEof) in place of an offset

\* Where the variable-length field that starts at offset ends, its prefix
\* included; whether its contents fit is checked once, at the end.
VarlenEnd(bytes, offset) ==
    IF offset >= Len(bytes) THEN Eof
    ELSE IF bytes[offset + 1] < LongMarker THEN offset + 1 + bytes[offset + 1]
    ELSE IF offset + 3 > Len(bytes) THEN Eof
    ELSE offset + 3 + bytes[offset + 2] * Base + bytes[offset + 3]

Within(bytes, offset) == IF offset > Len(bytes) THEN Eof ELSE offset

\* record_extent: walk every field.
WalkOver(lengths, bytes) ==
    LET end[n \in 0..Len(lengths)] ==
            IF n = 0 THEN 0
            ELSE IF end[n - 1] = Eof THEN Eof
            ELSE IF lengths[n] = VariableLength THEN VarlenEnd(bytes, end[n - 1])
            ELSE end[n - 1] + lengths[n]
    IN  end

RecordEnd(lengths, bytes) ==
    LET last_end == WalkOver(lengths, bytes)[Len(lengths)]
    IN  IF last_end = Eof THEN Eof ELSE Within(bytes, last_end)

-----------------------------------------------------------------------------
(* One field at the front of what is left of a record.                     *)

CutOff(data, size) == [ok |-> TRUE, data |-> data, size |-> size]
CannotCut == [ok |-> FALSE, data |-> <<>>, size |-> 0]

\* The size of the length prefix of a varlen field.
PrefixSize(bytes) == IF bytes[1] < LongMarker THEN 1 ELSE 3

\* decode_variable_length for a varlen field, util::split for the others.
CutFrom(length, bytes) ==
    LET end == VarlenEnd(bytes, 0)
    IN  IF length # VariableLength
        THEN IF Len(bytes) < length THEN CannotCut ELSE CutOff(Take(bytes, length), length)
        ELSE IF end = Eof \/ end > Len(bytes) THEN CannotCut
             ELSE CutOff(SubSeq(bytes, PrefixSize(bytes) + 1, end), end)

-----------------------------------------------------------------------------
(* The reference: what a record is (RFC 7011 sections 3.4.3 and 7).        *)

\* A field of this length may stand between the two offsets.
Occupies(bytes, length, from, to) ==
    IF length # VariableLength THEN to = from + length
    ELSE \/ /\ from + 1 <= to
            /\ bytes[from + 1] = to - from - 1
            /\ bytes[from + 1] < LongMarker
         \/ /\ from + 3 <= to
            /\ bytes[from + 1] = LongMarker
            /\ bytes[from + 2] * Base + bytes[from + 3] = to - from - 3

\* The ways to cut one record off the front of bytes: the offsets at which its
\* fields end.
CutsOf(lengths, bytes) ==
    {ends \in [1..Len(lengths) -> 0..Len(bytes)] :
        \A n \in 1..Len(lengths) :
            LET from == IF n = 1 THEN 0 ELSE ends[n - 1]
            IN  from <= ends[n] /\ Occupies(bytes, lengths[n], from, ends[n])}
=============================================================================
