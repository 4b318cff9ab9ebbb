-------------------------- MODULE DataRecordsProofs --------------------------
(***************************************************************************)
(* The record iterators of src/record.rs, for every width of a byte, every *)
(* template and every data set no longer than a 16-bit length can say: the *)
(* three ways to find the end of a record agree with the wire format, the  *)
(* field iterator agrees with them, and no byte is lost.                   *)
(*                                                                         *)
(* The recursive functions of DataRecords are opened by Recursion of the   *)
(* module Induction.                                                       *)
(***************************************************************************)
EXTENDS DataRecords, Induction, SequenceTheorems, TLAPS

-----------------------------------------------------------------------------
(* Bytes and the ends of fields.                                           *)

LEMMA BaseFacts ==
    /\ Base \in Nat /\ Base >= 2
    /\ LongMarker \in Nat
    /\ Base * Base \in Nat /\ VariableLength = Base * Base - 1
    /\ U16 = 0..VariableLength /\ VariableLength \in U16
    /\ FieldLengths \subseteq U16
<1>1. Base \in Nat /\ Base >= 2
    BY ByteAssumption DEF ByteAssumption
<1>2. Base * Base \in Nat /\ Base * Base >= 1
    BY <1>1
<1>. QED  BY <1>1, <1>2, RecordAssumption
          DEF RecordAssumption, LongMarker, VariableLength, U16

\* What the two or three bytes of a long prefix announce.
LEMMA LongLength ==
    ASSUME NEW a \in Byte, NEW b \in Byte
    PROVE  a * Base + b \in Nat
<1>1. a \in Nat /\ b \in Nat /\ Base \in Nat
    BY BaseFacts DEF Byte
<1>2. a * Base \in Nat
    BY <1>1
<1>. QED  BY <1>1, <1>2

LEMMA VarlenEndRange ==
    ASSUME NEW bytes \in Seq(Byte), NEW offset \in Nat
    PROVE  \/ VarlenEnd(bytes, offset) = Eof
           \/ VarlenEnd(bytes, offset) \in Nat /\ VarlenEnd(bytes, offset) > offset
<1>1. Len(bytes) \in Nat /\ \A i \in 1..Len(bytes) : bytes[i] \in Byte /\ bytes[i] \in Nat
    BY ElementOfSeq, LenProperties, BaseFacts DEF Byte
<1>2. CASE offset >= Len(bytes)
    BY <1>2 DEF VarlenEnd
<1>3. CASE offset < Len(bytes) /\ bytes[offset + 1] < LongMarker
    BY <1>1, <1>3 DEF VarlenEnd
<1>4. CASE offset < Len(bytes) /\ ~(bytes[offset + 1] < LongMarker) /\ offset + 3 > Len(bytes)
    BY <1>1, <1>4 DEF VarlenEnd
<1>5. CASE offset < Len(bytes) /\ ~(bytes[offset + 1] < LongMarker) /\ ~(offset + 3 > Len(bytes))
    <2>. DEFINE long == bytes[offset + 2] * Base + bytes[offset + 3]
    <2>0. bytes[offset + 2] \in Byte /\ bytes[offset + 3] \in Byte
        BY <1>1, <1>5
    <2>1. long \in Nat
        BY <2>0, LongLength
    <2>2. VarlenEnd(bytes, offset) = offset + 3 + long
        <3>1. VarlenEnd(bytes, offset) = offset + 3 + bytes[offset + 2] * Base + bytes[offset + 3]
            BY <1>1, <1>5 DEF VarlenEnd
        <3>2. bytes[offset + 2] * Base \in Nat /\ bytes[offset + 3] \in Nat
            BY <1>1, <1>5, BaseFacts
        <3>. QED  BY <3>1, <3>2
    <2>. HIDE DEF long
    <2>. QED  BY <2>1, <2>2
<1>. QED  BY <1>1, <1>2, <1>3, <1>4, <1>5

\* Where the code finds the end of a varlen field is where the reference has it.
LEMMA VarlenOccupies ==
    ASSUME NEW bytes \in Seq(Byte), NEW from \in Nat, NEW to \in from..Len(bytes)
    PROVE  Occupies(bytes, VariableLength, from, to) <=> VarlenEnd(bytes, from) = to
<1>1. Len(bytes) \in Nat /\ \A i \in 1..Len(bytes) : bytes[i] \in Byte /\ bytes[i] \in 0..LongMarker
    BY ElementOfSeq, LenProperties, BaseFacts DEF Byte, LongMarker
<1>2. CASE from >= Len(bytes)
    BY <1>1, <1>2 DEF VarlenEnd, Occupies, Eof
<1>3. CASE from < Len(bytes) /\ bytes[from + 1] < LongMarker
    <2>1. bytes[from + 1] \in 0..LongMarker
        BY <1>1, <1>3
    <2>2. VarlenEnd(bytes, from) = from + 1 + bytes[from + 1]
        BY <1>1, <1>3 DEF VarlenEnd
    <2>3. Occupies(bytes, VariableLength, from, to) <=>
              from + 1 <= to /\ bytes[from + 1] = to - from - 1
        BY <1>3, <2>1, BaseFacts DEF Occupies
    <2>. QED  BY <1>1, <2>1, <2>2, <2>3
<1>4. CASE from < Len(bytes) /\ ~(bytes[from + 1] < LongMarker)
    <2>1. bytes[from + 1] = LongMarker
        <3>1. bytes[from + 1] \in 0..LongMarker
            BY <1>1, <1>4
        <3>. QED  BY <1>4, <3>1, BaseFacts
    <2>2. CASE from + 3 > Len(bytes)
        BY <1>1, <1>4, <2>1, <2>2, BaseFacts DEF VarlenEnd, Occupies, Eof
    <2>3. CASE ~(from + 3 > Len(bytes))
        <3>. DEFINE long == bytes[from + 2] * Base + bytes[from + 3]
        <3>0. bytes[from + 2] \in Byte /\ bytes[from + 3] \in Byte
            BY <1>1, <1>4, <2>3
        <3>1. long \in Nat
            BY <3>0, LongLength
        <3>2. VarlenEnd(bytes, from) = from + 3 + long
            <4>1. VarlenEnd(bytes, from) = from + 3 + bytes[from + 2] * Base + bytes[from + 3]
                BY <1>1, <1>4, <2>3 DEF VarlenEnd
            <4>2. bytes[from + 2] * Base \in Nat /\ bytes[from + 3] \in Nat
                BY <1>1, <1>4, <2>3, BaseFacts
            <4>. QED  BY <4>1, <4>2
        <3>3. Occupies(bytes, VariableLength, from, to) <=> from + 3 <= to /\ long = to - from - 3
            BY <2>1, BaseFacts DEF Occupies
        <3>. HIDE DEF long
        <3>. QED  BY <1>1, <3>1, <3>2, <3>3
    <2>. QED  BY <2>2, <2>3
<1>. QED  BY <1>1, <1>2, <1>3, <1>4

\* A field occupies the same bytes in a part of the buffer that holds it.
LEMMA OccupiesInPart ==
    ASSUME NEW bytes \in Seq(Byte), NEW d \in 0..Len(bytes), NEW e \in d..Len(bytes),
           NEW length \in Nat, NEW from \in 0..(e - d), NEW to \in from..(e - d)
    PROVE  Occupies(SubSeq(bytes, d + 1, e), length, from, to)
               <=> Occupies(bytes, length, from + d, to + d)
<1>. DEFINE part == SubSeq(bytes, d + 1, e)
<1>1. Len(bytes) \in Nat
    BY LenProperties
<1>2. \A i \in 1..(e - d) : part[i] = bytes[i + d]
    <2>1. \A i \in (d + 1)..e : bytes[i] \in Byte
        BY <1>1, ElementOfSeq
    <2>2. \A i \in 1..(e - (d + 1) + 1) : part[i] = bytes[(d + 1) + i - 1]
        BY <1>1, <2>1, SubSeqProperties
    <2>. QED  BY <1>1, <2>2
<1>. HIDE DEF part
<1>3. \A k \in 1..3 : from + k <= to => part[from + k] = bytes[from + d + k]
    <2>. SUFFICES ASSUME NEW k \in 1..3, from + k <= to
                  PROVE  part[from + k] = bytes[from + d + k]
        OBVIOUS
    <2>1. from + k \in 1..(e - d) /\ (from + k) + d = from + d + k
        BY <1>1
    <2>. QED  BY <1>2, <2>1
<1>4. to - from - 1 = (to + d) - (from + d) - 1 /\ to - from - 3 = (to + d) - (from + d) - 3
    BY <1>1
<1>5. Occupies(part, length, from, to) <=> Occupies(bytes, length, from + d, to + d)
    BY <1>1, <1>3, <1>4 DEF Occupies
<1>. QED  BY <1>5 DEF part

-----------------------------------------------------------------------------
(* The scan of a template.                                                 *)

ScanStates ==
    {s \in [min : Nat, last_end : Nat, skips : Seq(U16), overflow : BOOLEAN] :
        s.last_end <= s.min /\ (s.skips # <<>> => s.min >= 1)}

\* What a fixed field and a varlen field add to the scan.
FixedScanned(s, t, length) ==
    /\ t.min = s.min + length /\ t.last_end = s.last_end
    /\ t.skips = s.skips /\ t.overflow = s.overflow

VarlenScanned(s, t) ==
    /\ t.min = s.min + 1 /\ t.last_end = s.min + 1
    /\ IF Len(s.skips) < MaxInlineVarlens /\ s.min - s.last_end \in U16
       THEN t.skips = Append(s.skips, s.min - s.last_end) /\ t.overflow = s.overflow
       ELSE t.skips = s.skips /\ t.overflow = TRUE

LEMMA FieldScanned ==
    ASSUME NEW s \in ScanStates, NEW length \in U16
    PROVE  /\ ScanField(s, length) \in ScanStates
           /\ length # VariableLength => FixedScanned(s, ScanField(s, length), length)
           /\ length = VariableLength => VarlenScanned(s, ScanField(s, length))
<1>. DEFINE t == ScanField(s, length)
            skip == s.min - s.last_end
            fits == Len(s.skips) < MaxInlineVarlens /\ skip \in U16
<1>1. /\ s.min \in Nat /\ s.last_end \in Nat /\ s.skips \in Seq(U16) /\ s.overflow \in BOOLEAN
      /\ s.last_end <= s.min /\ (s.skips # <<>> => s.min >= 1)
    BY DEF ScanStates
<1>2. length \in Nat
    BY BaseFacts
<1>3. CASE length # VariableLength
    <2>1. t = [min |-> s.min + length, last_end |-> s.last_end,
               skips |-> s.skips, overflow |-> s.overflow]
        BY <1>3 DEF ScanField
    <2>2. t \in ScanStates
        BY <1>1, <1>2, <2>1 DEF ScanStates
    <2>3. FixedScanned(s, t, length)
        BY <2>1 DEF FixedScanned
    <2>. QED  BY <1>3, <2>2, <2>3
<1>4. CASE length = VariableLength
    <2>1. t = [min |-> s.min + 1, last_end |-> s.min + 1,
               skips |-> IF fits THEN Append(s.skips, skip) ELSE s.skips,
               overflow |-> s.overflow \/ ~fits]
        BY <1>4 DEF ScanField
    <2>2. CASE fits
        <3>1. t = [min |-> s.min + 1, last_end |-> s.min + 1,
                   skips |-> Append(s.skips, skip), overflow |-> s.overflow]
            BY <1>1, <2>1, <2>2
        <3>2. Append(s.skips, skip) \in Seq(U16)
            BY <1>1, <2>2, AppendProperties
        <3>3. t \in ScanStates
            BY <1>1, <3>1, <3>2 DEF ScanStates
        <3>4. VarlenScanned(s, t)
            BY <2>2, <3>1 DEF VarlenScanned
        <3>. QED  BY <1>4, <3>3, <3>4
    <2>3. CASE ~fits
        <3>1. t = [min |-> s.min + 1, last_end |-> s.min + 1,
                   skips |-> s.skips, overflow |-> TRUE]
            BY <1>1, <2>1, <2>3
        <3>2. t \in ScanStates
            BY <1>1, <3>1 DEF ScanStates
        <3>3. t.min = s.min + 1 /\ t.last_end = s.min + 1 /\ t.skips = s.skips /\ t.overflow = TRUE
            BY <3>1
        <3>4. VarlenScanned(s, t)
            BY <2>3, <3>3, Zenon DEF VarlenScanned
        <3>. QED  BY <1>4, <3>2, <3>4
    <2>. QED  BY <2>2, <2>3
<1>. QED  BY <1>3, <1>4

LEMMA ScansFacts ==
    ASSUME NEW fields \in Seq(U16)
    PROVE  /\ Scans(fields) \in [0..Len(fields) -> ScanStates]
           /\ Scans(fields)[0] = NothingScanned
           /\ \A n \in 1..Len(fields) :
                  Scans(fields)[n] = ScanField(Scans(fields)[n - 1], fields[n])
<1>. DEFINE N == Len(fields)
            step == [i \in 1..N |-> [s \in ScanStates |-> ScanField(s, fields[i])]]
<1>1. N \in Nat /\ \A i \in 1..N : fields[i] \in U16
    BY LenProperties, ElementOfSeq
<1>2. NothingScanned \in ScanStates
    BY EmptySeq DEF NothingScanned, ScanStates
<1>3. step \in [1..N -> [ScanStates -> ScanStates]]
    BY <1>1, FieldScanned
<1>4. \A i \in 1..N : \A s \in ScanStates : step[i][s] = ScanField(s, fields[i])
    OBVIOUS
<1>. HIDE DEF step
<1>5. PICK f \in [0..N -> ScanStates] : Steps(f, N, NothingScanned, step)
    BY <1>1, <1>2, <1>3, Recursion
<1>6. ASSUME NEW n \in 1..N
      PROVE  f[n] = ScanField(f[n - 1], fields[n])
    <2>1. f[n - 1] \in ScanStates
        BY <1>1, <1>5
    <2>2. f[n] = step[n][f[n - 1]]
        BY <1>5 DEF Steps
    <2>. QED  BY <1>4, <2>1, <2>2
<1>7. f = [n \in 0..N |-> IF n = 0 THEN NothingScanned ELSE ScanField(f[n - 1], fields[n])]
    BY <1>5, <1>6 DEF Steps
<1>8. Scans(fields) =
          [n \in 0..N |-> IF n = 0 THEN NothingScanned
                          ELSE ScanField(Scans(fields)[n - 1], fields[n])]
    BY <1>7, Zenon DEF Scans
<1>. DEFINE T == {n \in 0..N : Scans(fields)[n] \in ScanStates}
<1>9. /\ Scans(fields)[0] = NothingScanned
      /\ \A n \in 1..N : Scans(fields)[n] = ScanField(Scans(fields)[n - 1], fields[n])
    BY <1>1, <1>8
<1>10. 0..N \subseteq T
    <2>1. 0 \in T
        BY <1>1, <1>2, <1>9
    <2>2. ASSUME NEW n \in 1..N, n - 1 \in T  PROVE n \in T
        BY <1>1, <1>9, <2>2, FieldScanned
    <2>. HIDE DEF T
    <2>3. \A n \in 1..N : n - 1 \in T => n \in T
        BY <2>2
    <2>. QED  BY <1>1, <2>1, <2>3, UpTo
<1>11. Scans(fields) \in [0..N -> ScanStates]
    BY <1>8, <1>10
<1>. QED  BY <1>9, <1>11

LEMMA StateFacts ==
    ASSUME NEW s \in ScanStates
    PROVE  /\ s.min \in Nat /\ s.last_end \in Nat /\ s.last_end <= s.min
           /\ s.skips \in Seq(U16) /\ Len(s.skips) \in Nat /\ s.overflow \in BOOLEAN
           /\ s.skips # <<>> => s.min >= 1
<1>1. s.skips \in Seq(U16)
    BY DEF ScanStates
<1>. QED  BY <1>1, LenProperties DEF ScanStates

LEMMA ScanStep ==
    ASSUME NEW fields \in Seq(U16), NEW n \in 1..Len(fields)
    PROVE  /\ Scans(fields)[n - 1] \in ScanStates /\ Scans(fields)[n] \in ScanStates
           /\ fields[n] # VariableLength =>
                  FixedScanned(Scans(fields)[n - 1], Scans(fields)[n], fields[n])
           /\ fields[n] = VariableLength =>
                  VarlenScanned(Scans(fields)[n - 1], Scans(fields)[n])
<1>1. Len(fields) \in Nat /\ fields[n] \in U16
    BY LenProperties, ElementOfSeq
<1>2. /\ Scans(fields)[n - 1] \in ScanStates /\ Scans(fields)[n] \in ScanStates
      /\ Scans(fields)[n] = ScanField(Scans(fields)[n - 1], fields[n])
    BY <1>1, ScansFacts
<1>. QED  BY <1>1, <1>2, FieldScanned

-----------------------------------------------------------------------------
(* The walk from field to field, and the reference.                        *)

Ends == {Eof} \cup Nat

\* Where a field ends that starts where the one before it ended.
FieldEnd(bytes, length, from) ==
    IF from = Eof THEN Eof
    ELSE IF length = VariableLength THEN VarlenEnd(bytes, from) ELSE from + length

LEMMA FieldEndRange ==
    ASSUME NEW bytes \in Seq(Byte), NEW length \in U16, NEW from \in Ends
    PROVE  /\ FieldEnd(bytes, length, from) \in Ends
           /\ FieldEnd(bytes, length, from) # Eof =>
                  /\ from \in Nat /\ FieldEnd(bytes, length, from) \in Nat
                  /\ length = VariableLength => FieldEnd(bytes, length, from) > from
                  /\ length # VariableLength => FieldEnd(bytes, length, from) = from + length
                  /\ FieldEnd(bytes, length, from) >= from
<1>1. length \in Nat
    BY BaseFacts
<1>2. CASE from = Eof
    BY <1>2 DEF FieldEnd, Ends
<1>3. CASE from # Eof /\ length # VariableLength
    BY <1>1, <1>3 DEF FieldEnd, Ends, Eof
<1>4. CASE from # Eof /\ length = VariableLength
    <2>1. from \in Nat
        BY <1>4 DEF Ends
    <2>2. FieldEnd(bytes, length, from) = VarlenEnd(bytes, from)
        BY <1>4 DEF FieldEnd
    <2>. QED  BY <1>4, <2>1, <2>2, VarlenEndRange DEF Ends
<1>. QED  BY <1>2, <1>3, <1>4

LEMMA FieldEndOccupies ==
    ASSUME NEW bytes \in Seq(Byte), NEW length \in U16,
           NEW from \in Nat, NEW to \in from..Len(bytes)
    PROVE  Occupies(bytes, length, from, to) <=> FieldEnd(bytes, length, from) = to
<1>1. from # Eof
    BY DEF Eof
<1>2. CASE length = VariableLength
    BY <1>1, <1>2, VarlenOccupies DEF FieldEnd
<1>3. CASE length # VariableLength
    BY <1>1, <1>3 DEF FieldEnd, Occupies
<1>. QED  BY <1>2, <1>3

LEMMA WalkFacts ==
    ASSUME template \in Seq(U16), NEW bytes \in Seq(Byte)
    PROVE  /\ Walk(bytes)[0] = 0
           /\ \A n \in 1..Len(template) :
                  Walk(bytes)[n] = FieldEnd(bytes, template[n], Walk(bytes)[n - 1])
           /\ \A n \in 0..Len(template) : Walk(bytes)[n] \in Ends
<1>. DEFINE N == Len(template)
            step == [i \in 1..N |-> [e \in Ends |-> FieldEnd(bytes, template[i], e)]]
<1>1. N \in Nat /\ \A i \in 1..N : template[i] \in U16
    BY LenProperties, ElementOfSeq
<1>2. 0 \in Ends
    BY DEF Ends
<1>3. step \in [1..N -> [Ends -> Ends]]
    BY <1>1, FieldEndRange
<1>4. \A i \in 1..N : \A e \in Ends : step[i][e] = FieldEnd(bytes, template[i], e)
    OBVIOUS
<1>. HIDE DEF step
<1>5. PICK f \in [0..N -> Ends] : Steps(f, N, 0, step)
    BY <1>1, <1>2, <1>3, Recursion
<1>6. ASSUME NEW n \in 1..N
      PROVE  f[n] = FieldEnd(bytes, template[n], f[n - 1])
    <2>1. f[n - 1] \in Ends
        BY <1>1, <1>5
    <2>2. f[n] = step[n][f[n - 1]]
        BY <1>5 DEF Steps
    <2>. QED  BY <1>4, <2>1, <2>2
<1>7. f = [n \in 0..N |-> IF n = 0 THEN 0
                          ELSE IF f[n - 1] = Eof THEN Eof
                          ELSE IF template[n] = VariableLength THEN VarlenEnd(bytes, f[n - 1])
                          ELSE f[n - 1] + template[n]]
    BY <1>1, <1>5, <1>6 DEF Steps, FieldEnd
<1>8. Walk(bytes) =
          [n \in 0..N |-> IF n = 0 THEN 0
                          ELSE IF Walk(bytes)[n - 1] = Eof THEN Eof
                          ELSE IF template[n] = VariableLength
                               THEN VarlenEnd(bytes, Walk(bytes)[n - 1])
                          ELSE Walk(bytes)[n - 1] + template[n]]
    BY <1>7, Zenon DEF Walk, WalkOver
<1>9. /\ Walk(bytes)[0] = 0
      /\ \A n \in 1..N : Walk(bytes)[n] = FieldEnd(bytes, template[n], Walk(bytes)[n - 1])
    BY <1>1, <1>8 DEF FieldEnd
<1>. DEFINE T == {n \in 0..N : Walk(bytes)[n] \in Ends}
<1>10. 0..N \subseteq T
    <2>1. 0 \in T
        BY <1>1, <1>2, <1>9
    <2>2. ASSUME NEW n \in 1..N, n - 1 \in T  PROVE n \in T
        BY <1>1, <1>9, <2>2, FieldEndRange
    <2>. HIDE DEF T
    <2>3. \A n \in 1..N : n - 1 \in T => n \in T
        BY <2>2
    <2>. QED  BY <1>1, <2>1, <2>3, UpTo
<1>. QED  BY <1>9, <1>10

\* The walk never goes back.
LEMMA WalkGrows ==
    ASSUME template \in Seq(U16), NEW bytes \in Seq(Byte),
           NEW n \in 0..Len(template), NEW m \in 0..n, Walk(bytes)[n] # Eof
    PROVE  Walk(bytes)[m] \in Nat /\ Walk(bytes)[n] \in Nat /\ Walk(bytes)[m] <= Walk(bytes)[n]
<1>. DEFINE N == Len(template)
            Before(a, b) == Walk(bytes)[b] # Eof => /\ Walk(bytes)[a] \in Nat /\ Walk(bytes)[b] \in Nat
                                                    /\ Walk(bytes)[a] <= Walk(bytes)[b]
            T == {b \in 0..N : \A a \in 0..b : Before(a, b)}
<1>1. N \in Nat /\ \A i \in 1..N : template[i] \in U16
    BY LenProperties, ElementOfSeq
<1>2. 0 \in T
    BY <1>1, WalkFacts
<1>3. ASSUME NEW b \in 1..N, b - 1 \in T  PROVE b \in T
    <2>1. ASSUME NEW a \in 0..b, Walk(bytes)[b] # Eof
          PROVE  /\ Walk(bytes)[a] \in Nat /\ Walk(bytes)[b] \in Nat
                 /\ Walk(bytes)[a] <= Walk(bytes)[b]
        <3>1. /\ Walk(bytes)[b] = FieldEnd(bytes, template[b], Walk(bytes)[b - 1])
              /\ Walk(bytes)[b - 1] \in Ends
            BY <1>1, WalkFacts
        <3>2. /\ Walk(bytes)[b - 1] \in Nat /\ Walk(bytes)[b] \in Nat
              /\ Walk(bytes)[b] >= Walk(bytes)[b - 1]
            BY <1>1, <2>1, <3>1, FieldEndRange
        <3>3. CASE a = b
            BY <3>2, <3>3
        <3>4. CASE a # b
            <4>1. a \in 0..(b - 1) /\ Walk(bytes)[b - 1] # Eof
                BY <3>2, <3>4 DEF Eof
            <4>2. Walk(bytes)[a] \in Nat /\ Walk(bytes)[a] <= Walk(bytes)[b - 1]
                BY <1>3, <4>1
            <4>. QED  BY <3>2, <4>2
        <3>. QED  BY <3>3, <3>4
    <2>. QED  BY <2>1
<1>4. n \in T
    <2>. HIDE DEF T
    <2>1. \A b \in 1..N : b - 1 \in T => b \in T
        BY <1>3
    <2>. QED  BY <1>1, <1>2, <2>1, UpTo
<1>. QED  BY <1>4

\* A cut of the reference follows the walk, so there is one at most.
LEMMA CutFollowsWalk ==
    ASSUME template \in Seq(U16), NEW bytes \in Seq(Byte), NEW ends \in Cuts(bytes)
    PROVE  \A n \in 1..Len(template) : ends[n] = Walk(bytes)[n]
<1>. DEFINE N == Len(template)
            T == {n \in 0..N : n = 0 \/ ends[n] = Walk(bytes)[n]}
<1>1. N \in Nat /\ Len(bytes) \in Nat /\ \A i \in 1..N : template[i] \in U16
    BY LenProperties, ElementOfSeq
<1>2. /\ \A n \in 1..N : ends[n] \in 0..Len(bytes)
      /\ \A n \in 1..N : LET from == IF n = 1 THEN 0 ELSE ends[n - 1]
                         IN  from <= ends[n] /\ Occupies(bytes, template[n], from, ends[n])
    BY DEF Cuts, CutsOf
<1>3. ASSUME NEW n \in 1..N, n - 1 \in T  PROVE n \in T
    <2>. DEFINE from == IF n = 1 THEN 0 ELSE ends[n - 1]
    <2>1. from = Walk(bytes)[n - 1]
        BY <1>3, WalkFacts
    <2>2. from <= ends[n] /\ Occupies(bytes, template[n], from, ends[n])
        BY <1>2
    <2>3. from \in Nat
        BY <1>1, <1>2
    <2>. HIDE DEF from
    <2>4. ends[n] = FieldEnd(bytes, template[n], from)
        BY <1>1, <1>2, <2>2, <2>3, FieldEndOccupies
    <2>5. ends[n] = Walk(bytes)[n]
        BY <2>1, <2>4, WalkFacts
    <2>. QED  BY <2>5
<1>4. 0..N \subseteq T
    <2>1. 0 \in T
        BY <1>1
    <2>. HIDE DEF T
    <2>2. \A n \in 1..N : n - 1 \in T => n \in T
        BY <1>3
    <2>. QED  BY <1>1, <2>1, <2>2, UpTo
<1>. QED  BY <1>1, <1>4

\* A walk that stays inside the buffer is a cut.
LEMMA WalkIsACut ==
    ASSUME template \in Seq(U16), NEW bytes \in Seq(Byte),
           Walk(bytes)[Len(template)] # Eof, Walk(bytes)[Len(template)] <= Len(bytes)
    PROVE  [n \in 1..Len(template) |-> Walk(bytes)[n]] \in Cuts(bytes)
<1>. DEFINE N == Len(template)
            ends == [n \in 1..N |-> Walk(bytes)[n]]
<1>1. N \in Nat /\ Len(bytes) \in Nat /\ \A i \in 1..N : template[i] \in U16
    BY LenProperties, ElementOfSeq
<1>2. \A n \in 0..N : Walk(bytes)[n] \in 0..Len(bytes)
    <2>1. ASSUME NEW n \in 0..N  PROVE Walk(bytes)[n] \in 0..Len(bytes)
        <3>1. Walk(bytes)[n] \in Nat /\ Walk(bytes)[N] \in Nat /\ Walk(bytes)[n] <= Walk(bytes)[N]
            BY <1>1, WalkGrows
        <3>. QED  BY <1>1, <3>1
    <2>. QED  BY <2>1
<1>3. ends \in [1..N -> 0..Len(bytes)]
    BY <1>1, <1>2
<1>4. ASSUME NEW n \in 1..N
      PROVE  LET from == IF n = 1 THEN 0 ELSE ends[n - 1]
             IN  from <= ends[n] /\ Occupies(bytes, template[n], from, ends[n])
    <2>. DEFINE from == Walk(bytes)[n - 1]
                to == Walk(bytes)[n]
    <2>1. (IF n = 1 THEN 0 ELSE ends[n - 1]) = from /\ ends[n] = to
        BY <1>1, WalkFacts
    <2>2. from \in 0..Len(bytes) /\ to \in 0..Len(bytes)
        BY <1>1, <1>2
    <2>3. to = FieldEnd(bytes, template[n], from)
        BY <1>1, WalkFacts
    <2>. HIDE DEF from, to
    <2>4. from <= to
        BY <1>1, <2>2, <2>3, FieldEndRange DEF Ends, Eof
    <2>5. Occupies(bytes, template[n], from, to)
        BY <1>1, <2>2, <2>3, <2>4, FieldEndOccupies
    <2>. QED  BY <2>1, <2>4, <2>5
<1>. HIDE DEF ends
<1>5. ends \in Cuts(bytes)
    BY <1>3, <1>4 DEF Cuts, CutsOf
<1>. QED  BY <1>5 DEF ends

\* The walk decides what the reference cuts.
LEMMA WalkedExtent ==
    ASSUME template \in Seq(U16), Len(template) >= 1, NEW bytes \in Seq(Byte)
    PROVE  /\ ExtentWalked(bytes) = Eof => Cuts(bytes) = {}
           /\ ExtentWalked(bytes) # Eof =>
                  /\ ExtentWalked(bytes) \in 0..Len(bytes)
                  /\ [n \in 1..Len(template) |-> Walk(bytes)[n]] \in Cuts(bytes)
                  /\ \A ends \in Cuts(bytes) : ends[Len(template)] = ExtentWalked(bytes)
<1>. DEFINE N == Len(template)
            end == Walk(bytes)[N]
<1>1. N \in 1..N /\ Len(bytes) \in Nat
    BY LenProperties
<1>2. end \in Ends
    BY <1>1, WalkFacts
<1>3. ExtentWalked(bytes) = IF end = Eof \/ end > Len(bytes) THEN Eof ELSE end
    BY DEF ExtentWalked, RecordEnd, Walk, Within
<1>4. \A ends \in Cuts(bytes) : ends[N] \in 0..Len(bytes) /\ ends[N] = end
    <2>1. \A ends \in Cuts(bytes) : ends[N] \in 0..Len(bytes)
        BY <1>1 DEF Cuts, CutsOf
    <2>. QED  BY <1>1, <2>1, CutFollowsWalk
<1>. HIDE DEF end
<1>5. CASE end = Eof \/ end > Len(bytes)
    <2>1. \A ends \in Cuts(bytes) : FALSE
        BY <1>1, <1>4, <1>5 DEF Eof
    <2>. QED  BY <1>3, <1>5, <2>1
<1>6. CASE ~(end = Eof \/ end > Len(bytes))
    <2>1. end \in 0..Len(bytes) /\ end # Eof
        BY <1>1, <1>2, <1>6 DEF Ends
    <2>2. [n \in 1..Len(template) |-> Walk(bytes)[n]] \in Cuts(bytes)
        BY <1>1, <2>1, WalkIsACut DEF end
    <2>. QED  BY <1>3, <1>4, <1>6, <2>1, <2>2
<1>. QED  BY <1>5, <1>6

-----------------------------------------------------------------------------
(* The three layouts.                                                      *)

\* A later state of the scan.
Continues(s, t) ==
    /\ s.min <= t.min
    /\ Len(s.skips) <= Len(t.skips) /\ \A j \in 1..Len(s.skips) : t.skips[j] = s.skips[j]
    /\ s.overflow => t.overflow

LEMMA FieldContinues ==
    ASSUME NEW s \in ScanStates, NEW length \in U16
    PROVE  Continues(s, ScanField(s, length))
<1>. DEFINE t == ScanField(s, length)
<1>1. /\ s.min \in Nat /\ s.skips \in Seq(U16) /\ Len(s.skips) \in Nat /\ length \in Nat
    BY BaseFacts, LenProperties DEF ScanStates
<1>2. CASE length # VariableLength
    <2>1. FixedScanned(s, t, length)
        BY <1>2, FieldScanned
    <2>. HIDE DEF t
    <2>. QED  BY <1>1, <2>1 DEF FixedScanned, Continues, t
<1>3. CASE length = VariableLength
    <2>1. VarlenScanned(s, t)
        BY <1>3, FieldScanned
    <2>. HIDE DEF t
    <2>2. t.min = s.min + 1 /\ s.min <= t.min
        BY <1>1, <2>1 DEF VarlenScanned
    <2>3. CASE Len(s.skips) < MaxInlineVarlens /\ s.min - s.last_end \in U16
        <3>1. t.skips = Append(s.skips, s.min - s.last_end) /\ t.overflow = s.overflow
            BY <2>1, <2>3, Zenon DEF VarlenScanned
        <3>2. /\ Len(t.skips) = Len(s.skips) + 1
              /\ \A j \in 1..Len(s.skips) : t.skips[j] = s.skips[j]
            BY <1>1, <2>3, <3>1, AppendProperties
        <3>. QED  BY <1>1, <2>2, <3>1, <3>2 DEF Continues, t
    <2>4. CASE ~(Len(s.skips) < MaxInlineVarlens /\ s.min - s.last_end \in U16)
        <3>1. t.skips = s.skips /\ t.overflow = TRUE
            BY <2>1, <2>4, Zenon DEF VarlenScanned
        <3>2. s.overflow => t.overflow
            BY <3>1, Zenon
        <3>3. Len(s.skips) <= Len(t.skips) /\ \A j \in 1..Len(s.skips) : t.skips[j] = s.skips[j]
            BY <1>1, <3>1
        <3>. QED  BY <2>2, <3>2, <3>3, Zenon DEF Continues, t
    <2>. QED  BY <2>3, <2>4
<1>. QED  BY <1>2, <1>3

LEMMA ContinuesOn ==
    ASSUME NEW s \in ScanStates, NEW t \in ScanStates, NEW u \in ScanStates,
           Continues(s, t), Continues(t, u)
    PROVE  Continues(s, u)
<1>1. /\ s.min \in Nat /\ t.min \in Nat /\ u.min \in Nat
      /\ Len(s.skips) \in Nat /\ Len(t.skips) \in Nat /\ Len(u.skips) \in Nat
    BY LenProperties DEF ScanStates
<1>2. s.overflow => u.overflow
    BY Zenon DEF Continues
<1>3. /\ s.min <= u.min
      /\ Len(s.skips) <= Len(u.skips) /\ \A j \in 1..Len(s.skips) : u.skips[j] = s.skips[j]
    BY <1>1 DEF Continues
<1>. QED  BY <1>2, <1>3, Zenon DEF Continues

LEMMA ScanContinues ==
    ASSUME NEW fields \in Seq(U16), NEW n \in 0..Len(fields), NEW m \in 0..n
    PROVE  Continues(Scans(fields)[m], Scans(fields)[n])
<1>. DEFINE N == Len(fields)
            T == {b \in 0..N : \A a \in 0..b : Continues(Scans(fields)[a], Scans(fields)[b])}
<1>1. N \in Nat /\ \A i \in 1..N : fields[i] \in U16
    BY LenProperties, ElementOfSeq
<1>2. \A b \in 0..N : /\ Scans(fields)[b] \in ScanStates
                      /\ Continues(Scans(fields)[b], Scans(fields)[b])
    <2>1. ASSUME NEW s \in ScanStates  PROVE Continues(s, s)
        <3>1. s.min \in Nat /\ Len(s.skips) \in Nat
            BY LenProperties DEF ScanStates
        <3>. QED  BY <3>1 DEF Continues
    <2>. QED  BY <2>1, ScansFacts
<1>3. 0 \in T
    BY <1>1, <1>2
<1>4. ASSUME NEW b \in 1..N, b - 1 \in T  PROVE b \in T
    <2>1. ASSUME NEW a \in 0..b  PROVE Continues(Scans(fields)[a], Scans(fields)[b])
        <3>1. CASE a = b
            BY <1>1, <1>2, <3>1
        <3>2. CASE a # b
            <4>1. a \in 0..(b - 1) /\ a \in 0..N /\ b - 1 \in 0..N /\ b \in 0..N
                BY <1>1, <3>2
            <4>2. Continues(Scans(fields)[a], Scans(fields)[b - 1])
                BY <1>4, <4>1
            <4>3. Scans(fields)[b] = ScanField(Scans(fields)[b - 1], fields[b])
                BY <1>1, ScansFacts
            <4>4. Continues(Scans(fields)[b - 1], Scans(fields)[b])
                BY <1>1, <1>2, <4>1, <4>3, FieldContinues
            <4>. QED  BY <1>2, <4>1, <4>2, <4>4, ContinuesOn
        <3>. QED  BY <3>1, <3>2
    <2>. QED  BY <1>1, <2>1
<1>5. n \in T
    <2>. HIDE DEF T
    <2>1. \A b \in 1..N : b - 1 \in T => b \in T
        BY <1>4
    <2>. QED  BY <1>1, <1>3, <2>1, UpTo
<1>. QED  BY <1>5

\* A record takes at least the bytes the scan has counted.
LEMMA WalkedMin ==
    ASSUME template \in Seq(U16), NEW bytes \in Seq(Byte), NEW n \in 0..Len(template)
    PROVE  Walk(bytes)[n] # Eof => Walk(bytes)[n] >= Scans(template)[n].min
<1>. DEFINE N == Len(template)
            T == {b \in 0..N : Walk(bytes)[b] # Eof => Walk(bytes)[b] >= Scans(template)[b].min}
<1>1. N \in Nat /\ \A i \in 1..N : template[i] \in U16 /\ template[i] \in Nat
    BY LenProperties, ElementOfSeq, BaseFacts
<1>2. 0 \in T
    BY <1>1, WalkFacts, ScansFacts DEF NothingScanned
<1>3. ASSUME NEW b \in 1..N, b - 1 \in T  PROVE b \in T
    <2>. DEFINE s == Scans(template)[b - 1]
                t == Scans(template)[b]
                from == Walk(bytes)[b - 1]
                to == Walk(bytes)[b]
    <2>1. s.min \in Nat
        BY <1>1, ScanStep, StateFacts
    <2>2. from \in Ends /\ to = FieldEnd(bytes, template[b], from)
        BY <1>1, WalkFacts
    <2>3. from # Eof => from >= s.min
        BY <1>3
    <2>4. t.min = IF template[b] = VariableLength THEN s.min + 1 ELSE s.min + template[b]
        BY <1>1, ScanStep DEF FixedScanned, VarlenScanned
    <2>. HIDE DEF s, t, from, to
    <2>5. to # Eof => to >= t.min
        <3>. SUFFICES ASSUME to # Eof  PROVE to >= t.min
            OBVIOUS
        <3>1. /\ from \in Nat /\ to \in Nat
              /\ template[b] = VariableLength => to > from
              /\ template[b] # VariableLength => to = from + template[b]
            BY <1>1, <2>2, FieldEndRange
        <3>2. from # Eof
            BY <3>1 DEF Eof
        <3>. QED  BY <1>1, <2>1, <2>3, <2>4, <3>1, <3>2
    <2>. QED  BY <2>5 DEF t, to
<1>4. n \in T
    <2>. HIDE DEF T
    <2>1. \A b \in 1..N : b - 1 \in T => b \in T
        BY <1>3
    <2>. QED  BY <1>1, <1>2, <2>1, UpTo
<1>. QED  BY <1>4

\* What DataRecordIter::new has computed.
LaidOut ==
    /\ template \in Seq(U16) /\ Len(template) >= 1
    /\ min_record_size = Scan(template).min
    /\ layout = LayoutOf(Scan(template))

LEMMA LayoutFacts ==
    ASSUME LaidOut
    PROVE  LET s == Scans(template)[Len(template)]
           IN  /\ Len(template) \in Nat /\ s \in ScanStates
               /\ min_record_size = s.min
               /\ layout.skips = s.skips /\ layout.trailing = s.min - s.last_end
               /\ layout.kind \in {"AllFixed", "Inline", "Fallback"}
               /\ layout.kind = "AllFixed" <=> s.skips = <<>>
               /\ layout.kind = "Inline" => ~s.overflow
<1>. DEFINE s == Scans(template)[Len(template)]
<1>1. Len(template) \in Nat /\ s \in ScanStates
    BY LenProperties, ScansFacts DEF LaidOut
<1>2. min_record_size = s.min /\ layout = LayoutOf(s)
    BY DEF LaidOut, Scan
<1>. HIDE DEF s
<1>3. /\ layout.skips = s.skips /\ layout.trailing = s.min - s.last_end
      /\ layout.kind = CASE s.skips = <<>> -> "AllFixed"
                         [] s.skips # <<>> /\ (s.overflow \/ s.min - s.last_end \notin U16) -> "Fallback"
                         [] OTHER -> "Inline"
    BY <1>2 DEF LayoutOf
<1>4. s.overflow \in BOOLEAN
    BY <1>1, StateFacts
<1>5. CASE s.skips = <<>>
    BY <1>1, <1>2, <1>3, <1>5 DEF s
<1>6. CASE s.skips # <<>> /\ (s.overflow \/ s.min - s.last_end \notin U16)
    BY <1>1, <1>2, <1>3, <1>6 DEF s
<1>7. CASE s.skips # <<>> /\ ~(s.overflow \/ s.min - s.last_end \notin U16)
    <2>1. layout.kind = "Inline"
        BY <1>3, <1>7
    <2>2. ~s.overflow
        BY <1>7
    <2>. QED  BY <1>1, <1>2, <1>3, <1>7, <2>1, <2>2 DEF s
<1>. QED  BY <1>5, <1>6, <1>7

\* From the end of a varlen field to the end of the next.
HopEnd(bytes, skip, from) == IF from = Eof THEN Eof ELSE VarlenEnd(bytes, from + skip)

LEMMA HopEndRange ==
    ASSUME NEW bytes \in Seq(Byte), NEW skip \in U16, NEW from \in Ends
    PROVE  HopEnd(bytes, skip, from) \in Ends
<1>1. CASE from = Eof
    BY <1>1 DEF HopEnd, Ends
<1>2. CASE from # Eof
    <2>1. from + skip \in Nat
        BY <1>2, BaseFacts DEF Ends
    <2>. QED  BY <1>2, <2>1, VarlenEndRange DEF HopEnd, Ends
<1>. QED  BY <1>1, <1>2

LEMMA HopsFacts ==
    ASSUME layout.skips \in Seq(U16), NEW bytes \in Seq(Byte)
    PROVE  /\ Hops(bytes)[0] = 0
           /\ \A n \in 1..Len(layout.skips) :
                  Hops(bytes)[n] = HopEnd(bytes, layout.skips[n], Hops(bytes)[n - 1])
           /\ \A n \in 0..Len(layout.skips) : Hops(bytes)[n] \in Ends
<1>0. PICK skips \in Seq(U16) : skips = layout.skips
    OBVIOUS
<1>. DEFINE K == Len(skips)
            step == [i \in 1..K |-> [e \in Ends |-> HopEnd(bytes, skips[i], e)]]
<1>1. K \in Nat /\ \A i \in 1..K : skips[i] \in U16
    BY LenProperties, ElementOfSeq
<1>2. 0 \in Ends
    BY DEF Ends
<1>3. step \in [1..K -> [Ends -> Ends]]
    BY <1>1, HopEndRange
<1>4. \A i \in 1..K : \A e \in Ends : step[i][e] = HopEnd(bytes, skips[i], e)
    OBVIOUS
<1>. HIDE DEF step
<1>5. PICK f \in [0..K -> Ends] : Steps(f, K, 0, step)
    BY <1>1, <1>2, <1>3, Recursion
<1>6. ASSUME NEW n \in 1..K
      PROVE  f[n] = HopEnd(bytes, skips[n], f[n - 1])
    <2>1. n - 1 \in 0..K
        BY <1>1
    <2>2. f[n - 1] \in Ends
        BY <1>5, <2>1
    <2>3. f[n] = step[n][f[n - 1]]
        BY <1>5 DEF Steps
    <2>. QED  BY <1>4, <2>2, <2>3
<1>7. f = [n \in 0..K |-> IF n = 0 THEN 0
                          ELSE IF f[n - 1] = Eof THEN Eof
                          ELSE VarlenEnd(bytes, f[n - 1] + skips[n])]
    BY <1>1, <1>5, <1>6 DEF Steps, HopEnd
<1>8. Hops(bytes) =
          [n \in 0..K |-> IF n = 0 THEN 0
                          ELSE IF Hops(bytes)[n - 1] = Eof THEN Eof
                          ELSE VarlenEnd(bytes, Hops(bytes)[n - 1] + skips[n])]
    BY <1>0, <1>7, Zenon DEF Hops
<1>9. /\ Hops(bytes)[0] = 0
      /\ \A n \in 1..K : Hops(bytes)[n] = HopEnd(bytes, skips[n], Hops(bytes)[n - 1])
    BY <1>1, <1>8 DEF HopEnd
<1>. DEFINE T == {n \in 0..K : Hops(bytes)[n] \in Ends}
<1>10. 0..K \subseteq T
    <2>1. 0 \in T
        BY <1>1, <1>2, <1>9
    <2>2. ASSUME NEW n \in 1..K, n - 1 \in T  PROVE n \in T
        <3>1. Hops(bytes)[n] = HopEnd(bytes, skips[n], Hops(bytes)[n - 1])
            BY <1>9
        <3>2. Hops(bytes)[n - 1] \in Ends /\ skips[n] \in U16
            BY <1>1, <2>2
        <3>. QED  BY <1>1, <3>1, <3>2, HopEndRange
    <2>. HIDE DEF T
    <2>3. \A n \in 1..K : n - 1 \in T => n \in T
        BY <2>2
    <2>. QED  BY <1>1, <2>1, <2>3, UpTo
<1>. QED  BY <1>0, <1>9, <1>10

\* Where the walk stands after some fields, seen from the last hop before.
Reached(bytes, s, end) ==
    LET hop == Hops(bytes)[Len(s.skips)]
    IN  end = IF hop = Eof THEN Eof ELSE hop + (s.min - s.last_end)

\* The hops of the inline table keep up with the walk.
LEMMA InlineWalk ==
    ASSUME LaidOut, layout.kind = "Inline", NEW bytes \in Seq(Byte), NEW n \in 0..Len(template)
    PROVE  Reached(bytes, Scans(template)[n], Walk(bytes)[n])
<1>. DEFINE N == Len(template)
            F == Scans(template)[N]
            T == {b \in 0..N : Reached(bytes, Scans(template)[b], Walk(bytes)[b])}
<1>1. /\ template \in Seq(U16) /\ N \in Nat
      /\ \A i \in 1..N : template[i] \in U16 /\ template[i] \in Nat
    BY LenProperties, ElementOfSeq, BaseFacts DEF LaidOut
<1>2. F \in ScanStates /\ layout.skips = F.skips /\ ~F.overflow
    BY LayoutFacts
<1>3. F.skips \in Seq(U16) /\ Len(F.skips) \in Nat
    BY <1>2, StateFacts
<1>4. /\ Hops(bytes)[0] = 0
      /\ \A k \in 1..Len(F.skips) : Hops(bytes)[k] = HopEnd(bytes, F.skips[k], Hops(bytes)[k - 1])
      /\ \A k \in 0..Len(F.skips) : Hops(bytes)[k] \in Ends
    BY <1>2, <1>3, HopsFacts
<1>5. \A b \in 0..N : Continues(Scans(template)[b], F)
    BY <1>1, ScanContinues
<1>6. 0 \in T
    <2>1. Scans(template)[0] = NothingScanned /\ Walk(bytes)[0] = 0
        BY <1>1, ScansFacts, WalkFacts
    <2>2. Len(NothingScanned.skips) = 0 /\ NothingScanned.min - NothingScanned.last_end = 0
        BY EmptySeq DEF NothingScanned
    <2>3. Reached(bytes, NothingScanned, 0)
        BY <1>4, <2>2 DEF Reached, Eof
    <2>. QED  BY <1>1, <2>1, <2>3
<1>7. ASSUME NEW b \in 1..N, b - 1 \in T  PROVE b \in T
    <2>. DEFINE s == Scans(template)[b - 1]
                t == Scans(template)[b]
                from == Walk(bytes)[b - 1]
                to == Walk(bytes)[b]
    <2>1. s \in ScanStates /\ t \in ScanStates
        BY <1>1, ScanStep
    <2>2. to = FieldEnd(bytes, template[b], from) /\ from \in Ends
        BY <1>1, WalkFacts
    <2>3. Reached(bytes, s, from)
        BY <1>7
    <2>4. Continues(s, F) /\ Continues(t, F)
        BY <1>1, <1>5
    <2>5. /\ template[b] # VariableLength => FixedScanned(s, t, template[b])
          /\ template[b] = VariableLength => VarlenScanned(s, t)
        BY <1>1, ScanStep
    <2>. HIDE DEF s, t, from, to, F, T
    <2>6. /\ s.min \in Nat /\ s.last_end \in Nat /\ s.skips \in Seq(U16) /\ Len(s.skips) \in Nat
          /\ t.min \in Nat /\ t.last_end \in Nat /\ t.skips \in Seq(U16) /\ Len(t.skips) \in Nat
        BY <2>1, StateFacts
    <2>7. PICK hop : hop = Hops(bytes)[Len(s.skips)]
        OBVIOUS
    <2>8. hop \in Ends /\ from = IF hop = Eof THEN Eof ELSE hop + (s.min - s.last_end)
        <3>1. Len(s.skips) \in 0..Len(F.skips)
            BY <1>3, <2>4, <2>6 DEF Continues
        <3>. QED  BY <1>4, <2>3, <2>7, <3>1 DEF Reached
    <2>9. ASSUME template[b] # VariableLength  PROVE Reached(bytes, t, to)
        <3>1. FixedScanned(s, t, template[b])
            BY <2>5, <2>9
        <3>2. t.min - t.last_end = (s.min - s.last_end) + template[b] /\ t.skips = s.skips
            BY <1>1, <2>6, <3>1 DEF FixedScanned
        <3>3. to = IF from = Eof THEN Eof ELSE from + template[b]
            BY <2>2, <2>9 DEF FieldEnd
        <3>4. Hops(bytes)[Len(t.skips)] = hop
            BY <2>7, <3>2
        <3>5. to = IF hop = Eof THEN Eof ELSE hop + (t.min - t.last_end)
            <4>1. CASE hop = Eof
                BY <2>8, <3>3, <4>1
            <4>2. CASE hop # Eof
                <5>1. hop \in Nat /\ from = hop + (s.min - s.last_end)
                    BY <2>8, <4>2 DEF Ends
                <5>2. from # Eof
                    BY <2>1, <2>6, <5>1, StateFacts DEF Eof
                <5>3. PICK length \in Nat : length = template[b]
                    BY <1>1
                <5>4. PICK gap \in Nat : gap = s.min - s.last_end
                    BY <2>1, <2>6, StateFacts
                <5>5. to = (hop + gap) + length /\ t.min - t.last_end = gap + length
                    BY <3>2, <3>3, <5>1, <5>2, <5>3, <5>4
                <5>6. (hop + gap) + length = hop + (gap + length)
                    BY <5>1
                <5>. QED  BY <4>2, <5>5, <5>6
            <4>. QED  BY <4>1, <4>2
        <3>. QED  BY <3>4, <3>5 DEF Reached
    <2>10. ASSUME template[b] = VariableLength  PROVE Reached(bytes, t, to)
        <3>1. VarlenScanned(s, t)
            BY <2>5, <2>10
        <3>2. ~t.overflow
            BY <1>2, <2>4, Zenon DEF Continues
        <3>3. PICK skip : skip = s.min - s.last_end
            OBVIOUS
        <3>4. t.skips = Append(s.skips, skip) /\ skip \in U16
            BY <3>1, <3>2, <3>3, Zenon DEF VarlenScanned
        <3>5. Len(t.skips) = Len(s.skips) + 1 /\ t.skips[Len(s.skips) + 1] = skip
            BY <2>6, <3>4, AppendProperties
        <3>6. /\ Len(s.skips) + 1 \in 1..Len(F.skips)
              /\ F.skips[Len(s.skips) + 1] = skip
            <4>1. Len(t.skips) <= Len(F.skips) /\ \A j \in 1..Len(t.skips) : F.skips[j] = t.skips[j]
                BY <2>4 DEF Continues
            <4>2. Len(s.skips) + 1 \in 1..Len(t.skips)
                BY <2>6, <3>5
            <4>3. F.skips[Len(s.skips) + 1] = skip
                BY <3>5, <4>1, <4>2
            <4>4. Len(s.skips) + 1 \in 1..Len(F.skips)
                BY <1>3, <2>6, <3>5, <4>1
            <4>. QED  BY <4>3, <4>4
        <3>7. Hops(bytes)[Len(t.skips)] = HopEnd(bytes, skip, hop)
            <4>1. (Len(s.skips) + 1) - 1 = Len(s.skips)
                BY <2>6
            <4>. QED  BY <1>4, <2>7, <3>5, <3>6, <4>1
        <3>8. to = HopEnd(bytes, skip, hop)
            <4>1. CASE hop = Eof
                BY <2>2, <2>8, <4>1 DEF FieldEnd, HopEnd
            <4>2. CASE hop # Eof
                <5>1. from = hop + skip /\ hop \in Nat /\ skip \in Nat
                    BY <2>8, <3>3, <3>4, <4>2, BaseFacts DEF Ends
                <5>2. from # Eof
                    BY <5>1 DEF Eof
                <5>. QED  BY <2>2, <2>10, <4>2, <5>1, <5>2 DEF FieldEnd, HopEnd
            <4>. QED  BY <4>1, <4>2
        <3>9. t.min - t.last_end = 0
            BY <2>6, <3>1 DEF VarlenScanned
        <3>10. to \in Ends
            BY <2>8, <3>4, <3>8, HopEndRange
        <3>. QED  BY <3>7, <3>8, <3>9, <3>10 DEF Reached, Ends, Eof
    <2>11. Reached(bytes, t, to)
        BY <2>9, <2>10
    <2>. QED  BY <2>11 DEF T, t, to
<1>8. n \in T
    <2>. HIDE DEF T
    <2>1. \A b \in 1..N : b - 1 \in T => b \in T
        BY <1>7
    <2>. QED  BY <1>1, <1>6, <2>1, UpTo
<1>. QED  BY <1>8

\* Without a gap in the table every field is fixed, or lies beyond any set.
LEMMA AllFixedWalk ==
    ASSUME LaidOut, layout.kind = "AllFixed", NEW bytes \in Seq(Byte)
    PROVE  Walk(bytes)[Len(template)] = min_record_size \/ min_record_size > VariableLength
<1>. DEFINE N == Len(template)
            F == Scans(template)[N]
            Even(s, end) == (s.last_end = 0 /\ end = s.min) \/ s.min > VariableLength
            T == {b \in 0..N : Even(Scans(template)[b], Walk(bytes)[b])}
<1>1. /\ template \in Seq(U16) /\ N \in Nat
      /\ \A i \in 1..N : template[i] \in U16 /\ template[i] \in Nat
    BY LenProperties, ElementOfSeq, BaseFacts DEF LaidOut
<1>2. F \in ScanStates /\ F.skips = <<>> /\ min_record_size = F.min
    BY LayoutFacts
<1>3. \A b \in 0..N : Continues(Scans(template)[b], F) /\ Scans(template)[b] \in ScanStates
    BY <1>1, ScanContinues, ScansFacts
<1>4. ASSUME NEW s \in ScanStates, Continues(s, F)  PROVE Len(s.skips) = 0
    <2>. HIDE DEF F
    <2>1. Len(s.skips) \in Nat /\ Len(F.skips) = 0
        BY <1>2, StateFacts, EmptySeq
    <2>. QED  BY <1>4, <2>1 DEF Continues
<1>5. VariableLength \in Nat /\ MaxInlineVarlens \in Nat /\ MaxInlineVarlens >= 1
      /\ U16 = 0..VariableLength
    BY BaseFacts, ByteAssumption DEF ByteAssumption
<1>6. 0 \in T
    <2>1. Scans(template)[0] = NothingScanned /\ Walk(bytes)[0] = 0
        BY <1>1, ScansFacts, WalkFacts
    <2>2. NothingScanned.last_end = 0 /\ NothingScanned.min = 0
        BY DEF NothingScanned
    <2>3. Even(NothingScanned, 0)
        BY <2>2
    <2>. HIDE DEF Even
    <2>. QED  BY <1>1, <2>1, <2>3
<1>7. ASSUME NEW b \in 1..N, b - 1 \in T  PROVE b \in T
    <2>. DEFINE s == Scans(template)[b - 1]
                t == Scans(template)[b]
                from == Walk(bytes)[b - 1]
                to == Walk(bytes)[b]
    <2>0. PICK length \in Nat : length = template[b] /\ length \in U16
        BY <1>1
    <2>1. b - 1 \in 0..N /\ b \in 0..N
        BY <1>1
    <2>2. /\ s \in ScanStates /\ t \in ScanStates
          /\ Continues(s, F) /\ Continues(t, F)
        BY <1>3, <2>1
    <2>3. to = FieldEnd(bytes, length, from) /\ from \in Ends
        BY <1>1, <2>0, <2>1, WalkFacts
    <2>4. Even(s, from)
        BY <1>7
    <2>5. /\ length # VariableLength => FixedScanned(s, t, length)
          /\ length = VariableLength => VarlenScanned(s, t)
        BY <1>1, <2>0, ScanStep
    <2>. HIDE DEF s, t, from, to, F, T
    <2>6. /\ s.min \in Nat /\ s.last_end \in Nat /\ s.last_end <= s.min
          /\ s.skips \in Seq(U16) /\ Len(s.skips) = 0 /\ t.min \in Nat /\ Len(t.skips) = 0
        BY <1>4, <2>2, StateFacts
    <2>7. ASSUME length # VariableLength  PROVE Even(t, to)
        <3>1. FixedScanned(s, t, length)
            BY <2>5, <2>7
        <3>2. t.min = s.min + length /\ t.last_end = s.last_end
            BY <3>1 DEF FixedScanned
        <3>3. ASSUME s.last_end = 0, from = s.min  PROVE t.last_end = 0 /\ to = t.min
            <4>1. from # Eof
                BY <2>6, <3>3 DEF Eof
            <4>. QED  BY <2>3, <2>7, <3>2, <3>3, <4>1 DEF FieldEnd
        <3>4. ASSUME s.min > VariableLength  PROVE t.min > VariableLength
            BY <1>5, <2>6, <3>2, <3>4
        <3>. QED  BY <2>4, <3>3, <3>4
    <2>8. ASSUME length = VariableLength  PROVE Even(t, to)
        <3>1. VarlenScanned(s, t)
            BY <2>5, <2>8
        <3>2. ~(s.min - s.last_end \in U16)
            <4>. SUFFICES ASSUME s.min - s.last_end \in U16  PROVE FALSE
                OBVIOUS
            <4>1. Len(s.skips) < MaxInlineVarlens
                BY <1>5, <2>6
            <4>2. t.skips = Append(s.skips, s.min - s.last_end)
                BY <3>1, <4>1, Zenon DEF VarlenScanned
            <4>3. Len(t.skips) = 1
                BY <2>6, <4>2, AppendProperties
            <4>4. Len(t.skips) = 0
                BY <2>6
            <4>5. 0 # 1
                OBVIOUS
            <4>. QED  BY <4>3, <4>4, <4>5, Zenon
        <3>3. t.min = s.min + 1
            BY <3>1 DEF VarlenScanned
        <3>4. t.min > VariableLength
            BY <1>5, <2>6, <3>2, <3>3
        <3>. QED  BY <3>4
    <2>. HIDE DEF Even
    <2>9. Even(t, to)
        BY <2>7, <2>8
    <2>. QED  BY <2>1, <2>9 DEF T, t, to
<1>8. N \in T
    <2>. HIDE DEF T
    <2>1. \A b \in 1..N : b - 1 \in T => b \in T
        BY <1>7
    <2>2. 0..N \subseteq T
        BY <1>1, <1>6, <2>1, UpTo
    <2>3. N \in 0..N
        BY <1>1
    <2>. QED  BY <2>2, <2>3
<1>. QED  BY <1>2, <1>8

\* Whichever layout finds it, the end of a record is where the walk has it.
LEMMA ExtentIsWalked ==
    ASSUME LaidOut, NEW bytes \in Seq(Byte),
           Len(bytes) <= VariableLength, Len(bytes) >= min_record_size
    PROVE  Extent(bytes) = ExtentWalked(bytes)
<1>. DEFINE N == Len(template)
            F == Scans(template)[N]
            end == Walk(bytes)[N]
<1>1. /\ N \in Nat /\ template \in Seq(U16) /\ F \in ScanStates /\ min_record_size = F.min
      /\ layout.skips = F.skips /\ layout.trailing = F.min - F.last_end
      /\ layout.kind \in {"AllFixed", "Inline", "Fallback"}
    BY LayoutFacts DEF LaidOut
<1>2. ExtentWalked(bytes) = IF end = Eof THEN Eof ELSE Within(bytes, end)
    BY DEF ExtentWalked, RecordEnd, Walk
<1>3. layout.kind = "Inline" => Reached(bytes, F, end)
    BY <1>1, InlineWalk
<1>4. layout.kind = "AllFixed" => end = min_record_size \/ min_record_size > VariableLength
    BY AllFixedWalk
<1>. HIDE DEF F, end, N
<1>5. F.min \in Nat /\ Len(bytes) \in Nat /\ VariableLength \in Nat
    BY <1>1, StateFacts, LenProperties, BaseFacts
<1>6. CASE layout.kind = "AllFixed"
    <2>1. end = min_record_size
        BY <1>1, <1>4, <1>5, <1>6
    <2>2. Extent(bytes) = min_record_size
        BY <1>6 DEF Extent
    <2>. QED  BY <1>1, <1>2, <1>5, <2>1, <2>2 DEF Within, Eof
<1>7. CASE layout.kind = "Inline"
    <2>1. PICK hop : hop = Hops(bytes)[Len(F.skips)]
        OBVIOUS
    <2>2. end = IF hop = Eof THEN Eof ELSE hop + (F.min - F.last_end)
        BY <1>3, <1>7, <2>1 DEF Reached
    <2>3. Extent(bytes) = IF hop = Eof THEN Eof ELSE Within(bytes, hop + (F.min - F.last_end))
        BY <1>1, <1>7, <2>1 DEF Extent, ExtentInline
    <2>4. hop \in Ends
        <3>1. F.skips \in Seq(U16) /\ Len(F.skips) \in Nat
            BY <1>1, StateFacts
        <3>. QED  BY <1>1, <2>1, <3>1, HopsFacts
    <2>5. CASE hop = Eof
        BY <1>2, <2>2, <2>3, <2>5
    <2>6. CASE hop # Eof
        <3>1. PICK gap \in Nat : gap = F.min - F.last_end
            BY <1>1, StateFacts
        <3>2. hop + gap # Eof
            BY <2>4, <2>6, <3>1 DEF Ends, Eof
        <3>. QED  BY <1>2, <2>2, <2>3, <2>6, <3>1, <3>2
    <2>. QED  BY <2>5, <2>6
<1>8. CASE layout.kind = "Fallback"
    BY <1>8 DEF Extent
<1>. QED  BY <1>1, <1>6, <1>7, <1>8

\* The decision of the iterator is that of the reference.
LEMMA CutRightly ==
    ASSUME LaidOut, buf \in Seq(Byte), Len(buf) <= VariableLength
    PROVE  /\ CutsWhatTheReferenceCuts
           /\ Len(buf) >= min_record_size => Extent(buf) = ExtentWalked(buf)
<1>. DEFINE N == Len(template)
<1>1. /\ template \in Seq(U16) /\ N \in Nat /\ N >= 1 /\ Len(buf) \in Nat
      /\ Scans(template)[N] \in ScanStates /\ min_record_size = Scans(template)[N].min
    BY LayoutFacts, LenProperties DEF LaidOut
<1>2. min_record_size \in Nat
    BY <1>1, StateFacts
<1>3. CASE Len(buf) < min_record_size
    <2>1. ASSUME NEW ends \in Cuts(buf)  PROVE FALSE
        <3>1. ends[N] \in 0..Len(buf) /\ ends[N] = Walk(buf)[N]
            <4>1. N \in 1..N
                BY <1>1
            <4>2. ends \in [1..N -> 0..Len(buf)]
                BY DEF Cuts, CutsOf
            <4>. QED  BY <1>1, <4>1, <4>2, CutFollowsWalk
        <3>2. Walk(buf)[N] # Eof
            BY <1>1, <3>1 DEF Eof
        <3>3. Walk(buf)[N] >= min_record_size
            BY <1>1, <3>2, WalkedMin
        <3>. QED  BY <1>1, <1>2, <1>3, <3>1, <3>3
    <2>2. Cuts(buf) = {}
        BY <2>1
    <2>. QED  BY <1>1, <1>2, <1>3, <2>2 DEF CutsWhatTheReferenceCuts
<1>4. CASE Len(buf) >= min_record_size
    <2>1. Extent(buf) = ExtentWalked(buf)
        BY <1>4, ExtentIsWalked
    <2>2. /\ ExtentWalked(buf) = Eof => Cuts(buf) = {}
          /\ ExtentWalked(buf) # Eof => /\ Cuts(buf) # {}
                                        /\ \A ends \in Cuts(buf) : ends[N] = ExtentWalked(buf)
        BY <1>1, WalkedExtent
    <2>3. ~(Len(buf) < min_record_size)
        BY <1>1, <1>2, <1>4
    <2>. QED  BY <2>1, <2>2, <2>3 DEF CutsWhatTheReferenceCuts
<1>. QED  BY <1>1, <1>2, <1>3, <1>4

-----------------------------------------------------------------------------
(* The invariant of the two iterators.                                     *)

\* Offsets at which the fields from the given one on end divide the bytes
\* without a gap.
Divides(ends, bytes, from) ==
    /\ ends \in [from..Len(template) -> 0..Len(bytes)]
    /\ ends[from] = 0 /\ ends[Len(template)] = Len(bytes)
    /\ \A m, n \in from..Len(template) : m <= n => ends[m] <= ends[n]
    /\ \A n \in (from + 1)..Len(template) : Occupies(bytes, template[n], ends[n - 1], ends[n])

SetIsFixed ==
    /\ LaidOut
    /\ template \in Seq(FieldLengths)
    /\ input \in Seq(Byte) /\ Len(input) <= MaxBytes

CutSoFar ==
    /\ buf \in Seq(Byte) /\ Len(buf) <= MaxBytes
    /\ consumed \in Seq(Byte)
    /\ last \in {"Start", "Record", "Err", "None"}
    /\ last = "Err" => min_record_size > 0
    /\ NothingLost

\* The fields not yet read divide the rest.
Divisible == \E ends : Divides(ends, rest, field_idx)

ReadSoFar ==
    /\ rest \in Seq(Byte)
    /\ field_idx \in 0..Len(template)
    /\ values \in Seq([ok : BOOLEAN, data : Seq(Byte)])
    /\ last = "Record" => /\ \A i \in 1..Len(values) : values[i].ok
                          /\ Divisible

RecordInv == SetIsFixed /\ CutSoFar /\ ReadSoFar

LEMMA RecordInit == Init => RecordInv
<1>. SUFFICES ASSUME Init  PROVE RecordInv
    OBVIOUS
<1>1. template \in Seq(FieldLengths) /\ Len(template) >= 1
    <2>1. PICK n \in 1..MaxFields : template \in [1..n -> FieldLengths]
        BY DEF Init, Templates
    <2>2. n \in Nat /\ n >= 1 /\ DOMAIN template = 1..n
        BY <2>1, RecordAssumption DEF RecordAssumption
    <2>3. template \in Seq(FieldLengths)
        BY <2>1, <2>2, SeqDef
    <2>4. Len(template) = n
        BY <2>2, <2>3, LenProperties
    <2>. QED  BY <2>2, <2>3, <2>4
<1>2. input \in Seq(Byte) /\ Len(input) <= MaxBytes
    <2>1. PICK n \in 0..MaxBytes : input \in [1..n -> Byte]
        BY DEF Init, Buffers
    <2>2. n \in Nat /\ n <= MaxBytes /\ DOMAIN input = 1..n
        BY <2>1, RecordAssumption DEF RecordAssumption
    <2>3. input \in Seq(Byte)
        BY <2>1, <2>2, SeqDef
    <2>4. Len(input) = n
        BY <2>2, <2>3, LenProperties
    <2>. QED  BY <2>2, <2>3, <2>4
<1>3. LaidOut
    <2>1. template \in Seq(U16)
        BY <1>1, BaseFacts, SeqMonotonic
    <2>. QED  BY <1>1, <2>1 DEF Init, LaidOut
<1>4. CutSoFar
    <2>1. consumed = <<>> /\ buf = input /\ last = "Start"
        BY DEF Init
    <2>2. consumed \in Seq(Byte) /\ consumed \o buf = input
        BY <1>2, <2>1, EmptySeq, ConcatEmptySeq
    <2>. QED  BY <1>2, <2>1, <2>2 DEF CutSoFar, NothingLost
<1>5. ReadSoFar
    <2>1. rest = <<>> /\ field_idx = 0 /\ values = <<>> /\ last = "Start"
        BY DEF Init
    <2>2. Len(template) \in Nat
        BY <1>1, LenProperties
    <2>. QED  BY <2>1, <2>2, EmptySeq DEF ReadSoFar
<1>. QED  BY <1>1, <1>2, <1>3, <1>4, <1>5 DEF RecordInv, SetIsFixed

LEMMA TakeAndDrop ==
    ASSUME NEW bytes \in Seq(Byte), NEW n \in 0..Len(bytes)
    PROVE  /\ Take(bytes, n) \in Seq(Byte) /\ Len(Take(bytes, n)) = n
           /\ Drop(bytes, n) \in Seq(Byte) /\ Len(Drop(bytes, n)) = Len(bytes) - n
           /\ Take(bytes, n) \o Drop(bytes, n) = bytes
<1>1. Len(bytes) \in Nat /\ \A i \in 1..Len(bytes) : bytes[i] \in Byte
    BY LenProperties, ElementOfSeq
<1>2. Take(bytes, n) \in Seq(Byte) /\ Len(Take(bytes, n)) = n
    <2>1. \A i \in 1..n : bytes[i] \in Byte
        BY <1>1
    <2>2. 1 \in Int /\ n \in Int
        BY <1>1
    <2>. QED  BY <1>1, <2>1, <2>2, SubSeqProperties DEF Take
<1>3. Drop(bytes, n) \in Seq(Byte) /\ Len(Drop(bytes, n)) = Len(bytes) - n
    <2>1. \A i \in (n + 1)..Len(bytes) : bytes[i] \in Byte
        BY <1>1
    <2>2. n + 1 \in Int /\ Len(bytes) \in Int
        BY <1>1
    <2>. QED  BY <1>1, <2>1, <2>2, SubSeqProperties DEF Drop
<1>4. Take(bytes, n) \o Drop(bytes, n) = bytes
    <2>1. 1 \in 1..Len(bytes) + 1 /\ n \in 1 - 1..Len(bytes) /\ Len(bytes) \in n..Len(bytes)
        BY <1>1
    <2>2. SubSeq(bytes, 1, n) \o SubSeq(bytes, n + 1, Len(bytes)) = SubSeq(bytes, 1, Len(bytes))
        BY <2>1, ConcatAdjacentSubSeq
    <2>. QED  BY <2>2, SubSeqFull DEF Take, Drop
<1>. QED  BY <1>2, <1>3, <1>4

LEMMA StartIsPrefix ==
    ASSUME NEW s \in Seq(Byte), NEW t \in Seq(Byte)
    PROVE  IsPrefix(s, s \o t)
<1>1. Len(s) \in Nat /\ Len(t) \in Nat /\ Len(s \o t) = Len(s) + Len(t)
    BY LenProperties, ConcatProperties
<1>2. SubSeq(s, 1, Len(s)) = SubSeq(s \o t, 1, Len(s))
    <2>1. CASE Len(s) = 0
        <3>1. 1 \in Int /\ Len(s) \in Int /\ Len(s) < 1
            BY <2>1
        <3>. QED  BY <3>1, SubSeqEmpty
    <2>2. CASE Len(s) # 0
        <3>1. 1 \in 1..Len(s) /\ Len(s) \in 1..Len(s)
            BY <1>1, <2>2
        <3>. QED  BY <3>1, SubSeqOfConcat1
    <2>. QED  BY <2>1, <2>2
<1>. QED  BY <1>1, <1>2 DEF IsPrefix

\* A record that is cut divides into its fields.
LEMMA CutDivides ==
    ASSUME template \in Seq(U16), Len(template) >= 1, NEW bytes \in Seq(Byte),
           ExtentWalked(bytes) # Eof
    PROVE  \E ends : Divides(ends, Take(bytes, ExtentWalked(bytes)), 0)
<1>. DEFINE N == Len(template)
            E == ExtentWalked(bytes)
            cut == [n \in 1..N |-> Walk(bytes)[n]]
            record == Take(bytes, E)
            ends == [n \in 0..N |-> Walk(bytes)[n]]
<1>1. /\ N \in Nat /\ N >= 1 /\ Len(bytes) \in Nat
      /\ \A i \in 1..N : template[i] \in Nat
    BY LenProperties, ElementOfSeq, BaseFacts
<1>2. E \in 0..Len(bytes) /\ cut \in Cuts(bytes) /\ cut[N] = E
    BY WalkedExtent
<1>3. /\ Walk(bytes)[0] = 0
      /\ \A n \in 0..N : Walk(bytes)[n] \in Ends
    BY WalkFacts
<1>4. Walk(bytes)[N] = E
    BY <1>1, <1>2
<1>5. E \in Nat /\ E # Eof
    BY <1>1, <1>2 DEF Eof
<1>6. ASSUME NEW n \in 0..N  PROVE Walk(bytes)[n] \in 0..E
    <2>1. N \in 0..N /\ n \in 0..N
        BY <1>1
    <2>2. Walk(bytes)[n] \in Nat /\ Walk(bytes)[n] <= E
        BY <1>4, <1>5, <2>1, WalkGrows
    <2>. QED  BY <1>5, <2>2
<1>7. Len(record) = E /\ record = SubSeq(bytes, 0 + 1, E)
    BY <1>2, TakeAndDrop DEF Take
<1>8. ASSUME NEW m \in 0..N, NEW n \in 0..N, m <= n
      PROVE  Walk(bytes)[m] <= Walk(bytes)[n]
    <2>1. Walk(bytes)[n] # Eof
        BY <1>5, <1>6 DEF Eof
    <2>2. m \in 0..n
        BY <1>1, <1>8
    <2>. QED  BY <2>1, <2>2, WalkGrows
<1>9. ASSUME NEW n \in 1..N
      PROVE  Occupies(record, template[n], ends[n - 1], ends[n])
    <2>. DEFINE from == Walk(bytes)[n - 1]
                to == Walk(bytes)[n]
    <2>1. n - 1 \in 0..N /\ n \in 0..N /\ n - 1 <= n
        BY <1>1
    <2>2. from \in 0..E /\ to \in 0..E /\ from <= to
        BY <1>6, <1>8, <2>1
    <2>3. Occupies(bytes, template[n], from, to)
        <3>1. LET start == IF n = 1 THEN 0 ELSE cut[n - 1]
              IN  Occupies(bytes, template[n], start, cut[n])
            BY <1>2 DEF Cuts, CutsOf
        <3>2. cut[n] = to /\ (IF n = 1 THEN 0 ELSE cut[n - 1]) = from
            BY <1>1, <1>3
        <3>. HIDE DEF cut, from, to
        <3>. QED  BY <3>1, <3>2
    <2>4. ends[n - 1] = from /\ ends[n] = to
        BY <2>1
    <2>. HIDE DEF from, to, E, ends
    <2>5. /\ 0 \in 0..Len(bytes) /\ E \in 0..Len(bytes) /\ template[n] \in Nat
          /\ from \in 0..(E - 0) /\ to \in from..(E - 0)
          /\ from + 0 = from /\ to + 0 = to
        BY <1>1, <1>2, <1>5, <2>2
    <2>6. Occupies(SubSeq(bytes, 0 + 1, E), template[n], from, to)
              <=> Occupies(bytes, template[n], from + 0, to + 0)
        BY <2>5, OccupiesInPart
    <2>. QED  BY <1>7, <2>3, <2>4, <2>5, <2>6
<1>10. /\ ends \in [0..N -> 0..E] /\ ends[0] = 0 /\ ends[N] = E
       /\ \A m, n \in 0..N : m <= n => ends[m] <= ends[n]
    BY <1>1, <1>3, <1>4, <1>6, <1>8
<1>. HIDE DEF ends, E
<1>11. Divides(ends, record, 0)
    <2>1. \A n \in (0 + 1)..N : Occupies(record, template[n], ends[n - 1], ends[n])
        BY <1>9
    <2>. HIDE DEF record
    <2>. QED  BY <1>7, <1>10, <2>1 DEF Divides
<1>. QED  BY <1>11 DEF E

\* FieldIter::next reads the field the division starts with, and the rest
\* divides into the fields behind it.
LEMMA FieldIsRead ==
    ASSUME template \in Seq(U16), rest \in Seq(Byte),
           field_idx \in 0..Len(template), field_idx < Len(template),
           NEW ends, Divides(ends, rest, field_idx)
    PROVE  /\ CutField(template[field_idx + 1]).ok = TRUE
           /\ CutField(template[field_idx + 1]).data \in Seq(Byte)
           /\ CutField(template[field_idx + 1]).size \in 0..Len(rest)
           /\ \E later : Divides(later, Drop(rest, CutField(template[field_idx + 1]).size),
                                 field_idx + 1)
<1>. DEFINE N == Len(template)
            L == Len(rest)
            i == field_idx + 1
            field == CutField(template[i])
            e == ends[i]
            later == [n \in i..N |-> ends[n] - e]
<1>1. /\ N \in Nat /\ L \in Nat /\ i \in 1..N /\ i \in Nat /\ field_idx \in 0..N /\ i - 1 = field_idx
      /\ template[i] \in U16 /\ \A n \in 1..N : template[n] \in Nat
      /\ \A n \in 1..L : rest[n] \in Byte
    BY LenProperties, ElementOfSeq, BaseFacts
<1>2. /\ ends \in [field_idx..N -> 0..L] /\ ends[field_idx] = 0 /\ ends[N] = L
      /\ \A m, n \in field_idx..N : m <= n => ends[m] <= ends[n]
      /\ \A n \in i..N : Occupies(rest, template[n], ends[n - 1], ends[n])
    BY DEF Divides
<1>3. e \in 0..L /\ Occupies(rest, template[i], 0, e)
    <2>1. i \in field_idx..N /\ i \in i..N
        BY <1>1
    <2>. QED  BY <1>1, <1>2, <2>1
<1>. HIDE DEF e
<1>4. field.ok = TRUE /\ field.data \in Seq(Byte) /\ field.size = e
    <2>1. CASE template[i] # VariableLength
        <3>1. e = 0 + template[i]
            BY <1>3, <2>1 DEF Occupies
        <3>2. e = template[i]
            BY <1>1, <3>1
        <3>3. field = CutOff(Take(rest, e), e)
            BY <1>1, <1>3, <2>1, <3>2 DEF CutField, CutFrom
        <3>4. Take(rest, e) \in Seq(Byte)
            BY <1>3, TakeAndDrop
        <3>. HIDE DEF field
        <3>. QED  BY <3>3, <3>4 DEF CutOff
    <2>2. CASE template[i] = VariableLength
        <3>1. VarlenEnd(rest, 0) = e
            <4>1. 0 \in Nat /\ e \in 0..Len(rest) /\ Occupies(rest, VariableLength, 0, e)
                BY <1>3, <2>2
            <4>. QED  BY <4>1, VarlenOccupies
        <3>2. ~(e = Eof \/ e > L)
            BY <1>1, <1>3 DEF Eof
        <3>3. field = CutOff(SubSeq(rest, PrefixSize(rest) + 1, e), e)
            BY <2>2, <3>1, <3>2 DEF CutField, CutFrom
        <3>4. SubSeq(rest, PrefixSize(rest) + 1, e) \in Seq(Byte)
            <4>1. PrefixSize(rest) \in {1, 3}
                BY DEF PrefixSize
            <4>. HIDE DEF L
            <4>2. \A n \in (PrefixSize(rest) + 1)..e : rest[n] \in Byte
                BY <1>1, <1>3, <4>1
            <4>3. PrefixSize(rest) + 1 \in Int /\ e \in Int
                BY <1>1, <1>3, <4>1
            <4>. QED  BY <4>2, <4>3, SubSeqProperties
        <3>. HIDE DEF field
        <3>. QED  BY <3>3, <3>4 DEF CutOff
    <2>. QED  BY <2>1, <2>2
<1>5. Drop(rest, e) = SubSeq(rest, e + 1, L) /\ Len(Drop(rest, e)) = L - e
    BY <1>3, TakeAndDrop DEF Drop
<1>6. /\ later \in [i..N -> 0..(L - e)] /\ later[i] = 0 /\ later[N] = L - e
      /\ \A m, n \in i..N : m <= n => later[m] <= later[n]
      /\ \A n \in i..N : ends[n] \in e..L /\ later[n] = ends[n] - e
    <2>1. \A n \in i..N : n \in field_idx..N /\ i \in field_idx..N /\ i <= n
        BY <1>1
    <2>2. ASSUME NEW n \in i..N  PROVE ends[n] \in e..L
        <3>1. ends[n] \in 0..L /\ ends[i] <= ends[n]
            BY <1>2, <2>1
        <3>2. ends[i] = e
            BY DEF e
        <3>. QED  BY <1>1, <1>3, <3>1, <3>2
    <2>3. i \in i..N /\ N \in i..N /\ ends[i] = e
        BY <1>1 DEF e
    <2>4. \A m, n \in i..N : m <= n => ends[m] <= ends[n]
        BY <1>2, <2>1
    <2>5. \A n \in i..N : later[n] = ends[n] - e
        OBVIOUS
    <2>6. \A n \in i..N : ends[n] - e \in 0..(L - e)
        BY <1>1, <1>3, <2>2
    <2>7. later[i] = 0 /\ later[N] = L - e
        <3>1. e - e = 0
            BY <1>1, <1>3
        <3>. QED  BY <1>2, <2>3, <2>5, <3>1
    <2>8. ASSUME NEW m \in i..N, NEW n \in i..N, m <= n  PROVE later[m] <= later[n]
        <3>1. ends[m] \in e..L /\ ends[n] \in e..L /\ ends[m] <= ends[n]
            BY <2>2, <2>4, <2>8
        <3>. QED  BY <1>1, <1>3, <2>5, <3>1
    <2>. QED  BY <2>2, <2>5, <2>6, <2>7, <2>8
<1>7. ASSUME NEW n \in (i + 1)..N
      PROVE  Occupies(Drop(rest, e), template[n], later[n - 1], later[n])
    <2>. DEFINE from == ends[n - 1] - e
                to == ends[n] - e
    <2>1. n \in i..N /\ n - 1 \in i..N /\ n - 1 <= n /\ n \in 1..N
        BY <1>1
    <2>2. /\ ends[n - 1] \in e..L /\ ends[n] \in e..L /\ ends[n - 1] <= ends[n]
          /\ later[n - 1] = from /\ later[n] = to
        <3>1. n \in field_idx..N /\ n - 1 \in field_idx..N
            BY <1>1, <2>1
        <3>. QED  BY <1>2, <1>6, <2>1, <3>1
    <2>3. Occupies(rest, template[n], ends[n - 1], ends[n])
        BY <1>2, <2>1
    <2>4. PICK a \in e..L, b \in e..L : a = ends[n - 1] /\ b = ends[n] /\ a <= b
        BY <2>2
    <2>5. /\ e \in 0..L /\ L \in e..L /\ template[n] \in Nat
          /\ from \in 0..(L - e) /\ to \in from..(L - e)
          /\ from + e = a /\ to + e = b
        <3>1. from = a - e /\ to = b - e
            BY <2>4
        <3>2. e \in 0..L /\ L \in e..L /\ template[n] \in Nat
            BY <1>1, <1>3, <2>1
        <3>. HIDE DEF from, to, L
        <3>3. e \in Nat /\ L \in Nat /\ a \in Nat /\ b \in Nat /\ e <= a /\ a <= b /\ b <= L
            BY <1>1, <1>3, <2>4
        <3>4. /\ a - e \in 0..(L - e) /\ b - e \in (a - e)..(L - e)
              /\ (a - e) + e = a /\ (b - e) + e = b
            BY <3>3
        <3>. QED  BY <3>1, <3>2, <3>4
    <2>. HIDE DEF from, to, later
    <2>6. Occupies(SubSeq(rest, e + 1, L), template[n], from, to)
              <=> Occupies(rest, template[n], from + e, to + e)
        BY <2>5, OccupiesInPart
    <2>. QED  BY <1>5, <2>2, <2>3, <2>4, <2>5, <2>6
<1>. HIDE DEF later
<1>8. Divides(later, Drop(rest, e), i)
    <2>1. \A n \in (i + 1)..N : Occupies(Drop(rest, e), template[n], later[n - 1], later[n])
        BY <1>7
    <2>. HIDE DEF i
    <2>. QED  BY <1>5, <1>6, <2>1 DEF Divides
<1>. HIDE DEF field
<1>9. \E l : Divides(l, Drop(rest, field.size), i)
    BY <1>4, <1>8
<1>. QED  BY <1>3, <1>4, <1>9 DEF field

LEMMA SetStaysFixed == SetIsFixed /\ UNCHANGED setVars => SetIsFixed'
    BY DEF SetIsFixed, LaidOut, setVars

LEMMA StopKeeps ==
    ASSUME RecordInv, StopAtPadding
    PROVE  RecordInv'
<1>1. /\ last # "None" /\ buf' = <<>> /\ last' = "None"
      /\ UNCHANGED setVars /\ UNCHANGED <<consumed, rest, field_idx, values>>
    BY DEF StopAtPadding, Polled, fieldVars
<1>2. SetIsFixed'
    BY <1>1, SetStaysFixed DEF RecordInv
<1>3. CutSoFar'
    <2>1. /\ buf \in Seq(Byte) /\ consumed \in Seq(Byte) /\ NothingLost
          /\ last \in {"Start", "Record", "Err", "None"}
        BY DEF RecordInv, CutSoFar
    <2>2. IsPrefix(consumed, input)
        BY <1>1, <2>1, StartIsPrefix DEF NothingLost
    <2>3. Len(buf') <= MaxBytes /\ buf' \in Seq(Byte)
        BY <1>1, EmptySeq, RecordAssumption DEF RecordAssumption
    <2>. QED  BY <1>1, <2>1, <2>2, <2>3 DEF CutSoFar, NothingLost, setVars
<1>4. ReadSoFar'
    BY <1>1 DEF RecordInv, ReadSoFar, setVars
<1>. QED  BY <1>2, <1>3, <1>4 DEF RecordInv

LEMMA FailKeeps ==
    ASSUME RecordInv, FailTruncated
    PROVE  RecordInv'
<1>1. /\ last # "None" /\ buf' = <<>> /\ last' = "Err"
      /\ Len(buf) >= min_record_size /\ Extent(buf) = Eof
      /\ UNCHANGED setVars /\ UNCHANGED <<consumed, rest, field_idx, values>>
    BY DEF FailTruncated, Polled, fieldVars
<1>2. SetIsFixed'
    BY <1>1, SetStaysFixed DEF RecordInv
<1>3. min_record_size > 0
    <2>. DEFINE F == Scans(template)[Len(template)]
    <2>1. /\ F \in ScanStates /\ min_record_size = F.min
          /\ layout.kind = "AllFixed" <=> F.skips = <<>>
        BY LayoutFacts DEF RecordInv, SetIsFixed
    <2>2. F.min \in Nat /\ (F.skips # <<>> => F.min >= 1)
        BY <2>1, StateFacts
    <2>3. layout.kind # "AllFixed"
        <3>1. layout.kind = "AllFixed" => Extent(buf) = min_record_size
            BY DEF Extent
        <3>. QED  BY <1>1, <2>1, <2>2, <3>1 DEF Eof
    <2>. HIDE DEF F
    <2>. QED  BY <2>1, <2>2, <2>3
<1>4. last \in {"Start", "Record"}
    <2>1. CASE last = "Err"
        <3>1. buf = <<>>
            BY <2>1 DEF RecordInv, CutSoFar, NothingLost
        <3>2. Len(buf) = 0
            BY <3>1, EmptySeq
        <3>3. min_record_size \in Nat
            BY LayoutFacts, StateFacts DEF RecordInv, SetIsFixed
        <3>. QED  BY <1>1, <1>3, <3>2, <3>3
    <2>. QED  BY <1>1, <2>1 DEF RecordInv, CutSoFar
<1>5. CutSoFar'
    <2>1. buf \in Seq(Byte) /\ consumed \in Seq(Byte) /\ consumed \o buf = input
        BY <1>4 DEF RecordInv, CutSoFar, NothingLost
    <2>2. IsPrefix(consumed, input)
        BY <2>1, StartIsPrefix
    <2>3. Len(buf') <= MaxBytes /\ buf' \in Seq(Byte)
        BY <1>1, EmptySeq, RecordAssumption DEF RecordAssumption
    <2>. QED  BY <1>1, <1>3, <2>1, <2>2, <2>3 DEF CutSoFar, NothingLost, setVars
<1>6. ReadSoFar'
    BY <1>1 DEF RecordInv, ReadSoFar, setVars
<1>. QED  BY <1>2, <1>5, <1>6 DEF RecordInv

\* A set is no longer than its 16-bit length field can say.
SetsFit == MaxBytes \in U16

LEMMA BufFits ==
    ASSUME SetsFit, RecordInv
    PROVE  /\ LaidOut /\ template \in Seq(U16) /\ Len(template) >= 1
           /\ buf \in Seq(Byte) /\ Len(buf) <= VariableLength
<1>1. /\ LaidOut /\ template \in Seq(U16) /\ Len(template) >= 1
      /\ buf \in Seq(Byte) /\ Len(buf) <= MaxBytes /\ Len(buf) \in Nat
    BY LenProperties DEF RecordInv, SetIsFixed, CutSoFar, LaidOut
<1>2. MaxBytes \in Nat /\ VariableLength \in Nat /\ MaxBytes <= VariableLength
    BY BaseFacts DEF SetsFit
<1>. QED  BY <1>1, <1>2

LEMMA YieldKeeps ==
    ASSUME SetsFit, RecordInv, YieldRecord
    PROVE  RecordInv'
<1>. DEFINE E == ExtentWalked(buf)
<1>1. /\ last # "None" /\ last' = "Record"
      /\ Len(buf) >= min_record_size /\ Extent(buf) # Eof
      /\ buf' = Drop(buf, Extent(buf)) /\ consumed' = consumed \o Take(buf, Extent(buf))
      /\ rest' = Take(buf, Extent(buf)) /\ field_idx' = 0 /\ values' = <<>>
      /\ UNCHANGED setVars
    BY DEF YieldRecord, Polled
<1>2. SetIsFixed'
    BY <1>1, SetStaysFixed DEF RecordInv
<1>3. /\ LaidOut /\ template \in Seq(U16) /\ Len(template) >= 1
      /\ buf \in Seq(Byte) /\ Len(buf) <= VariableLength
    BY BufFits
<1>4. Extent(buf) = E /\ E # Eof /\ E \in 0..Len(buf)
    <2>1. Extent(buf) = E
        BY <1>1, <1>3, CutRightly
    <2>. QED  BY <1>1, <1>3, <2>1, WalkedExtent
<1>5. /\ Take(buf, E) \in Seq(Byte) /\ Drop(buf, E) \in Seq(Byte)
      /\ Len(Drop(buf, E)) = Len(buf) - E /\ Take(buf, E) \o Drop(buf, E) = buf
    BY <1>3, <1>4, TakeAndDrop
<1>6. \E ends : Divides(ends, Take(buf, E), 0)
    BY <1>3, <1>4, CutDivides
<1>7. last \in {"Start", "Record"}
    <2>1. CASE last = "Err"
        <3>1. buf = <<>> /\ min_record_size > 0
            BY <2>1 DEF RecordInv, CutSoFar, NothingLost
        <3>2. Len(buf) = 0
            BY <3>1, EmptySeq
        <3>3. min_record_size \in Nat
            BY <1>3, LayoutFacts, StateFacts
        <3>. QED  BY <1>1, <3>1, <3>2, <3>3
    <2>. QED  BY <1>1, <2>1 DEF RecordInv, CutSoFar
<1>. HIDE DEF E
<1>8. CutSoFar'
    <2>1. consumed \in Seq(Byte) /\ consumed \o buf = input
        BY <1>7 DEF RecordInv, CutSoFar, NothingLost
    <2>2. (consumed \o Take(buf, E)) \o Drop(buf, E) = input
        <3>1. PICK front \in Seq(Byte), back \in Seq(Byte) :
                  front = Take(buf, E) /\ back = Drop(buf, E)
            BY <1>5
        <3>2. (consumed \o front) \o back = consumed \o (front \o back)
            BY <2>1, ConcatAssociative
        <3>. QED  BY <1>5, <2>1, <3>1, <3>2
    <2>3. consumed' \in Seq(Byte)
        BY <1>1, <1>4, <1>5, <2>1, ConcatProperties
    <2>4. Len(buf') <= MaxBytes /\ buf' \in Seq(Byte)
        <3>1. Len(buf) <= MaxBytes /\ Len(buf) \in Nat /\ MaxBytes \in Nat
            BY <1>3, LenProperties, RecordAssumption DEF RecordInv, CutSoFar, RecordAssumption
        <3>. QED  BY <1>1, <1>4, <1>5, <3>1
    <2>5. consumed' \o buf' = input'
        BY <1>1, <1>4, <2>2 DEF setVars
    <2>. QED  BY <1>1, <2>3, <2>4, <2>5 DEF CutSoFar, NothingLost
<1>9. ReadSoFar'
    <2>1. template' = template
        BY <1>1 DEF setVars
    <2>2. rest' = Take(buf, E) /\ field_idx' = 0 /\ values' = <<>>
        BY <1>1, <1>4
    <2>3. rest' \in Seq(Byte)
        BY <1>5, <2>2
    <2>6. Divisible'
        BY <1>6, <2>1, <2>2 DEF Divisible, Divides
    <2>4. field_idx' \in 0..Len(template')
        BY <1>3, <2>1, <2>2, LenProperties
    <2>5. /\ values' \in Seq([ok : BOOLEAN, data : Seq(Byte)])
          /\ \A i \in 1..Len(values') : values'[i].ok
        BY <2>2, EmptySeq
    <2>. QED  BY <2>3, <2>4, <2>5, <2>6 DEF ReadSoFar
<1>. QED  BY <1>2, <1>8, <1>9 DEF RecordInv

LEMMA ReadKeeps ==
    ASSUME RecordInv, NextField
    PROVE  RecordInv'
<1>. DEFINE field == CutField(template[field_idx + 1])
            Read == [ok : BOOLEAN, data : Seq(Byte)]
<1>1. /\ last = "Record" /\ field_idx < Len(template) /\ field_idx' = field_idx + 1
      /\ rest' = Drop(rest, field.size)
      /\ values' = Append(values, [ok |-> field.ok, data |-> field.data])
      /\ UNCHANGED setVars /\ UNCHANGED <<buf, last, consumed>>
    BY DEF NextField, recordVars
<1>2. SetIsFixed'
    BY <1>1, SetStaysFixed DEF RecordInv
<1>3. CutSoFar'
    BY <1>1 DEF RecordInv, CutSoFar, NothingLost, setVars
<1>4. /\ rest \in Seq(Byte) /\ field_idx \in 0..Len(template) /\ values \in Seq(Read)
      /\ \A i \in 1..Len(values) : values[i].ok
      /\ template \in Seq(U16) /\ Len(template) \in Nat
    BY <1>1, LenProperties DEF RecordInv, ReadSoFar, SetIsFixed, LaidOut
<1>5. PICK ends : Divides(ends, rest, field_idx)
    BY <1>1 DEF RecordInv, ReadSoFar, Divisible
<1>6. /\ field.ok = TRUE /\ field.data \in Seq(Byte) /\ field.size \in 0..Len(rest)
      /\ \E later : Divides(later, Drop(rest, field.size), field_idx + 1)
    BY <1>1, <1>4, <1>5, FieldIsRead
<1>. HIDE DEF field
<1>7. rest' \in Seq(Byte) /\ Divisible'
    <2>1. rest' \in Seq(Byte)
        BY <1>1, <1>4, <1>6, TakeAndDrop
    <2>2. template' = template
        BY <1>1 DEF setVars
    <2>3. PICK later : Divides(later, Drop(rest, field.size), field_idx + 1)
        BY <1>6
    <2>. QED  BY <1>1, <2>1, <2>2, <2>3 DEF Divisible, Divides
<1>8. [ok |-> field.ok, data |-> field.data] \in Read
    BY <1>6
<1>9. PICK read \in Read : read = [ok |-> field.ok, data |-> field.data]
    BY <1>8
<1>10. values' = Append(values, read) /\ read.ok
    BY <1>1, <1>6, <1>9
<1>. HIDE DEF Read
<1>11. /\ values' \in Seq(Read) /\ Len(values') = Len(values) + 1 /\ Len(values) \in Nat
       /\ \A i \in 1..Len(values) : values'[i] = values[i]
       /\ values'[Len(values) + 1] = read
    BY <1>4, <1>10, AppendProperties, LenProperties
<1>12. ASSUME NEW i \in 1..Len(values')  PROVE values'[i].ok
    <2>1. CASE i \in 1..Len(values)
        BY <1>4, <1>11, <2>1, Zenon
    <2>2. CASE i = Len(values) + 1
        BY <1>10, <1>11, <2>2, Zenon
    <2>. QED  BY <1>11, <2>1, <2>2
<1>13. field_idx' \in 0..Len(template')
    BY <1>1, <1>4 DEF setVars
<1>14. ReadSoFar'
    BY <1>7, <1>11, <1>12, <1>13 DEF ReadSoFar, Read
<1>. QED  BY <1>2, <1>3, <1>14 DEF RecordInv

LEMMA RecordNext ==
    ASSUME SetsFit, RecordInv, [Next]_vars
    PROVE  RecordInv'
<1>1. CASE Next
    BY <1>1, StopKeeps, FailKeeps, YieldKeeps, ReadKeeps DEF Next, NextRecord
<1>2. CASE UNCHANGED vars
    BY <1>2 DEF vars, setVars, recordVars, fieldVars, RecordInv, SetIsFixed, LaidOut,
                CutSoFar, NothingLost, ReadSoFar, Divisible, Divides
<1>. QED  BY <1>1, <1>2

-----------------------------------------------------------------------------
(* The theorems.                                                           *)

\* For every set a 16-bit length can describe: the invariant of the iterators
\* holds in every reachable state.
THEOREM RecordInvariant ==
    ASSUME SetsFit
    PROVE  Spec => []RecordInv
<1>1. Init => RecordInv
    BY RecordInit
<1>2. RecordInv /\ [Next]_vars => RecordInv'
    BY RecordNext
<1>. QED  BY <1>1, <1>2, PTL DEF Spec

\* The fields of DataRecordIter and FieldIter keep their types (record.rs
\* 152-161, 60-63); layout.trailing is a gap, never negative.
THEOREM RecordTypeCorrect ==
    ASSUME SetsFit
    PROVE  Spec => []TypeOK
<1>1. ASSUME RecordInv  PROVE TypeOK
    <2>. DEFINE F == Scans(template)[Len(template)]
    <2>1. /\ LaidOut /\ template \in Seq(FieldLengths) /\ input \in Seq(Byte)
          /\ buf \in Seq(Byte) /\ consumed \in Seq(Byte) /\ rest \in Seq(Byte)
          /\ last \in {"Start", "Record", "Err", "None"}
          /\ field_idx \in 0..Len(template)
          /\ values \in Seq([ok : BOOLEAN, data : Seq(Byte)])
        BY <1>1 DEF RecordInv, SetIsFixed, CutSoFar, ReadSoFar
    <2>2. /\ F \in ScanStates /\ min_record_size = F.min
          /\ layout.skips = F.skips /\ layout.trailing = F.min - F.last_end
          /\ layout.kind \in {"AllFixed", "Inline", "Fallback"}
        BY <2>1, LayoutFacts
    <2>3. layout = [kind |-> layout.kind, skips |-> layout.skips, trailing |-> layout.trailing]
        BY <2>1 DEF LaidOut, LayoutOf
    <2>. HIDE DEF F
    <2>4. F.min \in Nat /\ F.skips \in Seq(U16) /\ F.min - F.last_end \in Nat
        BY <2>2, StateFacts
    <2>5. PICK kind \in {"AllFixed", "Inline", "Fallback"}, skips \in Seq(U16), trailing \in Nat :
              layout = [kind |-> kind, skips |-> skips, trailing |-> trailing]
        BY <2>2, <2>3, <2>4
    <2>6. layout \in [kind : {"AllFixed", "Inline", "Fallback"}, skips : Seq(U16), trailing : Nat]
        BY <2>5
    <2>. QED  BY <2>1, <2>2, <2>4, <2>6 DEF TypeOK
<1>2. RecordInv => TypeOK
    BY <1>1
<1>. QED  BY <1>2, RecordInvariant, PTL

\* DataRecordIter cuts a set exactly where RFC 7011 has its records, whichever
\* layout new() has chosen (record.rs 263-304): one field after another, hops
\* over the gaps of the inline table and the fixed size agree.
THEOREM CutAsReference ==
    ASSUME SetsFit
    PROVE  Spec => []CutsWhatTheReferenceCuts
<1>1. RecordInv => CutsWhatTheReferenceCuts
    BY BufFits, CutRightly
<1>. QED  BY <1>1, RecordInvariant, PTL

\* The records returned and what is left make up the set (record.rs 293-303).
THEOREM NoByteLost ==
    ASSUME SetsFit
    PROVE  Spec => []NothingLost
<1>1. RecordInv => NothingLost
    BY DEF RecordInv, CutSoFar
<1>. QED  BY <1>1, RecordInvariant, PTL

\* FieldIter reads every field of every record DataRecordIter returns, and ends
\* on its last byte (record.rs 79-134 against 263-304).
THEOREM FieldsAreRead ==
    ASSUME SetsFit
    PROVE  Spec => []FieldsCoverTheRecord
<1>1. ASSUME RecordInv  PROVE FieldsCoverTheRecord
    <2>. SUFFICES ASSUME last = "Record"
                  PROVE  /\ \A i \in 1..Len(values) : values[i].ok
                         /\ field_idx = Len(template) => rest = <<>>
        BY DEF FieldsCoverTheRecord
    <2>1. \A i \in 1..Len(values) : values[i].ok
        BY <1>1 DEF RecordInv, ReadSoFar
    <2>2. ASSUME field_idx = Len(template)  PROVE rest = <<>>
        <3>1. PICK ends : Divides(ends, rest, field_idx)
            BY <1>1 DEF RecordInv, ReadSoFar, Divisible
        <3>2. Len(rest) = 0
            BY <2>2, <3>1 DEF Divides
        <3>3. rest \in Seq(Byte)
            BY <1>1 DEF RecordInv, ReadSoFar
        <3>. QED  BY <3>2, <3>3, EmptySeq
    <2>. QED  BY <2>1, <2>2
<1>2. RecordInv => FieldsCoverTheRecord
    BY <1>1
<1>. QED  BY <1>2, RecordInvariant, PTL
=============================================================================
