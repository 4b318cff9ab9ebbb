---------------------------- MODULE FramingProofs ----------------------------
(***************************************************************************)
(* Proofs about Framing, for every set of messages an exporter may compose *)
(* and every datagram they may become: first what it means that bytes      *)
(* stand somewhere in others, then that reading undoes writing and writing *)
(* undoes reading, then the invariants of the three nested cursors.        *)
(***************************************************************************)
EXTENDS Framing, Induction, SequenceTheorems, TLAPS

Bytes == Seq(Byte)

\* The piece stands in bytes, behind the first `at` of them.
Stands(piece, at, bytes) ==
    /\ at + Len(piece) <= Len(bytes)
    /\ \A i \in 1..Len(piece) : bytes[at + i] = piece[i]

-----------------------------------------------------------------------------
(* Pieces of byte sequences.                                               *)

\* A function on the first numbers is a sequence.
LEMMA IsSeq ==
    ASSUME NEW S, NEW n \in Nat, NEW c \in [1..n -> S]
    PROVE  c \in Seq(S) /\ Len(c) = n
<1>1. c \in Seq(S)
    BY SeqDef
<1>2. Len(c) \in Nat /\ DOMAIN c = 1..Len(c) /\ DOMAIN c = 1..n
    BY <1>1, LenProperties
<1>3. Len(c) = n
    BY <1>2
<1>. QED  BY <1>1, <1>3

\* The first elements of a list.
LEMMA Firsts ==
    ASSUME NEW S, NEW s \in Seq(S), NEW n \in Nat, n <= Len(s)
    PROVE  /\ SubSeq(s, 1, n) \in Seq(S)
           /\ Len(SubSeq(s, 1, n)) = n
           /\ \A i \in 1..n : SubSeq(s, 1, n)[i] = s[i]
<1>1. Len(s) \in Nat /\ \A i \in 1..n : s[i] \in S
    BY LenProperties, ElementOfSeq
<1>2. /\ SubSeq(s, 1, n) \in Seq(S)
      /\ Len(SubSeq(s, 1, n)) = IF 1 <= n THEN n - 1 + 1 ELSE 0
      /\ \A i \in 1..(n - 1 + 1) : SubSeq(s, 1, n)[i] = s[1 + i - 1]
    <2>. DEFINE m == 1
    <2>1. m \in Int /\ n \in Int /\ \A i \in m..n : s[i] \in S
        BY <1>1
    <2>2. /\ SubSeq(s, m, n) \in Seq(S)
          /\ Len(SubSeq(s, m, n)) = IF m <= n THEN n - m + 1 ELSE 0
          /\ \A i \in 1..(n - m + 1) : SubSeq(s, m, n)[i] = s[m + i - 1]
        <3>. HIDE DEF m
        <3>. QED  BY <2>1, SubSeqProperties
    <2>. QED  BY <2>2
<1>. QED  BY <1>1, <1>2

LEMMA LenBytes == \A b \in Bytes : Len(b) \in Nat /\ \A i \in 1..Len(b) : b[i] \in Byte
<1>. QED  BY LenProperties, ElementOfSeq DEF Bytes

\* What is left behind the first bytes.
LEMMA Dropped ==
    ASSUME NEW b \in Bytes, NEW n \in Nat, n <= Len(b)
    PROVE  /\ Drop(b, n) \in Bytes
           /\ Len(Drop(b, n)) = Len(b) - n
           /\ \A i \in 1..(Len(b) - n) : Drop(b, n)[i] = b[n + i]
<1>1. Len(b) \in Nat /\ \A i \in (n + 1)..Len(b) : b[i] \in Byte
    BY LenBytes
<1>. DEFINE m == n + 1
<1>2. m \in Int /\ Len(b) \in Int /\ \A i \in m..Len(b) : b[i] \in Byte
    BY <1>1
<1>3. /\ SubSeq(b, m, Len(b)) \in Seq(Byte)
      /\ Len(SubSeq(b, m, Len(b))) = IF m <= Len(b) THEN Len(b) - m + 1 ELSE 0
      /\ \A i \in 1..(Len(b) - m + 1) : SubSeq(b, m, Len(b))[i] = b[m + i - 1]
    <2>. HIDE DEF m
    <2>. QED  BY <1>2, SubSeqProperties
<1>. QED  BY <1>1, <1>3 DEF Drop, Bytes

\* The bytes from one place to another.
LEMMA Cut ==
    ASSUME NEW b \in Bytes, NEW m \in Nat, NEW n \in Nat, m <= n, n <= Len(b)
    PROVE  /\ SubSeq(b, m + 1, n) \in Bytes
           /\ Len(SubSeq(b, m + 1, n)) = n - m
           /\ \A i \in 1..(n - m) : SubSeq(b, m + 1, n)[i] = b[m + i]
<1>1. Len(b) \in Nat /\ \A i \in (m + 1)..n : b[i] \in Byte
    BY LenBytes
<1>. DEFINE k == m + 1
<1>2. k \in Int /\ n \in Int /\ \A i \in k..n : b[i] \in Byte
    BY <1>1
<1>3. /\ SubSeq(b, k, n) \in Seq(Byte)
      /\ Len(SubSeq(b, k, n)) = IF k <= n THEN n - k + 1 ELSE 0
      /\ \A i \in 1..(n - k + 1) : SubSeq(b, k, n)[i] = b[k + i - 1]
    <2>. HIDE DEF k
    <2>. QED  BY <1>2, SubSeqProperties
<1>. QED  BY <1>1, <1>3 DEF Bytes

LEMMA Joined ==
    ASSUME NEW a \in Bytes, NEW b \in Bytes
    PROVE  /\ a \o b \in Bytes
           /\ Len(a \o b) = Len(a) + Len(b)
           /\ \A i \in 1..Len(a) : (a \o b)[i] = a[i]
           /\ \A i \in 1..Len(b) : (a \o b)[Len(a) + i] = b[i]
<1>1. Len(a) \in Nat /\ Len(b) \in Nat
    BY LenBytes
<1>2. /\ a \o b \in Seq(Byte)
      /\ Len(a \o b) = Len(a) + Len(b)
      /\ \A i \in 1..(Len(a) + Len(b)) : (a \o b)[i] = IF i <= Len(a) THEN a[i] ELSE b[i - Len(a)]
    BY ConcatProperties DEF Bytes
<1>. QED  BY <1>1, <1>2 DEF Bytes

LEMMA SameBytes ==
    ASSUME NEW a \in Bytes, NEW b \in Bytes, Len(a) = Len(b), \A i \in 1..Len(a) : a[i] = b[i]
    PROVE  a = b
<1>. QED  BY SeqEqual DEF Bytes

\* Two pieces stand one behind the other exactly if they stand as one.
LEMMA StandsJoined ==
    ASSUME NEW a \in Bytes, NEW b \in Bytes, NEW bytes \in Bytes, NEW at \in Nat
    PROVE  Stands(a \o b, at, bytes) <=> Stands(a, at, bytes) /\ Stands(b, at + Len(a), bytes)
<1>1. Len(a) \in Nat /\ Len(b) \in Nat /\ Len(bytes) \in Nat
    BY LenBytes
<1>2. /\ Len(a \o b) = Len(a) + Len(b)
      /\ \A i \in 1..Len(a) : (a \o b)[i] = a[i]
      /\ \A i \in 1..Len(b) : (a \o b)[Len(a) + i] = b[i]
    BY Joined
<1>3. ASSUME Stands(a \o b, at, bytes)
      PROVE  Stands(a, at, bytes) /\ Stands(b, at + Len(a), bytes)
    <2>1. \A i \in 1..Len(b) : bytes[at + Len(a) + i] = b[i]
        <3>1. SUFFICES ASSUME NEW i \in 1..Len(b)  PROVE bytes[at + Len(a) + i] = b[i]
            OBVIOUS
        <3>2. Len(a) + i \in 1..Len(a \o b) /\ at + (Len(a) + i) = at + Len(a) + i
            BY <1>1, <1>2
        <3>. QED  BY <1>2, <1>3, <3>2 DEF Stands
    <2>. QED  BY <1>1, <1>2, <1>3, <2>1 DEF Stands
<1>4. ASSUME Stands(a, at, bytes), Stands(b, at + Len(a), bytes)
      PROVE  Stands(a \o b, at, bytes)
    <2>1. SUFFICES ASSUME NEW i \in 1..Len(a \o b)  PROVE bytes[at + i] = (a \o b)[i]
        BY <1>1, <1>2, <1>4 DEF Stands
    <2>2. CASE i <= Len(a)
        BY <1>1, <1>2, <1>4, <2>2 DEF Stands
    <2>3. CASE i > Len(a)
        <3>. DEFINE j == i - Len(a)
        <3>1. j \in 1..Len(b) /\ i = Len(a) + j /\ at + i = at + Len(a) + j
            BY <1>1, <1>2, <2>3
        <3>. HIDE DEF j
        <3>2. (a \o b)[i] = b[j] /\ bytes[at + i] = b[j]
            BY <1>2, <1>4, <3>1 DEF Stands
        <3>. QED  BY <3>2
    <2>. QED  BY <1>1, <2>2, <2>3
<1>. QED  BY <1>3, <1>4

LEMMA StandsWhole == \A b \in Bytes : Stands(b, 0, b)
<1>1. ASSUME NEW b \in Bytes  PROVE Stands(b, 0, b)
    <2>1. Len(b) \in Nat
        BY LenBytes
    <2>2. \A i \in 1..Len(b) : 0 + i = i
        BY <2>1
    <2>. QED  BY <2>1, <2>2 DEF Stands
<1>. QED  BY <1>1

\* What stands in bytes stands in every continuation of them.
LEMMA StandsLonger ==
    ASSUME NEW piece \in Bytes, NEW a \in Bytes, NEW b \in Bytes, NEW at \in Nat,
           Stands(piece, at, a)
    PROVE  Stands(piece, at, a \o b)
<1>1. Len(piece) \in Nat /\ Len(a) \in Nat /\ Len(b) \in Nat
    BY LenBytes
<1>2. Len(a \o b) = Len(a) + Len(b) /\ \A i \in 1..Len(a) : (a \o b)[i] = a[i]
    BY Joined
<1>3. \A i \in 1..Len(piece) : at + i \in 1..Len(a)
    BY <1>1 DEF Stands
<1>. QED  BY <1>1, <1>2, <1>3 DEF Stands

\* What stands in a piece stands where the piece does.
LEMMA StandsThrough ==
    ASSUME NEW piece \in Bytes, NEW a \in Bytes, NEW b \in Bytes, NEW at \in Nat,
           Stands(piece, 0, a), Stands(a, at, b)
    PROVE  Stands(piece, at, b)
<1>1. Len(piece) \in Nat /\ Len(a) \in Nat /\ Len(b) \in Nat /\ Len(piece) <= Len(a)
    BY LenBytes DEF Stands
<1>2. \A i \in 1..Len(piece) : i \in 1..Len(a) /\ a[i] = piece[i]
    BY <1>1 DEF Stands
<1>. QED  BY <1>1, <1>2 DEF Stands

\* What stands in a part of the bytes stands in the whole, and the other way.
LEMMA StandsInCut ==
    ASSUME NEW piece \in Bytes, NEW bytes \in Bytes,
           NEW m \in Nat, NEW n \in Nat, m <= n, n <= Len(bytes), NEW at \in Nat
    PROVE  Stands(piece, at, SubSeq(bytes, m + 1, n)) <=>
               Stands(piece, m + at, bytes) /\ m + at + Len(piece) <= n
<1>. DEFINE part == SubSeq(bytes, m + 1, n)
<1>1. part \in Bytes /\ Len(part) = n - m /\ \A i \in 1..(n - m) : part[i] = bytes[m + i]
    BY Cut
<1>2. Len(piece) \in Nat /\ Len(bytes) \in Nat
    BY LenBytes
<1>. HIDE DEF part
<1>3. ASSUME at + Len(piece) <= n - m, NEW i \in 1..Len(piece)
      PROVE  part[at + i] = bytes[m + at + i]
    <2>1. at + i \in 1..(n - m) /\ m + (at + i) = m + at + i
        BY <1>2, <1>3
    <2>. QED  BY <1>1, <2>1
<1>4. Stands(piece, at, part) <=> Stands(piece, m + at, bytes) /\ m + at + Len(piece) <= n
    BY <1>1, <1>2, <1>3 DEF Stands
<1>. QED  BY <1>4 DEF part

LEMMA StandsInRest ==
    ASSUME NEW piece \in Bytes, NEW bytes \in Bytes, NEW m \in Nat, m <= Len(bytes), NEW at \in Nat
    PROVE  Stands(piece, at, Drop(bytes, m)) <=> Stands(piece, m + at, bytes)
<1>1. Len(bytes) \in Nat
    BY LenBytes
<1>2. Stands(piece, at, SubSeq(bytes, m + 1, Len(bytes))) <=>
          Stands(piece, m + at, bytes) /\ m + at + Len(piece) <= Len(bytes)
    BY <1>1, StandsInCut
<1>. QED  BY <1>2 DEF Drop, Stands

\* The bytes themselves stand in place of what was cut out of them.
LEMMA CutStands ==
    ASSUME NEW bytes \in Bytes, NEW m \in Nat, NEW n \in Nat, m <= n, n <= Len(bytes)
    PROVE  Stands(SubSeq(bytes, m + 1, n), m, bytes)
<1>1. Len(bytes) \in Nat
    BY LenBytes
<1>. QED  BY <1>1, Cut DEF Stands

\* What stands at the beginning is a prefix, and the rest follows it.
LEMMA StandsFirst ==
    ASSUME NEW piece \in Bytes, NEW bytes \in Bytes, Stands(piece, 0, bytes)
    PROVE  /\ IsPrefix(piece, bytes)
           /\ piece \o Drop(bytes, Len(piece)) = bytes
<1>1. Len(piece) \in Nat /\ Len(bytes) \in Nat /\ Len(piece) <= Len(bytes)
      /\ \A i \in 1..Len(piece) : bytes[i] = piece[i]
    BY LenBytes DEF Stands
<1>2. SubSeq(piece, 1, Len(piece)) = piece
    BY SubSeqFull DEF Bytes
<1>3. SubSeq(bytes, 1, Len(piece)) = piece
    <2>. DEFINE first == SubSeq(bytes, 1, Len(piece))
    <2>. DEFINE m == 0
    <2>1. m \in Nat /\ m <= Len(piece) /\ m = 0
        BY <1>1
    <2>. HIDE DEF m
    <2>2. SubSeq(bytes, m + 1, Len(piece)) \in Bytes
          /\ Len(SubSeq(bytes, m + 1, Len(piece))) = Len(piece) - m
          /\ \A i \in 1..(Len(piece) - m) : SubSeq(bytes, m + 1, Len(piece))[i] = bytes[m + i]
        BY <1>1, <2>1, Cut
    <2>. HIDE DEF first
    <2>3. first = SubSeq(bytes, m + 1, Len(piece))
        BY <2>1 DEF first
    <2>4. Len(first) = Len(piece) /\ \A i \in 1..Len(first) : first[i] = piece[i]
        BY <1>1, <2>1, <2>2, <2>3
    <2>5. first = piece
        BY <2>2, <2>3, <2>4, SameBytes
    <2>. QED  BY <2>5 DEF first
<1>4. piece \o Drop(bytes, Len(piece)) = bytes
    <2>. DEFINE rest == Drop(bytes, Len(piece))
    <2>1. rest \in Bytes /\ Len(rest) = Len(bytes) - Len(piece)
          /\ \A i \in 1..(Len(bytes) - Len(piece)) : rest[i] = bytes[Len(piece) + i]
        BY <1>1, Dropped
    <2>. HIDE DEF rest
    <2>2. Stands(rest, Len(piece), bytes)
        BY <1>1, <2>1 DEF Stands
    <2>3. Stands(piece, 0, bytes) /\ Stands(rest, 0 + Len(piece), bytes)
        BY <1>1, <2>2
    <2>4. Stands(piece \o rest, 0, bytes) /\ piece \o rest \in Bytes
          /\ Len(piece \o rest) = Len(piece) + Len(rest)
        BY <2>1, <2>3, StandsJoined, Joined
    <2>5. piece \o rest = bytes
        <3>. DEFINE both == piece \o rest
        <3>1. both \in Bytes /\ Len(both) = Len(bytes) /\ \A i \in 1..Len(both) : bytes[0 + i] = both[i]
            BY <1>1, <2>1, <2>4 DEF Stands
        <3>. HIDE DEF both
        <3>2. \A i \in 1..Len(both) : both[i] = bytes[i]
            BY <3>1, LenBytes
        <3>3. both = bytes
            BY <3>1, <3>2, SameBytes
        <3>. QED  BY <3>3 DEF both
    <2>. QED  BY <2>5 DEF rest
<1>. QED  BY <1>1, <1>2, <1>3, <1>4 DEF IsPrefix

-----------------------------------------------------------------------------
(* Two-byte numbers.                                                       *)

LEMMA Halves ==
    ASSUME NEW n \in U16
    PROVE  n \div 256 \in Byte /\ n % 256 \in Byte /\ (n \div 256) * 256 + (n % 256) = n
<1>. QED  BY DEF U16, Byte

LEMMA Whole ==
    ASSUME NEW a \in Byte, NEW b \in Byte
    PROVE  /\ a * 256 + b \in U16
           /\ (a * 256 + b) \div 256 = a /\ (a * 256 + b) % 256 = b
<1>1. a * 256 + b \in U16
    BY DEF U16, Byte
<1>2. (a * 256 + b) \div 256 = a /\ (a * 256 + b) % 256 = b
    BY DEF Byte
<1>. QED  BY <1>1, <1>2

LEMMA Word ==
    ASSUME NEW n \in U16
    PROVE  Bytes16(n) \in Bytes /\ Len(Bytes16(n)) = 2
           /\ Bytes16(n)[1] = n \div 256 /\ Bytes16(n)[2] = n % 256
<1>1. n \div 256 \in Byte /\ n % 256 \in Byte
    BY Halves, Zenon
<1>. QED  BY <1>1 DEF Bytes16, Bytes

\* What is read is what is there.
LEMMA ReadsWord ==
    ASSUME NEW bytes \in Bytes, NEW at \in Nat, at + 2 <= Len(bytes)
    PROVE  /\ ReadU16(bytes, at) \in U16
           /\ Stands(Bytes16(ReadU16(bytes, at)), at, bytes)
<1>1. Len(bytes) \in Nat /\ at + 1 \in 1..Len(bytes) /\ at + 2 \in 1..Len(bytes)
    BY LenBytes
<1>2. bytes[at + 1] \in Byte /\ bytes[at + 2] \in Byte
    BY <1>1, LenBytes
<1>3. PICK a \in Byte, b \in Byte : a = bytes[at + 1] /\ b = bytes[at + 2]
    BY <1>2
<1>. DEFINE n == a * 256 + b
<1>4. n \in U16 /\ n \div 256 = a /\ n % 256 = b
    BY Whole
<1>5. ReadU16(bytes, at) = n
    BY <1>3 DEF ReadU16
<1>. HIDE DEF n
<1>6. Stands(Bytes16(n), at, bytes)
    <2>1. Len(Bytes16(n)) = 2 /\ Bytes16(n)[1] = a /\ Bytes16(n)[2] = b
        BY <1>4, Word
    <2>. QED  BY <1>1, <1>3, <2>1 DEF Stands
<1>. QED  BY <1>4, <1>5, <1>6

\* What is written is read.
LEMMA WordIsRead ==
    ASSUME NEW bytes \in Bytes, NEW at \in Nat, NEW n \in U16, Stands(Bytes16(n), at, bytes)
    PROVE  ReadU16(bytes, at) = n /\ at + 2 <= Len(bytes)
<1>1. Len(Bytes16(n)) = 2 /\ Bytes16(n)[1] = n \div 256 /\ Bytes16(n)[2] = n % 256
    BY Word
<1>2. bytes[at + 1] = n \div 256 /\ bytes[at + 2] = n % 256 /\ at + 2 <= Len(bytes)
    BY <1>1 DEF Stands
<1>3. (n \div 256) * 256 + (n % 256) = n
    BY Halves, Zenon
<1>. QED  BY <1>2, <1>3, Zenon DEF ReadU16

-----------------------------------------------------------------------------
(* A list of pieces, flattened.                                            *)

Pieces == Seq(Bytes)

\* Flattening as a recursion over the number of pieces.
Joins(f, s) ==
    /\ f \in [0..Len(s) -> Bytes]
    /\ f[0] = <<>>
    /\ \A i \in 1..Len(s) : f[i] = f[i - 1] \o s[i]

LEMMA LenPieces == \A s \in Pieces : Len(s) \in Nat /\ \A i \in 1..Len(s) : s[i] \in Bytes
<1>. QED  BY LenProperties, ElementOfSeq DEF Pieces

LEMMA NoBytes == <<>> \in Bytes /\ Len(<<>>) = 0 /\ \A b \in Bytes : <<>> \o b = b
<1>. QED  BY EmptySeq, ConcatEmptySeq DEF Bytes

LEMMA FlattenJoins ==
    ASSUME NEW s \in Pieces
    PROVE  \E f : Joins(f, s) /\ FlattenSeq(s) = f[Len(s)]
<1>. DEFINE N == Len(s)
            step == [i \in 1..N |-> [b \in Bytes |-> b \o s[i]]]
<1>1. N \in Nat /\ \A i \in 1..N : s[i] \in Bytes
    BY LenPieces
<1>2. \A i \in 1..N : \A b \in Bytes : b \o s[i] \in Bytes
    BY <1>1, Joined
<1>. HIDE DEF N
<1>3. step \in [1..N -> [Bytes -> Bytes]]
      /\ \A i \in 1..N : \A b \in Bytes : step[i][b] = b \o s[i]
    BY <1>2
<1>. HIDE DEF step
<1>4. PICK f \in [0..N -> Bytes] : Steps(f, N, <<>>, step)
    BY <1>1, <1>3, NoBytes, Recursion
<1>5. f[0] = <<>> /\ \A i \in 1..N : f[i] = f[i - 1] \o s[i]
    <2>1. ASSUME NEW i \in 1..N  PROVE f[i] = f[i - 1] \o s[i]
        <3>1. f[i - 1] \in Bytes /\ f[i] = step[i][f[i - 1]]
            BY <1>1, <1>4 DEF Steps
        <3>. QED  BY <1>3, <3>1
    <2>. QED  BY <1>4, <2>1 DEF Steps
<1>6. Joins(f, s)
    BY <1>4, <1>5 DEF Joins, N
<1>7. CASE N = 0
    <2>1. s = <<>>
        BY <1>7, EmptySeq DEF N, Pieces
    <2>2. FlattenSeq(s) = <<>>
        BY <1>7, <2>1 DEF FlattenSeq, N
    <2>. QED  BY <1>5, <1>6, <1>7, <2>2 DEF N
<1>8. CASE N # 0
    <2>. DEFINE flatten == CHOOSE g : g = [i \in 1..N |-> IF i = 1 THEN s[i] ELSE g[i - 1] \o s[i]]
                h == [i \in 1..N |-> f[i]]
    <2>1. FlattenSeq(s) = flatten[N]
        BY <1>8 DEF FlattenSeq, N
    <2>2. h = [i \in 1..N |-> IF i = 1 THEN s[i] ELSE h[i - 1] \o s[i]]
        <3>1. ASSUME NEW i \in 1..N  PROVE f[i] = IF i = 1 THEN s[i] ELSE h[i - 1] \o s[i]
            <4>1. CASE i = 1
                BY <1>1, <1>5, <4>1, NoBytes
            <4>2. CASE i # 1
                <5>1. i - 1 \in 1..N
                    BY <1>1, <4>2
                <5>. QED  BY <1>5, <4>2, <5>1
            <4>. QED  BY <4>1, <4>2
        <3>. QED  BY <3>1
    <2>. HIDE DEF h
    <2>3. flatten = [i \in 1..N |-> IF i = 1 THEN s[i] ELSE flatten[i - 1] \o s[i]]
        BY <2>2, Zenon
    <2>. HIDE DEF flatten
    <2>. DEFINE T == {i \in 0..N : i = 0 \/ flatten[i] = f[i]}
    <2>4. 0 \in T
        BY <1>1
    <2>5. ASSUME NEW i \in 1..N, i - 1 \in T  PROVE i \in T
        <3>1. flatten[i] = IF i = 1 THEN s[i] ELSE flatten[i - 1] \o s[i]
            BY <2>3
        <3>2. CASE i = 1
            <4>1. f[i] = f[i - 1] \o s[i] /\ s[i] \in Bytes
                BY <1>1, <1>5
            <4>2. f[i - 1] = <<>>
                BY <1>5, <3>2
            <4>3. f[i] = s[i]
                BY <4>1, <4>2, NoBytes, Zenon
            <4>. QED  BY <3>1, <3>2, <4>3
        <3>3. CASE i # 1
            <4>1. flatten[i - 1] = f[i - 1]
                BY <1>1, <2>5, <3>3
            <4>2. f[i] = f[i - 1] \o s[i]
                BY <1>5
            <4>3. flatten[i] = f[i]
                BY <3>1, <3>3, <4>1, <4>2, Zenon
            <4>. QED  BY <4>3
        <3>. QED  BY <3>2, <3>3
    <2>6. 0..N \subseteq T
        <3>. HIDE DEF T
        <3>. QED  BY <1>1, <2>4, <2>5, UpTo
    <2>7. flatten[N] = f[N]
        BY <1>1, <1>8, <2>6
    <2>. QED  BY <1>6, <2>1, <2>7 DEF N
<1>. QED  BY <1>7, <1>8

\* There is only one way to join pieces.
LEMMA JoinsAgree ==
    ASSUME NEW s \in Pieces, NEW t \in Pieces, NEW f, NEW g, Joins(f, s), Joins(g, t),
           NEW n \in Nat, n <= Len(s), n <= Len(t), \A i \in 1..n : s[i] = t[i]
    PROVE  f[n] = g[n]
<1>. DEFINE T == {i \in 0..n : f[i] = g[i]}
<1>1. 0 \in T
    BY DEF Joins
<1>2. ASSUME NEW i \in 1..n, i - 1 \in T  PROVE i \in T
    <2>1. i \in 1..Len(s) /\ i \in 1..Len(t)
        BY LenPieces
    <2>2. f[i] = f[i - 1] \o s[i] /\ g[i] = g[i - 1] \o t[i]
        BY <2>1, Zenon DEF Joins
    <2>3. f[i - 1] = g[i - 1] /\ s[i] = t[i]
        BY <1>2
    <2>4. f[i] = g[i]
        BY <2>2, <2>3, Zenon
    <2>. QED  BY <2>4
<1>3. 0..n \subseteq T
    <2>. HIDE DEF T
    <2>. QED  BY <1>1, <1>2, UpTo
<1>. QED  BY <1>3

LEMMA FlattenEmpty == FlattenSeq(<<>>) = <<>>
<1>. QED  BY EmptySeq DEF FlattenSeq

LEMMA FlattenBytes == ASSUME NEW s \in Pieces  PROVE FlattenSeq(s) \in Bytes
<1>1. PICK f : Joins(f, s) /\ FlattenSeq(s) = f[Len(s)]
    BY FlattenJoins
<1>2. Len(s) \in 0..Len(s)
    BY LenPieces
<1>. QED  BY <1>1, <1>2 DEF Joins

LEMMA FlattenAppend ==
    ASSUME NEW s \in Pieces, NEW b \in Bytes
    PROVE  FlattenSeq(Append(s, b)) = FlattenSeq(s) \o b
<1>. DEFINE t == Append(s, b)
<1>1. /\ t \in Pieces /\ Len(t) = Len(s) + 1 /\ Len(s) \in Nat
      /\ \A i \in 1..Len(s) : s[i] = t[i]
      /\ t[Len(s) + 1] = b
    BY AppendProperties, LenPieces DEF Pieces
<1>. HIDE DEF t
<1>2. PICK f : Joins(f, s) /\ FlattenSeq(s) = f[Len(s)]
    BY FlattenJoins
<1>3. PICK g : Joins(g, t) /\ FlattenSeq(t) = g[Len(t)]
    BY <1>1, FlattenJoins
<1>4. f[Len(s)] = g[Len(s)]
    BY <1>1, <1>2, <1>3, JoinsAgree
<1>5. PICK n \in 1..Len(t) : n = Len(t) /\ n = Len(s) + 1 /\ n - 1 = Len(s)
    BY <1>1
<1>6. g[n] = g[n - 1] \o t[n]
    BY <1>3 DEF Joins
<1>7. t[n] = b
    BY <1>1, <1>5
<1>8. g[Len(t)] = g[Len(s)] \o b
    BY <1>5, <1>6, <1>7
<1>. QED  BY <1>2, <1>3, <1>4, <1>8 DEF t
\* One more piece behind the others.
LEMMA FlattenLonger ==
    ASSUME NEW s \in Pieces, NEW t \in Pieces, Len(t) = Len(s) + 1,
           \A i \in 1..Len(s) : t[i] = s[i]
    PROVE  FlattenSeq(t) = FlattenSeq(s) \o t[Len(t)]
<1>1. Len(s) \in Nat /\ t[Len(t)] \in Bytes
    BY LenPieces
<1>. DEFINE u == Append(s, t[Len(t)])
<1>2. /\ u \in Seq(Bytes) /\ Len(u) = Len(s) + 1
      /\ \A i \in 1..Len(s) : u[i] = s[i]
      /\ u[Len(s) + 1] = t[Len(t)]
    BY <1>1, AppendProperties DEF Pieces
<1>. HIDE DEF u
<1>3. ASSUME NEW i \in 1..Len(u)  PROVE u[i] = t[i]
    <2>1. CASE i \in 1..Len(s)
        BY <1>2, <2>1
    <2>2. CASE i = Len(s) + 1
        BY <1>2, <2>2
    <2>. QED  BY <1>1, <1>2, <2>1, <2>2
<1>4. u = t
    BY <1>2, <1>3, SeqEqual DEF Pieces
<1>. QED  BY <1>1, <1>4, FlattenAppend DEF u

\* The first pieces stand in front.
LEMMA FlattenWithin ==
    ASSUME NEW s \in Pieces, NEW t \in Pieces, Len(s) <= Len(t),
           \A i \in 1..Len(s) : t[i] = s[i]
    PROVE  Stands(FlattenSeq(s), 0, FlattenSeq(t))
<1>1. PICK f : Joins(f, s) /\ FlattenSeq(s) = f[Len(s)]
    BY FlattenJoins
<1>2. PICK g : Joins(g, t) /\ FlattenSeq(t) = g[Len(t)]
    BY FlattenJoins
<1>3. Len(s) \in Nat /\ Len(t) \in Nat
    BY LenPieces
<1>4. f[Len(s)] = g[Len(s)]
    BY <1>1, <1>2, <1>3, JoinsAgree
<1>. DEFINE first == g[Len(s)]
            T == {i \in 0..Len(t) : i >= Len(s) => Stands(first, 0, g[i])}
<1>5. first \in Bytes
    BY <1>2, <1>3 DEF Joins
<1>6. 0 \in T
    <2>1. CASE Len(s) = 0
        BY <1>3, <1>5, <2>1, StandsWhole
    <2>2. CASE Len(s) # 0
        BY <1>3, <2>2
    <2>. QED  BY <2>1, <2>2
<1>7. ASSUME NEW i \in 1..Len(t), i - 1 \in T  PROVE i \in T
    <2>1. i - 1 \in 0..Len(t) /\ g[i - 1] \in Bytes /\ g[i] = g[i - 1] \o t[i] /\ t[i] \in Bytes
        <3>1. i - 1 \in 0..Len(t)
            BY <1>3
        <3>. QED  BY <1>2, <3>1, LenPieces DEF Joins
    <2>2. CASE i = Len(s)
        BY <1>5, <2>2, StandsWhole
    <2>3. CASE i > Len(s)
        <3>1. Stands(first, 0, g[i - 1])
            BY <1>3, <1>7, <2>3
        <3>. HIDE DEF first
        <3>2. Stands(first, 0, g[i])
            BY <1>5, <2>1, <3>1, StandsLonger
        <3>. QED  BY <3>2
    <2>. QED  BY <1>3, <2>2, <2>3
<1>8. 0..Len(t) \subseteq T
    <2>. HIDE DEF T
    <2>. QED  BY <1>3, <1>6, <1>7, UpTo
<1>9. Stands(first, 0, g[Len(t)])
    BY <1>3, <1>8
<1>. QED  BY <1>1, <1>2, <1>4, <1>9

-----------------------------------------------------------------------------
(* Field specifiers, written and read.                                     *)

WordOf(f) == f.information_element_id + IF f.enterprise_number = <<>> THEN 0 ELSE ENTERPRISE_BIT

LEMMA FieldParts ==
    ASSUME NEW f \in FieldSpecifier
    PROVE  /\ f.enterprise_number \in Bytes
           /\ Len(f.enterprise_number) = IF f.enterprise_number = <<>> THEN 0 ELSE 4
           /\ f.field_length \in U16
           /\ f.information_element_id \in 0..(ENTERPRISE_BIT - 1)
           /\ WordOf(f) \in U16
<1>1. /\ f.information_element_id \in 0..(ENTERPRISE_BIT - 1)
      /\ f.enterprise_number \in {<<>>} \cup [1..4 -> Byte]
      /\ f.field_length \in U16
    BY DEF FieldSpecifier
<1>2. PICK id \in Int : id = f.information_element_id /\ 0 <= id /\ id <= ENTERPRISE_BIT - 1
    <2>1. ENTERPRISE_BIT \in Int
        BY DEF ENTERPRISE_BIT
    <2>. QED  BY <1>1, <2>1
<1>3. id \in U16 /\ id + 0 \in U16 /\ id + ENTERPRISE_BIT \in U16
    BY <1>2 DEF ENTERPRISE_BIT, U16
<1>4. WordOf(f) \in U16
    <2>1. WordOf(f) = id + 0 \/ WordOf(f) = id + ENTERPRISE_BIT
        BY <1>2, Zenon DEF WordOf
    <2>. QED  BY <1>3, <2>1
<1>5. CASE f.enterprise_number = <<>>
    BY <1>1, <1>4, <1>5, NoBytes
<1>6. CASE f.enterprise_number # <<>>
    <2>1. f.enterprise_number \in [1..4 -> Byte]
        BY <1>1, <1>6
    <2>2. f.enterprise_number \in Seq(Byte) /\ Len(f.enterprise_number) = 4
        BY <2>1, IsSeq
    <2>. QED  BY <1>1, <1>4, <1>6, <2>2 DEF Bytes
<1>. QED  BY <1>5, <1>6

LEMMA FieldWritten ==
    ASSUME NEW f \in FieldSpecifier
    PROVE  /\ FieldBytes(f) \in Bytes
           /\ Len(FieldBytes(f)) = IF f.enterprise_number = <<>> THEN 4 ELSE 8
           /\ \A bytes \in Bytes : \A at \in Nat :
                  Stands(FieldBytes(f), at, bytes) <=>
                      /\ Stands(Bytes16(WordOf(f)), at, bytes)
                      /\ Stands(Bytes16(f.field_length), at + 2, bytes)
                      /\ Stands(f.enterprise_number, at + 4, bytes)
<1>. DEFINE a == Bytes16(WordOf(f))
            b == Bytes16(f.field_length)
            c == f.enterprise_number
<1>1. a \in Bytes /\ b \in Bytes /\ c \in Bytes /\ Len(a) = 2 /\ Len(b) = 2
    BY FieldParts, Word
<1>2. Len(c) = IF f.enterprise_number = <<>> THEN 0 ELSE 4
    BY FieldParts
<1>3. FieldBytes(f) = (a \o b) \o c
    BY DEF FieldBytes, WordOf
<1>. HIDE DEF a, b, c
<1>4. a \o b \in Bytes /\ Len(a \o b) = 4
    <2>1. a \o b \in Bytes /\ Len(a \o b) = Len(a) + Len(b)
        BY <1>1, Joined
    <2>. QED  BY <1>1, <2>1
<1>5. (a \o b) \o c \in Bytes /\ Len((a \o b) \o c) = 4 + Len(c)
    BY <1>1, <1>4, Joined
<1>6. ASSUME NEW bytes \in Bytes, NEW at \in Nat
      PROVE  Stands((a \o b) \o c, at, bytes) <=>
                 Stands(a, at, bytes) /\ Stands(b, at + 2, bytes) /\ Stands(c, at + 4, bytes)
    <2>1. Stands((a \o b) \o c, at, bytes) <=> Stands(a \o b, at, bytes) /\ Stands(c, at + 4, bytes)
        BY <1>1, <1>4, StandsJoined
    <2>2. Stands(a \o b, at, bytes) <=> Stands(a, at, bytes) /\ Stands(b, at + 2, bytes)
        BY <1>1, StandsJoined
    <2>. QED  BY <2>1, <2>2
<1>. QED  BY <1>2, <1>3, <1>5, <1>6 DEF a, b, c
\* The size of a field specifier: that of the enterprise bit of its first word.
SizeOf(word) == IF word >= ENTERPRISE_BIT THEN 8 ELSE 4

LEMMA FieldRead ==
    ASSUME NEW bytes \in Bytes, NEW at \in Nat
    PROVE  /\ FieldAt(bytes, at).ok <=> /\ at + 4 <= Len(bytes)
                                        /\ at + SizeOf(ReadU16(bytes, at)) <= Len(bytes)
           /\ FieldAt(bytes, at).ok \in BOOLEAN
           /\ FieldAt(bytes, at).ok =>
                  FieldAt(bytes, at) =
                      LET word == ReadU16(bytes, at)
                      IN  [ok |-> TRUE, next |-> at + SizeOf(word),
                           spec |-> [information_element_id |-> word % ENTERPRISE_BIT,
                                     enterprise_number |-> SubSeq(bytes, at + 5, at + SizeOf(word)),
                                     field_length |-> ReadU16(bytes, at + 2)]]
<1>1. Len(bytes) \in Nat
    BY LenBytes
<1>2. CASE at + 4 > Len(bytes)
    BY <1>1, <1>2 DEF FieldAt, NoField
<1>3. CASE ~(at + 4 > Len(bytes)) /\ at + SizeOf(ReadU16(bytes, at)) > Len(bytes)
    <2>1. ReadU16(bytes, at) \in U16
        BY <1>1, <1>3, ReadsWord
    <2>2. SizeOf(ReadU16(bytes, at)) \in Nat
        BY DEF SizeOf
    <2>3. FieldAt(bytes, at) = NoField
        BY <1>3, Zenon DEF FieldAt, SizeOf
    <2>. QED  BY <1>1, <1>3, <2>2, <2>3 DEF NoField
<1>4. CASE ~(at + 4 > Len(bytes)) /\ ~(at + SizeOf(ReadU16(bytes, at)) > Len(bytes))
    <2>1. SizeOf(ReadU16(bytes, at)) \in Nat
        BY DEF SizeOf
    <2>2. FieldAt(bytes, at) =
              [ok |-> TRUE, next |-> at + SizeOf(ReadU16(bytes, at)),
               spec |-> [information_element_id |-> ReadU16(bytes, at) % ENTERPRISE_BIT,
                         enterprise_number |-> SubSeq(bytes, at + 5, at + SizeOf(ReadU16(bytes, at))),
                         field_length |-> ReadU16(bytes, at + 2)]]
        BY <1>4, Zenon DEF FieldAt, SizeOf
    <2>3. FieldAt(bytes, at).ok = TRUE
        BY <2>2
    <2>. QED  BY <1>1, <1>4, <2>1, <2>2, <2>3
<1>. QED  BY <1>2, <1>3, <1>4

LEMMA WordSplit ==
    ASSUME NEW w \in U16
    PROVE  /\ w % ENTERPRISE_BIT \in 0..(ENTERPRISE_BIT - 1)
           /\ w >= ENTERPRISE_BIT => (w % ENTERPRISE_BIT) + ENTERPRISE_BIT = w
           /\ ~(w >= ENTERPRISE_BIT) => (w % ENTERPRISE_BIT) + 0 = w
<1>. DEFINE e == ENTERPRISE_BIT
            r == w % e
<1>1. r \in Int /\ 0 <= r /\ r <= 32767
    BY DEF U16, ENTERPRISE_BIT
<1>2. w >= e => r + e = w
    BY DEF U16, ENTERPRISE_BIT
<1>3. ~(w >= e) => r + 0 = w
    BY DEF U16, ENTERPRISE_BIT
<1>4. e \in Int /\ e - 1 = 32767
    BY DEF ENTERPRISE_BIT
<1>. HIDE DEF e, r
<1>5. r \in 0..(e - 1)
    BY <1>1, <1>4
<1>. QED  BY <1>2, <1>3, <1>5 DEF e, r

\* A field specifier that was read is the bytes it was read from.
LEMMA FieldDecoded ==
    ASSUME NEW bytes \in Bytes, NEW at \in Nat, FieldAt(bytes, at).ok
    PROVE  LET field == FieldAt(bytes, at)
           IN  /\ field.spec \in FieldSpecifier
               /\ field.next \in Nat /\ field.next <= Len(bytes)
               /\ field.next = at + Len(FieldBytes(field.spec))
               /\ Stands(FieldBytes(field.spec), at, bytes)
<1>. DEFINE field == FieldAt(bytes, at)
<1>1. at + 4 <= Len(bytes) /\ at + SizeOf(ReadU16(bytes, at)) <= Len(bytes) /\ Len(bytes) \in Nat
    BY FieldRead, LenBytes
<1>2. PICK word \in U16 : word = ReadU16(bytes, at) /\ Stands(Bytes16(word), at, bytes)
    BY <1>1, ReadsWord
<1>3. PICK length \in U16 : length = ReadU16(bytes, at + 2) /\ Stands(Bytes16(length), at + 2, bytes)
    <2>1. at + 2 \in Nat /\ at + 2 + 2 <= Len(bytes)
        BY <1>1
    <2>. QED  BY <2>1, ReadsWord
<1>4. PICK size \in {4, 8} : size = SizeOf(word)
    BY DEF SizeOf
<1>. DEFINE number == SubSeq(bytes, at + 5, at + size)
<1>5. field = [ok |-> TRUE, next |-> at + size,
               spec |-> [information_element_id |-> word % ENTERPRISE_BIT,
                         enterprise_number |-> number, field_length |-> length]]
    BY <1>2, <1>3, <1>4, FieldRead, Zenon
<1>6. at + size <= Len(bytes)
    BY <1>1, <1>2, <1>4
<1>7. number \in Bytes /\ Len(number) = size - 4 /\ Stands(number, at + 4, bytes)
    <2>. DEFINE m == at + 4
                n == at + size
    <2>1. m \in Nat /\ n \in Nat /\ m <= n /\ n <= Len(bytes) /\ m + 1 = at + 5 /\ n - m = size - 4
        BY <1>6
    <2>. HIDE DEF m, n
    <2>2. /\ SubSeq(bytes, m + 1, n) \in Bytes
          /\ Len(SubSeq(bytes, m + 1, n)) = n - m
          /\ Stands(SubSeq(bytes, m + 1, n), m, bytes)
        BY <2>1, Cut, CutStands
    <2>. QED  BY <2>1, <2>2 DEF m, n
<1>8. number = <<>> <=> ~(word >= ENTERPRISE_BIT)
    <2>1. size = IF word >= ENTERPRISE_BIT THEN 8 ELSE 4
        BY <1>4 DEF SizeOf
    <2>2. Len(number) = 0 <=> number = <<>>
        BY <1>7, EmptySeq DEF Bytes
    <2>. HIDE DEF number
    <2>. QED  BY <1>7, <2>1, <2>2
<1>9. number \in {<<>>} \cup [1..4 -> Byte]
    <2>1. CASE size = 4
        BY <1>7, <2>1, EmptySeq DEF Bytes
    <2>2. CASE size = 8
        <3>1. number \in Seq(Byte) /\ Len(number) = 4
            BY <1>7, <2>2 DEF Bytes
        <3>2. number \in [1..Len(number) -> Byte]
            BY <3>1, LenProperties
        <3>. QED  BY <3>1, <3>2
    <2>. QED  BY <2>1, <2>2
<1>. HIDE DEF number
<1>. DEFINE spec == [information_element_id |-> word % ENTERPRISE_BIT,
                     enterprise_number |-> number, field_length |-> length]
<1>10. spec \in FieldSpecifier
    BY <1>9, WordSplit DEF FieldSpecifier
<1>11. WordOf(spec) = word
    BY <1>8, WordSplit DEF WordOf
<1>12. spec.field_length = length /\ spec.enterprise_number = number
    OBVIOUS
<1>13. field.spec = spec /\ field.next = at + size
    BY <1>5
<1>. HIDE DEF spec, field
<1>14. Stands(FieldBytes(spec), at, bytes) /\ Len(FieldBytes(spec)) = IF number = <<>> THEN 4 ELSE 8
    BY <1>2, <1>3, <1>7, <1>10, <1>11, <1>12, FieldWritten
<1>15. Len(FieldBytes(spec)) = size
    BY <1>4, <1>8, <1>14 DEF SizeOf
<1>16. at + size \in Nat
    OBVIOUS
<1>17. /\ field.spec \in FieldSpecifier
       /\ field.next \in Nat /\ field.next <= Len(bytes)
       /\ field.next = at + Len(FieldBytes(field.spec))
       /\ Stands(FieldBytes(field.spec), at, bytes)
    BY <1>6, <1>10, <1>13, <1>14, <1>15, <1>16, Zenon
<1>. QED  BY <1>17, Zenon DEF field

\* A field specifier that was written is read back.
LEMMA FieldEncoded ==
    ASSUME NEW bytes \in Bytes, NEW at \in Nat, NEW f \in FieldSpecifier,
           Stands(FieldBytes(f), at, bytes)
    PROVE  FieldAt(bytes, at) = [ok |-> TRUE, next |-> at + Len(FieldBytes(f)), spec |-> f]
<1>1. /\ Stands(Bytes16(WordOf(f)), at, bytes)
      /\ Stands(Bytes16(f.field_length), at + 2, bytes)
      /\ Stands(f.enterprise_number, at + 4, bytes)
      /\ Len(FieldBytes(f)) = IF f.enterprise_number = <<>> THEN 4 ELSE 8
      /\ at + Len(FieldBytes(f)) <= Len(bytes)
    BY FieldWritten DEF Stands
<1>2. ReadU16(bytes, at) = WordOf(f) /\ ReadU16(bytes, at + 2) = f.field_length
    <2>1. at + 2 \in Nat /\ WordOf(f) \in U16 /\ f.field_length \in U16
        BY FieldParts
    <2>. QED  BY <1>1, <2>1, WordIsRead
<1>3. PICK id \in Nat : /\ id = f.information_element_id
                        /\ id <= ENTERPRISE_BIT - 1
                        /\ WordOf(f) = id + IF f.enterprise_number = <<>> THEN 0 ELSE ENTERPRISE_BIT
    <2>1. f.information_element_id \in 0..(ENTERPRISE_BIT - 1) /\ ENTERPRISE_BIT \in Int
        <3>1. ENTERPRISE_BIT \in Int
            BY DEF ENTERPRISE_BIT
        <3>. QED  BY <3>1, FieldParts
    <2>2. f.information_element_id \in Nat /\ f.information_element_id <= ENTERPRISE_BIT - 1
        BY <2>1
    <2>. QED  BY <2>2, Zenon DEF WordOf
<1>4. /\ SizeOf(WordOf(f)) = Len(FieldBytes(f))
      /\ WordOf(f) % ENTERPRISE_BIT = id
    <2>1. CASE f.enterprise_number = <<>>
        BY <1>1, <1>3, <2>1 DEF SizeOf, ENTERPRISE_BIT
    <2>2. CASE f.enterprise_number # <<>>
        <3>1. WordOf(f) = id + ENTERPRISE_BIT /\ Len(FieldBytes(f)) = 8
            BY <1>1, <1>3, <2>2
        <3>. DEFINE word == WordOf(f)
        <3>. HIDE DEF word
        <3>2. word = id + ENTERPRISE_BIT /\ id \in Nat /\ id <= ENTERPRISE_BIT - 1
            BY <3>1, <1>3 DEF word
        <3>3. SizeOf(word) = 8
            BY <3>2 DEF SizeOf, ENTERPRISE_BIT
        <3>4. word % ENTERPRISE_BIT = id
            BY <3>2 DEF ENTERPRISE_BIT
        <3>. QED  BY <3>1, <3>3, <3>4 DEF word
    <2>. QED  BY <2>1, <2>2
<1>5. FieldAt(bytes, at).ok
    <2>1. Len(bytes) \in Nat /\ at + 4 <= Len(bytes)
        BY <1>1, LenBytes
    <2>. QED  BY <1>1, <1>2, <1>4, <2>1, FieldRead
<1>6. SubSeq(bytes, at + 5, at + Len(FieldBytes(f))) = f.enterprise_number
    <2>. DEFINE m == at + 4
                n == at + Len(FieldBytes(f))
                number == SubSeq(bytes, m + 1, n)
    <2>1. /\ f.enterprise_number \in Bytes
          /\ Len(f.enterprise_number) = IF f.enterprise_number = <<>> THEN 0 ELSE 4
        BY FieldParts
    <2>2. m \in Nat /\ n \in Nat /\ m <= n /\ n <= Len(bytes) /\ m + 1 = at + 5
          /\ n - m = Len(f.enterprise_number)
        BY <1>1, <2>1
    <2>3. \A i \in 1..Len(f.enterprise_number) : bytes[m + i] = f.enterprise_number[i]
        BY <1>1 DEF Stands
    <2>. HIDE DEF m, n
    <2>4. number \in Bytes /\ Len(number) = n - m /\ \A i \in 1..(n - m) : number[i] = bytes[m + i]
        BY <2>2, Cut
    <2>. HIDE DEF number
    <2>5. Len(number) = Len(f.enterprise_number)
          /\ \A i \in 1..Len(number) : number[i] = f.enterprise_number[i]
        BY <2>2, <2>3, <2>4
    <2>6. number = f.enterprise_number
        BY <2>1, <2>4, <2>5, SameBytes
    <2>. QED  BY <2>2, <2>6 DEF number, m, n
<1>7. f = [information_element_id |-> id, enterprise_number |-> f.enterprise_number,
           field_length |-> f.field_length]
    BY <1>3 DEF FieldSpecifier
<1>8. FieldAt(bytes, at) =
          [ok |-> TRUE, next |-> at + Len(FieldBytes(f)),
           spec |-> [information_element_id |-> id, enterprise_number |-> f.enterprise_number,
                     field_length |-> f.field_length]]
    <2>1. FieldAt(bytes, at) =
              LET word == ReadU16(bytes, at)
              IN  [ok |-> TRUE, next |-> at + SizeOf(word),
                   spec |-> [information_element_id |-> word % ENTERPRISE_BIT,
                             enterprise_number |-> SubSeq(bytes, at + 5, at + SizeOf(word)),
                             field_length |-> ReadU16(bytes, at + 2)]]
        BY <1>5, FieldRead
    <2>. QED  BY <1>2, <1>4, <1>6, <2>1
<1>. QED  BY <1>7, <1>8, Zenon
-----------------------------------------------------------------------------
(* Lists of fields.                                                        *)

Fields == Seq(FieldSpecifier)

LEMMA FieldPieces ==
    ASSUME NEW fs \in Fields
    PROVE  LET p == [i \in 1..Len(fs) |-> FieldBytes(fs[i])]
           IN  p \in Pieces /\ Len(p) = Len(fs) /\ FieldsBytes(fs) = FlattenSeq(p)
<1>1. Len(fs) \in Nat /\ \A i \in 1..Len(fs) : fs[i] \in FieldSpecifier
    BY LenProperties, ElementOfSeq DEF Fields
<1>. DEFINE p == [i \in 1..Len(fs) |-> FieldBytes(fs[i])]
<1>2. p \in [1..Len(fs) -> Bytes]
    BY <1>1, FieldWritten
<1>3. FieldsBytes(fs) = FlattenSeq(p)
    BY Zenon DEF FieldsBytes
<1>. HIDE DEF p
<1>4. p \in Pieces /\ Len(p) = Len(fs)
    BY <1>1, <1>2, IsSeq DEF Pieces
<1>. QED  BY <1>3, <1>4 DEF p

LEMMA FieldsWritten == \A fs \in Fields : FieldsBytes(fs) \in Bytes
<1>. QED  BY FieldPieces, FlattenBytes

\* One more field, and the first ones.
LEMMA FieldsLonger ==
    ASSUME NEW fs \in Fields, NEW gs \in Fields, Len(gs) = Len(fs) + 1,
           \A i \in 1..Len(fs) : gs[i] = fs[i]
    PROVE  FieldsBytes(gs) = FieldsBytes(fs) \o FieldBytes(gs[Len(gs)])
<1>. DEFINE p == [i \in 1..Len(fs) |-> FieldBytes(fs[i])]
            q == [i \in 1..Len(gs) |-> FieldBytes(gs[i])]
<1>1. /\ p \in Pieces /\ Len(p) = Len(fs) /\ FieldsBytes(fs) = FlattenSeq(p)
      /\ q \in Pieces /\ Len(q) = Len(gs) /\ FieldsBytes(gs) = FlattenSeq(q)
    BY FieldPieces
<1>2. Len(fs) \in Nat
    BY LenProperties DEF Fields
<1>3. (\A i \in 1..Len(p) : q[i] = p[i]) /\ q[Len(q)] = FieldBytes(gs[Len(gs)])
    BY <1>1, <1>2
<1>. HIDE DEF p, q
<1>4. FlattenSeq(q) = FlattenSeq(p) \o q[Len(q)]
    BY <1>1, <1>3, FlattenLonger
<1>. QED  BY <1>1, <1>3, <1>4

LEMMA FieldsWithin ==
    ASSUME NEW fs \in Fields, NEW gs \in Fields, Len(fs) <= Len(gs),
           \A i \in 1..Len(fs) : gs[i] = fs[i]
    PROVE  Stands(FieldsBytes(fs), 0, FieldsBytes(gs))
<1>. DEFINE p == [i \in 1..Len(fs) |-> FieldBytes(fs[i])]
            q == [i \in 1..Len(gs) |-> FieldBytes(gs[i])]
<1>1. /\ p \in Pieces /\ Len(p) = Len(fs) /\ FieldsBytes(fs) = FlattenSeq(p)
      /\ q \in Pieces /\ Len(q) = Len(gs) /\ FieldsBytes(gs) = FlattenSeq(q)
    BY FieldPieces
<1>2. Len(fs) \in Nat /\ Len(gs) \in Nat
    BY LenProperties DEF Fields
<1>3. \A i \in 1..Len(p) : q[i] = p[i]
    BY <1>1, <1>2
<1>. HIDE DEF p, q
<1>. QED  BY <1>1, <1>3, FlattenWithin

-----------------------------------------------------------------------------
(* Templates and lists of them.                                            *)

LEMMA TemplateParts ==
    ASSUME NEW t \in Template
    PROVE  /\ t.id \in U16 /\ t.scope_field_count \in U16
           /\ t.fields \in Fields /\ Len(t.fields) \in U16
<1>. QED  BY DEF Template, Fields

\* A template in bytes: the id, the counts, the fields.
LEMMA TemplateWritten ==
    ASSUME NEW set_id \in U16, NEW t \in Template
    PROVE  /\ TemplateBytes(set_id, t) \in Bytes
           /\ HeaderOf(set_id) \in {4, 6}
           /\ Len(TemplateBytes(set_id, t)) = HeaderOf(set_id) + Len(FieldsBytes(t.fields))
           /\ \A bytes \in Bytes : \A at \in Nat :
                  Stands(TemplateBytes(set_id, t), at, bytes) <=>
                      /\ Stands(Bytes16(t.id), at, bytes)
                      /\ Stands(Bytes16(Len(t.fields)), at + 2, bytes)
                      /\ set_id = SET_ID_OPTIONS_TEMPLATE =>
                             Stands(Bytes16(t.scope_field_count), at + 4, bytes)
                      /\ Stands(FieldsBytes(t.fields), at + HeaderOf(set_id), bytes)
<1>. DEFINE a == Bytes16(t.id)
            b == Bytes16(Len(t.fields))
            c == IF set_id = SET_ID_OPTIONS_TEMPLATE THEN Bytes16(t.scope_field_count) ELSE <<>>
            d == FieldsBytes(t.fields)
            all == ((a \o b) \o c) \o d
            h == HeaderOf(set_id)
<1>1. a \in Bytes /\ b \in Bytes /\ d \in Bytes /\ Len(a) = 2 /\ Len(b) = 2
    BY TemplateParts, Word, FieldsWritten
<1>2. c \in Bytes /\ Len(c) \in Nat /\ h = 4 + Len(c) /\ h \in {4, 6}
    <2>1. Bytes16(t.scope_field_count) \in Bytes /\ Len(Bytes16(t.scope_field_count)) = 2
        BY TemplateParts, Word
    <2>2. CASE set_id = SET_ID_OPTIONS_TEMPLATE
        <3>1. c = Bytes16(t.scope_field_count) /\ h = 6
            BY <2>2, Zenon DEF HeaderOf
        <3>2. c \in Bytes /\ Len(c) = 2
            BY <2>1, <3>1, Zenon
        <3>. HIDE DEF c, h
        <3>. QED  BY <3>1, <3>2
    <2>3. CASE set_id # SET_ID_OPTIONS_TEMPLATE
        BY <2>3, NoBytes DEF HeaderOf
    <2>. QED  BY <2>2, <2>3
<1>3. TemplateBytes(set_id, t) = all
    BY Zenon DEF TemplateBytes
<1>4. ASSUME NEW bytes \in Bytes, NEW at \in Nat, at + 4 <= Len(bytes)
      PROVE  Stands(c, at + 4, bytes) <=>
                 (set_id = SET_ID_OPTIONS_TEMPLATE => Stands(Bytes16(t.scope_field_count), at + 4, bytes))
    <2>1. CASE set_id = SET_ID_OPTIONS_TEMPLATE
        BY <2>1
    <2>2. CASE set_id # SET_ID_OPTIONS_TEMPLATE
        BY <1>4, <2>2, NoBytes, LenBytes DEF Stands
    <2>. QED  BY <2>1, <2>2
<1>. HIDE DEF a, b, d, h
<1>5. a \o b \in Bytes /\ Len(a \o b) = 4
    <2>1. a \o b \in Bytes /\ Len(a \o b) = Len(a) + Len(b)
        BY <1>1, Joined
    <2>. QED  BY <1>1, <2>1
<1>. HIDE DEF c
<1>6. (a \o b) \o c \in Bytes /\ Len((a \o b) \o c) = h
    <2>1. (a \o b) \o c \in Bytes /\ Len((a \o b) \o c) = Len(a \o b) + Len(c)
        BY <1>2, <1>5, Joined
    <2>. QED  BY <1>2, <1>5, <2>1
<1>7. all \in Bytes /\ Len(all) = h + Len(d)
    <2>1. all \in Bytes /\ Len(all) = Len((a \o b) \o c) + Len(d)
        BY <1>1, <1>6, Joined
    <2>. QED  BY <1>6, <2>1
<1>8. ASSUME NEW bytes \in Bytes, NEW at \in Nat
      PROVE  Stands(all, at, bytes) <=>
                 /\ Stands(a, at, bytes) /\ Stands(b, at + 2, bytes)
                 /\ Stands(c, at + 4, bytes) /\ Stands(d, at + h, bytes)
    <2>1. Stands(all, at, bytes) <=> Stands((a \o b) \o c, at, bytes) /\ Stands(d, at + h, bytes)
        BY <1>1, <1>6, StandsJoined
    <2>2. Stands((a \o b) \o c, at, bytes) <=> Stands(a \o b, at, bytes) /\ Stands(c, at + 4, bytes)
        BY <1>2, <1>5, StandsJoined
    <2>3. Stands(a \o b, at, bytes) <=> Stands(a, at, bytes) /\ Stands(b, at + 2, bytes)
        BY <1>1, StandsJoined
    <2>. QED  BY <2>1, <2>2, <2>3
<1>. HIDE DEF all
<1>9. ASSUME NEW bytes \in Bytes, NEW at \in Nat
      PROVE  Stands(all, at, bytes) <=>
                 /\ Stands(a, at, bytes) /\ Stands(b, at + 2, bytes)
                 /\ set_id = SET_ID_OPTIONS_TEMPLATE => Stands(Bytes16(t.scope_field_count), at + 4, bytes)
                 /\ Stands(d, at + h, bytes)
    <2>1. CASE at + 4 <= Len(bytes)
        BY <1>4, <1>8, <2>1
    <2>2. CASE ~(at + 4 <= Len(bytes))
        <3>1. ~Stands(b, at + 2, bytes)
            BY <1>1, <2>2, LenBytes DEF Stands
        <3>. QED  BY <1>8, <3>1
    <2>. QED  BY <2>1, <2>2
<1>. QED  BY <1>2, <1>3, <1>7, <1>9 DEF a, b, d, h

Templates == Seq(Template)

LEMMA TemplatesPieces ==
    ASSUME NEW set_id \in U16, NEW ts \in Templates
    PROVE  LET p == [i \in 1..Len(ts) |-> TemplateBytes(set_id, ts[i])]
           IN  p \in Pieces /\ Len(p) = Len(ts) /\ TemplatesBytes(set_id, ts) = FlattenSeq(p)
<1>1. Len(ts) \in Nat /\ \A i \in 1..Len(ts) : ts[i] \in Template
    BY LenProperties, ElementOfSeq DEF Templates
<1>. DEFINE p == [i \in 1..Len(ts) |-> TemplateBytes(set_id, ts[i])]
<1>2. p \in [1..Len(ts) -> Bytes]
    BY <1>1, TemplateWritten
<1>3. TemplatesBytes(set_id, ts) = FlattenSeq(p)
    BY Zenon DEF TemplatesBytes
<1>. HIDE DEF p
<1>4. p \in Pieces /\ Len(p) = Len(ts)
    BY <1>1, <1>2, IsSeq DEF Pieces
<1>. QED  BY <1>3, <1>4 DEF p

LEMMA TemplatesWritten == \A set_id \in U16 : \A ts \in Templates : TemplatesBytes(set_id, ts) \in Bytes
<1>. QED  BY TemplatesPieces, FlattenBytes

LEMMA TemplatesLonger ==
    ASSUME NEW set_id \in U16, NEW ss \in Templates, NEW ts \in Templates, Len(ts) = Len(ss) + 1,
           \A i \in 1..Len(ss) : TemplateBytes(set_id, ts[i]) = TemplateBytes(set_id, ss[i])
    PROVE  TemplatesBytes(set_id, ts) = TemplatesBytes(set_id, ss) \o TemplateBytes(set_id, ts[Len(ts)])
<1>. DEFINE p == [i \in 1..Len(ss) |-> TemplateBytes(set_id, ss[i])]
            q == [i \in 1..Len(ts) |-> TemplateBytes(set_id, ts[i])]
<1>1. /\ p \in Pieces /\ Len(p) = Len(ss) /\ TemplatesBytes(set_id, ss) = FlattenSeq(p)
      /\ q \in Pieces /\ Len(q) = Len(ts) /\ TemplatesBytes(set_id, ts) = FlattenSeq(q)
    BY TemplatesPieces
<1>2. Len(ss) \in Nat
    BY LenProperties DEF Templates
<1>3. (\A i \in 1..Len(p) : q[i] = p[i]) /\ q[Len(q)] = TemplateBytes(set_id, ts[Len(ts)])
    BY <1>1, <1>2
<1>. HIDE DEF p, q
<1>4. FlattenSeq(q) = FlattenSeq(p) \o q[Len(q)]
    BY <1>1, <1>3, FlattenLonger
<1>. QED  BY <1>1, <1>3, <1>4

LEMMA TemplatesWithin ==
    ASSUME NEW set_id \in U16, NEW ss \in Templates, NEW ts \in Templates, Len(ss) <= Len(ts),
           \A i \in 1..Len(ss) : ts[i] = ss[i]
    PROVE  Stands(TemplatesBytes(set_id, ss), 0, TemplatesBytes(set_id, ts))
<1>. DEFINE p == [i \in 1..Len(ss) |-> TemplateBytes(set_id, ss[i])]
            q == [i \in 1..Len(ts) |-> TemplateBytes(set_id, ts[i])]
<1>1. /\ p \in Pieces /\ Len(p) = Len(ss) /\ TemplatesBytes(set_id, ss) = FlattenSeq(p)
      /\ q \in Pieces /\ Len(q) = Len(ts) /\ TemplatesBytes(set_id, ts) = FlattenSeq(q)
    BY TemplatesPieces
<1>2. Len(ss) \in Nat /\ Len(ts) \in Nat
    BY LenProperties DEF Templates
<1>3. \A i \in 1..Len(p) : q[i] = p[i]
    BY <1>1, <1>2
<1>. HIDE DEF p, q
<1>. QED  BY <1>1, <1>3, FlattenWithin

-----------------------------------------------------------------------------
(* Sets, as they are heard and as they are composed.                       *)

HeardSet == {h \in [set_id : U16, records : Bytes, templates : Templates] :
                 SET_HEADER_LEN + Len(h.records) \in U16}

ComposedSet == {c \in [set_id : U16, templates : Templates, tail : Bytes] :
                    SET_HEADER_LEN + Len(BodyBytes(c)) \in U16}

\* A set in bytes: the id, the length, the body.
LEMMA SetWritten ==
    ASSUME NEW set_id \in U16, NEW body \in Bytes, SET_HEADER_LEN + Len(body) \in U16
    PROVE  /\ SetBytes(set_id, body) \in Bytes
           /\ Len(SetBytes(set_id, body)) = SET_HEADER_LEN + Len(body)
           /\ \A bytes \in Bytes : \A at \in Nat :
                  Stands(SetBytes(set_id, body), at, bytes) <=>
                      /\ Stands(Bytes16(set_id), at, bytes)
                      /\ Stands(Bytes16(SET_HEADER_LEN + Len(body)), at + 2, bytes)
                      /\ Stands(body, at + SET_HEADER_LEN, bytes)
<1>. DEFINE a == Bytes16(set_id)
            b == Bytes16(SET_HEADER_LEN + Len(body))
            all == (a \o b) \o body
<1>1. a \in Bytes /\ b \in Bytes /\ Len(a) = 2 /\ Len(b) = 2
    BY Word
<1>2. SetBytes(set_id, body) = all
    BY Zenon DEF SetBytes
<1>. HIDE DEF a, b
<1>3. a \o b \in Bytes /\ Len(a \o b) = 4
    <2>1. a \o b \in Bytes /\ Len(a \o b) = Len(a) + Len(b)
        BY <1>1, Joined
    <2>. QED  BY <1>1, <2>1
<1>4. all \in Bytes /\ Len(all) = 4 + Len(body)
    <2>1. all \in Bytes /\ Len(all) = Len(a \o b) + Len(body)
        BY <1>3, Joined
    <2>. QED  BY <1>3, <2>1
<1>5. ASSUME NEW bytes \in Bytes, NEW at \in Nat
      PROVE  Stands(all, at, bytes) <=>
                 Stands(a, at, bytes) /\ Stands(b, at + 2, bytes) /\ Stands(body, at + 4, bytes)
    <2>1. Stands(all, at, bytes) <=> Stands(a \o b, at, bytes) /\ Stands(body, at + 4, bytes)
        BY <1>3, StandsJoined
    <2>2. Stands(a \o b, at, bytes) <=> Stands(a, at, bytes) /\ Stands(b, at + 2, bytes)
        BY <1>1, StandsJoined
    <2>. QED  BY <2>1, <2>2
<1>. HIDE DEF all
<1>. QED  BY <1>2, <1>4, <1>5 DEF a, b, SET_HEADER_LEN

LEMMA HeardSetWritten ==
    ASSUME NEW h \in HeardSet
    PROVE  SetBytes(h.set_id, h.records) \in Bytes
<1>. QED  BY SetWritten DEF HeardSet

LEMMA BodyWritten ==
    ASSUME NEW c \in ComposedSet
    PROVE  /\ BodyBytes(c) \in Bytes
           /\ SetBytes(c.set_id, BodyBytes(c)) \in Bytes
           /\ Len(SetBytes(c.set_id, BodyBytes(c))) = SET_HEADER_LEN + Len(BodyBytes(c))
<1>1. c.set_id \in U16 /\ c.templates \in Templates /\ c.tail \in Bytes
      /\ SET_HEADER_LEN + Len(BodyBytes(c)) \in U16
    BY DEF ComposedSet
<1>2. TemplatesBytes(c.set_id, c.templates) \in Bytes
    BY <1>1, TemplatesWritten
<1>3. BodyBytes(c) \in Bytes
    BY <1>1, <1>2, Joined DEF BodyBytes
<1>. QED  BY <1>1, <1>3, SetWritten

HeardSets == Seq(HeardSet)
ComposedSets == Seq(ComposedSet)

LEMMA SetsPieces ==
    ASSUME NEW ts \in HeardSets
    PROVE  LET p == [i \in 1..Len(ts) |-> SetBytes(ts[i].set_id, ts[i].records)]
           IN  p \in Pieces /\ Len(p) = Len(ts) /\ SetsBytes(ts) = FlattenSeq(p)
<1>1. Len(ts) \in Nat /\ \A i \in 1..Len(ts) : ts[i] \in HeardSet
    BY LenProperties, ElementOfSeq DEF HeardSets
<1>. DEFINE p == [i \in 1..Len(ts) |-> SetBytes(ts[i].set_id, ts[i].records)]
<1>2. p \in [1..Len(ts) -> Bytes]
    BY <1>1, HeardSetWritten
<1>3. SetsBytes(ts) = FlattenSeq(p)
    BY Zenon DEF SetsBytes
<1>. HIDE DEF p
<1>4. p \in Pieces /\ Len(p) = Len(ts)
    BY <1>1, <1>2, IsSeq DEF Pieces
<1>. QED  BY <1>3, <1>4 DEF p

LEMMA SetsWritten == \A ts \in HeardSets : SetsBytes(ts) \in Bytes
<1>. QED  BY SetsPieces, FlattenBytes

LEMMA SetsLonger ==
    ASSUME NEW ss \in HeardSets, NEW ts \in HeardSets, Len(ts) = Len(ss) + 1,
           \A i \in 1..Len(ss) : SetBytes(ts[i].set_id, ts[i].records) = SetBytes(ss[i].set_id, ss[i].records)
    PROVE  SetsBytes(ts) = SetsBytes(ss) \o SetBytes(ts[Len(ts)].set_id, ts[Len(ts)].records)
<1>. DEFINE p == [i \in 1..Len(ss) |-> SetBytes(ss[i].set_id, ss[i].records)]
            q == [i \in 1..Len(ts) |-> SetBytes(ts[i].set_id, ts[i].records)]
<1>1. /\ p \in Pieces /\ Len(p) = Len(ss) /\ SetsBytes(ss) = FlattenSeq(p)
      /\ q \in Pieces /\ Len(q) = Len(ts) /\ SetsBytes(ts) = FlattenSeq(q)
    BY SetsPieces
<1>2. Len(ss) \in Nat
    BY LenProperties DEF HeardSets
<1>3. (\A i \in 1..Len(p) : q[i] = p[i]) /\ q[Len(q)] = SetBytes(ts[Len(ts)].set_id, ts[Len(ts)].records)
    BY <1>1, <1>2
<1>. HIDE DEF p, q
<1>4. FlattenSeq(q) = FlattenSeq(p) \o q[Len(q)]
    BY <1>1, <1>3, FlattenLonger
<1>. QED  BY <1>1, <1>3, <1>4

LEMMA SetsWithin ==
    ASSUME NEW ss \in HeardSets, NEW ts \in HeardSets, Len(ss) <= Len(ts),
           \A i \in 1..Len(ss) : ts[i] = ss[i]
    PROVE  Stands(SetsBytes(ss), 0, SetsBytes(ts))
<1>. DEFINE p == [i \in 1..Len(ss) |-> SetBytes(ss[i].set_id, ss[i].records)]
            q == [i \in 1..Len(ts) |-> SetBytes(ts[i].set_id, ts[i].records)]
<1>1. /\ p \in Pieces /\ Len(p) = Len(ss) /\ SetsBytes(ss) = FlattenSeq(p)
      /\ q \in Pieces /\ Len(q) = Len(ts) /\ SetsBytes(ts) = FlattenSeq(q)
    BY SetsPieces
<1>2. Len(ss) \in Nat /\ Len(ts) \in Nat
    BY LenProperties DEF HeardSets
<1>3. \A i \in 1..Len(p) : q[i] = p[i]
    BY <1>1, <1>2
<1>. HIDE DEF p, q
<1>. QED  BY <1>1, <1>3, FlattenWithin

LEMMA PayloadPieces ==
    ASSUME NEW ts \in ComposedSets
    PROVE  LET p == [i \in 1..Len(ts) |-> SetBytes(ts[i].set_id, BodyBytes(ts[i]))]
           IN  p \in Pieces /\ Len(p) = Len(ts) /\ PayloadBytes(ts) = FlattenSeq(p)
<1>1. Len(ts) \in Nat /\ \A i \in 1..Len(ts) : ts[i] \in ComposedSet
    BY LenProperties, ElementOfSeq DEF ComposedSets
<1>. DEFINE p == [i \in 1..Len(ts) |-> SetBytes(ts[i].set_id, BodyBytes(ts[i]))]
<1>2. p \in [1..Len(ts) -> Bytes]
    BY <1>1, BodyWritten
<1>3. PayloadBytes(ts) = FlattenSeq(p)
    BY Zenon DEF PayloadBytes
<1>. HIDE DEF p
<1>4. p \in Pieces /\ Len(p) = Len(ts)
    BY <1>1, <1>2, IsSeq DEF Pieces
<1>. QED  BY <1>3, <1>4 DEF p

LEMMA PayloadWritten == \A ts \in ComposedSets : PayloadBytes(ts) \in Bytes
<1>. QED  BY PayloadPieces, FlattenBytes

LEMMA PayloadLonger ==
    ASSUME NEW ss \in ComposedSets, NEW ts \in ComposedSets, Len(ts) = Len(ss) + 1,
           \A i \in 1..Len(ss) : SetBytes(ts[i].set_id, BodyBytes(ts[i])) = SetBytes(ss[i].set_id, BodyBytes(ss[i]))
    PROVE  PayloadBytes(ts) = PayloadBytes(ss) \o SetBytes(ts[Len(ts)].set_id, BodyBytes(ts[Len(ts)]))
<1>. DEFINE p == [i \in 1..Len(ss) |-> SetBytes(ss[i].set_id, BodyBytes(ss[i]))]
            q == [i \in 1..Len(ts) |-> SetBytes(ts[i].set_id, BodyBytes(ts[i]))]
<1>1. /\ p \in Pieces /\ Len(p) = Len(ss) /\ PayloadBytes(ss) = FlattenSeq(p)
      /\ q \in Pieces /\ Len(q) = Len(ts) /\ PayloadBytes(ts) = FlattenSeq(q)
    BY PayloadPieces
<1>2. Len(ss) \in Nat
    BY LenProperties DEF ComposedSets
<1>3. (\A i \in 1..Len(p) : q[i] = p[i]) /\ q[Len(q)] = SetBytes(ts[Len(ts)].set_id, BodyBytes(ts[Len(ts)]))
    BY <1>1, <1>2
<1>. HIDE DEF p, q
<1>4. FlattenSeq(q) = FlattenSeq(p) \o q[Len(q)]
    BY <1>1, <1>3, FlattenLonger
<1>. QED  BY <1>1, <1>3, <1>4

LEMMA PayloadWithin ==
    ASSUME NEW ss \in ComposedSets, NEW ts \in ComposedSets, Len(ss) <= Len(ts),
           \A i \in 1..Len(ss) : ts[i] = ss[i]
    PROVE  Stands(PayloadBytes(ss), 0, PayloadBytes(ts))
<1>. DEFINE p == [i \in 1..Len(ss) |-> SetBytes(ss[i].set_id, BodyBytes(ss[i]))]
            q == [i \in 1..Len(ts) |-> SetBytes(ts[i].set_id, BodyBytes(ts[i]))]
<1>1. /\ p \in Pieces /\ Len(p) = Len(ss) /\ PayloadBytes(ss) = FlattenSeq(p)
      /\ q \in Pieces /\ Len(q) = Len(ts) /\ PayloadBytes(ts) = FlattenSeq(q)
    BY PayloadPieces
<1>2. Len(ss) \in Nat /\ Len(ts) \in Nat
    BY LenProperties DEF ComposedSets
<1>3. \A i \in 1..Len(p) : q[i] = p[i]
    BY <1>1, <1>2
<1>. HIDE DEF p, q
<1>. QED  BY <1>1, <1>3, FlattenWithin

-----------------------------------------------------------------------------
(* The fields of a template, read one by one into fields_buf.              *)

Sofar(bytes) == {r \in [ok : BOOLEAN, next : Nat, fields : Fields] :
                     r.next <= Len(bytes) /\ Len(r.fields) = MaxFields}

\* A template may start in the bytes: the buffer is there, the header and as
\* many fields as the buffer has room for.
Fillable(bytes) ==
    /\ bytes \in Bytes
    /\ fields_buf \in Fields /\ Len(fields_buf) = MaxFields /\ MaxFields \in Nat
    /\ MinHeader \in {4, 6} /\ MinHeader <= Len(bytes)
    /\ FieldCount(bytes) \in Nat /\ FieldCount(bytes) <= MaxFields

LEMMA FillFieldCases ==
    ASSUME NEW bytes \in Bytes, MaxFields \in Nat, NEW n \in 1..MaxFields, NEW r \in Sofar(bytes)
    PROVE  LET field == FieldAt(bytes, r.next)
           IN  /\ ~r.ok => FillField(bytes, n, r) = r
               /\ r.ok /\ ~field.ok => FillField(bytes, n, r) = [r EXCEPT !.ok = FALSE]
               /\ r.ok /\ field.ok =>
                      FillField(bytes, n, r) = [ok |-> TRUE, next |-> field.next,
                                                fields |-> [r.fields EXCEPT ![n] = field.spec]]
               /\ FillField(bytes, n, r) \in Sofar(bytes)
<1>. DEFINE field == FieldAt(bytes, r.next)
<1>1. r.ok \in BOOLEAN /\ r.next \in Nat /\ r.fields \in Fields /\ Len(r.fields) = MaxFields
      /\ r.next <= Len(bytes)
    BY DEF Sofar
<1>2. CASE ~r.ok
    BY <1>2, Zenon DEF FillField
<1>3. CASE r.ok /\ ~field.ok
    <2>1. FillField(bytes, n, r) = [r EXCEPT !.ok = FALSE]
        BY <1>3, Zenon DEF FillField
    <2>2. [r EXCEPT !.ok = FALSE] \in Sofar(bytes)
        BY DEF Sofar
    <2>. HIDE DEF field
    <2>. QED  BY <1>3, <2>1, <2>2, Zenon DEF field
<1>4. CASE r.ok /\ field.ok
    <2>1. FillField(bytes, n, r) = [ok |-> TRUE, next |-> field.next,
                                    fields |-> [r.fields EXCEPT ![n] = field.spec]]
        BY <1>4, Zenon DEF FillField
    <2>2. field.spec \in FieldSpecifier /\ field.next \in Nat /\ field.next <= Len(bytes)
        BY <1>1, <1>4, FieldDecoded
    <2>3. [r.fields EXCEPT ![n] = field.spec] \in Fields
          /\ Len([r.fields EXCEPT ![n] = field.spec]) = MaxFields
        BY <1>1, <2>2, ExceptSeq DEF Fields
    <2>. HIDE DEF field
    <2>4. FillField(bytes, n, r) \in Sofar(bytes)
        BY <2>1, <2>2, <2>3 DEF Sofar
    <2>. QED  BY <1>4, <2>1, <2>4, Zenon DEF field
<1>. QED  BY <1>1, <1>2, <1>3, <1>4, Zenon

LEMMA FillingSteps ==
    ASSUME NEW bytes, Fillable(bytes)
    PROVE  /\ Filling(bytes)[0] = [ok |-> TRUE, fields |-> fields_buf, next |-> MinHeader]
           /\ \A n \in 0..FieldCount(bytes) : Filling(bytes)[n] \in Sofar(bytes)
           /\ \A n \in 1..FieldCount(bytes) :
                  Filling(bytes)[n] = FillField(bytes, n, Filling(bytes)[n - 1])
<1>. DEFINE N == FieldCount(bytes)
            S == Sofar(bytes)
            first == [ok |-> TRUE, fields |-> fields_buf, next |-> MinHeader]
            After(n, r) == FillField(bytes, n, r)
            step == [n \in 1..N |-> [r \in S |-> After(n, r)]]
            fill == Filling(bytes)
<1>1. N \in Nat /\ N <= MaxFields /\ MaxFields \in Nat /\ bytes \in Bytes
    BY DEF Fillable
<1>2. \A n \in 1..N : \A r \in S : After(n, r) \in S
    <2>1. ASSUME NEW n \in 1..N, NEW r \in S  PROVE After(n, r) \in S
        <3>1. n \in 1..MaxFields
            BY <1>1
        <3>. QED  BY <1>1, <3>1, FillFieldCases
    <2>. QED  BY <2>1
<1>3. fill = CHOOSE f : f = [n \in 0..N |-> IF n = 0 THEN first ELSE After(n, f[n - 1])]
    BY Zenon DEF Filling
<1>4. first \in S
    BY DEF Fillable, Sofar
<1>. HIDE DEF After, S, N, fill, first
<1>5. step \in [1..N -> [S -> S]] /\ \A n \in 1..N : \A r \in S : step[n][r] = After(n, r)
    BY <1>2
<1>. HIDE DEF step
<1>6. PICK f \in [0..N -> S] : Steps(f, N, first, step)
    BY <1>1, <1>4, <1>5, Recursion
<1>7. ASSUME NEW n \in 1..N  PROVE f[n] = After(n, f[n - 1])
    <2>1. f[n - 1] \in S /\ f[n] = step[n][f[n - 1]]
        BY <1>1, <1>6 DEF Steps
    <2>. QED  BY <1>5, <2>1
<1>8. f = [n \in 0..N |-> IF n = 0 THEN first ELSE After(n, f[n - 1])]
    BY <1>6, <1>7 DEF Steps
<1>9. fill = [n \in 0..N |-> IF n = 0 THEN first ELSE After(n, fill[n - 1])]
    BY <1>3, <1>8, Zenon
<1>10. fill[0] = first /\ \A n \in 1..N : fill[n] = After(n, fill[n - 1])
    BY <1>1, <1>9
<1>. DEFINE T == {n \in 0..N : fill[n] \in S}
<1>11. 0..N \subseteq T
    <2>1. 0 \in T
        BY <1>1, <1>4, <1>10
    <2>2. ASSUME NEW n \in 1..N, n - 1 \in T  PROVE n \in T
        BY <1>1, <1>2, <1>10, <2>2
    <2>. HIDE DEF T
    <2>. QED  BY <1>1, <2>1, <2>2, UpTo
<1>. QED  BY <1>10, <1>11 DEF After, S, N, fill, first

\* The fields read so far are the bytes read so far.
FieldsRead(bytes, n) ==
    LET r == Filling(bytes)[n]
        fs == SubSeq(r.fields, 1, n)
    IN  r.ok => /\ r.next = MinHeader + Len(FieldsBytes(fs))
                /\ Stands(FieldsBytes(fs), MinHeader, bytes)

LEMMA NoFields == <<>> \in Fields /\ FieldsBytes(<<>>) = <<>>
<1>1. <<>> \in Fields /\ Len(<<>>) = 0
    BY EmptySeq DEF Fields
<1>2. [i \in 1..Len(<<>>) |-> FieldBytes(<<>>[i])] = <<>>
    BY <1>1
<1>. QED  BY <1>1, <1>2, FlattenEmpty DEF FieldsBytes

LEMMA FillDecoded ==
    ASSUME NEW bytes, Fillable(bytes)
    PROVE  \A n \in 0..FieldCount(bytes) : FieldsRead(bytes, n)
<1>. DEFINE N == FieldCount(bytes)
            T == {n \in 0..N : FieldsRead(bytes, n)}
<1>1. /\ N \in Nat /\ N <= MaxFields /\ MaxFields \in Nat /\ bytes \in Bytes
      /\ MinHeader \in Nat /\ MinHeader <= Len(bytes) /\ Len(bytes) \in Nat
      /\ fields_buf \in Fields
    BY LenBytes DEF Fillable
<1>2. 0 \in T
    <2>1. Filling(bytes)[0] = [ok |-> TRUE, fields |-> fields_buf, next |-> MinHeader]
        BY FillingSteps
    <2>2. SubSeq(fields_buf, 1, 0) = <<>>
        BY SubSeqEmpty
    <2>3. Stands(<<>>, MinHeader, bytes)
        BY <1>1, NoBytes DEF Stands
    <2>4. Filling(bytes)[0].fields = fields_buf /\ Filling(bytes)[0].next = MinHeader
        BY <2>1
    <2>5. FieldsBytes(SubSeq(Filling(bytes)[0].fields, 1, 0)) = <<>>
        BY <2>2, <2>4, NoFields, Zenon
    <2>6. MinHeader = MinHeader + Len(<<>>)
        BY <1>1, NoBytes
    <2>7. FieldsRead(bytes, 0)
        BY <2>3, <2>4, <2>5, <2>6, Zenon DEF FieldsRead
    <2>. QED  BY <1>1, <2>7
<1>3. ASSUME NEW n \in 1..N, n - 1 \in T  PROVE n \in T
    <2>. DEFINE r == Filling(bytes)[n - 1]
                field == FieldAt(bytes, r.next)
                after == Filling(bytes)[n]
                old == SubSeq(r.fields, 1, n - 1)
                new == SubSeq(after.fields, 1, n)
    <2>1. n - 1 \in 0..N /\ n \in 0..N /\ n \in 1..MaxFields /\ n - 1 \in Nat /\ n \in Nat
        BY <1>1
    <2>2. after = FillField(bytes, n, r) /\ r \in Sofar(bytes) /\ after \in Sofar(bytes)
        BY <2>1, FillingSteps
    <2>3. SUFFICES ASSUME after.ok
                   PROVE  after.next = MinHeader + Len(FieldsBytes(new))
                          /\ Stands(FieldsBytes(new), MinHeader, bytes)
        BY <2>1, Zenon DEF FieldsRead
    <2>4. FieldsRead(bytes, n - 1)
        BY <1>3
    <2>. HIDE DEF r, after, field
    <2>5. r.ok /\ field.ok /\ after = [ok |-> TRUE, next |-> field.next,
                                       fields |-> [r.fields EXCEPT ![n] = field.spec]]
        <3>1. /\ ~r.ok => after = r
              /\ r.ok /\ ~field.ok => after = [r EXCEPT !.ok = FALSE]
              /\ r.ok /\ field.ok => after = [ok |-> TRUE, next |-> field.next,
                                              fields |-> [r.fields EXCEPT ![n] = field.spec]]
            BY <1>1, <2>1, <2>2, FillFieldCases DEF field
        <3>2. r.ok
            BY <2>3, <3>1, Zenon
        <3>3. field.ok
            <4>1. r = [ok |-> r.ok, next |-> r.next, fields |-> r.fields]
                BY <2>2 DEF Sofar
            <4>2. ~[r EXCEPT !.ok = FALSE].ok
                BY <4>1
            <4>. QED  BY <2>3, <3>1, <3>2, <4>2, Zenon
        <3>. QED  BY <3>1, <3>2, <3>3, Zenon
    <2>6. r.next \in Nat /\ r.fields \in Fields /\ Len(r.fields) = MaxFields
        BY <2>2 DEF Sofar
    <2>7. /\ field.spec \in FieldSpecifier
          /\ field.next = r.next + Len(FieldBytes(field.spec))
          /\ Stands(FieldBytes(field.spec), r.next, bytes)
        BY <1>1, <2>5, <2>6, FieldDecoded DEF field
    <2>8. /\ after.fields \in Fields /\ Len(after.fields) = MaxFields
          /\ after.fields[n] = field.spec
          /\ \A i \in 1..MaxFields : i # n => after.fields[i] = r.fields[i]
        <3>1. after.fields = [r.fields EXCEPT ![n] = field.spec]
            BY <2>5
        <3>. QED  BY <2>1, <2>6, <2>7, <3>1, ExceptSeq DEF Fields
    <2>9. /\ old \in Fields /\ Len(old) = n - 1 /\ \A i \in 1..(n - 1) : old[i] = r.fields[i]
          /\ new \in Fields /\ Len(new) = n /\ \A i \in 1..n : new[i] = after.fields[i]
        BY <1>1, <2>1, <2>6, <2>8, Firsts DEF Fields
    <2>. HIDE DEF old, new
    <2>10. Len(new) = Len(old) + 1 /\ new[Len(new)] = field.spec
           /\ \A i \in 1..Len(old) : new[i] = old[i]
        BY <1>1, <2>1, <2>8, <2>9
    <2>11. FieldsBytes(new) = FieldsBytes(old) \o FieldBytes(field.spec)
        BY <2>9, <2>10, FieldsLonger
    <2>12. FieldsBytes(old) \in Bytes /\ FieldBytes(field.spec) \in Bytes
           /\ Len(FieldsBytes(old)) \in Nat /\ Len(FieldBytes(field.spec)) \in Nat
        BY <2>7, <2>9, FieldsWritten, FieldWritten, LenBytes
    <2>13. r.next = MinHeader + Len(FieldsBytes(old)) /\ Stands(FieldsBytes(old), MinHeader, bytes)
        BY <2>4, <2>5 DEF FieldsRead, r, old
    <2>14. Len(FieldsBytes(new)) = Len(FieldsBytes(old)) + Len(FieldBytes(field.spec))
        BY <2>11, <2>12, Joined
    <2>15. Stands(FieldsBytes(new), MinHeader, bytes)
        BY <1>1, <2>7, <2>11, <2>12, <2>13, StandsJoined
    <2>16. after.next = field.next
        BY <2>5
    <2>. QED  BY <1>1, <2>7, <2>12, <2>13, <2>14, <2>15, <2>16
<1>4. 0..N \subseteq T
    <2>. HIDE DEF T, N
    <2>. QED  BY <1>1, <1>2, <1>3, UpTo
<1>. QED  BY <1>4

\* Fields that were written are read back, one after the other.
FieldsReadBack(bytes, fs, n) ==
    LET r == Filling(bytes)[n]
    IN  /\ r.ok
        /\ r.next = MinHeader + Len(FieldsBytes(SubSeq(fs, 1, n)))
        /\ \A i \in 1..n : r.fields[i] = fs[i]

LEMMA FillEncoded ==
    ASSUME NEW bytes, Fillable(bytes), NEW fs \in Fields, Len(fs) = FieldCount(bytes),
           Stands(FieldsBytes(fs), MinHeader, bytes)
    PROVE  \A n \in 0..FieldCount(bytes) : FieldsReadBack(bytes, fs, n)
<1>. DEFINE N == FieldCount(bytes)
            T == {n \in 0..N : FieldsReadBack(bytes, fs, n)}
<1>1. /\ N \in Nat /\ N <= MaxFields /\ MaxFields \in Nat /\ bytes \in Bytes
      /\ MinHeader \in Nat /\ MinHeader <= Len(bytes) /\ Len(bytes) \in Nat
    BY LenBytes DEF Fillable
<1>2. 0 \in T
    <2>1. Filling(bytes)[0] = [ok |-> TRUE, fields |-> fields_buf, next |-> MinHeader]
        BY FillingSteps
    <2>2. FieldsBytes(SubSeq(fs, 1, 0)) = <<>>
        <3>1. SubSeq(fs, 1, 0) = <<>>
            BY SubSeqEmpty
        <3>. QED  BY <3>1, NoFields, Zenon
    <2>3. Filling(bytes)[0].ok /\ Filling(bytes)[0].next = MinHeader
        BY <2>1
    <2>4. MinHeader = MinHeader + Len(<<>>)
        BY <1>1, NoBytes
    <2>5. \A i \in 1..0 : Filling(bytes)[0].fields[i] = fs[i]
        OBVIOUS
    <2>6. FieldsReadBack(bytes, fs, 0)
        BY <2>2, <2>3, <2>4, <2>5, Zenon DEF FieldsReadBack
    <2>. QED  BY <1>1, <2>6
<1>3. ASSUME NEW n \in 1..N, n - 1 \in T  PROVE n \in T
    <2>. DEFINE r == Filling(bytes)[n - 1]
                field == FieldAt(bytes, r.next)
                after == Filling(bytes)[n]
                old == SubSeq(fs, 1, n - 1)
                new == SubSeq(fs, 1, n)
    <2>1. n - 1 \in 0..N /\ n \in 0..N /\ n \in 1..MaxFields /\ n - 1 \in Nat /\ n \in Nat
        BY <1>1
    <2>2. after = FillField(bytes, n, r) /\ r \in Sofar(bytes)
        BY <2>1, FillingSteps
    <2>3. r.ok /\ r.next = MinHeader + Len(FieldsBytes(old))
          /\ \A i \in 1..(n - 1) : r.fields[i] = fs[i]
        BY <1>3 DEF FieldsReadBack
    <2>4. r.next \in Nat /\ r.fields \in Fields /\ Len(r.fields) = MaxFields
        BY <2>2 DEF Sofar
    <2>5. /\ old \in Fields /\ Len(old) = n - 1 /\ \A i \in 1..(n - 1) : old[i] = fs[i]
          /\ new \in Fields /\ Len(new) = n /\ \A i \in 1..n : new[i] = fs[i]
        BY <1>1, <2>1, Firsts DEF Fields
    <2>6. fs[n] \in FieldSpecifier
        BY <1>1, ElementOfSeq DEF Fields
    <2>. HIDE DEF r, after, field, old, new
    <2>7. Len(new) = Len(old) + 1 /\ new[Len(new)] = fs[n] /\ \A i \in 1..Len(old) : new[i] = old[i]
        BY <1>1, <2>1, <2>5
    <2>8. FieldsBytes(new) = FieldsBytes(old) \o FieldBytes(fs[n])
        BY <2>5, <2>7, FieldsLonger
    <2>9. /\ FieldsBytes(old) \in Bytes /\ FieldBytes(fs[n]) \in Bytes /\ FieldsBytes(fs) \in Bytes
          /\ FieldsBytes(new) \in Bytes
          /\ Len(FieldsBytes(old)) \in Nat /\ Len(FieldBytes(fs[n])) \in Nat
        BY <2>5, <2>6, FieldsWritten, FieldWritten, LenBytes
    <2>10. Stands(FieldsBytes(new), MinHeader, bytes)
        <3>1. Len(new) <= Len(fs) /\ \A i \in 1..Len(new) : fs[i] = new[i]
            BY <1>1, <2>1, <2>5
        <3>2. Stands(FieldsBytes(new), 0, FieldsBytes(fs))
            BY <2>5, <3>1, FieldsWithin
        <3>. QED  BY <1>1, <2>9, <3>2, StandsThrough
    <2>11. Stands(FieldBytes(fs[n]), r.next, bytes)
        BY <1>1, <2>3, <2>8, <2>9, <2>10, StandsJoined
    <2>12. field = [ok |-> TRUE, next |-> r.next + Len(FieldBytes(fs[n])), spec |-> fs[n]]
        BY <1>1, <2>4, <2>6, <2>11, FieldEncoded DEF field
    <2>13. field.ok /\ field.next = r.next + Len(FieldBytes(fs[n])) /\ field.spec = fs[n]
        BY <2>12
    <2>14. after = [ok |-> TRUE, next |-> field.next,
                    fields |-> [r.fields EXCEPT ![n] = field.spec]]
        BY <1>1, <2>1, <2>2, <2>3, <2>13, FillFieldCases DEF field
    <2>15. \A i \in 1..n : after.fields[i] = fs[i]
        <3>1. after.fields = [r.fields EXCEPT ![n] = fs[n]]
            BY <2>13, <2>14
        <3>2. \A i \in 1..MaxFields : [r.fields EXCEPT ![n] = fs[n]][i] = IF i = n THEN fs[n] ELSE r.fields[i]
            BY <2>1, <2>4, <2>6, ExceptSeq DEF Fields
        <3>. QED  BY <1>1, <2>1, <2>3, <3>1, <3>2
    <2>16. Len(FieldsBytes(new)) = Len(FieldsBytes(old)) + Len(FieldBytes(fs[n]))
        BY <2>8, <2>9, Joined
    <2>17. after.ok /\ after.next = MinHeader + Len(FieldsBytes(new))
        BY <1>1, <2>3, <2>9, <2>13, <2>14, <2>16
    <2>18. FieldsReadBack(bytes, fs, n)
        BY <2>15, <2>17, Zenon DEF FieldsReadBack, after, new
    <2>. QED  BY <2>1, <2>18
<1>4. 0..N \subseteq T
    <2>. HIDE DEF T, N
    <2>. QED  BY <1>1, <1>2, <1>3, UpTo
<1>. QED  BY <1>4

-----------------------------------------------------------------------------
(* The inductive invariant: types, the stages of the three iterators, and  *)
(* where their cursors stand.                                              *)

TypesKept ==
    /\ datagram \in Bytes /\ buf \in Bytes /\ template_buf \in Bytes
    /\ header \in {"Unread", "Ok"} \cup Errors
    /\ set_result \in {"Start", "Ok", "None"} \cup Errors
    /\ template_result \in {"Start", "Ok", "None"} \cup Errors
    /\ done \in BOOLEAN
    /\ fields_buf \in Fields /\ Len(fields_buf) = MaxFields
    /\ heard \in HeardSets
    /\ composed \in Messages

LastSet == heard[Len(heard)]

Stages ==
    /\ header # "Ok" =>
           heard = <<>> /\ buf = <<>> /\ set_result = "Start" /\ template_result = "None"
    /\ header # "Unread" => header = HeaderVerdict(datagram)
    /\ template_result # "None" =>
           /\ heard # <<>> /\ set_result = "Ok"
           /\ LastSet.set_id \in {SET_ID_TEMPLATE, SET_ID_OPTIONS_TEMPLATE}
    /\ template_result \in {"Start", "Ok"} => ~done
    /\ template_result \in Errors => done
    /\ set_result \in Errors => buf = <<>>

TemplatesOf(set) == TemplatesBytes(set.set_id, set.templates)

SetCursor ==
    header = "Ok" =>
        /\ Stands(SetsBytes(heard), 0, Payload)
        /\ set_result \in {"Start", "Ok"} => buf = Drop(Payload, Len(SetsBytes(heard)))

TemplateCursor ==
    /\ \A i \in 1..Len(heard) : Stands(TemplatesOf(heard[i]), 0, heard[i].records)
    /\ template_result \in {"Start", "Ok"} =>
           template_buf = Drop(LastSet.records, Len(TemplatesOf(LastSet)))

FramingInv == TypesKept /\ Stages /\ SetCursor /\ TemplateCursor

-----------------------------------------------------------------------------
(* What the decoders read.                                                 *)

LEMMA LastHeard ==
    ASSUME heard \in HeardSets, heard # <<>>
    PROVE  Len(heard) \in 1..Len(heard) /\ Len(heard) \in Nat /\ LastSet \in HeardSet
<1>1. Len(heard) \in Nat \ {0}
    BY EmptySeq DEF HeardSets
<1>2. Len(heard) \in 1..Len(heard)
    BY <1>1
<1>. QED  BY <1>1, <1>2, ElementOfSeq DEF HeardSets, LastSet

LEMMA HeardParts ==
    ASSUME NEW h \in HeardSet
    PROVE  /\ h.set_id \in U16 /\ h.records \in Bytes /\ h.templates \in Templates
           /\ SET_HEADER_LEN + Len(h.records) \in U16
           /\ TemplatesOf(h) \in Bytes
<1>1. /\ h.set_id \in U16 /\ h.records \in Bytes /\ h.templates \in Templates
      /\ SET_HEADER_LEN + Len(h.records) \in U16
    BY DEF HeardSet
<1>. QED  BY <1>1, TemplatesWritten DEF TemplatesOf

\* A header that is accepted says how much of the datagram is the message.
LEMMA HeaderRead ==
    ASSUME datagram \in Bytes, HeaderVerdict(datagram) = "Ok"
    PROVE  /\ ReadU16(datagram, 2) \in Nat
           /\ HEADER_LEN <= ReadU16(datagram, 2) /\ ReadU16(datagram, 2) <= Len(datagram)
           /\ Payload \in Bytes
           /\ HEADER_LEN + Len(Payload) = ReadU16(datagram, 2)
<1>1. Len(datagram) \in Nat
    BY LenBytes
<1>2. ~(Len(datagram) < HEADER_LEN) /\ ReadU16(datagram, 2) \in HEADER_LEN..Len(datagram)
    BY Zenon DEF HeaderVerdict
<1>3. PICK n \in Nat : n = ReadU16(datagram, 2) /\ HEADER_LEN <= n /\ n <= Len(datagram)
    BY <1>1, <1>2 DEF HEADER_LEN
<1>4. Payload \in Bytes /\ Len(Payload) = n - HEADER_LEN
    <2>1. HEADER_LEN \in Nat
        BY DEF HEADER_LEN
    <2>2. SubSeq(datagram, HEADER_LEN + 1, n) \in Bytes
          /\ Len(SubSeq(datagram, HEADER_LEN + 1, n)) = n - HEADER_LEN
        BY <1>3, <2>1, Cut
    <2>. QED  BY <1>3, <2>2 DEF Payload
<1>. QED  BY <1>3, <1>4 DEF HEADER_LEN

\* A set that is accepted is the bytes it was read from.
LEMMA SetRead ==
    ASSUME NEW bytes \in Bytes, Len(bytes) >= SET_HEADER_LEN, SetVerdict(bytes) = "Ok"
    PROVE  LET set_id == ReadU16(bytes, 0)
               length == ReadU16(bytes, 2)
               records == SubSeq(bytes, SET_HEADER_LEN + 1, length)
           IN  /\ set_id \in U16 /\ records \in Bytes
               /\ length \in Nat /\ length <= Len(bytes)
               /\ length = SET_HEADER_LEN + Len(records)
               /\ SET_HEADER_LEN + Len(records) \in U16
               /\ Stands(SetBytes(set_id, records), 0, bytes)
               /\ Len(SetBytes(set_id, records)) = length
<1>1. Len(bytes) \in Nat /\ 0 \in Nat /\ 2 \in Nat /\ 0 + 2 <= Len(bytes) /\ 2 + 2 <= Len(bytes)
    BY LenBytes DEF SET_HEADER_LEN
<1>2. PICK set_id \in U16 : set_id = ReadU16(bytes, 0) /\ Stands(Bytes16(set_id), 0, bytes)
    BY <1>1, ReadsWord
<1>3. PICK length \in U16 : length = ReadU16(bytes, 2) /\ Stands(Bytes16(length), 2, bytes)
    BY <1>1, ReadsWord
<1>4. ReadU16(bytes, 2) \in SET_HEADER_LEN..Len(bytes)
    BY Zenon DEF SetVerdict
<1>5. length \in Nat /\ SET_HEADER_LEN \in Nat /\ SET_HEADER_LEN <= length /\ length <= Len(bytes)
    BY <1>1, <1>3, <1>4 DEF SET_HEADER_LEN
<1>. DEFINE records == SubSeq(bytes, SET_HEADER_LEN + 1, length)
<1>6. /\ records \in Bytes /\ Len(records) = length - SET_HEADER_LEN
      /\ Stands(records, SET_HEADER_LEN, bytes)
    BY <1>5, Cut, CutStands
<1>. HIDE DEF records
<1>7. SET_HEADER_LEN + Len(records) = length
    BY <1>5, <1>6
<1>8. 0 + 2 = 2 /\ 0 + SET_HEADER_LEN = SET_HEADER_LEN
    BY DEF SET_HEADER_LEN
<1>9. Stands(SetBytes(set_id, records), 0, bytes) /\ Len(SetBytes(set_id, records)) = length
    <2>1. /\ Len(SetBytes(set_id, records)) = SET_HEADER_LEN + Len(records)
          /\ \A at \in Nat : Stands(SetBytes(set_id, records), at, bytes) <=>
                 /\ Stands(Bytes16(set_id), at, bytes)
                 /\ Stands(Bytes16(SET_HEADER_LEN + Len(records)), at + 2, bytes)
                 /\ Stands(records, at + SET_HEADER_LEN, bytes)
        BY <1>6, <1>7, SetWritten
    <2>2. Stands(Bytes16(SET_HEADER_LEN + Len(records)), 0 + 2, bytes)
          /\ Stands(records, 0 + SET_HEADER_LEN, bytes)
        BY <1>3, <1>6, <1>7, <1>8
    <2>. QED  BY <1>1, <1>2, <1>7, <2>1, <2>2
<1>10. records = SubSeq(bytes, SET_HEADER_LEN + 1, ReadU16(bytes, 2))
    BY <1>3 DEF records
<1>. QED  BY <1>2, <1>3, <1>5, <1>6, <1>7, <1>9, <1>10

\* The template that is read from the front of the bytes.
Yielded(bytes) == [id |-> ReadU16(bytes, 0), scope_field_count |-> ScopeFieldCount(bytes),
                   fields |-> SubSeq(Fill(bytes).fields, 1, FieldCount(bytes))]

\* A template is being looked for, and its counts are in order.
LEMMA MayFill ==
    ASSUME FramingInv, template_result # "None", Len(template_buf) >= MinHeader
    PROVE  /\ template_buf \in Bytes /\ Len(template_buf) \in Nat
           /\ LastSet \in HeardSet
           /\ MinHeader = HeaderOf(LastSet.set_id) /\ MinHeader \in {4, 6}
           /\ FieldCount(template_buf) \in U16 /\ FieldCount(template_buf) \in Nat
           /\ CountsVerdict(template_buf) = "Ok" =>
                  FieldCount(template_buf) # 0 /\ Fillable(template_buf)
<1>1. /\ template_buf \in Bytes /\ heard \in HeardSets /\ heard # <<>>
      /\ fields_buf \in Fields /\ Len(fields_buf) = MaxFields
    BY DEF FramingInv, TypesKept, Stages
<1>2. MinHeader = HeaderOf(LastSet.set_id) /\ MinHeader \in {4, 6}
    BY Zenon DEF MinHeader, HeaderOf, LastSet
<1>3. Len(template_buf) \in Nat /\ 2 \in Nat /\ 2 + 2 <= Len(template_buf)
    BY <1>1, <1>2, LenBytes
<1>4. FieldCount(template_buf) \in U16
    BY <1>1, <1>3, ReadsWord DEF FieldCount
<1>5. FieldCount(template_buf) \in Nat
    BY <1>4 DEF U16
<1>6. MaxFields \in Nat
    BY FramingAssumption DEF FramingAssumption
<1>7. ASSUME CountsVerdict(template_buf) = "Ok"
      PROVE  FieldCount(template_buf) # 0 /\ FieldCount(template_buf) <= MaxFields
    <2>1. FieldCount(template_buf) # 0 /\ ~(FieldCount(template_buf) > MaxFields)
        BY <1>7, Zenon DEF CountsVerdict
    <2>. QED  BY <1>5, <1>6, <2>1
<1>8. LastSet \in HeardSet
    BY <1>1, LastHeard
<1>. QED  BY <1>1, <1>2, <1>3, <1>4, <1>5, <1>6, <1>7, <1>8 DEF Fillable

\* A template that is returned is the bytes it was read from.
LEMMA TemplateRead ==
    ASSUME NEW bytes, Fillable(bytes), FieldCount(bytes) \in U16, Fill(bytes).ok,
           NEW set_id \in U16, set_id = LastSet.set_id
    PROVE  /\ Yielded(bytes) \in Template
           /\ Stands(TemplateBytes(set_id, Yielded(bytes)), 0, bytes)
           /\ Len(TemplateBytes(set_id, Yielded(bytes))) = Fill(bytes).next
           /\ Fill(bytes) \in Sofar(bytes)
<1>. DEFINE N == FieldCount(bytes)
            t == Yielded(bytes)
            fs == SubSeq(Fill(bytes).fields, 1, N)
<1>1. /\ N \in Nat /\ N <= MaxFields /\ bytes \in Bytes /\ Len(bytes) \in Nat
      /\ MinHeader \in {4, 6} /\ MinHeader <= Len(bytes) /\ N \in 0..N
    BY LenBytes DEF Fillable
<1>2. Fill(bytes) = Filling(bytes)[N] /\ Fill(bytes) \in Sofar(bytes)
    BY <1>1, FillingSteps DEF Fill
<1>3. Fill(bytes).next = MinHeader + Len(FieldsBytes(fs)) /\ Stands(FieldsBytes(fs), MinHeader, bytes)
    BY <1>1, <1>2, FillDecoded DEF FieldsRead
<1>4. fs \in Fields /\ Len(fs) = N
    <2>1. Fill(bytes).fields \in Fields /\ Len(Fill(bytes).fields) = MaxFields
        BY <1>2 DEF Sofar
    <2>. QED  BY <1>1, <2>1, Firsts DEF Fields
<1>5. 0 \in Nat /\ 2 \in Nat /\ 0 + 2 <= Len(bytes) /\ 2 + 2 <= Len(bytes)
    BY <1>1
<1>6. ReadU16(bytes, 0) \in U16 /\ Stands(Bytes16(ReadU16(bytes, 0)), 0, bytes)
    BY <1>1, <1>5, ReadsWord
<1>7. N = ReadU16(bytes, 2) /\ Stands(Bytes16(N), 2, bytes)
    BY <1>1, <1>5, ReadsWord DEF FieldCount
<1>8. /\ ScopeFieldCount(bytes) \in U16
      /\ set_id = SET_ID_OPTIONS_TEMPLATE => Stands(Bytes16(ScopeFieldCount(bytes)), 4, bytes)
    <2>1. CASE set_id = SET_ID_OPTIONS_TEMPLATE
        <3>1. Options /\ MinHeader = 6
            BY <2>1, Zenon DEF Options, MinHeader, HeaderOf, LastSet
        <3>2. ScopeFieldCount(bytes) = ReadU16(bytes, 4)
            BY <3>1, Zenon DEF ScopeFieldCount
        <3>3. 4 \in Nat /\ 4 + 2 <= Len(bytes)
            BY <1>1, <3>1
        <3>. QED  BY <1>1, <3>2, <3>3, ReadsWord
    <2>2. CASE set_id # SET_ID_OPTIONS_TEMPLATE
        <3>1. ScopeFieldCount(bytes) = 0
            BY <2>2, Zenon DEF ScopeFieldCount, Options, LastSet
        <3>. QED  BY <2>2, <3>1 DEF U16
    <2>. QED  BY <2>1, <2>2
<1>9. t = [id |-> ReadU16(bytes, 0), scope_field_count |-> ScopeFieldCount(bytes), fields |-> fs]
    BY DEF Yielded
<1>. HIDE DEF t, fs
<1>10. t \in Template /\ t.id = ReadU16(bytes, 0) /\ t.fields = fs
       /\ t.scope_field_count = ScopeFieldCount(bytes)
    BY <1>4, <1>6, <1>8, <1>9 DEF Template, Fields
<1>11. MinHeader = HeaderOf(set_id)
    BY Zenon DEF MinHeader, LastSet
<1>12. 0 + 2 = 2 /\ 0 + 4 = 4 /\ 0 + MinHeader = MinHeader
    BY <1>1
<1>13. /\ Len(TemplateBytes(set_id, t)) = HeaderOf(set_id) + Len(FieldsBytes(fs))
       /\ \A at \in Nat : Stands(TemplateBytes(set_id, t), at, bytes) <=>
              /\ Stands(Bytes16(ReadU16(bytes, 0)), at, bytes)
              /\ Stands(Bytes16(N), at + 2, bytes)
              /\ set_id = SET_ID_OPTIONS_TEMPLATE =>
                     Stands(Bytes16(ScopeFieldCount(bytes)), at + 4, bytes)
              /\ Stands(FieldsBytes(fs), at + HeaderOf(set_id), bytes)
    BY <1>1, <1>4, <1>10, TemplateWritten
<1>14. Stands(TemplateBytes(set_id, t), 0, bytes)
    BY <1>3, <1>5, <1>6, <1>7, <1>8, <1>11, <1>12, <1>13
<1>. QED  BY <1>2, <1>3, <1>10, <1>11, <1>13, <1>14 DEF t

-----------------------------------------------------------------------------
(* Every step keeps the invariant.                                         *)

LEMMA MessageWritten ==
    ASSUME NEW sets \in Messages
    PROVE  /\ sets \in ComposedSets /\ Len(sets) \in Nat
           /\ PayloadBytes(sets) \in Bytes
           /\ MessageBytes(sets) \in Bytes
           /\ Len(MessageBytes(sets)) = HEADER_LEN + Len(PayloadBytes(sets))
           /\ Stands(PayloadBytes(sets), HEADER_LEN, MessageBytes(sets))
<1>1. /\ sets \in Seq([set_id : U16, templates : Seq(Template), tail : Seq(Byte)])
      /\ HEADER_LEN + Len(PayloadBytes(sets)) \in U16
      /\ \A i \in 1..Len(sets) : SET_HEADER_LEN + Len(BodyBytes(sets[i])) \in U16
    BY FramingAssumption DEF FramingAssumption
<1>2. Len(sets) \in Nat
    BY <1>1, LenProperties
<1>3. sets \in ComposedSets
    <2>1. \A i \in 1..Len(sets) : sets[i] \in ComposedSet
        BY <1>1, ElementOfSeq DEF ComposedSet, Templates, Bytes
    <2>2. sets \in [1..Len(sets) -> ComposedSet]
        BY <1>1, <2>1, LenProperties
    <2>. QED  BY <1>2, <2>2, IsSeq DEF ComposedSets
<1>4. PayloadBytes(sets) \in Bytes
    BY <1>3, PayloadWritten
<1>. DEFINE a == Bytes16(VERSION)
            b == Bytes16(HEADER_LEN + Len(PayloadBytes(sets)))
            c == [i \in 1..12 |-> 0]
            d == PayloadBytes(sets)
<1>5. a \in Bytes /\ b \in Bytes /\ Len(a) = 2 /\ Len(b) = 2
    <2>1. VERSION \in U16
        BY DEF VERSION, U16
    <2>. QED  BY <1>1, <2>1, Word
<1>6. c \in Bytes /\ Len(c) = 12
    <2>. DEFINE n == 12
    <2>1. n \in Nat /\ c \in [1..n -> Byte]
        BY DEF Byte
    <2>. HIDE DEF n, c
    <2>2. c \in Seq(Byte) /\ Len(c) = n
        BY <2>1, IsSeq
    <2>. QED  BY <2>2 DEF n, Bytes
<1>7. MessageBytes(sets) = ((a \o b) \o c) \o d
    BY Zenon DEF MessageBytes
<1>. HIDE DEF a, b, c, d
<1>8. a \o b \in Bytes /\ Len(a \o b) = 4
    <2>1. a \o b \in Bytes /\ Len(a \o b) = Len(a) + Len(b)
        BY <1>5, Joined
    <2>. QED  BY <1>5, <2>1
<1>9. (a \o b) \o c \in Bytes /\ Len((a \o b) \o c) = HEADER_LEN
    <2>1. (a \o b) \o c \in Bytes /\ Len((a \o b) \o c) = Len(a \o b) + Len(c)
        BY <1>6, <1>8, Joined
    <2>. QED  BY <1>6, <1>8, <2>1 DEF HEADER_LEN
<1>10. d \in Bytes
    BY <1>4 DEF d
<1>11. /\ ((a \o b) \o c) \o d \in Bytes
       /\ Len(((a \o b) \o c) \o d) = HEADER_LEN + Len(d)
    BY <1>9, <1>10, Joined
<1>12. Stands(d, HEADER_LEN, ((a \o b) \o c) \o d)
    <2>1. Stands(((a \o b) \o c) \o d, 0, ((a \o b) \o c) \o d)
        BY <1>11, StandsWhole
    <2>2. Stands(d, 0 + Len((a \o b) \o c), ((a \o b) \o c) \o d)
        BY <1>9, <1>10, <1>11, <2>1, StandsJoined
    <2>3. 0 + HEADER_LEN = HEADER_LEN
        BY DEF HEADER_LEN
    <2>. QED  BY <1>9, <2>2, <2>3
<1>. QED  BY <1>2, <1>3, <1>4, <1>7, <1>11, <1>12 DEF d

\* Whatever becomes of a message on the way, it is bytes.
LEMMA ReceivedBytes ==
    ASSUME NEW bytes \in Bytes, NEW b \in Received(bytes)
    PROVE  b \in Bytes
<1>1. Len(bytes) \in Nat /\ \A i \in 1..Len(bytes) : bytes[i] \in Byte
    BY LenBytes
<1>2. CASE b = bytes
    BY <1>2
<1>3. CASE b = bytes \o <<0, 2, 0, 8, 1>>
    <2>1. <<0, 2, 0, 8, 1>> \in Bytes
        BY DEF Bytes, Byte
    <2>. QED  BY <1>3, <2>1, Joined
<1>4. ASSUME NEW n \in 0..Len(bytes), b = SubSeq(bytes, 1, n)
      PROVE  b \in Bytes
    BY <1>1, <1>4, Firsts DEF Bytes
<1>5. ASSUME NEW i \in 1..Len(bytes), NEW g \in Garbage, b = [bytes EXCEPT ![i] = g]
      PROVE  b \in Bytes
    <2>1. g \in Byte
        BY FramingAssumption DEF FramingAssumption
    <2>. QED  BY <1>5, <2>1, ExceptSeq DEF Bytes
<1>. QED  BY <1>2, <1>3, <1>4, <1>5 DEF Received

LEMMA InitInv == Init => FramingInv
<1>. SUFFICES ASSUME Init  PROVE FramingInv
    OBVIOUS
<1>1. <<>> \in Bytes /\ <<>> \in HeardSets /\ Len(<<>>) = 0
    BY NoBytes, EmptySeq DEF HeardSets
<1>2. datagram \in Bytes /\ composed \in Messages
    <2>1. composed \in Messages /\ datagram \in Received(MessageBytes(composed))
        BY DEF Init
    <2>. QED  BY <2>1, MessageWritten, ReceivedBytes
<1>3. fields_buf \in Fields /\ Len(fields_buf) = MaxFields
    <2>1. MaxFields \in Nat
        BY FramingAssumption DEF FramingAssumption
    <2>2. EMPTY \in FieldSpecifier
        <3>1. 0 \in 0..(ENTERPRISE_BIT - 1)
            BY DEF ENTERPRISE_BIT
        <3>2. 0 \in U16
            BY DEF U16
        <3>. QED  BY <3>1, <3>2 DEF EMPTY, FieldSpecifier
    <2>3. fields_buf \in [1..MaxFields -> FieldSpecifier]
        BY <2>2 DEF Init
    <2>. QED  BY <2>1, <2>3, IsSeq DEF Fields
<1>4. TypesKept
    BY <1>1, <1>2, <1>3 DEF Init, TypesKept
<1>5. Stages /\ SetCursor /\ TemplateCursor
    BY <1>1 DEF Init, Stages, SetCursor, TemplateCursor, Errors
<1>. QED  BY <1>4, <1>5 DEF FramingInv

LEMMA DecodeHeaderInv == FramingInv /\ DecodeHeader => FramingInv'
<1>. SUFFICES ASSUME FramingInv, DecodeHeader  PROVE FramingInv'
    OBVIOUS
<1>. USE DEF FramingInv
<1>1. /\ heard = <<>> /\ heard' = heard /\ set_result = "Start" /\ template_result = "None"
      /\ UNCHANGED <<input, set_result, templateVars>>
      /\ header' = HeaderVerdict(datagram)
    BY DEF DecodeHeader, Stages
<1>2. Payload' = Payload /\ datagram' = datagram /\ composed' = composed
    BY <1>1 DEF input, Payload
<1>3. header' \in {"Ok"} \cup Errors
    BY <1>1 DEF HeaderVerdict, Errors
<1>4. buf' = (IF header' = "Ok" THEN Payload ELSE <<>>)
    BY DEF DecodeHeader, Payload
<1>5. buf' \in Bytes
    <2>1. CASE header' = "Ok"
        BY <1>1, <1>4, <2>1, HeaderRead DEF TypesKept
    <2>2. CASE header' # "Ok"
        BY <1>4, <2>2, NoBytes
    <2>. QED  BY <2>1, <2>2
<1>6. TypesKept'
    BY <1>1, <1>2, <1>3, <1>5 DEF TypesKept, templateVars
<1>7. Stages'
    BY <1>1, <1>2, <1>3, <1>4 DEF Stages, templateVars, LastSet, Errors
<1>8. SetCursor'
    <2>1. SUFFICES ASSUME header' = "Ok"
                   PROVE  /\ Stands(SetsBytes(heard), 0, Payload)
                          /\ buf' = Drop(Payload, Len(SetsBytes(heard)))
        BY <1>1, <1>2, Zenon DEF SetCursor
    <2>2. Payload \in Bytes /\ buf' = Payload
        BY <1>1, <1>4, <2>1, HeaderRead DEF TypesKept
    <2>3. SetsBytes(heard) = <<>> /\ Len(SetsBytes(heard)) = 0
        <3>1. Len(<<>>) = 0 /\ [i \in 1..Len(heard) |-> SetBytes(heard[i].set_id, heard[i].records)] = <<>>
            BY <1>1, EmptySeq
        <3>. QED  BY <3>1, FlattenEmpty DEF SetsBytes
    <2>4. Len(Payload) \in Nat /\ Drop(Payload, 0) = Payload
        <3>1. Len(Payload) \in Nat
            BY <2>2, LenBytes
        <3>2. SubSeq(Payload, 1, Len(Payload)) = Payload
            BY <2>2, SubSeqFull DEF Bytes
        <3>. QED  BY <3>1, <3>2 DEF Drop
    <2>5. Stands(<<>>, 0, Payload)
        BY <2>4, NoBytes DEF Stands
    <2>. QED  BY <2>2, <2>3, <2>4, <2>5
<1>9. TemplateCursor'
    BY <1>1 DEF TemplateCursor, templateVars, LastSet
<1>. QED  BY <1>6, <1>7, <1>8, <1>9

LEMMA DroppedTwice ==
    ASSUME NEW b \in Bytes, NEW m \in Nat, NEW n \in Nat, m <= Len(b), n <= Len(b) - m
    PROVE  Drop(Drop(b, m), n) = Drop(b, m + n)
<1>. DEFINE once == Drop(b, m)
            twice == Drop(once, n)
            both == Drop(b, m + n)
<1>1. Len(b) \in Nat
    BY LenBytes
<1>2. once \in Bytes /\ Len(once) = Len(b) - m /\ \A i \in 1..(Len(b) - m) : once[i] = b[m + i]
    BY Dropped
<1>. HIDE DEF once
<1>3. twice \in Bytes /\ Len(twice) = Len(once) - n /\ \A i \in 1..(Len(once) - n) : twice[i] = once[n + i]
    BY <1>2, Dropped
<1>4. /\ both \in Bytes /\ Len(both) = Len(b) - (m + n)
      /\ \A i \in 1..(Len(b) - (m + n)) : both[i] = b[(m + n) + i]
    <2>. DEFINE k == m + n
    <2>1. k \in Nat /\ k <= Len(b)
        BY <1>1
    <2>. HIDE DEF k
    <2>2. /\ Drop(b, k) \in Bytes /\ Len(Drop(b, k)) = Len(b) - k
          /\ \A i \in 1..(Len(b) - k) : Drop(b, k)[i] = b[k + i]
        BY <2>1, Dropped
    <2>. QED  BY <2>2 DEF k
<1>. HIDE DEF twice, both
<1>5. Len(twice) = Len(both)
    BY <1>1, <1>2, <1>3, <1>4
<1>6. ASSUME NEW i \in 1..Len(twice)  PROVE twice[i] = both[i]
    <2>1. n + i \in 1..(Len(b) - m) /\ m + (n + i) = (m + n) + i
        BY <1>1, <1>2, <1>3
    <2>2. twice[i] = once[n + i] /\ once[n + i] = b[m + (n + i)] /\ both[i] = b[(m + n) + i]
        BY <1>2, <1>3, <1>4, <1>5, <2>1
    <2>. QED  BY <2>1, <2>2
<1>. QED  BY <1>3, <1>4, <1>5, <1>6, SameBytes DEF once, twice, both

LEMMA StopAtMessageEndInv == FramingInv /\ StopAtMessageEnd => FramingInv'
<1>. SUFFICES ASSUME FramingInv, StopAtMessageEnd  PROVE FramingInv'
    OBVIOUS
<1>1. /\ UNCHANGED <<datagram, composed, header, template_buf, done, fields_buf, template_result, heard>>
      /\ buf' = <<>> /\ set_result' = "None" /\ header = "Ok" /\ template_result = "None"
    BY DEF StopAtMessageEnd, SetWanted, input, templateVars
<1>2. TypesKept'
    BY <1>1, NoBytes DEF FramingInv, TypesKept
<1>3. Stages'
    BY <1>1 DEF FramingInv, Stages, Errors
<1>4. SetCursor'
    BY <1>1 DEF FramingInv, SetCursor, Payload
<1>5. TemplateCursor'
    BY <1>1 DEF FramingInv, TemplateCursor
<1>. QED  BY <1>2, <1>3, <1>4, <1>5 DEF FramingInv

LEMMA RejectSetInv == FramingInv /\ RejectSet => FramingInv'
<1>. SUFFICES ASSUME FramingInv, RejectSet  PROVE FramingInv'
    OBVIOUS
<1>1. /\ UNCHANGED <<datagram, composed, header, template_buf, done, fields_buf, template_result, heard>>
      /\ buf' = <<>> /\ header = "Ok" /\ template_result = "None"
      /\ set_result' = SetVerdict(buf) /\ SetVerdict(buf) # "Ok"
    BY DEF RejectSet, SetWanted, input, templateVars
<1>2. set_result' \in Errors /\ set_result' \notin {"Start", "Ok"}
    BY <1>1 DEF SetVerdict, Errors
<1>3. TypesKept'
    BY <1>1, <1>2, NoBytes DEF FramingInv, TypesKept
<1>4. Stages'
    BY <1>1, <1>2 DEF FramingInv, Stages
<1>5. SetCursor'
    BY <1>1, <1>2 DEF FramingInv, SetCursor, Payload
<1>6. TemplateCursor'
    BY <1>1 DEF FramingInv, TemplateCursor
<1>. QED  BY <1>3, <1>4, <1>5, <1>6 DEF FramingInv

\* No templates, no bytes.
LEMMA NoTemplates == <<>> \in Templates /\ \A set_id : TemplatesBytes(set_id, <<>>) = <<>>
<1>1. <<>> \in Templates /\ Len(<<>>) = 0
    BY EmptySeq DEF Templates
<1>2. ASSUME NEW set_id  PROVE TemplatesBytes(set_id, <<>>) = <<>>
    <2>1. [i \in 1..Len(<<>>) |-> TemplateBytes(set_id, <<>>[i])] = <<>>
        BY <1>1
    <2>. QED  BY <2>1, FlattenEmpty DEF TemplatesBytes
<1>. QED  BY <1>1, <1>2

LEMMA TakeSetInv == FramingInv /\ TakeSet => FramingInv'
<1>. SUFFICES ASSUME FramingInv, TakeSet  PROVE FramingInv'
    OBVIOUS
<1>. DEFINE set_id == ReadU16(buf, 0)
            length == ReadU16(buf, 2)
            records == SubSeq(buf, SET_HEADER_LEN + 1, length)
            h == [set_id |-> set_id, records |-> records, templates |-> <<>>]
            m == Len(SetsBytes(heard))
<1>1. /\ UNCHANGED <<datagram, composed, header, fields_buf>>
      /\ header = "Ok" /\ template_result = "None" /\ set_result # "None"
      /\ Len(buf) >= SET_HEADER_LEN /\ SetVerdict(buf) = "Ok"
      /\ buf' = Drop(buf, length) /\ set_result' = "Ok" /\ heard' = Append(heard, h)
      /\ IF set_id \in {SET_ID_TEMPLATE, SET_ID_OPTIONS_TEMPLATE}
         THEN template_buf' = records /\ done' = FALSE /\ template_result' = "Start"
         ELSE UNCHANGED <<template_buf, done, template_result>>
    BY DEF TakeSet, SetWanted, input
<1>2. /\ datagram \in Bytes /\ buf \in Bytes /\ template_buf \in Bytes /\ heard \in HeardSets
      /\ fields_buf \in Fields /\ Len(fields_buf) = MaxFields /\ done \in BOOLEAN
    BY DEF FramingInv, TypesKept
<1>3. /\ set_id \in U16 /\ records \in Bytes /\ length \in Nat /\ length <= Len(buf)
      /\ SET_HEADER_LEN + Len(records) \in U16
      /\ Stands(SetBytes(set_id, records), 0, buf)
      /\ Len(SetBytes(set_id, records)) = length
    BY <1>1, <1>2, SetRead
<1>. HIDE DEF set_id, length, records
<1>4. /\ h \in HeardSet /\ h.set_id = set_id /\ h.records = records /\ h.templates = <<>>
    BY <1>3, NoTemplates DEF HeardSet
<1>. HIDE DEF h
<1>5. /\ heard' \in HeardSets /\ Len(heard) \in Nat /\ Len(heard') = Len(heard) + 1
      /\ \A i \in 1..Len(heard) : heard'[i] = heard[i]
      /\ heard'[Len(heard')] = h /\ LastSet' = h
    BY <1>1, <1>2, <1>4, AppendProperties, LenProperties DEF HeardSets, LastSet
<1>6. TypesKept'
    <2>1. buf' \in Bytes
        BY <1>1, <1>2, <1>3, Dropped
    <2>2. template_buf' \in Bytes /\ template_result' \in {"Start", "None"} /\ done' \in BOOLEAN
        BY <1>1, <1>2, <1>3
    <2>. QED  BY <1>1, <1>2, <1>5, <2>1, <2>2 DEF FramingInv, TypesKept
<1>7. Stages'
    <2>1. heard' # <<>>
        BY <1>5, EmptySeq
    <2>2. /\ template_result' \in {"Start", "None"}
          /\ template_result' # "None" => set_id \in {SET_ID_TEMPLATE, SET_ID_OPTIONS_TEMPLATE} /\ ~done'
        BY <1>1
    <2>. QED  BY <1>1, <1>4, <1>5, <2>1, <2>2 DEF FramingInv, Stages, Errors
<1>8. Payload \in Bytes /\ Payload' = Payload
    <2>1. HeaderVerdict(datagram) = "Ok"
        BY <1>1 DEF FramingInv, Stages
    <2>2. Payload \in Bytes
        BY <1>2, <2>1, HeaderRead
    <2>. QED  BY <1>1, <2>2 DEF Payload
<1>9. Stands(SetsBytes(heard), 0, Payload) /\ buf = Drop(Payload, m)
    <2>1. set_result \in {"Start", "Ok"}
        <3>1. CASE set_result \in Errors
            <4>1. buf = <<>> /\ Len(buf) = 0
                BY <3>1, NoBytes DEF FramingInv, Stages
            <4>. QED  BY <1>1, <4>1 DEF SET_HEADER_LEN
        <3>2. set_result \in {"Start", "Ok", "None"} \cup Errors
            BY DEF FramingInv, TypesKept
        <3>. QED  BY <1>1, <3>1, <3>2
    <2>. QED  BY <1>1, <2>1 DEF FramingInv, SetCursor
<1>10. SetsBytes(heard) \in Bytes /\ m \in Nat /\ m <= Len(Payload)
    <2>1. SetsBytes(heard) \in Bytes
        BY <1>2, SetsWritten
    <2>2. 0 + m = m /\ m \in Nat
        BY <2>1, LenBytes
    <2>. QED  BY <1>9, <2>1, <2>2 DEF Stands
<1>11. SetBytes(set_id, records) \in Bytes
    BY <1>3, SetWritten
<1>12. SetsBytes(heard') = SetsBytes(heard) \o SetBytes(set_id, records)
    <2>. DEFINE new == heard'
    <2>1. /\ new \in HeardSets /\ Len(new) = Len(heard) + 1
          /\ \A i \in 1..Len(heard) : SetBytes(new[i].set_id, new[i].records)
                                      = SetBytes(heard[i].set_id, heard[i].records)
          /\ new[Len(new)] = h
        BY <1>5
    <2>. HIDE DEF new
    <2>2. SetsBytes(new) = SetsBytes(heard) \o SetBytes(new[Len(new)].set_id, new[Len(new)].records)
        BY <1>2, <2>1, SetsLonger
    <2>. QED  BY <1>4, <2>1, <2>2 DEF new
<1>13. SetCursor'
    <2>1. 0 \in Nat /\ 0 + m = m /\ m + 0 = m
        BY <1>10
    <2>2. Stands(SetBytes(set_id, records), m, Payload)
        <3>1. Stands(SetBytes(set_id, records), 0, Drop(Payload, m))
            BY <1>3, <1>9
        <3>2. Stands(SetBytes(set_id, records), m + 0, Payload)
            BY <1>8, <1>10, <1>11, <2>1, <3>1, StandsInRest
        <3>. QED  BY <2>1, <3>2
    <2>. HIDE DEF m
    <2>3. Stands(SetsBytes(heard) \o SetBytes(set_id, records), 0, Payload)
        <3>1. Stands(SetBytes(set_id, records), 0 + Len(SetsBytes(heard)), Payload)
            BY <2>1, <2>2 DEF m
        <3>. QED  BY <1>8, <1>9, <1>10, <1>11, <2>1, <3>1, StandsJoined
    <2>4. Len(SetsBytes(heard) \o SetBytes(set_id, records)) = m + length
        BY <1>3, <1>10, <1>11, Joined DEF m
    <2>5. buf' = Drop(Payload, m + length)
        <3>1. length <= Len(Payload) - m
            BY <1>3, <1>8, <1>9, <1>10, Dropped
        <3>. QED  BY <1>1, <1>3, <1>8, <1>9, <1>10, <3>1, DroppedTwice
    <2>6. Stands(SetsBytes(heard'), 0, Payload') /\ buf' = Drop(Payload', Len(SetsBytes(heard')))
        BY <1>8, <1>12, <2>3, <2>4, <2>5, Zenon
    <2>. QED  BY <2>6, Zenon DEF SetCursor
<1>14. TemplateCursor'
    <2>1. TemplatesOf(h) = <<>> /\ Len(<<>>) = 0
        BY <1>4, NoTemplates, NoBytes DEF TemplatesOf
    <2>2. Len(records) \in Nat
        BY <1>3, LenBytes
    <2>3. Stands(TemplatesOf(h), 0, h.records)
        BY <1>4, <2>1, <2>2 DEF Stands
    <2>4. ASSUME NEW i \in 1..Len(heard')
          PROVE  Stands(TemplatesOf(heard'[i]), 0, heard'[i].records)
        <3>1. CASE i \in 1..Len(heard)
            BY <1>5, <3>1, Zenon DEF FramingInv, TemplateCursor
        <3>2. CASE i = Len(heard')
            BY <1>5, <2>3, <3>2, Zenon
        <3>. QED  BY <1>5, <3>1, <3>2
    <2>5. Drop(records, 0) = records
        <3>1. SubSeq(records, 1, Len(records)) = records
            BY <1>3, SubSeqFull DEF Bytes
        <3>. QED  BY <2>2, <3>1 DEF Drop
    <2>6. template_result' \in {"Start", "Ok"} => template_buf' = records
        BY <1>1
    <2>7. template_result' \in {"Start", "Ok"} =>
              template_buf' = Drop(LastSet'.records, Len(TemplatesOf(LastSet')))
        BY <1>4, <1>5, <2>1, <2>5, <2>6, Zenon
    <2>. QED  BY <2>4, <2>7 DEF TemplateCursor, TemplatesOf
<1>. QED  BY <1>6, <1>7, <1>13, <1>14 DEF FramingInv

LEMMA StopAtSetEndInv == FramingInv /\ StopAtSetEnd => FramingInv'
<1>. SUFFICES ASSUME FramingInv, StopAtSetEnd  PROVE FramingInv'
    OBVIOUS
<1>1. /\ UNCHANGED <<datagram, composed, header, buf, set_result, template_buf, done, fields_buf, heard>>
      /\ template_result' = "None"
    BY DEF StopAtSetEnd, input, setVars
<1>2. TypesKept'
    BY <1>1 DEF FramingInv, TypesKept
<1>3. Stages'
    BY <1>1 DEF FramingInv, Stages, Errors
<1>4. SetCursor'
    BY <1>1 DEF FramingInv, SetCursor, Payload
<1>5. TemplateCursor'
    BY <1>1 DEF FramingInv, TemplateCursor, Errors
<1>. QED  BY <1>2, <1>3, <1>4, <1>5 DEF FramingInv

LEMMA RejectTemplateInv == FramingInv /\ RejectTemplate => FramingInv'
<1>. SUFFICES ASSUME FramingInv, RejectTemplate  PROVE FramingInv'
    OBVIOUS
<1>1. /\ UNCHANGED <<datagram, composed, header, buf, set_result, heard>>
      /\ template_result # "None" /\ Len(template_buf) >= MinHeader
      /\ done' = TRUE /\ template_buf' = <<>>
    <2>1. TemplateWanted /\ Len(template_buf) >= MinHeader
          /\ done' = TRUE /\ template_buf' = <<>> /\ UNCHANGED <<input, setVars, heard>>
        BY Zenon DEF RejectTemplate
    <2>. QED  BY <2>1 DEF TemplateWanted, input, setVars
<1>2. \/ /\ CountsVerdict(template_buf) # "Ok"
         /\ template_result' = CountsVerdict(template_buf)
         /\ fields_buf' = fields_buf
      \/ /\ CountsVerdict(template_buf) = "Ok"
         /\ template_result' = "UnexpectedEof"
         /\ fields_buf' = Fill(template_buf).fields
    BY Zenon DEF RejectTemplate
<1>3. template_result' \in Errors /\ template_result' \notin {"Start", "Ok"}
    <2>1. CountsVerdict(template_buf) \in {"InvalidLength", "FieldBufferTooSmall", "Ok"}
        BY Zenon DEF CountsVerdict
    <2>. QED  BY <1>2, <2>1 DEF Errors
<1>4. fields_buf' \in Fields /\ Len(fields_buf') = MaxFields
    <2>1. CASE CountsVerdict(template_buf) # "Ok"
        BY <1>2, <2>1 DEF FramingInv, TypesKept
    <2>2. CASE CountsVerdict(template_buf) = "Ok"
        <3>1. Fillable(template_buf) /\ FieldCount(template_buf) \in Nat
            BY <1>1, <2>2, MayFill
        <3>2. FieldCount(template_buf) \in 0..FieldCount(template_buf)
            BY <3>1
        <3>3. Fill(template_buf) \in Sofar(template_buf)
            BY <3>1, <3>2, FillingSteps DEF Fill
        <3>4. Fill(template_buf).fields \in Fields /\ Len(Fill(template_buf).fields) = MaxFields
            BY <3>3 DEF Sofar
        <3>. QED  BY <1>2, <2>2, <3>4, Zenon
    <2>. QED  BY <2>1, <2>2
<1>5. TypesKept'
    BY <1>1, <1>3, <1>4, NoBytes DEF FramingInv, TypesKept
<1>6. Stages'
    BY <1>1, <1>3 DEF FramingInv, Stages, LastSet
<1>7. SetCursor'
    BY <1>1 DEF FramingInv, SetCursor, Payload
<1>8. TemplateCursor'
    BY <1>1, <1>3 DEF FramingInv, TemplateCursor
<1>. QED  BY <1>5, <1>6, <1>7, <1>8 DEF FramingInv

\* What a template that is returned does to the iterator and to what was heard.
LEMMA TemplateYielded ==
    ASSUME FramingInv, YieldTemplate
    PROVE  LET old == LastSet
               new == [LastSet EXCEPT !.templates = Append(@, Yielded(template_buf))]
               t == Yielded(template_buf)
           IN  /\ UNCHANGED <<datagram, composed, header, buf, set_result, done>>
               /\ ~done /\ template_result \in {"Start", "Ok"} /\ template_result' = "Ok"
               /\ Len(template_buf) >= MinHeader /\ CountsVerdict(template_buf) = "Ok"
               /\ Fillable(template_buf)
               /\ fields_buf' \in Fields /\ Len(fields_buf') = MaxFields
               /\ t \in Template /\ old \in HeardSet /\ new \in HeardSet
               /\ new.set_id = old.set_id /\ new.records = old.records
               /\ new.templates = Append(old.templates, t)
               /\ Stands(TemplateBytes(old.set_id, t), 0, template_buf)
               /\ template_buf' = Drop(template_buf, Len(TemplateBytes(old.set_id, t)))
               /\ heard' \in HeardSets /\ Len(heard') = Len(heard) /\ Len(heard) \in 1..Len(heard)
               /\ \A i \in 1..Len(heard) : heard'[i] = IF i = Len(heard) THEN new ELSE heard[i]
<1>. DEFINE t == Yielded(template_buf)
            old == LastSet
            new == [LastSet EXCEPT !.templates = Append(@, t)]
<1>1. /\ UNCHANGED <<datagram, composed, header, buf, set_result, done>>
      /\ template_result # "None" /\ ~done
      /\ Len(template_buf) >= MinHeader
      /\ CountsVerdict(template_buf) = "Ok" /\ Fill(template_buf).ok
      /\ template_result' = "Ok"
      /\ template_buf' = Drop(template_buf, Fill(template_buf).next)
      /\ fields_buf' = Fill(template_buf).fields
      /\ heard' = [heard EXCEPT ![Len(heard)].templates = Append(@, t)]
    <2>1. TemplateWanted /\ UNCHANGED <<input, setVars, done>>
          /\ ~done /\ Len(template_buf) >= MinHeader
          /\ CountsVerdict(template_buf) = "Ok" /\ Fill(template_buf).ok
          /\ template_result' = "Ok"
          /\ template_buf' = Drop(template_buf, Fill(template_buf).next)
          /\ fields_buf' = Fill(template_buf).fields
          /\ heard' = [heard EXCEPT ![Len(heard)].templates = Append(@, t)]
        BY Zenon DEF YieldTemplate, Yielded
    <2>. HIDE DEF t
    <2>. QED  BY <2>1 DEF TemplateWanted, input, setVars
<1>2. template_result \in {"Start", "Ok"}
    <2>1. template_result \notin Errors
        BY <1>1 DEF FramingInv, Stages
    <2>2. template_result \in {"Start", "Ok", "None"} \cup Errors
        BY DEF FramingInv, TypesKept
    <2>. QED  BY <1>1, <2>1, <2>2
<1>3. /\ Fillable(template_buf) /\ FieldCount(template_buf) \in U16
      /\ old \in HeardSet
    BY <1>1, MayFill
<1>4. old.set_id \in U16 /\ old.records \in Bytes /\ old.templates \in Templates
      /\ SET_HEADER_LEN + Len(old.records) \in U16
    BY <1>3, HeardParts
<1>5. /\ t \in Template
      /\ Stands(TemplateBytes(old.set_id, t), 0, template_buf)
      /\ Len(TemplateBytes(old.set_id, t)) = Fill(template_buf).next
      /\ Fill(template_buf) \in Sofar(template_buf)
    <2>. DEFINE id == old.set_id
    <2>1. id \in U16 /\ id = LastSet.set_id
        BY <1>4
    <2>. HIDE DEF id
    <2>2. /\ Yielded(template_buf) \in Template
          /\ Stands(TemplateBytes(id, Yielded(template_buf)), 0, template_buf)
          /\ Len(TemplateBytes(id, Yielded(template_buf))) = Fill(template_buf).next
          /\ Fill(template_buf) \in Sofar(template_buf)
        BY <1>1, <1>3, <2>1, TemplateRead
    <2>. QED  BY <2>2 DEF id
<1>6. fields_buf' \in Fields /\ Len(fields_buf') = MaxFields
    BY <1>1, <1>5 DEF Sofar
<1>. HIDE DEF t
<1>7. Append(old.templates, t) \in Templates
    BY <1>4, <1>5, AppendProperties DEF Templates
<1>8. /\ new.set_id = old.set_id /\ new.records = old.records
      /\ new.templates = Append(old.templates, t) /\ new \in HeardSet
    <2>. DEFINE ts == Append(old.templates, t)
    <2>1. ts \in Templates /\ new = [LastSet EXCEPT !.templates = ts]
        BY <1>7
    <2>. HIDE DEF ts
    <2>2. LastSet = [set_id |-> LastSet.set_id, records |-> LastSet.records, templates |-> LastSet.templates]
        BY <1>3 DEF HeardSet
    <2>3. /\ new.set_id = old.set_id /\ new.records = old.records /\ new.templates = ts
          /\ new \in [set_id : U16, records : Bytes, templates : Templates]
        BY <1>4, <2>1, <2>2
    <2>. HIDE DEF new
    <2>4. new \in HeardSet
        BY <1>4, <2>3 DEF HeardSet
    <2>. QED  BY <2>3, <2>4 DEF ts
<1>9. /\ heard \in HeardSets /\ Len(heard) \in 1..Len(heard)
    BY <1>1, LastHeard DEF FramingInv, TypesKept, Stages
<1>10. heard' = [heard EXCEPT ![Len(heard)] = new]
    BY <1>1, Zenon DEF LastSet
<1>11. /\ heard' \in HeardSets /\ Len(heard') = Len(heard)
       /\ \A i \in 1..Len(heard) : heard'[i] = IF i = Len(heard) THEN new ELSE heard[i]
    <2>. HIDE DEF new
    <2>. QED  BY <1>8, <1>9, <1>10, ExceptSeq DEF HeardSets
<1>. QED  BY <1>1, <1>2, <1>3, <1>5, <1>6, <1>8, <1>9, <1>11, Zenon DEF t

LEMMA YieldTemplateInv == FramingInv /\ YieldTemplate => FramingInv'
<1>. SUFFICES ASSUME FramingInv, YieldTemplate  PROVE FramingInv'
    OBVIOUS
<1>. DEFINE t == Yielded(template_buf)
            old == LastSet
            new == [LastSet EXCEPT !.templates = Append(@, t)]
            m == Len(TemplatesOf(old))
            n == Len(TemplateBytes(old.set_id, t))
<1>1. /\ UNCHANGED <<datagram, composed, header, buf, set_result, done>>
      /\ ~done /\ template_result \in {"Start", "Ok"} /\ template_result' = "Ok"
      /\ fields_buf' \in Fields /\ Len(fields_buf') = MaxFields
      /\ t \in Template /\ old \in HeardSet /\ new \in HeardSet
      /\ new.set_id = old.set_id /\ new.records = old.records
      /\ new.templates = Append(old.templates, t)
      /\ Stands(TemplateBytes(old.set_id, t), 0, template_buf)
      /\ template_buf' = Drop(template_buf, n)
      /\ heard' \in HeardSets /\ Len(heard') = Len(heard) /\ Len(heard) \in 1..Len(heard)
      /\ \A i \in 1..Len(heard) : heard'[i] = IF i = Len(heard) THEN new ELSE heard[i]
    BY TemplateYielded
<1>. HIDE DEF t, new, old
<1>2. LastSet' = new /\ heard' # <<>>
    <2>1. heard'[Len(heard')] = new
        BY <1>1
    <2>2. Len(heard') # 0
        BY <1>1
    <2>. QED  BY <2>1, <2>2, EmptySeq DEF LastSet
<1>3. /\ old.set_id \in U16 /\ old.records \in Bytes /\ old.templates \in Templates
      /\ TemplatesOf(old) \in Bytes /\ m \in Nat /\ Len(old.records) \in Nat
    BY <1>1, HeardParts, LenBytes
<1>4. /\ Stands(TemplatesOf(old), 0, old.records) /\ template_buf = Drop(old.records, m)
      /\ template_buf \in Bytes /\ 0 + m = m /\ m <= Len(old.records)
    <2>1. Stands(TemplatesOf(old), 0, old.records) /\ template_buf = Drop(old.records, m)
        BY <1>1, Zenon DEF FramingInv, TemplateCursor, LastSet, old
    <2>2. 0 + m = m
        BY <1>3
    <2>. QED  BY <2>1, <2>2 DEF FramingInv, TypesKept, Stands
<1>5. /\ TemplateBytes(old.set_id, t) \in Bytes /\ n \in Nat
      /\ n <= Len(old.records) - m
    <2>1. TemplateBytes(old.set_id, t) \in Bytes
        BY <1>1, <1>3, TemplateWritten
    <2>2. n \in Nat /\ 0 + n = n
        BY <2>1, LenBytes
    <2>3. n <= Len(template_buf)
        BY <1>1, <2>2 DEF Stands
    <2>4. Len(template_buf) = Len(old.records) - m
        BY <1>3, <1>4, Dropped
    <2>. QED  BY <2>1, <2>2, <2>3, <2>4
<1>6. TemplatesOf(new) = TemplatesOf(old) \o TemplateBytes(old.set_id, t)
    <2>. DEFINE ss == old.templates
                ts == new.templates
    <2>1. /\ ss \in Templates /\ ts \in Templates /\ Len(ts) = Len(ss) + 1
          /\ \A i \in 1..Len(ss) : ts[i] = ss[i]
          /\ ts[Len(ts)] = t
        BY <1>1, <1>3, AppendProperties DEF Templates
    <2>. HIDE DEF ss, ts
    <2>2. \A i \in 1..Len(ss) : TemplateBytes(old.set_id, ts[i]) = TemplateBytes(old.set_id, ss[i])
        BY <2>1, Zenon
    <2>3. TemplatesBytes(old.set_id, ts)
              = TemplatesBytes(old.set_id, ss) \o TemplateBytes(old.set_id, ts[Len(ts)])
        BY <1>3, <2>1, <2>2, TemplatesLonger
    <2>. QED  BY <1>1, <2>1, <2>3, Zenon DEF TemplatesOf, ss, ts
<1>7. Len(TemplatesOf(new)) = m + n
    BY <1>3, <1>5, <1>6, Joined
<1>. HIDE DEF m, n
<1>8. Stands(TemplatesOf(new), 0, new.records)
    <2>1. Stands(TemplateBytes(old.set_id, t), m + 0, old.records)
        BY <1>1, <1>3, <1>4, <1>5, StandsInRest
    <2>2. 0 \in Nat /\ m + 0 = 0 + Len(TemplatesOf(old))
        BY <1>3 DEF m
    <2>3. Stands(TemplateBytes(old.set_id, t), 0 + Len(TemplatesOf(old)), old.records)
        BY <2>1, <2>2, Zenon
    <2>. QED  BY <1>1, <1>3, <1>4, <1>5, <1>6, <2>2, <2>3, StandsJoined
<1>9. template_buf' = Drop(new.records, Len(TemplatesOf(new)))
    BY <1>1, <1>3, <1>4, <1>5, <1>7, DroppedTwice
<1>10. TypesKept'
    <2>1. template_buf' \in Bytes
        <3>1. m + n \in Nat /\ m + n <= Len(old.records)
            BY <1>3, <1>4, <1>5
        <3>. QED  BY <1>1, <1>3, <1>7, <1>9, <3>1, Dropped
    <2>. QED  BY <1>1, <2>1 DEF FramingInv, TypesKept
<1>11. Stages'
    BY <1>1, <1>2 DEF FramingInv, Stages, Errors, old
<1>12. SetCursor'
    <2>1. \A i \in 1..Len(heard) : /\ heard'[i].set_id = heard[i].set_id
                                   /\ heard'[i].records = heard[i].records
        BY <1>1 DEF old, LastSet
    <2>2. [i \in 1..Len(heard') |-> SetBytes(heard'[i].set_id, heard'[i].records)]
              = [i \in 1..Len(heard) |-> SetBytes(heard[i].set_id, heard[i].records)]
        BY <1>1, <2>1
    <2>3. SetsBytes(heard') = SetsBytes(heard)
        BY <2>2, Zenon DEF SetsBytes
    <2>4. Payload' = Payload
        BY <1>1 DEF Payload
    <2>5. SetsBytes(heard)' = SetsBytes(heard)
        BY <2>3, Zenon
    <2>. QED  BY <1>1, <2>4, <2>5 DEF FramingInv, SetCursor
<1>13. TemplateCursor'
    <2>1. ASSUME NEW i \in 1..Len(heard')
          PROVE  Stands(TemplatesOf(heard'[i]), 0, heard'[i].records)
        <3>1. CASE i = Len(heard)
            BY <1>1, <1>8, <3>1, Zenon
        <3>2. CASE i # Len(heard)
            <4>1. i \in 1..Len(heard) /\ heard'[i] = heard[i]
                BY <1>1, <3>2
            <4>. QED  BY <4>1, Zenon DEF FramingInv, TemplateCursor
        <3>. QED  BY <3>1, <3>2
    <2>2. template_buf' = Drop(LastSet'.records, Len(TemplatesOf(LastSet')))
        BY <1>2, <1>9, Zenon
    <2>. QED  BY <2>1, <2>2 DEF TemplateCursor, TemplatesOf
<1>. QED  BY <1>10, <1>11, <1>12, <1>13 DEF FramingInv

LEMMA StutterInv == FramingInv /\ UNCHANGED vars => FramingInv'
<1>. SUFFICES ASSUME FramingInv, UNCHANGED vars  PROVE FramingInv'
    OBVIOUS
<1>1. UNCHANGED <<composed, datagram, header, buf, set_result, template_buf, done, fields_buf,
                  template_result, heard>>
    BY DEF vars, input, setVars, templateVars
<1>. QED  BY <1>1 DEF FramingInv, TypesKept, Stages, SetCursor, TemplateCursor, Payload, LastSet

\* The three iterators stand where they should in every state.
LEMMA FramingInvariance == Spec => []FramingInv
<1>1. FramingInv /\ [Next]_vars => FramingInv'
    BY DecodeHeaderInv, StopAtMessageEndInv, RejectSetInv, TakeSetInv, StopAtSetEndInv,
       RejectTemplateInv, YieldTemplateInv, StutterInv DEF Next, NextSet, NextTemplate
<1>. QED  BY <1>1, InitInv, PTL DEF Spec

-----------------------------------------------------------------------------
(* What follows from the invariant.                                        *)

\* The fields of the iterators are of their types in every state, and the
\* scratch buffer of the template decoders keeps its length.
THEOREM TypesHold == Spec => []TypeOK
<1>1. FramingInv => TypeOK
    <2>. SUFFICES ASSUME FramingInv  PROVE TypeOK
        OBVIOUS
    <2>1. \A i \in 1..Len(heard) : heard[i].set_id \in U16 /\ heard[i].records \in Bytes
        BY ElementOfSeq, HeardParts DEF FramingInv, TypesKept, HeardSets
    <2>. QED  BY <2>1 DEF FramingInv, TypesKept, TypeOK, Bytes, Fields
<1>. QED  BY <1>1, FramingInvariance, PTL

\* Whatever the bytes of a datagram, the sets and templates returned from it
\* are what its bytes say, in place and in order: written back into the wire
\* format they are the bytes they were read from, and what the iterators have
\* left follows them.
THEOREM BytesAreFollowed == Spec => []ReturnedAsSent
<1>1. FramingInv => ReturnedAsSent
    <2>. SUFFICES ASSUME FramingInv  PROVE ReturnedAsSent
        OBVIOUS
    <2>1. header # "Ok" => heard = <<>>
        BY DEF FramingInv, Stages
    <2>2. ASSUME header = "Ok"
          PROVE  IF set_result \in {"Start", "Ok"} THEN SetsBytes(heard) \o buf = Payload
                 ELSE IsPrefix(SetsBytes(heard), Payload)
        <3>1. datagram \in Bytes /\ heard \in HeardSets /\ HeaderVerdict(datagram) = "Ok"
            BY <2>2 DEF FramingInv, TypesKept, Stages
        <3>2. SetsBytes(heard) \in Bytes /\ Payload \in Bytes
            BY <3>1, SetsWritten, HeaderRead
        <3>3. Stands(SetsBytes(heard), 0, Payload)
              /\ (set_result \in {"Start", "Ok"} => buf = Drop(Payload, Len(SetsBytes(heard))))
            BY <2>2 DEF FramingInv, SetCursor
        <3>4. IsPrefix(SetsBytes(heard), Payload)
              /\ SetsBytes(heard) \o Drop(Payload, Len(SetsBytes(heard))) = Payload
            BY <3>2, <3>3, StandsFirst
        <3>. QED  BY <3>3, <3>4, Zenon
    <2>3. ASSUME NEW i \in 1..Len(heard)
          PROVE  /\ TemplatesOf(heard[i]) \in Bytes /\ heard[i].records \in Bytes
                 /\ Stands(TemplatesOf(heard[i]), 0, heard[i].records)
        <3>1. heard[i] \in HeardSet
            BY ElementOfSeq DEF FramingInv, TypesKept, HeardSets
        <3>2. Stands(TemplatesOf(heard[i]), 0, heard[i].records)
            BY Zenon DEF FramingInv, TemplateCursor
        <3>. QED  BY <3>1, <3>2, HeardParts
    <2>4. \A i \in 1..Len(heard) : IsPrefix(TemplatesOf(heard[i]), heard[i].records)
        BY <2>3, StandsFirst
    <2>5. ASSUME template_result \in {"Start", "Ok"}
          PROVE  TemplatesOf(LastSet) \o template_buf = LastSet.records
        <3>1. heard \in HeardSets /\ heard # <<>>
            BY <2>5 DEF FramingInv, TypesKept, Stages
        <3>2. Len(heard) \in 1..Len(heard)
            BY <3>1, LastHeard
        <3>3. /\ TemplatesOf(LastSet) \in Bytes /\ LastSet.records \in Bytes
              /\ Stands(TemplatesOf(LastSet), 0, LastSet.records)
            BY <2>3, <3>2, Zenon DEF LastSet
        <3>4. template_buf = Drop(LastSet.records, Len(TemplatesOf(LastSet)))
            BY <2>5 DEF FramingInv, TemplateCursor
        <3>. QED  BY <3>3, <3>4, StandsFirst
    <2>. QED  BY <2>1, <2>2, <2>4, <2>5, Zenon DEF ReturnedAsSent, TemplatesOf, LastSet
<1>. QED  BY <1>1, FramingInvariance, PTL

\* After an error the template iterator returns None, and nothing more of its
\* set: its latched cursor does not come back to the bytes behind the error.
THEOREM ErrorsEndIterators == Spec => ErrorsAreFinal
<1>. DEFINE Final == (template_result \in Errors) => (template_result' = "None" /\ heard' = heard)
<1>1. ASSUME FramingInv, Next  PROVE Final
    <2>. SUFFICES ASSUME template_result \in Errors
                  PROVE  template_result' = "None" /\ heard' = heard
        OBVIOUS
    <2>1. header = "Ok" /\ template_result # "None" /\ done
        BY <1>1 DEF FramingInv, Stages, Errors
    <2>2. ~DecodeHeader
        BY <2>1 DEF DecodeHeader
    <2>3. ~NextSet
        BY <2>1, Zenon DEF NextSet, StopAtMessageEnd, RejectSet, TakeSet, SetWanted
    <2>4. ~RejectTemplate /\ ~YieldTemplate
        BY <2>1, Zenon DEF RejectTemplate, YieldTemplate
    <2>5. StopAtSetEnd
        BY <1>1, <2>2, <2>3, <2>4, Zenon DEF Next, NextTemplate
    <2>. QED  BY <2>5, Zenon DEF StopAtSetEnd
<1>2. FramingInv /\ [Next]_vars => [Final]_vars
    BY <1>1
<1>. QED  BY <1>2, FramingInvariance, PTL DEF Spec, ErrorsAreFinal

-----------------------------------------------------------------------------
(* What was composed is returned: where the sets of a message stand.       *)

\* What stands in bytes is what is cut out of them there.
LEMMA StandsIsCut ==
    ASSUME NEW piece \in Bytes, NEW bytes \in Bytes, NEW at \in Nat, Stands(piece, at, bytes)
    PROVE  SubSeq(bytes, at + 1, at + Len(piece)) = piece
<1>. DEFINE n == at + Len(piece)
            part == SubSeq(bytes, at + 1, n)
<1>1. Len(piece) \in Nat /\ Len(bytes) \in Nat
    BY LenBytes
<1>2. n \in Nat /\ at <= n /\ n <= Len(bytes) /\ n - at = Len(piece)
    BY <1>1 DEF Stands
<1>. HIDE DEF n
<1>3. part \in Bytes /\ Len(part) = Len(piece) /\ \A i \in 1..Len(piece) : part[i] = bytes[at + i]
    <2>1. part \in Bytes /\ Len(part) = n - at /\ \A i \in 1..(n - at) : part[i] = bytes[at + i]
        BY <1>2, Cut
    <2>. QED  BY <1>2, <2>1
<1>. HIDE DEF part
<1>4. \A i \in 1..Len(piece) : part[i] = piece[i]
    BY <1>3 DEF Stands
<1>. QED  BY <1>3, <1>4, SameBytes DEF part, n

\* The rest behind the first of two pieces is the second.
LEMMA DropFirst ==
    ASSUME NEW a \in Bytes, NEW b \in Bytes
    PROVE  Drop(a \o b, Len(a)) = b
<1>. DEFINE rest == Drop(a \o b, Len(a))
<1>1. Len(a) \in Nat /\ Len(b) \in Nat
    BY LenBytes
<1>2. a \o b \in Bytes /\ Len(a \o b) = Len(a) + Len(b)
      /\ \A i \in 1..Len(b) : (a \o b)[Len(a) + i] = b[i]
    BY Joined
<1>3. Len(a) <= Len(a \o b) /\ Len(a \o b) - Len(a) = Len(b)
    BY <1>1, <1>2
<1>4. rest \in Bytes /\ Len(rest) = Len(b) /\ \A i \in 1..Len(b) : rest[i] = (a \o b)[Len(a) + i]
    <2>1. rest \in Bytes /\ Len(rest) = Len(a \o b) - Len(a)
          /\ \A i \in 1..(Len(a \o b) - Len(a)) : rest[i] = (a \o b)[Len(a) + i]
        BY <1>1, <1>2, <1>3, Dropped
    <2>. QED  BY <1>3, <2>1
<1>. HIDE DEF rest
<1>5. \A i \in 1..Len(rest) : rest[i] = b[i]
    BY <1>2, <1>4
<1>. QED  BY <1>4, <1>5, SameBytes DEF rest

\* What was sent and did not change has arrived.
LEMMA UnchangedStands ==
    ASSUME NEW M \in Bytes, M = MessageBytes(composed), datagram \in Bytes,
           NEW from \in Nat, NEW to \in Nat, from <= to, to <= Len(M), Unchanged(from + 1, to),
           NEW piece \in Bytes, NEW k \in Nat,
           Stands(piece, from + k, M), from + k + Len(piece) <= to
    PROVE  Stands(piece, from + k, datagram)
<1>1. to <= Len(datagram) /\ SubSeq(datagram, from + 1, to) = SubSeq(M, from + 1, to)
    BY Zenon DEF Unchanged
<1>2. Stands(piece, k, SubSeq(M, from + 1, to))
    BY StandsInCut
<1>3. Stands(piece, k, SubSeq(datagram, from + 1, to))
    BY <1>1, <1>2, Zenon
<1>. QED  BY <1>1, <1>3, StandsInCut

NextEnd(i) == End(i - 1) + (SET_HEADER_LEN + Len(BodyBytes(composed[i])))

\* The sets stand in the message, each where the one before it ends.
LEMMA SetStands ==
    ASSUME composed \in Messages, NEW i \in 1..Len(composed)
    PROVE  /\ composed[i] \in ComposedSet
           /\ End(i - 1) \in Nat /\ End(i) \in Nat /\ HEADER_LEN <= End(i - 1)
           /\ End(i) = NextEnd(i)
           /\ End(i) <= Len(MessageBytes(composed))
           /\ Stands(SetBytes(composed[i].set_id, BodyBytes(composed[i])), End(i - 1),
                     MessageBytes(composed))
<1>. DEFINE ss == SubSeq(composed, 1, i - 1)
            ts == SubSeq(composed, 1, i)
            set == SetBytes(composed[i].set_id, BodyBytes(composed[i]))
            M == MessageBytes(composed)
            P == PayloadBytes(composed)
            before == PayloadBytes(ss)
            upto == PayloadBytes(ts)
<1>1. /\ composed \in ComposedSets /\ Len(composed) \in Nat
      /\ P \in Bytes /\ M \in Bytes /\ Stands(P, HEADER_LEN, M)
      /\ Len(M) = HEADER_LEN + Len(P)
    BY MessageWritten
<1>2. composed[i] \in ComposedSet /\ i \in Nat /\ i - 1 \in Nat /\ i <= Len(composed) /\ i - 1 <= Len(composed)
    BY <1>1, ElementOfSeq DEF ComposedSets
<1>3. /\ ss \in ComposedSets /\ Len(ss) = i - 1 /\ \A j \in 1..(i - 1) : ss[j] = composed[j]
      /\ ts \in ComposedSets /\ Len(ts) = i /\ \A j \in 1..i : ts[j] = composed[j]
    BY <1>1, <1>2, Firsts DEF ComposedSets
<1>4. End(i - 1) = HEADER_LEN + Len(before) /\ End(i) = HEADER_LEN + Len(upto)
    BY Zenon DEF End
<1>5. /\ BodyBytes(composed[i]) \in Bytes /\ set \in Bytes
      /\ Len(set) = SET_HEADER_LEN + Len(BodyBytes(composed[i]))
    BY <1>2, BodyWritten
<1>6. before \in Bytes /\ upto \in Bytes
    BY <1>3, PayloadWritten
<1>. HIDE DEF ss, ts
<1>7. upto = before \o set
    <2>1. Len(ts) = Len(ss) + 1 /\ ts[Len(ts)] = composed[i] /\ \A j \in 1..Len(ss) : ts[j] = ss[j]
        BY <1>2, <1>3
    <2>2. \A j \in 1..Len(ss) : SetBytes(ts[j].set_id, BodyBytes(ts[j]))
                                = SetBytes(ss[j].set_id, BodyBytes(ss[j]))
        BY <2>1, Zenon
    <2>3. PayloadBytes(ts) = PayloadBytes(ss) \o SetBytes(ts[Len(ts)].set_id, BodyBytes(ts[Len(ts)]))
        BY <1>3, <2>1, <2>2, PayloadLonger
    <2>. QED  BY <2>1, <2>3, Zenon
<1>8. Stands(upto, 0, P)
    BY <1>1, <1>2, <1>3, PayloadWithin
<1>. HIDE DEF before, upto, set, M, P
<1>9. HEADER_LEN \in Nat /\ Len(before) \in Nat /\ Len(set) \in Nat /\ Len(upto) \in Nat /\ Len(P) \in Nat
    BY <1>1, <1>5, <1>6, LenBytes DEF HEADER_LEN
<1>10. Len(upto) = Len(before) + Len(set) /\ Len(upto) <= Len(P)
    <2>1. Len(upto) = Len(before) + Len(set)
        BY <1>5, <1>6, <1>7, Joined
    <2>2. 0 + Len(upto) <= Len(P)
        BY <1>8 DEF Stands
    <2>. QED  BY <1>9, <2>1, <2>2
<1>11. Stands(before \o set, HEADER_LEN, M)
    BY <1>1, <1>6, <1>7, <1>8, <1>9, StandsThrough
<1>12. Stands(set, HEADER_LEN + Len(before), M)
    BY <1>1, <1>5, <1>6, <1>9, <1>11, StandsJoined
<1>13. End(i - 1) \in Nat /\ End(i) \in Nat /\ HEADER_LEN <= End(i - 1) /\ End(i) = End(i - 1) + Len(set)
       /\ End(i) <= Len(M)
    BY <1>1, <1>4, <1>9, <1>10
<1>. QED  BY <1>2, <1>4, <1>5, <1>12, <1>13, Zenon DEF NextEnd, set, M

\* The sets end one behind the other.
LEMMA EndsInOrder ==
    ASSUME composed \in Messages, NEW i \in 1..Len(composed), NEW j \in 1..Len(composed), i <= j
    PROVE  End(i) <= End(j)
<1>. DEFINE ss == SubSeq(composed, 1, i)
            ts == SubSeq(composed, 1, j)
<1>1. composed \in ComposedSets /\ Len(composed) \in Nat
    BY MessageWritten
<1>2. i \in Nat /\ j \in Nat /\ i <= Len(composed) /\ j <= Len(composed)
    BY <1>1
<1>3. /\ ss \in ComposedSets /\ Len(ss) = i /\ \A k \in 1..i : ss[k] = composed[k]
      /\ ts \in ComposedSets /\ Len(ts) = j /\ \A k \in 1..j : ts[k] = composed[k]
    BY <1>1, <1>2, Firsts DEF ComposedSets
<1>4. End(i) = HEADER_LEN + Len(PayloadBytes(ss)) /\ End(j) = HEADER_LEN + Len(PayloadBytes(ts))
    BY Zenon DEF End
<1>. HIDE DEF ss, ts
<1>5. Stands(PayloadBytes(ss), 0, PayloadBytes(ts))
    BY <1>2, <1>3, PayloadWithin
<1>6. Len(PayloadBytes(ss)) \in Nat /\ Len(PayloadBytes(ts)) \in Nat /\ HEADER_LEN \in Nat
    BY <1>3, PayloadWritten, LenBytes DEF HEADER_LEN
<1>7. 0 + Len(PayloadBytes(ss)) <= Len(PayloadBytes(ts))
    BY <1>5, Zenon DEF Stands
<1>. QED  BY <1>4, <1>6, <1>7

LEMMA FirstEnd == End(0) = HEADER_LEN /\ SetsBytes(<<>>) = <<>>
<1>1. SubSeq(composed, 1, 0) = <<>> /\ Len(<<>>) = 0
    BY SubSeqEmpty, EmptySeq
<1>2. PayloadBytes(<<>>) = <<>> /\ SetsBytes(<<>>) = <<>>
    <2>1. /\ [i \in 1..Len(<<>>) |-> SetBytes(<<>>[i].set_id, BodyBytes(<<>>[i]))] = <<>>
          /\ [i \in 1..Len(<<>>) |-> SetBytes(<<>>[i].set_id, <<>>[i].records)] = <<>>
        BY <1>1
    <2>. QED  BY <2>1, FlattenEmpty, Zenon DEF PayloadBytes, SetsBytes
<1>3. HEADER_LEN + 0 = HEADER_LEN
    BY DEF HEADER_LEN
<1>. QED  BY <1>1, <1>2, <1>3, Zenon DEF End

\* The set and the headers on the way to it have arrived as they were sent.
Intact(i) ==
    /\ SetUnchanged(i)
    /\ \A j \in 1..i : Unchanged(End(j - 1) + 1, End(j - 1) + SET_HEADER_LEN)

\* What was heard of a set so far is a beginning of the set.
HeardSoFar(h, c) ==
    /\ h.set_id = c.set_id /\ h.records = BodyBytes(c)
    /\ Len(h.templates) <= Len(c.templates)
    /\ \A j \in 1..Len(h.templates) : h.templates[j] = c.templates[j]

\* An intact set is ahead of the iterator, which stands where the next set
\* begins, or it was heard, or it is being heard and no template was refused.
Ahead == set_result \in {"Start", "Ok"} /\ HEADER_LEN + Len(SetsBytes(heard)) = End(Len(heard))

IntactSet(i) ==
    /\ i > Len(heard) => Ahead
    /\ i < Len(heard) \/ (i = Len(heard) /\ template_result = "None") =>
           heard[i] = HeardAs(composed[i])
    /\ i = Len(heard) /\ template_result # "None" =>
           template_result \in {"Start", "Ok"} /\ HeardSoFar(LastSet, composed[i])

IntactInv == header = "Ok" => \A i \in 1..Len(composed) : Intact(i) => IntactSet(i)

\* While an intact set is ahead the next set is there, whole or not.
LEMMA NextSetIsThere ==
    ASSUME FramingInv, header = "Ok", NEW i \in 1..Len(composed), Intact(i), i > Len(heard), Ahead
    PROVE  LET c == composed[Len(heard) + 1]
           IN  /\ Len(heard) \in Nat /\ Len(heard) + 1 \in 1..Len(composed) /\ c \in ComposedSet
               /\ ReadU16(buf, 0) = c.set_id
               /\ ReadU16(buf, 2) = SET_HEADER_LEN + Len(BodyBytes(c))
               /\ Len(buf) >= ReadU16(buf, 2) /\ Len(buf) >= SET_HEADER_LEN
               /\ SetVerdict(buf) = "Ok"
               /\ End(Len(heard) + 1) = End(Len(heard)) + ReadU16(buf, 2)
               /\ i = Len(heard) + 1 =>
                      SubSeq(buf, SET_HEADER_LEN + 1, ReadU16(buf, 2)) = BodyBytes(c)
<1>. DEFINE k == Len(heard)
            at == Len(SetsBytes(heard))
            c == composed[k + 1]
            body == BodyBytes(c)
            M == MessageBytes(composed)
            claimed == ReadU16(datagram, 2)
            a == Bytes16(c.set_id)
            b == Bytes16(SET_HEADER_LEN + Len(body))
<1>1. /\ datagram \in Bytes /\ buf \in Bytes /\ heard \in HeardSets /\ composed \in Messages
      /\ HeaderVerdict(datagram) = "Ok"
      /\ buf = Drop(Payload, at) /\ Stands(SetsBytes(heard), 0, Payload)
    BY DEF FramingInv, TypesKept, Stages, SetCursor, Ahead
<1>2. k \in Nat /\ composed \in ComposedSets /\ Len(composed) \in Nat /\ M \in Bytes
    BY <1>1, LenProperties, MessageWritten DEF HeardSets
<1>3. k + 1 \in 1..Len(composed) /\ k + 1 <= i /\ (k + 1) - 1 = k
    BY <1>2
<1>4. /\ c \in ComposedSet /\ End(k) \in Nat /\ End(k + 1) \in Nat /\ HEADER_LEN <= End(k)
      /\ End(k + 1) = End(k) + (SET_HEADER_LEN + Len(body))
      /\ End(k + 1) <= Len(M)
      /\ Stands(SetBytes(c.set_id, body), End(k), M)
    <2>. DEFINE n == k + 1
    <2>1. n \in 1..Len(composed) /\ n - 1 = k
        BY <1>3
    <2>. HIDE DEF n
    <2>2. /\ composed[n] \in ComposedSet
          /\ End(n - 1) \in Nat /\ End(n) \in Nat /\ HEADER_LEN <= End(n - 1)
          /\ End(n) = NextEnd(n)
          /\ End(n) <= Len(MessageBytes(composed))
          /\ Stands(SetBytes(composed[n].set_id, BodyBytes(composed[n])), End(n - 1),
                    MessageBytes(composed))
        BY <1>1, <2>1, SetStands
    <2>3. End(n) = End(k) + (SET_HEADER_LEN + Len(BodyBytes(composed[n])))
        BY <2>1, <2>2, Zenon DEF NextEnd
    <2>. QED  BY <2>1, <2>2, <2>3, Zenon DEF n
<1>5. End(k + 1) <= claimed
    <2>1. End(k + 1) <= End(i) /\ End(i) <= claimed
        BY <1>1, <1>3, EndsInOrder DEF Intact, SetUnchanged
    <2>2. End(i) \in Nat /\ claimed \in Nat
        BY <1>1, SetStands, HeaderRead
    <2>. QED  BY <1>4, <2>1, <2>2
<1>6. /\ claimed \in Nat /\ HEADER_LEN \in Nat /\ HEADER_LEN <= claimed /\ claimed <= Len(datagram)
      /\ Payload \in Bytes /\ HEADER_LEN + Len(Payload) = claimed
    BY <1>1, HeaderRead DEF HEADER_LEN
<1>7. /\ SetsBytes(heard) \in Bytes /\ at \in Nat /\ at <= Len(Payload)
      /\ Len(Payload) \in Nat /\ HEADER_LEN + at = End(k)
    <2>1. SetsBytes(heard) \in Bytes
        BY <1>1, SetsWritten
    <2>2. at \in Nat /\ 0 + at <= Len(Payload) /\ Len(Payload) \in Nat
        BY <1>1, <1>6, <2>1, LenBytes DEF Stands
    <2>. QED  BY <2>1, <2>2 DEF Ahead
<1>8. /\ body \in Bytes /\ c.set_id \in U16 /\ SET_HEADER_LEN + Len(body) \in U16
      /\ a \in Bytes /\ b \in Bytes /\ Len(a) = 2 /\ Len(b) = 2 /\ Len(body) \in Nat
    <2>1. body \in Bytes /\ c.set_id \in U16 /\ SET_HEADER_LEN + Len(body) \in U16
        BY <1>4, BodyWritten DEF ComposedSet
    <2>. QED  BY <2>1, Word, LenBytes
<1>. HIDE DEF a, b, body, M, claimed, at, k, c
<1>9. /\ Stands(a, End(k), M) /\ Stands(b, End(k) + 2, M)
      /\ Stands(body, End(k) + SET_HEADER_LEN, M)
    BY <1>2, <1>4, <1>8, SetWritten DEF a, b
\* What stands in the datagram stands in buf.
<1>10. ASSUME NEW piece \in Bytes, NEW d \in Nat, Stands(piece, End(k) + d, datagram),
              d + Len(piece) <= SET_HEADER_LEN + Len(body)
       PROVE  Stands(piece, d, buf)
    <2>1. Len(piece) \in Nat /\ SET_HEADER_LEN \in Nat
        BY LenBytes DEF SET_HEADER_LEN
    <2>2. at + d \in Nat /\ HEADER_LEN + (at + d) = End(k) + d
        BY <1>4, <1>6, <1>7
    <2>3. HEADER_LEN + (at + d) + Len(piece) <= claimed
        <3>1. d \in Nat /\ d + Len(piece) <= SET_HEADER_LEN + Len(body)
            BY <1>10
        <3>2. End(k) + d + Len(piece) <= End(k + 1) /\ End(k) + d + Len(piece) \in Nat
            BY <1>4, <1>8, <2>1, <3>1
        <3>3. End(k) + d + Len(piece) <= claimed
            BY <1>4, <1>5, <1>6, <3>2
        <3>. QED  BY <2>2, <3>3, Zenon
    <2>4. Stands(piece, HEADER_LEN + (at + d), datagram)
        BY <1>10, <2>2, Zenon
    <2>5. Stands(piece, at + d, Payload)
        <3>1. Stands(piece, at + d, SubSeq(datagram, HEADER_LEN + 1, claimed))
            BY <1>1, <1>6, <2>2, <2>3, <2>4, StandsInCut
        <3>. QED  BY <3>1, Zenon DEF Payload, claimed
    <2>6. Stands(piece, d, Drop(Payload, at))
        BY <1>6, <1>7, <2>5, StandsInRest
    <2>. QED  BY <1>1, <2>6, Zenon DEF at
<1>11. Stands(a, 0, buf) /\ Stands(b, 2, buf)
    <2>1. Unchanged(End(k) + 1, End(k) + SET_HEADER_LEN)
        <3>1. k + 1 \in 1..i
            BY <1>2, <1>3
        <3>2. Unchanged(End((k + 1) - 1) + 1, End((k + 1) - 1) + SET_HEADER_LEN)
            BY <3>1, Zenon DEF Intact
        <3>. QED  BY <1>3, <3>2, Zenon
    <2>2. /\ 0 \in Nat /\ 2 \in Nat /\ End(k) + 0 = End(k)
          /\ End(k) + SET_HEADER_LEN \in Nat /\ End(k) <= End(k) + SET_HEADER_LEN
          /\ End(k) + SET_HEADER_LEN <= Len(M)
          /\ End(k) + 0 + Len(a) <= End(k) + SET_HEADER_LEN
          /\ End(k) + 2 + Len(b) <= End(k) + SET_HEADER_LEN
          /\ 0 + Len(a) <= SET_HEADER_LEN + Len(body) /\ 2 + Len(b) <= SET_HEADER_LEN + Len(body)
        <3>1. Len(M) \in Nat
            BY <1>2, LenBytes
        <3>. QED  BY <1>4, <1>8, <3>1 DEF SET_HEADER_LEN
    <2>3. M = MessageBytes(composed)
        BY DEF M
    <2>4. Stands(a, End(k) + 0, M)
        BY <1>9, <2>2, Zenon
    <2>5. Stands(a, End(k) + 0, datagram)
        BY <1>1, <1>2, <1>4, <1>8, <2>1, <2>2, <2>3, <2>4, UnchangedStands
    <2>6. Stands(b, End(k) + 2, datagram)
        BY <1>1, <1>2, <1>4, <1>8, <1>9, <2>1, <2>2, <2>3, UnchangedStands
    <2>. QED  BY <1>8, <1>10, <2>2, <2>5, <2>6
<1>12. ReadU16(buf, 0) = c.set_id /\ ReadU16(buf, 2) = SET_HEADER_LEN + Len(body)
    <2>1. 0 \in Nat /\ 2 \in Nat
        OBVIOUS
    <2>. QED  BY <1>1, <1>8, <1>11, <2>1, WordIsRead DEF a, b
<1>13. Len(buf) \in Nat /\ Len(buf) >= SET_HEADER_LEN + Len(body) /\ Len(buf) >= SET_HEADER_LEN
    <2>1. Len(buf) = Len(Payload) - at
        BY <1>1, <1>6, <1>7, Dropped DEF at
    <2>2. SET_HEADER_LEN \in Nat
        BY DEF SET_HEADER_LEN
    <2>. QED  BY <1>4, <1>5, <1>6, <1>7, <1>8, <2>1, <2>2, SMTT(30)
<1>14. SetVerdict(buf) = "Ok"
    <2>1. ReadU16(buf, 2) \in SET_HEADER_LEN..Len(buf)
        BY <1>8, <1>12, <1>13 DEF SET_HEADER_LEN
    <2>2. ~is_reserved_set_id(ReadU16(buf, 0))
        <3>1. ~is_reserved_set_id(c.set_id)
            BY <1>1, <1>3, FramingAssumption DEF FramingAssumption, c
        <3>. QED  BY <1>12, <3>1, Zenon
    <2>. QED  BY <2>1, <2>2, Zenon DEF SetVerdict
<1>15. ASSUME i = k + 1
       PROVE  SubSeq(buf, SET_HEADER_LEN + 1, ReadU16(buf, 2)) = body
    <2>1. Unchanged(End(k) + 1, End(k + 1))
        <3>1. Unchanged(End(i - 1) + 1, End(i))
            BY DEF Intact, SetUnchanged
        <3>. QED  BY <1>3, <1>15, <3>1, Zenon
    <2>2. SET_HEADER_LEN \in Nat /\ End(k) <= End(k + 1)
          /\ End(k) + SET_HEADER_LEN + Len(body) <= End(k + 1)
          /\ SET_HEADER_LEN + Len(body) <= SET_HEADER_LEN + Len(body)
        BY <1>4, <1>8 DEF SET_HEADER_LEN
    <2>3. M = MessageBytes(composed)
        BY DEF M
    <2>4. Stands(body, End(k) + SET_HEADER_LEN, datagram)
        BY <1>1, <1>2, <1>4, <1>8, <1>9, <2>1, <2>2, <2>3, UnchangedStands
    <2>5. Stands(body, SET_HEADER_LEN, buf)
        BY <1>8, <1>10, <2>2, <2>4
    <2>6. SubSeq(buf, SET_HEADER_LEN + 1, SET_HEADER_LEN + Len(body)) = body
        BY <1>1, <1>8, <2>2, <2>5, StandsIsCut
    <2>. QED  BY <1>12, <2>6, Zenon
<1>. QED  BY <1>2, <1>3, <1>4, <1>12, <1>13, <1>14, <1>15 DEF k, c, body

\* What is left of a set that is being heard is the next of its templates, or
\* what follows them.
LEMMA NextTemplateIsThere ==
    ASSUME FramingInv, template_result \in {"Start", "Ok"},
           NEW c \in ComposedSet, HeardSoFar(LastSet, c)
    PROVE  LET n == Len(LastSet.templates)
           IN  /\ n \in Nat /\ Len(c.templates) \in Nat /\ n <= Len(c.templates)
               /\ LastSet \in HeardSet /\ LastSet.set_id = c.set_id
               /\ n = Len(c.templates) =>
                      template_buf = c.tail /\ LastSet.templates = c.templates
               /\ n < Len(c.templates) =>
                      /\ c.templates[n + 1] \in Template
                      /\ Stands(TemplateBytes(c.set_id, c.templates[n + 1]), 0, template_buf)
<1>. DEFINE old == LastSet
            n == Len(old.templates)
            first == TemplatesBytes(c.set_id, old.templates)
            m == Len(first)
            body == BodyBytes(c)
            all == TemplatesBytes(c.set_id, c.templates)
<1>1. heard \in HeardSets /\ heard # <<>> /\ template_buf \in Bytes
    BY DEF FramingInv, TypesKept, Stages
<1>2. old \in HeardSet /\ old.templates \in Templates /\ old.set_id \in U16
    BY <1>1, LastHeard, HeardParts
<1>3. /\ old.set_id = c.set_id /\ old.records = body /\ n <= Len(c.templates)
      /\ \A j \in 1..n : old.templates[j] = c.templates[j]
    BY Zenon DEF HeardSoFar
<1>4. c.set_id \in U16 /\ c.templates \in Templates /\ c.tail \in Bytes /\ body \in Bytes
    BY BodyWritten DEF ComposedSet
<1>5. n \in Nat /\ Len(c.templates) \in Nat
    BY <1>2, <1>4, LenProperties DEF Templates
<1>6. first \in Bytes /\ all \in Bytes /\ body = all \o c.tail
    BY <1>2, <1>4, TemplatesWritten DEF BodyBytes
<1>7. template_buf = Drop(body, m)
    BY <1>3, Zenon DEF FramingInv, TemplateCursor, TemplatesOf
<1>. HIDE DEF first, body, all
<1>8. ASSUME n = Len(c.templates)
      PROVE  template_buf = c.tail /\ old.templates = c.templates
    <2>1. old.templates = c.templates
        BY <1>2, <1>3, <1>4, <1>8, SeqEqual DEF Templates
    <2>2. first = all
        BY <2>1, Zenon DEF first, all
    <2>3. Drop(all \o c.tail, Len(all)) = c.tail
        BY <1>4, <1>6, DropFirst
    <2>. QED  BY <1>6, <1>7, <2>1, <2>2, <2>3, Zenon
<1>9. ASSUME n < Len(c.templates)
      PROVE  /\ c.templates[n + 1] \in Template
             /\ Stands(TemplateBytes(c.set_id, c.templates[n + 1]), 0, template_buf)
    <2>. DEFINE ts == SubSeq(c.templates, 1, n + 1)
                t == c.templates[n + 1]
                next == TemplateBytes(c.set_id, t)
    <2>1. n + 1 \in Nat /\ n + 1 <= Len(c.templates) /\ n + 1 \in 1..Len(c.templates)
        BY <1>5, <1>9
    <2>2. ts \in Templates /\ Len(ts) = n + 1 /\ \A j \in 1..(n + 1) : ts[j] = c.templates[j]
        BY <1>4, <2>1, Firsts DEF Templates
    <2>3. t \in Template
        BY <1>4, <2>1, ElementOfSeq DEF Templates
    <2>. HIDE DEF ts
    <2>4. /\ ts[Len(ts)] = t
          /\ \A j \in 1..n : ts[j] = old.templates[j]
        BY <1>3, <1>5, <2>1, <2>2
    <2>. HIDE DEF t
    <2>5. TemplatesBytes(c.set_id, ts) = first \o next
        <3>1. \A j \in 1..Len(old.templates) :
                  TemplateBytes(c.set_id, ts[j]) = TemplateBytes(c.set_id, old.templates[j])
            BY <2>4, Zenon
        <3>2. TemplatesBytes(c.set_id, ts)
                  = TemplatesBytes(c.set_id, old.templates) \o TemplateBytes(c.set_id, ts[Len(ts)])
            BY <1>2, <1>4, <2>2, <3>1, TemplatesLonger
        <3>. QED  BY <2>4, <3>2, Zenon DEF first
    <2>6. Stands(TemplatesBytes(c.set_id, ts), 0, all)
        BY <1>4, <2>1, <2>2, TemplatesWithin DEF all
    <2>7. next \in Bytes
        BY <1>4, <2>3, TemplateWritten
    <2>. HIDE DEF next
    <2>8. first \o next \in Bytes /\ 0 \in Nat
        BY <1>6, <2>7, Joined
    <2>9. Stands(first \o next, 0, body)
        BY <1>4, <1>6, <2>5, <2>6, <2>8, StandsLonger
    <2>10. m \in Nat /\ 0 + m = m /\ m + 0 = m
        BY <1>6, LenBytes
    <2>11. Stands(next, 0 + m, body)
        BY <1>4, <1>6, <2>7, <2>8, <2>9, StandsJoined
    <2>12. m <= Len(body)
        <3>1. Stands(first, 0, body)
            BY <1>4, <1>6, <2>7, <2>8, <2>9, StandsJoined
        <3>2. 0 + m <= Len(body)
            BY <3>1, Zenon DEF Stands
        <3>. QED  BY <2>10, <3>2
    <2>. HIDE DEF m
    <2>13. Stands(next, 0, Drop(body, m))
        BY <1>4, <2>7, <2>8, <2>10, <2>11, <2>12, StandsInRest
    <2>. QED  BY <1>7, <2>3, <2>13, Zenon DEF m, next, t
<1>. QED  BY <1>2, <1>3, <1>5, <1>8, <1>9

\* A well-formed template that stands in front is returned as it was written.
LEMMA TemplateRecovered ==
    ASSUME FramingInv, template_result # "None",
           NEW t \in Template, WellFormed(LastSet.set_id, t),
           Stands(TemplateBytes(LastSet.set_id, t), 0, template_buf)
    PROVE  /\ Len(template_buf) >= MinHeader
           /\ CountsVerdict(template_buf) = "Ok" /\ Fill(template_buf).ok
           /\ Yielded(template_buf) = t
<1>. DEFINE set_id == LastSet.set_id
            N == FieldCount(template_buf)
            fs == t.fields
<1>1. heard \in HeardSets /\ heard # <<>> /\ template_buf \in Bytes
    BY DEF FramingInv, TypesKept, Stages
<1>2. set_id \in U16
    BY <1>1, LastHeard, HeardParts
<1>3. t.id \in U16 /\ t.scope_field_count \in U16 /\ fs \in Fields /\ Len(fs) \in U16
    BY TemplateParts
<1>4. MinHeader = HeaderOf(set_id)
    BY Zenon DEF MinHeader, LastSet
<1>5. Options <=> set_id = SET_ID_OPTIONS_TEMPLATE
    BY Zenon DEF Options, LastSet
<1>. HIDE DEF set_id
<1>6. /\ TemplateBytes(set_id, t) \in Bytes /\ HeaderOf(set_id) \in {4, 6}
      /\ Len(TemplateBytes(set_id, t)) = HeaderOf(set_id) + Len(FieldsBytes(fs))
      /\ Stands(TemplateBytes(set_id, t), 0, template_buf) <=>
             /\ Stands(Bytes16(t.id), 0, template_buf)
             /\ Stands(Bytes16(Len(fs)), 0 + 2, template_buf)
             /\ set_id = SET_ID_OPTIONS_TEMPLATE =>
                    Stands(Bytes16(t.scope_field_count), 0 + 4, template_buf)
             /\ Stands(FieldsBytes(fs), 0 + HeaderOf(set_id), template_buf)
    <2>. DEFINE at == 0
    <2>1. at \in Nat
        OBVIOUS
    <2>. HIDE DEF at
    <2>2. /\ TemplateBytes(set_id, t) \in Bytes /\ HeaderOf(set_id) \in {4, 6}
          /\ Len(TemplateBytes(set_id, t)) = HeaderOf(set_id) + Len(FieldsBytes(fs))
          /\ Stands(TemplateBytes(set_id, t), at, template_buf) <=>
                 /\ Stands(Bytes16(t.id), at, template_buf)
                 /\ Stands(Bytes16(Len(fs)), at + 2, template_buf)
                 /\ set_id = SET_ID_OPTIONS_TEMPLATE =>
                        Stands(Bytes16(t.scope_field_count), at + 4, template_buf)
                 /\ Stands(FieldsBytes(fs), at + HeaderOf(set_id), template_buf)
        BY <1>1, <1>2, <2>1, TemplateWritten
    <2>. QED  BY <2>2 DEF at
<1>7. 0 + 2 = 2 /\ 0 + 4 = 4 /\ 0 + HeaderOf(set_id) = MinHeader /\ MinHeader \in {4, 6}
      /\ 0 \in Nat /\ 2 \in Nat /\ 4 \in Nat
    BY <1>4, <1>6
<1>8. Stands(TemplateBytes(set_id, t), 0, template_buf)
    BY DEF set_id
<1>9. /\ Stands(Bytes16(t.id), 0, template_buf)
      /\ Stands(Bytes16(Len(fs)), 2, template_buf)
      /\ set_id = SET_ID_OPTIONS_TEMPLATE => Stands(Bytes16(t.scope_field_count), 4, template_buf)
      /\ Stands(FieldsBytes(fs), MinHeader, template_buf)
    BY <1>6, <1>7, <1>8, Zenon
<1>10. Len(template_buf) >= MinHeader
    <2>1. Len(FieldsBytes(fs)) \in Nat /\ Len(template_buf) \in Nat
        BY <1>1, <1>3, FieldsWritten, LenBytes
    <2>2. MinHeader + Len(FieldsBytes(fs)) <= Len(template_buf)
        BY <1>9, Zenon DEF Stands
    <2>. QED  BY <1>7, <2>1, <2>2
<1>11. ReadU16(template_buf, 0) = t.id /\ N = Len(fs)
    BY <1>1, <1>3, <1>7, <1>9, WordIsRead DEF FieldCount
<1>12. /\ Len(fs) \in Nat /\ Len(fs) # 0 /\ ~(Len(fs) > MaxFields) /\ MaxFields \in Nat
       /\ IF set_id = SET_ID_OPTIONS_TEMPLATE THEN t.scope_field_count \in 1..Len(fs)
          ELSE t.scope_field_count = 0
    <2>1. MaxFields \in Nat
        BY FramingAssumption DEF FramingAssumption
    <2>2. Len(fs) \in 1..MaxFields
          /\ IF set_id = SET_ID_OPTIONS_TEMPLATE THEN t.scope_field_count \in 1..Len(fs)
             ELSE t.scope_field_count = 0
        BY DEF WellFormed, set_id
    <2>. QED  BY <2>1, <2>2
<1>13. ScopeFieldCount(template_buf) = t.scope_field_count
    <2>1. CASE set_id = SET_ID_OPTIONS_TEMPLATE
        <3>1. ReadU16(template_buf, 4) = t.scope_field_count
            BY <1>1, <1>3, <1>7, <1>9, <2>1, WordIsRead
        <3>. QED  BY <1>5, <2>1, <3>1, Zenon DEF ScopeFieldCount
    <2>2. CASE set_id # SET_ID_OPTIONS_TEMPLATE
        BY <1>5, <1>12, <2>2, Zenon DEF ScopeFieldCount
    <2>. QED  BY <2>1, <2>2
<1>14. CountsVerdict(template_buf) = "Ok"
    BY <1>5, <1>11, <1>12, <1>13, Zenon DEF CountsVerdict
<1>15. Fillable(template_buf) /\ N \in Nat
    BY <1>10, <1>14, MayFill
<1>16. FieldsReadBack(template_buf, fs, N)
    <2>1. N \in 0..N
        BY <1>15
    <2>. QED  BY <1>3, <1>9, <1>11, <1>15, <2>1, FillEncoded
<1>17. Fill(template_buf).ok /\ \A i \in 1..N : Fill(template_buf).fields[i] = fs[i]
    BY <1>16, Zenon DEF FieldsReadBack, Fill
<1>18. SubSeq(Fill(template_buf).fields, 1, N) = fs
    <2>. DEFINE r == Fill(template_buf).fields
                read == SubSeq(r, 1, N)
    <2>1. r \in Fields /\ Len(r) = MaxFields
        <3>1. N \in 0..N
            BY <1>15
        <3>2. Fill(template_buf) \in Sofar(template_buf)
            BY <1>15, <3>1, FillingSteps DEF Fill
        <3>. QED  BY <3>2 DEF Sofar
    <2>2. N <= Len(r)
        BY <1>11, <1>12, <2>1
    <2>3. \A i \in 1..N : r[i] = fs[i]
        BY <1>17
    <2>. HIDE DEF r
    <2>4. read \in Fields /\ Len(read) = N /\ \A i \in 1..N : read[i] = r[i]
        BY <1>15, <2>1, <2>2, Firsts DEF Fields
    <2>. HIDE DEF read
    <2>5. Len(read) = Len(fs) /\ \A i \in 1..Len(read) : read[i] = fs[i]
        BY <1>11, <2>3, <2>4
    <2>6. read = fs
        BY <1>3, <2>4, <2>5, SeqEqual DEF Fields
    <2>. QED  BY <2>6 DEF read, r
<1>19. t = [id |-> t.id, scope_field_count |-> t.scope_field_count, fields |-> fs]
    BY DEF Template
<1>20. Yielded(template_buf) = t
    <2>1. Yielded(template_buf) = [id |-> t.id, scope_field_count |-> t.scope_field_count, fields |-> fs]
        BY <1>11, <1>13, <1>18, Zenon DEF Yielded
    <2>. QED  BY <1>19, <2>1, Zenon
<1>. QED  BY <1>10, <1>14, <1>17, <1>20

\* What was sent and what arrived stay what they are.
LEMMA InputKept ==
    ASSUME composed' = composed, datagram' = datagram
    PROVE  /\ \A i : Intact(i)' <=> Intact(i)
           /\ \A i : End(i)' = End(i)
<1>1. \A i : End(i)' = End(i)
    BY DEF End
<1>2. \A from, to : Unchanged(from, to)' <=> Unchanged(from, to)
    BY DEF Unchanged
<1>3. ASSUME NEW i  PROVE SetUnchanged(i)' <=> SetUnchanged(i)
    BY <1>1 DEF SetUnchanged, Unchanged
<1>4. ASSUME NEW i  PROVE Intact(i)' <=> Intact(i)
    BY <1>1, <1>3 DEF Intact, Unchanged
<1>. QED  BY <1>1, <1>4

LEMMA DecodeHeaderIntact == FramingInv /\ IntactInv /\ DecodeHeader => IntactInv'
<1>. SUFFICES ASSUME FramingInv, DecodeHeader  PROVE IntactInv'
    OBVIOUS
<1>1. /\ heard = <<>> /\ heard' = heard /\ set_result' = "Start" /\ template_result' = "None"
      /\ composed' = composed /\ datagram' = datagram
    BY DEF DecodeHeader, FramingInv, Stages, input, templateVars
<1>2. Len(heard) = 0
    BY <1>1, NoBytes
<1>3. HEADER_LEN + Len(SetsBytes(heard)) = End(Len(heard))
    <2>1. HEADER_LEN + 0 = HEADER_LEN
        BY DEF HEADER_LEN
    <2>. QED  BY <1>1, <1>2, <2>1, FirstEnd, NoBytes, Zenon
<1>4. Ahead'
    <2>1. End(Len(heard))' = End(Len(heard))
        BY <1>1 DEF End
    <2>. QED  BY <1>1, <1>3, <2>1 DEF Ahead
<1>5. ASSUME NEW i \in 1..Len(composed')  PROVE IntactSet(i)'
    <2>1. i \in Int /\ i > 0
        <3>1. Len(composed) \in Nat
            BY MessageWritten DEF FramingInv, TypesKept
        <3>. QED  BY <1>1, <3>1
    <2>2. ~(i < Len(heard')) /\ i # Len(heard')
        BY <1>1, <1>2, <2>1
    <2>. QED  BY <1>4, <2>2, Zenon DEF IntactSet
<1>. QED  BY <1>5, Zenon DEF IntactInv

\* The iterator over the sets neither ends nor errs before an intact set.
LEMMA NoneIsAhead ==
    ASSUME FramingInv, IntactInv, SetWanted, Len(buf) < SET_HEADER_LEN \/ SetVerdict(buf) # "Ok",
           NEW i \in 1..Len(composed), Intact(i)
    PROVE  ~(i > Len(heard))
<1>. SUFFICES ASSUME i > Len(heard)  PROVE FALSE
    OBVIOUS
<1>1. header = "Ok"
    BY DEF SetWanted
<1>2. Ahead
    BY <1>1, Zenon DEF IntactInv, IntactSet
<1>3. Len(buf) >= SET_HEADER_LEN /\ SetVerdict(buf) = "Ok"
    BY <1>1, <1>2, NextSetIsThere
<1>4. Len(buf) \in Nat
    BY LenBytes DEF FramingInv, TypesKept
<1>. QED  BY <1>3, <1>4 DEF SET_HEADER_LEN

\* Where no set is ahead, what was heard stays as it was.
LEMMA NoneAheadIntact ==
    ASSUME IntactInv, header = "Ok", UNCHANGED <<composed, datagram, heard, template_result>>,
           \A i \in 1..Len(composed) : Intact(i) => ~(i > Len(heard))
    PROVE  IntactInv'
<1>1. ASSUME NEW i \in 1..Len(composed'), Intact(i)'  PROVE IntactSet(i)'
    <2>1. i \in 1..Len(composed) /\ Intact(i)
        BY <1>1, InputKept, Zenon
    <2>2. IntactSet(i) /\ ~(i > Len(heard))
        BY <2>1, Zenon DEF IntactInv
    <2>. QED  BY <2>2 DEF IntactSet, HeardAs, LastSet
<1>. QED  BY <1>1, Zenon DEF IntactInv

LEMMA StopAtMessageEndIntact == FramingInv /\ IntactInv /\ StopAtMessageEnd => IntactInv'
<1>. SUFFICES ASSUME FramingInv, IntactInv, StopAtMessageEnd  PROVE IntactInv'
    OBVIOUS
<1>1. /\ UNCHANGED <<composed, datagram, heard, template_result>>
      /\ SetWanted /\ header = "Ok" /\ Len(buf) < SET_HEADER_LEN
    BY DEF StopAtMessageEnd, SetWanted, input, templateVars
<1>2. \A i \in 1..Len(composed) : Intact(i) => ~(i > Len(heard))
    BY <1>1, NoneIsAhead
<1>. QED  BY <1>1, <1>2, NoneAheadIntact

LEMMA RejectSetIntact == FramingInv /\ IntactInv /\ RejectSet => IntactInv'
<1>. SUFFICES ASSUME FramingInv, IntactInv, RejectSet  PROVE IntactInv'
    OBVIOUS
<1>1. /\ UNCHANGED <<composed, datagram, heard, template_result>>
      /\ SetWanted /\ header = "Ok" /\ SetVerdict(buf) # "Ok"
    BY DEF RejectSet, SetWanted, input, templateVars
<1>2. \A i \in 1..Len(composed) : Intact(i) => ~(i > Len(heard))
    BY <1>1, NoneIsAhead
<1>. QED  BY <1>1, <1>2, NoneAheadIntact

LEMMA TakeSetIntact == FramingInv /\ IntactInv /\ TakeSet => IntactInv'
<1>. SUFFICES ASSUME FramingInv, IntactInv, TakeSet  PROVE IntactInv'
    OBVIOUS
<1>. DEFINE set_id == ReadU16(buf, 0)
            length == ReadU16(buf, 2)
            records == SubSeq(buf, SET_HEADER_LEN + 1, length)
            h == [set_id |-> set_id, records |-> records, templates |-> <<>>]
            k == Len(heard)
<1>1. /\ UNCHANGED <<datagram, composed, header>>
      /\ header = "Ok" /\ template_result = "None"
      /\ Len(buf) >= SET_HEADER_LEN /\ SetVerdict(buf) = "Ok"
      /\ set_result' = "Ok" /\ heard' = Append(heard, h)
      /\ IF set_id \in {SET_ID_TEMPLATE, SET_ID_OPTIONS_TEMPLATE}
         THEN template_result' = "Start" ELSE template_result' = template_result
    BY DEF TakeSet, SetWanted, input
<1>2. buf \in Bytes /\ heard \in HeardSets /\ composed \in Messages
    BY DEF FramingInv, TypesKept
<1>3. /\ set_id \in U16 /\ records \in Bytes /\ length \in Nat
      /\ SET_HEADER_LEN + Len(records) \in U16
      /\ Len(SetBytes(set_id, records)) = length /\ SetBytes(set_id, records) \in Bytes
    BY <1>1, <1>2, SetRead, SetWritten
<1>. HIDE DEF set_id, length, records
<1>4. h \in HeardSet /\ h.set_id = set_id /\ h.records = records /\ h.templates = <<>>
    BY <1>3, NoTemplates DEF HeardSet
<1>. HIDE DEF h
<1>5. /\ heard' \in HeardSets /\ k \in Nat /\ Len(heard') = k + 1
      /\ \A i \in 1..k : heard'[i] = heard[i]
      /\ heard'[k + 1] = h /\ LastSet' = h
    BY <1>1, <1>2, <1>4, AppendProperties, LenProperties DEF HeardSets, LastSet
<1>6. Len(SetsBytes(heard')) = Len(SetsBytes(heard)) + length /\ Len(SetsBytes(heard)) \in Nat
    <2>. DEFINE new == heard'
    <2>1. /\ new \in HeardSets /\ Len(new) = Len(heard) + 1
          /\ \A i \in 1..Len(heard) : SetBytes(new[i].set_id, new[i].records)
                                      = SetBytes(heard[i].set_id, heard[i].records)
          /\ new[Len(new)] = h
        BY <1>5
    <2>. HIDE DEF new
    <2>2. SetsBytes(new) = SetsBytes(heard) \o SetBytes(new[Len(new)].set_id, new[Len(new)].records)
        BY <1>2, <2>1, SetsLonger
    <2>3. SetsBytes(new) = SetsBytes(heard) \o SetBytes(set_id, records)
        BY <1>4, <2>1, <2>2, Zenon
    <2>4. SetsBytes(heard) \in Bytes
        BY <1>2, SetsWritten
    <2>. QED  BY <1>3, <2>3, <2>4, Joined, LenBytes DEF new
<1>7. ASSUME NEW i \in 1..Len(composed'), Intact(i)'  PROVE IntactSet(i)'
    <2>1. i \in 1..Len(composed) /\ Intact(i) /\ i \in Nat
        <3>1. Len(composed) \in Nat
            BY <1>2, MessageWritten
        <3>2. i \in 1..Len(composed) /\ Intact(i)
            BY <1>1, <1>7, InputKept, Zenon
        <3>. QED  BY <3>1, <3>2
    <2>2. IntactSet(i)
        BY <1>1, <2>1, Zenon DEF IntactInv
    <2>3. CASE i > k
        <3>. DEFINE c == composed[k + 1]
        <3>1. Ahead
            BY <2>2, <2>3, Zenon DEF IntactSet
        <3>2. /\ k + 1 \in 1..Len(composed) /\ c \in ComposedSet
              /\ set_id = c.set_id
              /\ End(k + 1) = End(k) + length
              /\ i = k + 1 => records = BodyBytes(c)
            BY <1>1, <2>1, <2>3, <3>1, NextSetIsThere DEF set_id, length, records
        <3>3. HEADER_LEN + Len(SetsBytes(heard')) = End(Len(heard))'
            <4>1. HEADER_LEN + Len(SetsBytes(heard)) = End(k)
                BY <3>1, Zenon DEF Ahead
            <4>2. HEADER_LEN + (Len(SetsBytes(heard)) + length) = End(k) + length
                BY <1>3, <1>6, <4>1 DEF HEADER_LEN
            <4>3. End(Len(heard))' = End(k + 1)
                BY <1>1, <1>5 DEF End
            <4>. QED  BY <1>6, <3>2, <4>2, <4>3, Zenon
        <3>4. Ahead'
            BY <1>1, <3>3 DEF Ahead
        <3>5. CASE i # k + 1
            <4>1. ~(i < Len(heard')) /\ i # Len(heard')
                BY <1>5, <2>1, <2>3, <3>5
            <4>. QED  BY <3>4, <4>1, Zenon DEF IntactSet
        <3>6. CASE i = k + 1
            <4>1. c.templates \in Templates /\ Len(c.templates) \in Nat /\ Len(<<>>) = 0
                BY <3>2, NoBytes, LenProperties DEF ComposedSet, Templates
            <4>2. HeardSoFar(h, c)
                BY <1>4, <3>2, <3>6, <4>1 DEF HeardSoFar
            <4>3. template_result' = "None" => h = HeardAs(c)
                <5>1. SUFFICES ASSUME template_result' = "None"  PROVE h = HeardAs(c)
                    OBVIOUS
                <5>2. set_id \notin {SET_ID_TEMPLATE, SET_ID_OPTIONS_TEMPLATE}
                    BY <1>1, <5>1
                <5>3. c.set_id >= SET_ID_DATA_MIN
                    <6>1. ~is_reserved_set_id(c.set_id)
                        BY <1>2, <3>2, FramingAssumption DEF FramingAssumption
                    <6>2. ~(c.set_id < SET_ID_DATA_MIN)
                        BY <3>2, <5>2, <6>1, Zenon DEF is_reserved_set_id
                    <6>. QED  BY <1>3, <3>2, <6>2 DEF U16, SET_ID_DATA_MIN
                <5>4. c.templates = <<>>
                    BY <1>2, <3>2, <5>3, FramingAssumption DEF FramingAssumption
                <5>. QED  BY <3>2, <3>6, <5>4 DEF HeardAs, h
            <4>4. i = Len(heard') /\ ~(i < Len(heard')) /\ ~(i > Len(heard')) /\ heard'[i] = h
                BY <1>5, <2>1, <3>6
            <4>5. template_result' # "None" => template_result' \in {"Start", "Ok"}
                BY <1>1
            <4>6. HeardSoFar(LastSet, composed[i])'
                BY <1>1, <1>5, <3>6, <4>2 DEF HeardSoFar, LastSet
            <4>7. HeardAs(composed[i])' = HeardAs(c)
                BY <1>1, <3>6 DEF HeardAs
            <4>. QED  BY <4>3, <4>4, <4>5, <4>6, <4>7, Zenon DEF IntactSet
        <3>. QED  BY <3>5, <3>6
    <2>4. CASE ~(i > k)
        <3>1. i \in 1..k /\ i < Len(heard') /\ ~(i > Len(heard')) /\ i # Len(heard') /\ (i < k \/ i = k)
            BY <1>5, <2>1, <2>4
        <3>2. heard[i] = HeardAs(composed[i])
            BY <1>1, <2>2, <3>1, Zenon DEF IntactSet
        <3>3. heard'[i] = HeardAs(composed[i])'
            BY <1>1, <1>5, <3>1, <3>2 DEF HeardAs
        <3>. QED  BY <3>1, <3>3, Zenon DEF IntactSet
    <2>. QED  BY <2>3, <2>4
<1>. QED  BY <1>7, Zenon DEF IntactInv

\* The template set that is being heard, if it is intact.
LEMMA SetBeingHeard ==
    ASSUME FramingInv, IntactInv, template_result # "None",
           NEW i \in 1..Len(composed), Intact(i), i = Len(heard)
    PROVE  LET c == composed[i]
               n == Len(LastSet.templates)
           IN  /\ template_result \in {"Start", "Ok"} /\ HeardSoFar(LastSet, c)
               /\ c \in ComposedSet /\ LastSet \in HeardSet
               /\ n \in Nat /\ Len(c.templates) \in Nat
               /\ \/ /\ n = Len(c.templates) /\ LastSet.templates = c.templates
                     /\ Len(template_buf) < MinHeader
                  \/ /\ n < Len(c.templates) /\ c.templates[n + 1] \in Template
                     /\ Len(template_buf) >= MinHeader
                     /\ CountsVerdict(template_buf) = "Ok" /\ Fill(template_buf).ok
                     /\ Yielded(template_buf) = c.templates[n + 1]
<1>. DEFINE c == composed[i]
            n == Len(LastSet.templates)
<1>1. /\ header = "Ok" /\ composed \in Messages
      /\ LastSet.set_id \in {SET_ID_TEMPLATE, SET_ID_OPTIONS_TEMPLATE}
    BY DEF FramingInv, TypesKept, Stages
<1>2. template_result \in {"Start", "Ok"} /\ HeardSoFar(LastSet, c)
    BY <1>1, Zenon DEF IntactInv, IntactSet
<1>3. c \in ComposedSet
    BY <1>1, SetStands
<1>. HIDE DEF c
<1>4. /\ n \in Nat /\ Len(c.templates) \in Nat /\ n <= Len(c.templates)
      /\ LastSet \in HeardSet /\ LastSet.set_id = c.set_id
      /\ n = Len(c.templates) => template_buf = c.tail /\ LastSet.templates = c.templates
      /\ n < Len(c.templates) =>
             /\ c.templates[n + 1] \in Template
             /\ Stands(TemplateBytes(c.set_id, c.templates[n + 1]), 0, template_buf)
    BY <1>2, <1>3, NextTemplateIsThere
<1>5. /\ ~(c.set_id >= SET_ID_DATA_MIN)
      /\ MinHeader = HeaderOf(c.set_id)
    <2>1. ~(c.set_id >= SET_ID_DATA_MIN)
        BY <1>1, <1>4 DEF SET_ID_TEMPLATE, SET_ID_OPTIONS_TEMPLATE, SET_ID_DATA_MIN
    <2>. QED  BY <1>4, <2>1, Zenon DEF MinHeader, LastSet
<1>6. /\ Len(c.tail) < HeaderOf(c.set_id)
      /\ \A j \in 1..Len(c.templates) : WellFormed(c.set_id, c.templates[j])
    <2>1. IF c.set_id >= SET_ID_DATA_MIN THEN c.templates = <<>>
          ELSE /\ Len(c.tail) < HeaderOf(c.set_id)
               /\ \A j \in 1..Len(c.templates) : WellFormed(c.set_id, c.templates[j])
        BY <1>1, FramingAssumption, Zenon DEF FramingAssumption, c
    <2>. QED  BY <1>5, <2>1, Zenon
<1>7. CASE n = Len(c.templates)
    <2>1. Len(template_buf) < MinHeader /\ LastSet.templates = c.templates
        BY <1>4, <1>5, <1>6, <1>7, Zenon
    <2>. QED  BY <1>2, <1>3, <1>4, <1>7, <2>1, Zenon DEF c
<1>8. CASE n < Len(c.templates)
    <2>. DEFINE t == c.templates[n + 1]
    <2>1. n + 1 \in 1..Len(c.templates)
        BY <1>4, <1>8
    <2>2. t \in Template /\ WellFormed(c.set_id, t)
          /\ Stands(TemplateBytes(c.set_id, t), 0, template_buf)
        BY <1>4, <1>6, <1>8, <2>1, Zenon
    <2>. HIDE DEF t
    <2>3. WellFormed(LastSet.set_id, t) /\ Stands(TemplateBytes(LastSet.set_id, t), 0, template_buf)
        BY <1>4, <2>2, Zenon
    <2>4. template_result # "None"
        OBVIOUS
    <2>5. /\ Len(template_buf) >= MinHeader
          /\ CountsVerdict(template_buf) = "Ok" /\ Fill(template_buf).ok
          /\ Yielded(template_buf) = t
        BY <2>2, <2>3, <2>4, TemplateRecovered
    <2>. QED  BY <1>2, <1>3, <1>4, <1>8, <2>2, <2>5, Zenon DEF c, t
<1>. QED  BY <1>4, <1>7, <1>8

\* A step within the last set leaves the others as they are.
LEMMA OthersIntact ==
    ASSUME IntactInv, header = "Ok", UNCHANGED <<composed, datagram, set_result>>,
           Len(heard') = Len(heard), Len(heard) \in 1..Len(heard), SetsBytes(heard') = SetsBytes(heard),
           \A j \in 1..Len(heard) : j # Len(heard) => heard'[j] = heard[j],
           NEW i \in 1..Len(composed'), Intact(i)', Len(composed) \in Nat, i # Len(heard)
    PROVE  IntactSet(i)'
<1>1. i \in 1..Len(composed) /\ Intact(i) /\ IntactSet(i)
    BY InputKept, Zenon DEF IntactInv
<1>2. Ahead' <=> Ahead
    <2>1. End(Len(heard))' = End(Len(heard))
        BY DEF End
    <2>2. Len(SetsBytes(heard))' = Len(SetsBytes(heard)) /\ set_result' = set_result
        BY Zenon
    <2>. QED  BY <2>1, <2>2, Zenon DEF Ahead
<1>3. i # Len(heard')
    BY Zenon
<1>4. ASSUME i > Len(heard')  PROVE Ahead'
    BY <1>1, <1>2, <1>4, Zenon DEF IntactSet
<1>5. ASSUME i < Len(heard')  PROVE heard'[i] = HeardAs(composed[i])'
    <2>1. i \in 1..Len(heard)
        BY <1>1, <1>5
    <2>2. heard'[i] = heard[i] /\ heard[i] = HeardAs(composed[i])
        BY <1>1, <1>5, <2>1, Zenon DEF IntactSet
    <2>. QED  BY <2>2, Zenon DEF HeardAs
<1>. QED  BY <1>3, <1>4, <1>5, Zenon DEF IntactSet

\* A template iterator is only polled over a set that was heard.
LEMMA BeingHeard ==
    ASSUME FramingInv, template_result # "None"
    PROVE  /\ header = "Ok" /\ composed \in Messages /\ Len(composed) \in Nat
           /\ Len(heard) \in 1..Len(heard)
<1>1. header = "Ok" /\ composed \in Messages /\ heard \in HeardSets /\ heard # <<>>
    BY DEF FramingInv, TypesKept, Stages
<1>. QED  BY <1>1, MessageWritten, LastHeard

LEMMA StopAtSetEndIntact == FramingInv /\ IntactInv /\ StopAtSetEnd => IntactInv'
<1>. SUFFICES ASSUME FramingInv, IntactInv, StopAtSetEnd  PROVE IntactInv'
    OBVIOUS
<1>1. /\ UNCHANGED <<composed, datagram, set_result, heard>> /\ template_result' = "None"
      /\ template_result # "None" /\ (done \/ Len(template_buf) < MinHeader)
    BY DEF StopAtSetEnd, TemplateWanted, input, setVars
<1>2. header = "Ok" /\ Len(composed) \in Nat /\ Len(heard) \in 1..Len(heard) /\ composed \in Messages
    BY <1>1, BeingHeard
<1>3. ASSUME NEW i \in 1..Len(composed'), Intact(i)'  PROVE IntactSet(i)'
    <2>1. CASE i # Len(heard)
        BY <1>1, <1>2, <1>3, <2>1, OthersIntact
    <2>2. CASE i = Len(heard)
        <3>. DEFINE c == composed[i]
        <3>1. i \in 1..Len(composed) /\ Intact(i)
            BY <1>1, <1>3, InputKept, Zenon
        <3>2. /\ template_result \in {"Start", "Ok"} /\ HeardSoFar(LastSet, c)
              /\ LastSet \in HeardSet
              /\ \/ LastSet.templates = c.templates
                 \/ Len(template_buf) >= MinHeader
            BY <1>1, <2>2, <3>1, SetBeingHeard
        <3>3. ~done
            BY <3>2 DEF FramingInv, Stages
        <3>4. LastSet.templates = c.templates
            <4>1. Len(template_buf) < MinHeader
                BY <1>1, <3>3
            <4>2. Len(template_buf) \in Nat /\ MinHeader \in Nat
                BY <4>1, LenBytes DEF FramingInv, TypesKept, MinHeader, HeaderOf
            <4>. QED  BY <3>2, <4>1, <4>2
        <3>5. LastSet = HeardAs(c)
            BY <3>2, <3>4 DEF HeardSoFar, HeardAs, HeardSet
        <3>6. heard'[i] = HeardAs(composed[i])'
            BY <1>1, <2>2, <3>5 DEF LastSet, HeardAs
        <3>7. i = Len(heard') /\ ~(i < Len(heard')) /\ ~(i > Len(heard'))
            BY <1>1, <1>2, <2>2, <3>1
        <3>. QED  BY <1>1, <3>6, <3>7, Zenon DEF IntactSet
    <2>. QED  BY <2>1, <2>2
<1>. QED  BY <1>3, Zenon DEF IntactInv

LEMMA RejectTemplateIntact == FramingInv /\ IntactInv /\ RejectTemplate => IntactInv'
<1>. SUFFICES ASSUME FramingInv, IntactInv, RejectTemplate  PROVE IntactInv'
    OBVIOUS
<1>1. /\ UNCHANGED <<composed, datagram, set_result, heard>>
      /\ template_result # "None" /\ Len(template_buf) >= MinHeader
      /\ ~(CountsVerdict(template_buf) = "Ok" /\ Fill(template_buf).ok)
    <2>1. /\ UNCHANGED <<input, setVars, heard>>
          /\ TemplateWanted /\ Len(template_buf) >= MinHeader
          /\ CountsVerdict(template_buf) # "Ok" \/ ~Fill(template_buf).ok
        BY Zenon DEF RejectTemplate
    <2>. QED  BY <2>1 DEF TemplateWanted, input, setVars
<1>2. header = "Ok" /\ Len(composed) \in Nat /\ Len(heard) \in 1..Len(heard)
    BY <1>1, BeingHeard
<1>3. ASSUME NEW i \in 1..Len(composed'), Intact(i)'  PROVE IntactSet(i)'
    <2>1. i # Len(heard)
        <3>1. SUFFICES ASSUME i = Len(heard)  PROVE FALSE
            OBVIOUS
        <3>2. i \in 1..Len(composed) /\ Intact(i)
            BY <1>1, <1>3, InputKept, Zenon
        <3>3. \/ Len(template_buf) < MinHeader
              \/ CountsVerdict(template_buf) = "Ok" /\ Fill(template_buf).ok
            BY <1>1, <3>1, <3>2, SetBeingHeard
        <3>4. Len(template_buf) \in Nat /\ MinHeader \in Nat
            BY LenBytes DEF FramingInv, TypesKept, MinHeader, HeaderOf
        <3>. QED  BY <1>1, <3>3, <3>4
    <2>. QED  BY <1>1, <1>2, <1>3, <2>1, OthersIntact
<1>. QED  BY <1>3, Zenon DEF IntactInv

LEMMA YieldTemplateIntact == FramingInv /\ IntactInv /\ YieldTemplate => IntactInv'
<1>. SUFFICES ASSUME FramingInv, IntactInv, YieldTemplate  PROVE IntactInv'
    OBVIOUS
<1>. DEFINE t == Yielded(template_buf)
            old == LastSet
            new == [LastSet EXCEPT !.templates = Append(@, t)]
<1>1. /\ UNCHANGED <<datagram, composed, set_result>>
      /\ template_result \in {"Start", "Ok"} /\ template_result' = "Ok"
      /\ Len(template_buf) >= MinHeader
      /\ t \in Template /\ old \in HeardSet
      /\ new.set_id = old.set_id /\ new.records = old.records
      /\ new.templates = Append(old.templates, t)
      /\ Len(heard') = Len(heard)
      /\ \A i \in 1..Len(heard) : heard'[i] = IF i = Len(heard) THEN new ELSE heard[i]
    BY TemplateYielded
<1>. HIDE DEF t, new, old
<1>2. /\ header = "Ok" /\ Len(composed) \in Nat /\ composed \in Messages
      /\ Len(heard) \in 1..Len(heard) /\ template_result # "None"
    BY <1>1, BeingHeard
<1>3. SetsBytes(heard') = SetsBytes(heard)
    <2>1. \A i \in 1..Len(heard) : /\ heard'[i].set_id = heard[i].set_id
                                   /\ heard'[i].records = heard[i].records
        BY <1>1 DEF old, LastSet
    <2>2. [i \in 1..Len(heard') |-> SetBytes(heard'[i].set_id, heard'[i].records)]
              = [i \in 1..Len(heard) |-> SetBytes(heard[i].set_id, heard[i].records)]
        BY <1>1, <2>1
    <2>. QED  BY <2>2, Zenon DEF SetsBytes
<1>4. ASSUME NEW i \in 1..Len(composed'), Intact(i)'  PROVE IntactSet(i)'
    <2>1. CASE i # Len(heard)
        <3>1. \A j \in 1..Len(heard) : j # Len(heard) => heard'[j] = heard[j]
            BY <1>1, Zenon
        <3>. QED  BY <1>1, <1>2, <1>3, <1>4, <2>1, <3>1, OthersIntact
    <2>2. CASE i = Len(heard)
        <3>. DEFINE c == composed[i]
                    n == Len(old.templates)
        <3>1. i \in 1..Len(composed) /\ Intact(i)
            BY <1>1, <1>4, InputKept, Zenon
        <3>2. /\ HeardSoFar(old, c) /\ n \in Nat /\ Len(c.templates) \in Nat
              /\ \/ Len(template_buf) < MinHeader
                 \/ n < Len(c.templates) /\ t = c.templates[n + 1]
            BY <1>2, <2>2, <3>1, SetBeingHeard DEF old, t
        <3>3. n < Len(c.templates) /\ t = c.templates[n + 1]
            <4>1. Len(template_buf) \in Nat /\ MinHeader \in Nat
                BY LenBytes DEF FramingInv, TypesKept, MinHeader, HeaderOf
            <4>. QED  BY <1>1, <3>2, <4>1
        <3>4. old.templates \in Templates
            BY <1>1, HeardParts
        <3>5. /\ Len(new.templates) = n + 1
              /\ \A j \in 1..n : new.templates[j] = old.templates[j]
              /\ new.templates[n + 1] = t
            BY <1>1, <3>4, AppendProperties DEF Templates
        <3>. HIDE DEF c, n
        <3>6. HeardSoFar(new, c)
            <4>1. new.set_id = c.set_id /\ new.records = BodyBytes(c)
                BY <1>1, <3>2 DEF HeardSoFar
            <4>2. Len(new.templates) <= Len(c.templates)
                BY <3>2, <3>3, <3>5
            <4>3. ASSUME NEW j \in 1..Len(new.templates)  PROVE new.templates[j] = c.templates[j]
                <5>1. CASE j \in 1..n
                    BY <3>2, <3>5, <5>1 DEF HeardSoFar, n
                <5>2. CASE j = n + 1
                    BY <3>3, <3>5, <5>2
                <5>. QED  BY <3>2, <3>5, <5>1, <5>2
            <4>. QED  BY <4>1, <4>2, <4>3, Zenon DEF HeardSoFar
        <3>7. LastSet' = new
            BY <1>1, <1>2 DEF LastSet
        <3>8. HeardSoFar(LastSet, composed[i])'
            BY <1>1, <3>6, <3>7 DEF HeardSoFar, c
        <3>9. i = Len(heard') /\ ~(i < Len(heard')) /\ ~(i > Len(heard'))
            BY <1>1, <1>2, <2>2, <3>1
        <3>. QED  BY <1>1, <3>8, <3>9 DEF IntactSet
    <2>. QED  BY <2>1, <2>2
<1>. QED  BY <1>4, Zenon DEF IntactInv

LEMMA StutterIntact == IntactInv /\ UNCHANGED vars => IntactInv'
<1>. SUFFICES ASSUME IntactInv, UNCHANGED vars  PROVE IntactInv'
    OBVIOUS
<1>1. UNCHANGED <<composed, datagram, header, set_result, template_result, heard>>
    BY DEF vars, input, setVars, templateVars
<1>2. ASSUME NEW i \in 1..Len(composed'), header' = "Ok", Intact(i)'  PROVE IntactSet(i)'
    <2>1. IntactSet(i)
        BY <1>1, <1>2, InputKept, Zenon DEF IntactInv
    <2>2. Ahead' <=> Ahead
        BY <1>1 DEF Ahead, End
    <2>. QED  BY <1>1, <2>1, <2>2 DEF IntactSet, HeardAs, HeardSoFar, LastSet
<1>. QED  BY <1>2, Zenon DEF IntactInv

\* A set that arrives as it was sent is returned as it was composed, template
\* for template and field for field, for every message an exporter composes,
\* every byte that changes and every place the datagram is cut at, as long as
\* the headers of the sets before it can be followed.
THEOREM IntactSetsReturned == Spec => []IntactSetsAreReturned
<1>1. Init => IntactInv
    BY DEF Init, IntactInv
<1>2. FramingInv /\ IntactInv /\ [Next]_vars => IntactInv'
    BY DecodeHeaderIntact, StopAtMessageEndIntact, RejectSetIntact, TakeSetIntact, StopAtSetEndIntact,
       RejectTemplateIntact, YieldTemplateIntact, StutterIntact, Zenon DEF Next, NextSet, NextTemplate
<1>3. FramingInv /\ IntactInv => IntactSetsAreReturned
    <2>. SUFFICES ASSUME FramingInv, IntactInv, Finished, NEW i \in 1..Len(composed), Intact(i)
                  PROVE  i <= Len(heard) /\ heard[i] = HeardAs(composed[i])
        BY Zenon DEF IntactSetsAreReturned, Intact
    <2>1. header = "Ok" /\ set_result = "None"
        <3>1. HeaderVerdict(datagram) = "Ok"
            BY Zenon DEF Intact, SetUnchanged
        <3>2. header # "Unread"
            BY DEF FramingInv, Stages, Finished
        <3>. QED  BY <3>1, <3>2 DEF FramingInv, Stages, Finished
    <2>2. IntactSet(i) /\ template_result = "None"
        <3>1. template_result = "None"
            BY <2>1 DEF FramingInv, Stages
        <3>. QED  BY <2>1, <3>1, Zenon DEF IntactInv
    <2>3. ~(i > Len(heard))
        <3>1. ~Ahead
            BY <2>1 DEF Ahead
        <3>. QED  BY <2>2, <3>1, Zenon DEF IntactSet
    <2>4. i \in Nat /\ Len(heard) \in Nat
        <3>1. Len(composed) \in Nat
            BY MessageWritten DEF FramingInv, TypesKept
        <3>. QED  BY <3>1, LenProperties DEF FramingInv, TypesKept, HeardSets
    <2>5. i <= Len(heard) /\ (i < Len(heard) \/ i = Len(heard))
        BY <2>3, <2>4
    <2>. QED  BY <2>2, <2>5, Zenon DEF IntactSet
<1>. QED  BY <1>1, <1>2, <1>3, FramingInvariance, PTL DEF Spec
=============================================================================
