------------------------ MODULE JsonCollectorProofs ------------------------
(***************************************************************************)
(* The collector prints what a capture says, for every capture, any number *)
(* of domains and definitions, fields of any width and any capacity.       *)
(***************************************************************************)
EXTENDS JsonCollector, SessionTemplateStoreProofs, Induction

-----------------------------------------------------------------------------
(* Functions defined by recursion.                                         *)

LEMMA EveryValue ==
    ASSUME NEW N \in Nat, NEW S, NEW f, f[0] \in S,
           \A n \in 1..N : f[n - 1] \in S => f[n] \in S
    PROVE  \A n \in 0..N : f[n] \in S
<1>. DEFINE T == {n \in 0..N : f[n] \in S}
<1>1. 0 \in T /\ \A n \in 1..N : n - 1 \in T => n \in T
    OBVIOUS
<1>. HIDE DEF T
<1>2. 0..N \subseteq T
    BY <1>1, UpTo
<1>. QED  BY <1>2 DEF T

\* One element more.
PickedWith(s, places, n, picked) == IF n \in places THEN Append(picked, s[n]) ELSE picked

LEMMA PickedFacts ==
    ASSUME NEW S, NEW s \in Seq(S), NEW places
    PROVE  /\ Picked(s, places)[0] = <<>>
           /\ \A n \in 1..Len(s) :
                  Picked(s, places)[n] = PickedWith(s, places, n, Picked(s, places)[n - 1])
           /\ \A n \in 0..Len(s) : Picked(s, places)[n] \in Seq(S)
<1>. DEFINE N == Len(s)
            P == Picked(s, places)
            step == [i \in 1..N |-> [p \in Seq(S) |-> PickedWith(s, places, i, p)]]
<1>1. N \in Nat /\ \A i \in 1..N : s[i] \in S
    BY LenProperties, ElementOfSeq
<1>2. <<>> \in Seq(S)
    OBVIOUS
<1>3. \A i \in 1..N : \A p \in Seq(S) : PickedWith(s, places, i, p) \in Seq(S)
    BY <1>1 DEF PickedWith
<1>4. step \in [1..N -> [Seq(S) -> Seq(S)]]
    BY <1>3
<1>5. \A i \in 1..N : \A p \in Seq(S) : step[i][p] = PickedWith(s, places, i, p)
    OBVIOUS
<1>. HIDE DEF step
<1>6. PICK f \in [0..N -> Seq(S)] : Steps(f, N, <<>>, step)
    BY <1>1, <1>2, <1>4, Recursion
<1>7. ASSUME NEW n \in 1..N
      PROVE  f[n] = PickedWith(s, places, n, f[n - 1])
    <2>1. f[n - 1] \in Seq(S)
        BY <1>1, <1>6
    <2>2. f[n] = step[n][f[n - 1]]
        BY <1>6 DEF Steps
    <2>. QED  BY <1>5, <2>1, <2>2
<1>8. f = [n \in 0..N |-> IF n = 0 THEN <<>> ELSE PickedWith(s, places, n, f[n - 1])]
    BY <1>1, <1>6, <1>7 DEF Steps
<1>9. P = [n \in 0..N |-> IF n = 0 THEN <<>> ELSE PickedWith(s, places, n, P[n - 1])]
    BY <1>8, Zenon DEF Picked, PickedWith
<1>. HIDE DEF P, N
<1>10. P[0] = <<>> /\ \A n \in 1..N : P[n] = PickedWith(s, places, n, P[n - 1])
    BY <1>1, <1>9
<1>11. \A n \in 1..N : P[n - 1] \in Seq(S) => P[n] \in Seq(S)
    BY <1>3, <1>10
<1>12. P[0] \in Seq(S)
    BY <1>2, <1>10
<1>13. \A n \in 0..N : P[n] \in Seq(S)
    BY <1>1, <1>11, <1>12, EveryValue
<1>. QED  BY <1>10, <1>13 DEF P, N

\* What is picked of the first elements does not depend on the others.
LEMMA PickedPrefix ==
    ASSUME NEW S, NEW s \in Seq(S), NEW t \in Seq(S), NEW p, NEW q,
           NEW n \in Nat, n <= Len(s), n <= Len(t),
           \A i \in 1..n : s[i] = t[i] /\ (i \in p <=> i \in q)
    PROVE  Picked(s, p)[n] = Picked(t, q)[n]
<1>. DEFINE T == {i \in 0..n : Picked(s, p)[i] = Picked(t, q)[i]}
<1>1. Len(s) \in Nat /\ Len(t) \in Nat
    OBVIOUS
<1>2. 0 \in T
    BY PickedFacts
<1>3. ASSUME NEW i \in 1..n, i - 1 \in T  PROVE i \in T
    <2>1. i \in 1..Len(s) /\ i \in 1..Len(t) /\ Picked(s, p)[i - 1] = Picked(t, q)[i - 1]
        BY <1>1, <1>3
    <2>2. /\ Picked(s, p)[i] = PickedWith(s, p, i, Picked(s, p)[i - 1])
          /\ Picked(t, q)[i] = PickedWith(t, q, i, Picked(t, q)[i - 1])
        BY <2>1, PickedFacts
    <2>. QED  BY <2>1, <2>2 DEF PickedWith
<1>. HIDE DEF T
<1>4. \A i \in 1..n : i - 1 \in T => i \in T
    BY <1>3
<1>5. 0..n \subseteq T
    BY <1>2, <1>4, UpTo
<1>. QED  BY <1>5 DEF T

\* One more element.
LEMMA PickedMore ==
    ASSUME NEW S, NEW s \in Seq(S), NEW e \in S, NEW p, NEW q,
           \A i \in 1..Len(s) : i \in p <=> i \in q
    PROVE  Picked(Append(s, e), q)[Len(Append(s, e))] =
               IF Len(s) + 1 \in q THEN Append(Picked(s, p)[Len(s)], e) ELSE Picked(s, p)[Len(s)]
<1>. DEFINE t == Append(s, e)
            N == Len(s)
<1>1. t \in Seq(S) /\ Len(t) = N + 1 /\ N \in Nat /\ t[N + 1] = e /\ \A i \in 1..N : t[i] = s[i]
    OBVIOUS
<1>. HIDE DEF t, N
<1>2. Picked(s, p)[N] = Picked(t, q)[N]
    <2>1. N <= Len(s) /\ N <= Len(t) /\ \A i \in 1..N : s[i] = t[i] /\ (i \in p <=> i \in q)
        BY <1>1 DEF N
    <2>. QED  BY <1>1, <2>1, PickedPrefix
<1>3. N + 1 \in 1..Len(t) /\ (N + 1) - 1 = N
    BY <1>1
<1>4. Picked(t, q)[N + 1] = IF N + 1 \in q THEN Append(Picked(t, q)[N], t[N + 1]) ELSE Picked(t, q)[N]
    BY <1>1, <1>3, PickedFacts DEF PickedWith
<1>5. Picked(t, q)[Len(t)] = IF N + 1 \in q THEN Append(Picked(s, p)[N], e) ELSE Picked(s, p)[N]
    BY <1>1, <1>2, <1>4
<1>. QED  BY <1>5 DEF t, N

-----------------------------------------------------------------------------
(* Bytes.                                                                  *)

LEMMA BaseFacts ==
    /\ Base \in Nat /\ Base >= 2
    /\ LongMarker \in Nat /\ LongMarker = Base - 1 /\ Byte = 0..LongMarker
    /\ Base * Base \in Nat /\ VariableLength = Base * Base - 1
    /\ U16 = 0..VariableLength /\ VariableLength \in U16
<1>1. Base \in Nat /\ Base >= 2
    BY ByteAssumption DEF ByteAssumption
<1>2. Base * Base \in Nat /\ Base * Base >= 1
    BY <1>1
<1>. QED  BY <1>1, <1>2 DEF LongMarker, VariableLength, U16, Byte

LEMMA Division ==
    ASSUME NEW v \in Nat
    PROVE  /\ v \div Base \in Nat /\ (v % Base) \in Byte
           /\ v = (v \div Base) * Base + (v % Base)
           /\ v \in U16 => v \div Base \in Byte
<1>1. Base \in Nat /\ Base >= 2
    BY BaseFacts
<1>2. v \div Base \in Nat /\ (v % Base) \in 0..(Base - 1) /\ v = (v \div Base) * Base + (v % Base)
    BY <1>1
<1>3. ASSUME v < Base * Base  PROVE v \div Base < Base
    BY <1>1, <1>3
<1>4. v \in U16 => v < Base * Base
    BY <1>1 DEF U16
<1>. QED  BY <1>1, <1>2, <1>3, <1>4 DEF Byte

LEMMA TakeDrop ==
    ASSUME NEW s \in Seq(Byte), NEW n \in 0..Len(s)
    PROVE  /\ Take(s, n) \in Seq(Byte) /\ Len(Take(s, n)) = n
           /\ \A i \in 1..n : Take(s, n)[i] = s[i]
           /\ Drop(s, n) \in Seq(Byte) /\ Len(Drop(s, n)) = Len(s) - n
           /\ \A i \in 1..(Len(s) - n) : Drop(s, n)[i] = s[n + i]
<1>1. Len(s) \in Nat /\ \A i \in 1..Len(s) : s[i] \in Byte
    BY ElementOfSeq
<1>2. \A i \in 1..n : s[i] \in Byte
    BY <1>1
<1>3. /\ SubSeq(s, 1, n) \in Seq(Byte)
      /\ Len(SubSeq(s, 1, n)) = IF 1 <= n THEN n - 1 + 1 ELSE 0
      /\ \A i \in 1..(n - 1 + 1) : SubSeq(s, 1, n)[i] = s[1 + i - 1]
    BY <1>1, <1>2, SubSeqProperties
<1>4. \A i \in (n + 1)..Len(s) : s[i] \in Byte
    BY <1>1
<1>5. /\ SubSeq(s, n + 1, Len(s)) \in Seq(Byte)
      /\ Len(SubSeq(s, n + 1, Len(s))) = IF n + 1 <= Len(s) THEN Len(s) - (n + 1) + 1 ELSE 0
      /\ \A i \in 1..(Len(s) - (n + 1) + 1) : SubSeq(s, n + 1, Len(s))[i] = s[(n + 1) + i - 1]
    BY <1>1, <1>4, SubSeqProperties
<1>6. \A i \in 1..(Len(s) - n) : SubSeq(s, n + 1, Len(s))[i] = s[n + i]
    <2>1. SUFFICES ASSUME NEW i \in 1..(Len(s) - n)  PROVE SubSeq(s, n + 1, Len(s))[i] = s[n + i]
        OBVIOUS
    <2>2. i \in 1..(Len(s) - (n + 1) + 1) /\ (n + 1) + i - 1 = n + i
        BY <1>1
    <2>. QED  BY <1>5, <2>2
<1>. QED  BY <1>1, <1>3, <1>5, <1>6 DEF Take, Drop

\* What stands in front is taken, what stands behind is left.
LEMMA ConcatTakeDrop ==
    ASSUME NEW s \in Seq(Byte), NEW t \in Seq(Byte)
    PROVE  /\ s \o t \in Seq(Byte) /\ Len(s \o t) = Len(s) + Len(t)
           /\ Len(s) \in Nat /\ Len(t) \in Nat
           /\ \A i \in 1..Len(s) : (s \o t)[i] = s[i]
           /\ \A i \in 1..Len(t) : (s \o t)[Len(s) + i] = t[i]
           /\ Take(s \o t, Len(s)) = s /\ Drop(s \o t, Len(s)) = t
<1>. DEFINE b == s \o t
            m == Len(s)
            n == Len(t)
<1>1. m \in Nat /\ n \in Nat /\ b \in Seq(Byte) /\ Len(b) = m + n
    BY ConcatProperties
<1>2. \A i \in 1..(m + n) : b[i] = IF i <= m THEN s[i] ELSE t[i - m]
    BY ConcatProperties
<1>. HIDE DEF b
<1>3. \A i \in 1..m : b[i] = s[i]
    BY <1>1, <1>2
<1>4. \A i \in 1..n : b[m + i] = t[i]
    <2>1. SUFFICES ASSUME NEW i \in 1..n  PROVE b[m + i] = t[i]
        OBVIOUS
    <2>2. m + i \in 1..(m + n) /\ ~(m + i <= m) /\ (m + i) - m = i
        BY <1>1
    <2>. QED  BY <1>2, <2>2
<1>5. m \in 0..Len(b) /\ Len(b) - m = n
    BY <1>1
<1>. HIDE DEF m, n
<1>6. /\ Take(b, m) \in Seq(Byte) /\ Len(Take(b, m)) = m
      /\ \A i \in 1..m : Take(b, m)[i] = b[i]
      /\ Drop(b, m) \in Seq(Byte) /\ Len(Drop(b, m)) = Len(b) - m
      /\ \A i \in 1..(Len(b) - m) : Drop(b, m)[i] = b[m + i]
    BY <1>1, <1>5, TakeDrop
<1>7. Take(b, m) = s
    <2>1. Len(Take(b, m)) = Len(s) /\ \A i \in 1..Len(Take(b, m)) : Take(b, m)[i] = s[i]
        BY <1>3, <1>6 DEF m
    <2>. QED  BY <1>6, <2>1, SeqEqual
<1>8. Drop(b, m) = t
    <2>1. Len(Drop(b, m)) = Len(t) /\ \A i \in 1..Len(Drop(b, m)) : Drop(b, m)[i] = t[i]
        BY <1>4, <1>5, <1>6 DEF n
    <2>. QED  BY <1>6, <2>1, SeqEqual
<1>. QED  BY <1>1, <1>3, <1>4, <1>7, <1>8 DEF b, m, n

LEMMA DropTwice ==
    ASSUME NEW s \in Seq(Byte), NEW m \in 0..Len(s), NEW n \in 0..(Len(s) - m)
    PROVE  Drop(Drop(s, m), n) = Drop(s, m + n)
<1>1. Len(s) \in Nat /\ m + n \in 0..Len(s)
    OBVIOUS
<1>2. /\ Drop(s, m) \in Seq(Byte) /\ Len(Drop(s, m)) = Len(s) - m
      /\ \A i \in 1..(Len(s) - m) : Drop(s, m)[i] = s[m + i]
    BY TakeDrop
<1>3. n \in 0..Len(Drop(s, m))
    BY <1>2
<1>4. /\ Drop(Drop(s, m), n) \in Seq(Byte) /\ Len(Drop(Drop(s, m), n)) = Len(s) - m - n
      /\ \A i \in 1..(Len(s) - m - n) : Drop(Drop(s, m), n)[i] = Drop(s, m)[n + i]
    BY <1>2, <1>3, TakeDrop
<1>5. /\ Drop(s, m + n) \in Seq(Byte) /\ Len(Drop(s, m + n)) = Len(s) - (m + n)
      /\ \A i \in 1..(Len(s) - (m + n)) : Drop(s, m + n)[i] = s[(m + n) + i]
    BY <1>1, TakeDrop
<1>6. Len(Drop(Drop(s, m), n)) = Len(Drop(s, m + n))
    <2>1. Len(s) - m - n = Len(s) - (m + n)
        BY <1>1
    <2>. QED  BY <1>4, <1>5, <2>1
<1>7. ASSUME NEW i \in 1..Len(Drop(Drop(s, m), n))
      PROVE  Drop(Drop(s, m), n)[i] = Drop(s, m + n)[i]
    <2>1. /\ i \in 1..(Len(s) - m - n) /\ i \in 1..(Len(s) - (m + n))
          /\ n + i \in 1..(Len(s) - m) /\ m + (n + i) = (m + n) + i
        BY <1>1, <1>4, <1>7
    <2>. QED  BY <1>2, <1>4, <1>5, <2>1
<1>. QED  BY <1>4, <1>5, <1>6, <1>7, SeqEqual

-----------------------------------------------------------------------------
(* Numbers.                                                                *)

LEMMA QuotientsFacts ==
    ASSUME NEW number \in Nat, NEW length \in Nat
    PROVE  /\ Quotients(number, length)[0] = number
           /\ \A n \in 1..length : Quotients(number, length)[n] = Quotients(number, length)[n - 1] \div Base
           /\ \A n \in 0..length : Quotients(number, length)[n] \in Nat
<1>. DEFINE Q == Quotients(number, length)
            step == [i \in 1..length |-> [q \in Nat |-> q \div Base]]
<1>1. \A q \in Nat : q \div Base \in Nat
    BY Division
<1>2. step \in [1..length -> [Nat -> Nat]] /\ \A i \in 1..length : \A q \in Nat : step[i][q] = q \div Base
    BY <1>1
<1>. HIDE DEF step
<1>3. PICK f \in [0..length -> Nat] : Steps(f, length, number, step)
    BY <1>2, Recursion
<1>4. ASSUME NEW n \in 1..length  PROVE f[n] = f[n - 1] \div Base
    <2>1. f[n - 1] \in Nat /\ f[n] = step[n][f[n - 1]]
        BY <1>3 DEF Steps
    <2>. QED  BY <1>2, <2>1
<1>5. f = [n \in 0..length |-> IF n = 0 THEN number ELSE f[n - 1] \div Base]
    BY <1>3, <1>4 DEF Steps
<1>6. Q = [n \in 0..length |-> IF n = 0 THEN number ELSE Q[n - 1] \div Base]
    BY <1>5, Zenon DEF Quotients
<1>. HIDE DEF Q
<1>7. Q[0] = number /\ \A n \in 1..length : Q[n] = Q[n - 1] \div Base
    BY <1>6
<1>8. \A n \in 0..length : Q[n] \in Nat
    <2>1. Q[0] \in Nat /\ \A n \in 1..length : Q[n - 1] \in Nat => Q[n] \in Nat
        BY <1>1, <1>7
    <2>. QED  BY <2>1, EveryValue
<1>. QED  BY <1>7, <1>8 DEF Q

LEMMA DigitsFacts ==
    ASSUME NEW number \in Nat, NEW length \in Nat
    PROVE  /\ Digits(number, length) \in Seq(Byte) /\ Len(Digits(number, length)) = length
           /\ \A i \in 1..length :
                  Digits(number, length)[i] = (Quotients(number, length)[length - i] % Base)
<1>1. \A i \in 1..length : (Quotients(number, length)[length - i] % Base) \in Byte
    <2>1. SUFFICES ASSUME NEW i \in 1..length
                   PROVE  (Quotients(number, length)[length - i] % Base) \in Byte
        OBVIOUS
    <2>2. length - i \in 0..length
        OBVIOUS
    <2>3. Quotients(number, length)[length - i] \in Nat
        BY <2>2, QuotientsFacts
    <2>. QED  BY <2>3, Division
<1>. QED  BY <1>1 DEF Digits

\* The number that the first n bytes stand for.
BigEndianWith(data, n, number) == number * Base + data[n]

LEMMA BigEndianFacts ==
    ASSUME NEW data \in Seq(Byte)
    PROVE  \E number \in [0..Len(data) -> Nat] :
               /\ number[0] = 0
               /\ \A n \in 1..Len(data) : number[n] = number[n - 1] * Base + data[n]
               /\ BigEndian(data) = number[Len(data)]
<1>. DEFINE N == Len(data)
            step == [i \in 1..N |-> [e \in Nat |-> BigEndianWith(data, i, e)]]
            Numbers == CHOOSE number : number =
                [n \in 0..N |-> IF n = 0 THEN 0 ELSE number[n - 1] * Base + data[n]]
<1>1. N \in Nat /\ \A i \in 1..N : data[i] \in Nat
    BY ElementOfSeq, BaseFacts
<1>2. \A i \in 1..N : \A e \in Nat : BigEndianWith(data, i, e) \in Nat
    <2>1. SUFFICES ASSUME NEW i \in 1..N, NEW e \in Nat  PROVE BigEndianWith(data, i, e) \in Nat
        OBVIOUS
    <2>2. e * Base \in Nat /\ data[i] \in Nat
        BY <1>1, BaseFacts
    <2>. QED  BY <2>2 DEF BigEndianWith
<1>3. step \in [1..N -> [Nat -> Nat]]
      /\ \A i \in 1..N : \A e \in Nat : step[i][e] = BigEndianWith(data, i, e)
    BY <1>2
<1>. HIDE DEF step
<1>4. PICK f \in [0..N -> Nat] : Steps(f, N, 0, step)
    BY <1>1, <1>3, Recursion
<1>5. ASSUME NEW n \in 1..N  PROVE f[n] = BigEndianWith(data, n, f[n - 1])
    <2>1. f[n - 1] \in Nat /\ f[n] = step[n][f[n - 1]]
        BY <1>1, <1>4 DEF Steps
    <2>. QED  BY <1>3, <2>1
<1>6. f = [n \in 0..N |-> IF n = 0 THEN 0 ELSE BigEndianWith(data, n, f[n - 1])]
    BY <1>1, <1>4, <1>5 DEF Steps
<1>7. Numbers = [n \in 0..N |-> IF n = 0 THEN 0 ELSE BigEndianWith(data, n, Numbers[n - 1])]
    BY <1>6, Zenon DEF BigEndianWith
<1>8. BigEndian(data) = Numbers[N]
    BY Zenon DEF BigEndian
<1>. HIDE DEF Numbers, N
<1>9. Numbers[0] = 0 /\ \A n \in 1..N : Numbers[n] = BigEndianWith(data, n, Numbers[n - 1])
    BY <1>1, <1>7
<1>10. \A n \in 0..N : Numbers[n] \in Nat
    <2>1. Numbers[0] \in Nat
        BY <1>9
    <2>2. ASSUME NEW n \in 1..N, Numbers[n - 1] \in Nat  PROVE Numbers[n] \in Nat
        <3>1. BigEndianWith(data, n, Numbers[n - 1]) \in Nat
            BY <1>2, <2>2
        <3>. QED  BY <1>9, <3>1
    <2>3. \A n \in 1..N : Numbers[n - 1] \in Nat => Numbers[n] \in Nat
        BY <2>2
    <2>. QED  BY <1>1, <2>1, <2>3, EveryValue
<1>11. Numbers \in [0..N -> Nat]
    <2>1. DOMAIN Numbers = 0..N /\ Numbers = [n \in 0..N |-> Numbers[n]]
        BY <1>7
    <2>. QED  BY <1>10, <2>1
<1>. QED  BY <1>8, <1>9, <1>11 DEF N, BigEndianWith

\* A number that fits is read as it was written.
LEMMA NumberIsRead ==
    ASSUME NEW number \in Nat, NEW length \in Nat,
           Quotients(number, length)[length] = 0
    PROVE  BigEndian(Digits(number, length)) = number
<1>. DEFINE data == Digits(number, length)
            Q == Quotients(number, length)
<1>1. /\ data \in Seq(Byte) /\ Len(data) = length
      /\ \A i \in 1..length : data[i] = (Q[length - i] % Base)
    BY DigitsFacts
<1>2. /\ Q[0] = number /\ Q[length] = 0 /\ \A n \in 0..length : Q[n] \in Nat
      /\ \A n \in 1..length : Q[n] = Q[n - 1] \div Base
    BY QuotientsFacts
<1>3. PICK e \in [0..Len(data) -> Nat] :
               /\ e[0] = 0
               /\ \A n \in 1..Len(data) : e[n] = e[n - 1] * Base + data[n]
               /\ BigEndian(data) = e[Len(data)]
    BY <1>1, BigEndianFacts
<1>. HIDE DEF data, Q
<1>. DEFINE T == {n \in 0..length : e[n] = Q[length - n]}
<1>4. 0 \in T
    BY <1>2, <1>3
<1>5. ASSUME NEW n \in 1..length, n - 1 \in T  PROVE n \in T
    <2>1. e[n - 1] = Q[(length - n) + 1] /\ length - (n - 1) = (length - n) + 1
        BY <1>5
    <2>2. length - n \in 0..length /\ (length - n) + 1 \in 1..length /\ ((length - n) + 1) - 1 = length - n
        OBVIOUS
    <2>3. Q[(length - n) + 1] = Q[length - n] \div Base /\ Q[length - n] \in Nat
        BY <1>2, <2>2
    <2>4. e[n] = e[n - 1] * Base + data[n] /\ data[n] = (Q[length - n] % Base)
        BY <1>1, <1>3
    <2>5. Q[length - n] = (Q[length - n] \div Base) * Base + (Q[length - n] % Base)
        BY <2>3, Division
    <2>6. e[n] = Q[length - n]
        BY <2>1, <2>3, <2>4, <2>5, Zenon
    <2>. QED  BY <2>6
<1>. HIDE DEF T
<1>6. \A n \in 1..length : n - 1 \in T => n \in T
    BY <1>5
<1>7. length \in T
    <2>1. 0..length \subseteq T
        BY <1>4, <1>6, UpTo
    <2>. QED  BY <2>1
<1>8. e[length] = Q[0]
    BY <1>7 DEF T
<1>. QED  BY <1>1, <1>2, <1>3, <1>8 DEF data

-----------------------------------------------------------------------------
(* Where fields and records end.                                           *)

Ends == Nat \cup {Eof}

LEMMA VarlenEndRange ==
    ASSUME NEW bytes \in Seq(Byte), NEW offset \in Nat
    PROVE  /\ VarlenEnd(bytes, offset) \in Ends
           /\ VarlenEnd(bytes, offset) # Eof => VarlenEnd(bytes, offset) > offset
<1>1. Len(bytes) \in Nat /\ \A i \in 1..Len(bytes) : bytes[i] \in Nat
    BY ElementOfSeq, BaseFacts
<1>2. CASE offset >= Len(bytes)
    BY <1>2 DEF VarlenEnd, Ends
<1>3. CASE offset < Len(bytes) /\ bytes[offset + 1] < LongMarker
    <2>1. bytes[offset + 1] \in Nat
        BY <1>1, <1>3
    <2>. QED  BY <1>1, <1>3, <2>1 DEF VarlenEnd, Ends
<1>4. CASE offset < Len(bytes) /\ ~(bytes[offset + 1] < LongMarker) /\ offset + 3 > Len(bytes)
    BY <1>1, <1>4 DEF VarlenEnd, Ends
<1>5. CASE offset < Len(bytes) /\ ~(bytes[offset + 1] < LongMarker) /\ ~(offset + 3 > Len(bytes))
    <2>1. VarlenEnd(bytes, offset) = offset + 3 + bytes[offset + 2] * Base + bytes[offset + 3]
        BY <1>1, <1>5 DEF VarlenEnd
    <2>2. bytes[offset + 2] \in Nat /\ bytes[offset + 3] \in Nat
        BY <1>1, <1>5
    <2>3. bytes[offset + 2] * Base \in Nat
        BY <2>2, BaseFacts
    <2>. QED  BY <2>1, <2>2, <2>3 DEF Ends, Eof
<1>. QED  BY <1>1, <1>2, <1>3, <1>4, <1>5

\* A varlen field is found from any offset as it is from the front.
LEMMA VarlenEndAt ==
    ASSUME NEW bytes \in Seq(Byte), NEW offset \in 0..Len(bytes)
    PROVE  VarlenEnd(bytes, offset) = IF VarlenEnd(Drop(bytes, offset), 0) = Eof THEN Eof
                                      ELSE offset + VarlenEnd(Drop(bytes, offset), 0)
<1>. DEFINE d == Drop(bytes, offset)
<1>1. Len(bytes) \in Nat /\ (\A i \in 1..Len(bytes) : bytes[i] \in Nat) /\ Base \in Nat
    BY ElementOfSeq, BaseFacts
<1>2. Len(d) = Len(bytes) - offset /\ \A i \in 1..(Len(bytes) - offset) : d[i] = bytes[offset + i]
    BY TakeDrop
<1>. SUFFICES VarlenEnd(bytes, offset) = IF VarlenEnd(d, 0) = Eof THEN Eof
                                        ELSE offset + VarlenEnd(d, 0)
    OBVIOUS
<1>. HIDE DEF d
<1>3. CASE offset >= Len(bytes)
    BY <1>1, <1>2, <1>3 DEF VarlenEnd, Eof
<1>4. CASE offset < Len(bytes) /\ bytes[offset + 1] < LongMarker
    <2>1. d[1] = bytes[offset + 1] /\ d[1] \in Nat
        BY <1>1, <1>2, <1>4
    <2>2. VarlenEnd(d, 0) = 0 + 1 + d[1]
        BY <1>1, <1>2, <1>4, <2>1 DEF VarlenEnd
    <2>3. VarlenEnd(bytes, offset) = offset + 1 + d[1]
        BY <1>1, <1>4, <2>1 DEF VarlenEnd
    <2>4. offset \in Nat /\ VarlenEnd(d, 0) # Eof
        BY <1>1, <2>1, <2>2 DEF Eof
    <2>5. PICK e \in Nat : e = d[1]
        BY <2>1
    <2>6. VarlenEnd(d, 0) = 1 + e /\ VarlenEnd(bytes, offset) = offset + (1 + e)
        BY <2>2, <2>3, <2>4, <2>5
    <2>. QED  BY <2>4, <2>6
<1>5. CASE offset < Len(bytes) /\ ~(bytes[offset + 1] < LongMarker) /\ offset + 3 > Len(bytes)
    <2>1. d[1] = bytes[offset + 1]
        BY <1>1, <1>2, <1>5
    <2>2. VarlenEnd(d, 0) = Eof
        BY <1>1, <1>2, <1>5, <2>1 DEF VarlenEnd
    <2>3. VarlenEnd(bytes, offset) = Eof
        BY <1>1, <1>5 DEF VarlenEnd
    <2>. QED  BY <2>2, <2>3
<1>6. CASE offset < Len(bytes) /\ ~(bytes[offset + 1] < LongMarker) /\ ~(offset + 3 > Len(bytes))
    <2>. DEFINE long == d[2] * Base + d[3]
    <2>1. /\ d[1] = bytes[offset + 1] /\ d[2] = bytes[offset + 2] /\ d[3] = bytes[offset + 3]
          /\ d[2] \in Nat /\ d[3] \in Nat
        <3>1. Len(bytes) - offset \in Nat /\ {1, 2, 3} \subseteq 1..(Len(bytes) - offset)
            BY <1>1, <1>6
        <3>2. offset + 2 \in 1..Len(bytes) /\ offset + 3 \in 1..Len(bytes)
            BY <1>1, <1>6
        <3>. QED  BY <1>1, <1>2, <3>1, <3>2
    <2>2. d[2] * Base \in Nat
        BY <1>1, <2>1
    <2>3. VarlenEnd(d, 0) = 0 + 3 + d[2] * Base + d[3]
        <3>1. ~(0 >= Len(d)) /\ ~(0 + 3 > Len(d)) /\ 0 + 1 = 1 /\ 0 + 2 = 2 /\ 0 + 3 = 3
            BY <1>1, <1>2, <1>6
        <3>2. ~(d[0 + 1] < LongMarker)
            BY <1>6, <2>1, <3>1
        <3>. QED  BY <3>1, <3>2 DEF VarlenEnd
    <2>4. VarlenEnd(bytes, offset) = offset + 3 + d[2] * Base + d[3]
        BY <1>1, <1>6, <2>1 DEF VarlenEnd
    <2>5. PICK p \in Nat : p = d[2] * Base
        BY <2>2
    <2>6. VarlenEnd(d, 0) = 3 + p + d[3] /\ VarlenEnd(bytes, offset) = offset + 3 + p + d[3]
        BY <2>1, <2>3, <2>4, <2>5
    <2>7. offset \in Nat /\ 3 + p + d[3] \in Nat /\ offset + 3 + p + d[3] = offset + (3 + p + d[3])
        BY <1>1, <2>1
    <2>8. VarlenEnd(d, 0) # Eof
        BY <2>6, <2>7 DEF Eof
    <2>. QED  BY <2>6, <2>7, <2>8
<1>. QED  BY <1>1, <1>3, <1>4, <1>5, <1>6

\* Where a field ends that starts at from.
FieldEnd(bytes, length, from) ==
    IF from = Eof THEN Eof
    ELSE IF length = VariableLength THEN VarlenEnd(bytes, from)
    ELSE from + length

LEMMA FieldEndRange ==
    ASSUME NEW bytes \in Seq(Byte), NEW length \in U16, NEW from \in Ends
    PROVE  /\ FieldEnd(bytes, length, from) \in Ends
           /\ FieldEnd(bytes, length, from) # Eof => from # Eof /\ FieldEnd(bytes, length, from) >= from
<1>1. length \in Nat
    BY BaseFacts
<1>2. CASE from = Eof
    BY <1>2 DEF FieldEnd, Ends
<1>3. CASE from \in Nat /\ from # Eof
    <2>1. VarlenEnd(bytes, from) \in Ends /\ (VarlenEnd(bytes, from) # Eof => VarlenEnd(bytes, from) > from)
        BY <1>3, VarlenEndRange
    <2>2. from + length \in Nat /\ from + length >= from
        BY <1>1, <1>3
    <2>. QED  BY <1>3, <2>1, <2>2 DEF FieldEnd, Ends, Eof
<1>. QED  BY <1>2, <1>3 DEF Ends

LEMMA WalkFacts ==
    ASSUME NEW lengths \in Seq(U16), NEW bytes \in Seq(Byte)
    PROVE  /\ WalkOver(lengths, bytes)[0] = 0
           /\ \A n \in 1..Len(lengths) :
                  WalkOver(lengths, bytes)[n] = FieldEnd(bytes, lengths[n], WalkOver(lengths, bytes)[n - 1])
           /\ \A n \in 0..Len(lengths) : WalkOver(lengths, bytes)[n] \in Ends
<1>. DEFINE N == Len(lengths)
            W == WalkOver(lengths, bytes)
            step == [i \in 1..N |-> [e \in Ends |-> FieldEnd(bytes, lengths[i], e)]]
<1>1. N \in Nat /\ \A i \in 1..N : lengths[i] \in U16
    BY ElementOfSeq
<1>2. 0 \in Ends
    BY DEF Ends
<1>3. \A i \in 1..N : \A e \in Ends : FieldEnd(bytes, lengths[i], e) \in Ends
    BY <1>1, FieldEndRange
<1>4. step \in [1..N -> [Ends -> Ends]]
      /\ \A i \in 1..N : \A e \in Ends : step[i][e] = FieldEnd(bytes, lengths[i], e)
    BY <1>3
<1>. HIDE DEF step
<1>5. PICK f \in [0..N -> Ends] : Steps(f, N, 0, step)
    BY <1>1, <1>2, <1>4, Recursion
<1>6. ASSUME NEW n \in 1..N  PROVE f[n] = FieldEnd(bytes, lengths[n], f[n - 1])
    <2>1. f[n - 1] \in Ends /\ f[n] = step[n][f[n - 1]]
        BY <1>1, <1>5 DEF Steps
    <2>. QED  BY <1>4, <2>1
<1>7. f = [n \in 0..N |-> IF n = 0 THEN 0
                          ELSE IF f[n - 1] = Eof THEN Eof
                          ELSE IF lengths[n] = VariableLength THEN VarlenEnd(bytes, f[n - 1])
                          ELSE f[n - 1] + lengths[n]]
    BY <1>1, <1>5, <1>6 DEF Steps, FieldEnd
<1>8. W = [n \in 0..N |-> IF n = 0 THEN 0
                          ELSE IF W[n - 1] = Eof THEN Eof
                          ELSE IF lengths[n] = VariableLength THEN VarlenEnd(bytes, W[n - 1])
                          ELSE W[n - 1] + lengths[n]]
    BY <1>7, Zenon DEF WalkOver
<1>. HIDE DEF W, N
<1>9. W[0] = 0 /\ \A n \in 1..N : W[n] = FieldEnd(bytes, lengths[n], W[n - 1])
    BY <1>1, <1>8 DEF FieldEnd
<1>10. \A n \in 0..N : W[n] \in Ends
    <2>1. W[0] \in Ends
        BY <1>2, <1>9
    <2>2. \A n \in 1..N : W[n - 1] \in Ends => W[n] \in Ends
        BY <1>3, <1>9
    <2>. QED  BY <1>1, <2>1, <2>2, EveryValue
<1>. QED  BY <1>9, <1>10 DEF W, N

\* Where a record ends is inside the buffer.
LEMMA RecordEndRange ==
    ASSUME NEW lengths \in Seq(U16), NEW bytes \in Seq(Byte)
    PROVE  RecordEnd(lengths, bytes) \in 0..Len(bytes) \/ RecordEnd(lengths, bytes) = Eof
<1>1. Len(lengths) \in Nat /\ Len(bytes) \in Nat
    OBVIOUS
<1>2. WalkOver(lengths, bytes)[Len(lengths)] \in Ends
    BY <1>1, WalkFacts
<1>. QED  BY <1>1, <1>2 DEF RecordEnd, Within, Ends

\* The least a field takes.
LeastSize(length) == IF length = VariableLength THEN 1 ELSE length

States == [min : Nat, last_end : Nat, skips : Seq(U16), overflow : BOOLEAN]

LEMMA ScansFacts ==
    ASSUME NEW lengths \in Seq(U16)
    PROVE  /\ Scans(lengths)[0].min = 0
           /\ \A n \in 1..Len(lengths) :
                  Scans(lengths)[n].min = Scans(lengths)[n - 1].min + LeastSize(lengths[n])
           /\ \A n \in 0..Len(lengths) : Scans(lengths)[n].min \in Nat
<1>. DEFINE N == Len(lengths)
            W == Scans(lengths)
            step == [i \in 1..N |-> [s \in States |-> ScanField(s, lengths[i])]]
<1>1. N \in Nat /\ \A i \in 1..N : lengths[i] \in U16 /\ lengths[i] \in Nat
    BY ElementOfSeq, BaseFacts
<1>2. NothingScanned \in States
    BY DEF NothingScanned, States
<1>3. ASSUME NEW s \in States, NEW length \in Nat
      PROVE  ScanField(s, length) \in States /\ ScanField(s, length).min = s.min + LeastSize(length)
    BY DEF ScanField, States, LeastSize
<1>4. \A i \in 1..N : \A s \in States : ScanField(s, lengths[i]) \in States
    BY <1>1, <1>3
<1>5. step \in [1..N -> [States -> States]]
      /\ \A i \in 1..N : \A s \in States : step[i][s] = ScanField(s, lengths[i])
    BY <1>4
<1>. HIDE DEF step
<1>6. PICK f \in [0..N -> States] : Steps(f, N, NothingScanned, step)
    BY <1>1, <1>2, <1>5, Recursion
<1>7. ASSUME NEW n \in 1..N  PROVE f[n] = ScanField(f[n - 1], lengths[n])
    <2>1. f[n - 1] \in States /\ f[n] = step[n][f[n - 1]]
        BY <1>1, <1>6 DEF Steps
    <2>. QED  BY <1>5, <2>1
<1>8. f = [n \in 0..N |-> IF n = 0 THEN NothingScanned ELSE ScanField(f[n - 1], lengths[n])]
    BY <1>1, <1>6, <1>7 DEF Steps
<1>9. W = [n \in 0..N |-> IF n = 0 THEN NothingScanned ELSE ScanField(W[n - 1], lengths[n])]
    BY <1>8, Zenon DEF Scans
<1>. HIDE DEF W, N
<1>10. W[0] = NothingScanned /\ \A n \in 1..N : W[n] = ScanField(W[n - 1], lengths[n])
    BY <1>1, <1>9
<1>11. \A n \in 0..N : W[n] \in States
    <2>1. W[0] \in States /\ \A n \in 1..N : W[n - 1] \in States => W[n] \in States
        BY <1>2, <1>4, <1>10
    <2>. QED  BY <1>1, <2>1, EveryValue
<1>12. ASSUME NEW n \in 1..N  PROVE W[n].min = W[n - 1].min + LeastSize(lengths[n])
    <2>1. n - 1 \in 0..N
        BY <1>1
    <2>2. W[n - 1] \in States /\ lengths[n] \in Nat
        BY <1>1, <1>11, <2>1
    <2>. QED  BY <1>3, <1>10, <2>2
<1>13. \A n \in 0..N : W[n].min \in Nat
    BY <1>11 DEF States
<1>14. W[0].min = 0
    BY <1>10 DEF NothingScanned
<1>. QED  BY <1>12, <1>13, <1>14 DEF W, N

-----------------------------------------------------------------------------
(* What is written is read.                                                *)

LEMMA PrefixIsRead ==
    ASSUME NEW size \in U16, NEW more \in Seq(Byte)
    PROVE  /\ Prefix(size) \in Seq(Byte) /\ Len(Prefix(size)) \in 1..3
           /\ VarlenEnd(Prefix(size) \o more, 0) = Len(Prefix(size)) + size
           /\ PrefixSize(Prefix(size) \o more) = Len(Prefix(size))
<1>1. size \in Nat /\ size \div Base \in Byte /\ (size % Base) \in Byte
      /\ size = (size \div Base) * Base + (size % Base)
    <2>1. size \in Nat
        BY BaseFacts
    <2>. QED  BY <2>1, Division
<1>2. LongMarker \in Byte /\ \A i \in Byte : i \in Nat
    BY BaseFacts
<1>3. CASE size < LongMarker
    <2>. DEFINE p == <<size>>
                b == p \o more
    <2>1. size \in Byte
        BY <1>1, <1>3, BaseFacts
    <2>2. Prefix(size) = p
        BY <1>3 DEF Prefix
    <2>3. p \in Seq(Byte) /\ Len(p) = 1 /\ p[1] = size
        BY <2>1
    <2>4. Len(b) = 1 + Len(more) /\ Len(more) \in Nat /\ b[1] = size
        BY <2>3, ConcatTakeDrop
    <2>. HIDE DEF p, b
    <2>5. VarlenEnd(b, 0) = 0 + 1 + size /\ PrefixSize(b) = 1
        BY <1>3, <2>4 DEF VarlenEnd, PrefixSize
    <2>. QED  BY <1>1, <2>2, <2>3, <2>5 DEF b
<1>4. CASE ~(size < LongMarker)
    <2>. DEFINE high == size \div Base
                low == size % Base
                p == <<LongMarker, high, low>>
                b == p \o more
    <2>1. high \in Byte /\ low \in Byte /\ size = high * Base + low
        BY <1>1
    <2>. HIDE DEF high, low
    <2>2. Prefix(size) = p
        BY <1>4 DEF Prefix, high, low
    <2>3. p \in Seq(Byte) /\ Len(p) = 3 /\ p[1] = LongMarker /\ p[2] = high /\ p[3] = low
        BY <1>2, <2>1
    <2>. HIDE DEF p
    <2>4. Len(b) = 3 + Len(more) /\ Len(more) \in Nat /\ \A i \in 1..3 : b[i] = p[i]
        <3>1. Len(b) = Len(p) + Len(more) /\ Len(more) \in Nat /\ \A i \in 1..Len(p) : b[i] = p[i]
            BY <2>3, ConcatTakeDrop
        <3>. QED  BY <2>3, <3>1
    <2>5. b[1] = LongMarker /\ b[2] = high /\ b[3] = low
        BY <2>3, <2>4
    <2>. HIDE DEF b
    <2>6. ~(LongMarker < LongMarker) /\ LongMarker \in Nat
        BY <1>2
    <2>7. VarlenEnd(b, 0) = 0 + 3 + high * Base + low
        BY <2>4, <2>5, <2>6 DEF VarlenEnd
    <2>8. PrefixSize(b) = 3
        BY <2>5, <2>6 DEF PrefixSize
    <2>9. VarlenEnd(b, 0) = 3 + size
        <3>1. high * Base \in Nat /\ low \in Nat
            BY <1>2, <2>1, BaseFacts
        <3>. QED  BY <2>1, <2>7, <3>1
    <2>. QED  BY <2>2, <2>3, <2>8, <2>9 DEF b
<1>. QED  BY <1>3, <1>4

\* The bytes are the value, or the digits of the number that it is.
StandsFor(field, data, value) ==
    IF IsNumber(field) THEN BigEndian(data) = value ELSE data = value

LEMMA BytesConcat ==
    ASSUME NEW a \in Seq(Byte), NEW b \in Seq(Byte), NEW c \in Seq(Byte)
    PROVE  (a \o b) \o c = a \o (b \o c)
BY ConcatAssociative

\* A value that is written in front of other bytes is cut off them again.
LEMMA FieldIsRead ==
    ASSUME NEW field \in FieldSpecifier, NEW value, Fits(field, value), NEW more \in Seq(Byte)
    PROVE  /\ Written(field, value) \in Seq(Byte)
           /\ Len(Written(field, value)) >= LeastSize(field.length)
           /\ FieldEnd(Written(field, value) \o more, field.length, 0) = Len(Written(field, value))
           /\ \E data \in Seq(Byte) :
                  /\ CutFrom(field.length, Written(field, value) \o more) =
                         CutOff(data, Len(Written(field, value)))
                  /\ Len(data) = SizeOf(field, value)
                  /\ StandsFor(field, data, value)
<1>. DEFINE length == field.length
            w == Written(field, value)
            b == w \o more
<1>1. length \in U16 /\ length \in Nat /\ length # Eof
    BY BaseFacts DEF FieldSpecifier, Eof
<1>. SUFFICES /\ w \in Seq(Byte) /\ Len(w) >= LeastSize(length)
              /\ FieldEnd(b, length, 0) = Len(w)
              /\ \E data \in Seq(Byte) :
                     /\ CutFrom(length, b) = CutOff(data, Len(w))
                     /\ Len(data) = SizeOf(field, value)
                     /\ StandsFor(field, data, value)
    OBVIOUS
<1>2. CASE length = VariableLength
    <2>. DEFINE p == Prefix(Len(value))
    <2>1. ~IsNumber(field) /\ value \in Seq(Byte) /\ Len(value) \in U16
        BY <1>2, BaseFacts DEF Fits, IsNumber
    <2>2. w = p \o value
        BY <1>2 DEF Written
    <2>3. value \o more \in Seq(Byte)
        BY <2>1
    <2>4. /\ p \in Seq(Byte) /\ Len(p) \in 1..3
          /\ VarlenEnd(p \o (value \o more), 0) = Len(p) + Len(value)
          /\ PrefixSize(p \o (value \o more)) = Len(p)
        BY <2>1, <2>3, PrefixIsRead
    <2>. HIDE DEF p, w
    <2>5. b = p \o (value \o more)
        BY <2>1, <2>2, <2>4, BytesConcat
    <2>6. w \in Seq(Byte) /\ Len(w) = Len(p) + Len(value) /\ Len(value) \in Nat /\ Len(p) \in Nat
          /\ \A i \in 1..Len(value) : w[Len(p) + i] = value[i]
        BY <2>1, <2>2, <2>4, ConcatTakeDrop
    <2>7. /\ b \in Seq(Byte) /\ Len(b) = Len(w) + Len(more) /\ Len(more) \in Nat
          /\ \A i \in 1..Len(w) : b[i] = w[i]
        BY <2>6, ConcatTakeDrop
    <2>. HIDE DEF b
    <2>8. VarlenEnd(b, 0) = Len(w) /\ PrefixSize(b) = Len(p)
        BY <2>4, <2>5, <2>6
    <2>9. SubSeq(b, Len(p) + 1, Len(w)) = value
        <3>. DEFINE d == SubSeq(b, Len(p) + 1, Len(w))
        <3>1. \A i \in (Len(p) + 1)..Len(w) : b[i] \in Byte
            <4>1. \A i \in 1..Len(b) : b[i] \in Byte
                BY <2>7, ElementOfSeq
            <4>. QED  BY <2>6, <2>7, <4>1
        <3>2. Len(p) + 1 \in Int /\ Len(w) \in Int
            BY <2>6
        <3>3. /\ d \in Seq(Byte)
              /\ Len(d) = IF Len(p) + 1 <= Len(w) THEN Len(w) - (Len(p) + 1) + 1 ELSE 0
              /\ \A i \in 1..(Len(w) - (Len(p) + 1) + 1) : d[i] = b[(Len(p) + 1) + i - 1]
            BY <3>1, <3>2, SubSeqProperties
        <3>. HIDE DEF d
        <3>4. Len(d) = Len(value) /\ Len(w) - (Len(p) + 1) + 1 = Len(value)
            BY <2>6, <3>3
        <3>5. ASSUME NEW i \in 1..Len(d)  PROVE d[i] = value[i]
            <4>1. /\ i \in 1..Len(value) /\ (Len(p) + 1) + i - 1 = Len(p) + i
                  /\ Len(p) + i \in 1..Len(w)
                BY <2>6, <3>4
            <4>2. d[i] = b[Len(p) + i]
                BY <3>3, <3>4, <4>1
            <4>. QED  BY <2>6, <2>7, <4>1, <4>2
        <3>6. d = value
            BY <2>1, <3>3, <3>4, <3>5, SeqEqual
        <3>. QED  BY <3>6 DEF d
    <2>10. Len(w) # Eof /\ ~(Len(w) > Len(b))
        BY <2>6, <2>7 DEF Eof
    <2>11. CutFrom(length, b) = CutOff(value, Len(w))
        BY <1>2, <2>8, <2>9, <2>10 DEF CutFrom
    <2>12. Len(w) >= LeastSize(length)
        BY <1>2, <2>4, <2>6 DEF LeastSize
    <2>13. FieldEnd(b, length, 0) = Len(w)
        BY <1>2, <2>8 DEF FieldEnd, Eof
    <2>14. Len(value) = SizeOf(field, value)
        BY <1>2 DEF SizeOf
    <2>. QED  BY <2>1, <2>6, <2>11, <2>12, <2>13, <2>14 DEF StandsFor
<1>3. CASE length # VariableLength
    <2>1. w \in Seq(Byte) /\ Len(w) = length /\ StandsFor(field, w, value)
        <3>1. CASE IsNumber(field)
            <4>1. value \in Nat /\ Quotients(value, length)[length] = 0 /\ w = Digits(value, length)
                BY <1>3, <3>1 DEF Fits, Written
            <4>. HIDE DEF w
            <4>2. BigEndian(w) = value
                BY <1>1, <4>1, NumberIsRead
            <4>3. w \in Seq(Byte) /\ Len(w) = length
                BY <1>1, <4>1, DigitsFacts
            <4>. QED  BY <3>1, <4>2, <4>3, Zenon DEF StandsFor
        <3>2. CASE ~IsNumber(field)
            <4>1. value \in Seq(Byte) /\ Len(value) = length
                BY <1>3, <3>2 DEF Fits
            <4>2. w = value
                BY <1>3, <3>2 DEF Written
            <4>. QED  BY <3>2, <4>1, <4>2 DEF StandsFor
        <3>. QED  BY <3>1, <3>2
    <2>. HIDE DEF w
    <2>2. /\ b \in Seq(Byte) /\ Len(b) = Len(w) + Len(more) /\ Len(more) \in Nat
          /\ Take(b, Len(w)) = w
        BY <2>1, ConcatTakeDrop
    <2>. HIDE DEF b
    <2>3. ~(Len(b) < length)
        BY <1>1, <2>1, <2>2
    <2>4. CutFrom(length, b) = CutOff(w, Len(w))
        BY <1>3, <2>1, <2>2, <2>3 DEF CutFrom
    <2>5. Len(w) >= LeastSize(length)
        BY <1>1, <1>3, <2>1 DEF LeastSize
    <2>6. FieldEnd(b, length, 0) = Len(w)
        BY <1>1, <1>3, <2>1 DEF FieldEnd, Eof
    <2>7. Len(w) = SizeOf(field, value)
        BY <1>3, <2>1 DEF SizeOf
    <2>. QED  BY <2>1, <2>4, <2>5, <2>6, <2>7
<1>. QED  BY <1>2, <1>3

LEMMA LengthsFacts ==
    ASSUME NEW fields \in Seq(FieldSpecifier)
    PROVE  /\ Lengths(fields) \in Seq(U16) /\ Len(Lengths(fields)) = Len(fields)
           /\ \A i \in 1..Len(fields) : /\ Lengths(fields)[i] = fields[i].length
                                        /\ fields[i] \in FieldSpecifier
<1>1. Len(fields) \in Nat /\ DOMAIN fields = 1..Len(fields)
      /\ \A i \in 1..Len(fields) : fields[i] \in FieldSpecifier
    BY LenProperties, ElementOfSeq
<1>2. \A i \in 1..Len(fields) : fields[i].length \in U16
    BY <1>1 DEF FieldSpecifier
<1>. QED  BY <1>1, <1>2 DEF Lengths

\* The values of a record are of the fields' types.
IsRecord(fields, record) ==
    /\ DOMAIN record = DOMAIN fields
    /\ \A i \in DOMAIN fields : Fits(fields[i], record[i])

\* Field n from the end, in front of what stands behind it.
ValueInFront(fields, record, n, bytes) ==
    Written(fields[Len(fields) - n + 1], record[Len(fields) - n + 1]) \o bytes

LEMMA ValuesFacts ==
    ASSUME NEW fields \in Seq(FieldSpecifier), NEW record, IsRecord(fields, record)
    PROVE  /\ ValuesWritten(fields, record)[0] = <<>>
           /\ \A n \in 1..Len(fields) :
                  ValuesWritten(fields, record)[n] =
                      ValueInFront(fields, record, n, ValuesWritten(fields, record)[n - 1])
           /\ \A n \in 0..Len(fields) : ValuesWritten(fields, record)[n] \in Seq(Byte)
<1>. DEFINE N == Len(fields)
            V == ValuesWritten(fields, record)
            step == [i \in 1..N |-> [b \in Seq(Byte) |-> ValueInFront(fields, record, i, b)]]
<1>1. N \in Nat /\ DOMAIN fields = 1..N /\ \A i \in 1..N : fields[i] \in FieldSpecifier
    BY LenProperties, ElementOfSeq
<1>2. <<>> \in Seq(Byte)
    OBVIOUS
<1>3. ASSUME NEW n \in 1..N, NEW b \in Seq(Byte)
      PROVE  ValueInFront(fields, record, n, b) \in Seq(Byte)
    <2>1. N - n + 1 \in 1..N
        BY <1>1
    <2>2. fields[N - n + 1] \in FieldSpecifier /\ Fits(fields[N - n + 1], record[N - n + 1])
        BY <1>1, <2>1 DEF IsRecord
    <2>3. Written(fields[N - n + 1], record[N - n + 1]) \in Seq(Byte)
        BY <1>2, <2>2, FieldIsRead
    <2>. QED  BY <2>3, ConcatProperties DEF ValueInFront
<1>4. step \in [1..N -> [Seq(Byte) -> Seq(Byte)]]
      /\ \A i \in 1..N : \A b \in Seq(Byte) : step[i][b] = ValueInFront(fields, record, i, b)
    BY <1>3
<1>. HIDE DEF step
<1>5. PICK f \in [0..N -> Seq(Byte)] : Steps(f, N, <<>>, step)
    BY <1>1, <1>2, <1>4, Recursion
<1>6. ASSUME NEW n \in 1..N  PROVE f[n] = ValueInFront(fields, record, n, f[n - 1])
    <2>1. f[n - 1] \in Seq(Byte) /\ f[n] = step[n][f[n - 1]]
        BY <1>1, <1>5 DEF Steps
    <2>. QED  BY <1>4, <2>1
<1>7. f = [n \in 0..N |-> IF n = 0 THEN <<>> ELSE ValueInFront(fields, record, n, f[n - 1])]
    BY <1>1, <1>5, <1>6 DEF Steps
<1>8. V = [n \in 0..N |-> IF n = 0 THEN <<>> ELSE ValueInFront(fields, record, n, V[n - 1])]
    BY <1>7, Zenon DEF ValuesWritten, ValueInFront
<1>. HIDE DEF V, N
<1>9. V[0] = <<>> /\ \A n \in 1..N : V[n] = ValueInFront(fields, record, n, V[n - 1])
    BY <1>1, <1>8
<1>10. \A n \in 0..N : V[n] \in Seq(Byte)
    <2>1. V[0] \in Seq(Byte) /\ \A n \in 1..N : V[n - 1] \in Seq(Byte) => V[n] \in Seq(Byte)
        BY <1>2, <1>3, <1>9
    <2>. QED  BY <1>1, <2>1, EveryValue
<1>. QED  BY <1>9, <1>10 DEF V, N

LEMMA FieldEndAt ==
    ASSUME NEW bytes \in Seq(Byte), NEW length \in U16, NEW from \in 0..Len(bytes),
           NEW size \in Nat, FieldEnd(Drop(bytes, from), length, 0) = size
    PROVE  FieldEnd(bytes, length, from) = from + size
<1>1. length \in Nat /\ from \in Nat /\ from # Eof /\ 0 # Eof /\ size # Eof
    BY BaseFacts DEF Eof
<1>2. CASE length = VariableLength
    <2>1. VarlenEnd(Drop(bytes, from), 0) = size
        BY <1>1, <1>2 DEF FieldEnd
    <2>2. VarlenEnd(bytes, from) = from + size
        BY <1>1, <2>1, VarlenEndAt
    <2>. QED  BY <1>1, <1>2, <2>2 DEF FieldEnd
<1>3. CASE length # VariableLength
    BY <1>1, <1>3 DEF FieldEnd
<1>. QED  BY <1>2, <1>3

\* A record that is written in front of other bytes ends where it ends.
LEMMA RecordIsRead ==
    ASSUME NEW fields \in Seq(FieldSpecifier), NEW record, IsRecord(fields, record),
           NEW more \in Seq(Byte)
    PROVE  /\ RecordWritten(fields, record) \in Seq(Byte)
           /\ RecordEnd(Lengths(fields), RecordWritten(fields, record) \o more) =
                  Len(RecordWritten(fields, record))
           /\ Len(RecordWritten(fields, record) \o more) >= Scan(Lengths(fields)).min
<1>. DEFINE N == Len(fields)
            lengths == Lengths(fields)
            V == ValuesWritten(fields, record)
            R == RecordWritten(fields, record)
            b == R \o more
            W == WalkOver(lengths, b)
            M == Scans(lengths)
<1>1. N \in Nat /\ DOMAIN fields = 1..N /\ lengths \in Seq(U16) /\ Len(lengths) = N
      /\ \A i \in 1..N : lengths[i] = fields[i].length /\ lengths[i] \in U16 /\ fields[i] \in FieldSpecifier
    BY LenProperties, LengthsFacts, ElementOfSeq
<1>2. /\ V[0] = <<>> /\ \A n \in 1..N : V[n] = ValueInFront(fields, record, n, V[n - 1])
      /\ \A n \in 0..N : V[n] \in Seq(Byte)
    BY ValuesFacts
<1>3. R = V[N] /\ R \in Seq(Byte) /\ N \in 0..N
    BY <1>1, <1>2 DEF RecordWritten
<1>4. /\ b \in Seq(Byte) /\ Len(b) = Len(R) + Len(more) /\ Len(R) \in Nat /\ Len(more) \in Nat
    BY <1>3, ConcatTakeDrop
<1>5. W[0] = 0 /\ \A n \in 1..N : W[n] = FieldEnd(b, lengths[n], W[n - 1])
    BY <1>1, <1>4, WalkFacts
<1>6. /\ M[0].min = 0 /\ \A n \in 0..N : M[n].min \in Nat
      /\ \A n \in 1..N : M[n].min = M[n - 1].min + LeastSize(lengths[n])
    BY <1>1, ScansFacts
<1>7. \A n \in 0..N : V[n] \o more \in Seq(Byte) /\ Len(V[n] \o more) = Len(V[n]) + Len(more)
                       /\ Len(V[n]) \in Nat
    BY <1>2, ConcatTakeDrop
<1>. DEFINE T == {n \in 0..N : /\ W[n] \in Nat /\ W[n] = Len(R) - Len(V[N - n])
                               /\ Drop(b, W[n]) = V[N - n] \o more
                               /\ W[n] >= M[n].min}
<1>. HIDE DEF N, lengths, V, R, W, M
<1>8. 0 \in T
    <2>1. N - 0 = N /\ 0 \in 0..N
        BY <1>1
    <2>2. Drop(b, 0) = b
        <3>1. 0 \in 0..Len(b)
            BY <1>4
        <3>2. /\ Drop(b, 0) \in Seq(Byte) /\ Len(Drop(b, 0)) = Len(b) - 0
              /\ \A i \in 1..(Len(b) - 0) : Drop(b, 0)[i] = b[0 + i]
            BY <1>4, <3>1, TakeDrop
        <3>. HIDE DEF b
        <3>3. Len(Drop(b, 0)) = Len(b) /\ \A i \in 1..Len(Drop(b, 0)) : Drop(b, 0)[i] = b[i]
            BY <1>4, <3>2
        <3>. QED  BY <1>4, <3>2, <3>3, SeqEqual
    <2>3. V[N - 0] = R
        BY <1>3, <2>1
    <2>4. W[0] = 0 /\ W[0] \in Nat /\ W[0] >= M[0].min
        BY <1>5, <1>6
    <2>5. W[0] = Len(R) - Len(V[N - 0])
        BY <1>4, <2>3, <2>4
    <2>6. Drop(b, W[0]) = V[N - 0] \o more
        BY <2>2, <2>3, <2>4, Zenon
    <2>. QED  BY <2>1, <2>4, <2>5, <2>6
<1>. HIDE DEF b
<1>9. ASSUME NEW n \in 1..N, n - 1 \in T  PROVE n \in T
    <2>. DEFINE w == Written(fields[n], record[n])
                left == V[N - n]
    <2>1. /\ W[n - 1] \in Nat /\ W[n - 1] = Len(R) - Len(V[N - (n - 1)])
          /\ Drop(b, W[n - 1]) = V[N - (n - 1)] \o more
          /\ W[n - 1] >= M[n - 1].min
        BY <1>9
    <2>2. N - (n - 1) \in 1..N /\ (N - (n - 1)) - 1 = N - n /\ N - n \in 0..N /\ n - 1 \in 0..N
          /\ N - (N - (n - 1)) + 1 = n
        BY <1>1
    <2>3. V[N - (n - 1)] = w \o left
        <3>1. V[N - (n - 1)] = ValueInFront(fields, record, N - (n - 1), V[(N - (n - 1)) - 1])
            BY <1>2, <2>2
        <3>. QED  BY <2>2, <3>1 DEF ValueInFront, N
    <2>4. left \in Seq(Byte) /\ left \o more \in Seq(Byte) /\ Len(left \o more) = Len(left) + Len(more)
          /\ Len(left) \in Nat
        BY <1>2, <1>7, <2>2
    <2>5. fields[n] \in FieldSpecifier /\ Fits(fields[n], record[n]) /\ lengths[n] = fields[n].length
        BY <1>1 DEF IsRecord
    <2>6. /\ w \in Seq(Byte) /\ Len(w) >= LeastSize(lengths[n])
          /\ FieldEnd(w \o (left \o more), lengths[n], 0) = Len(w)
        <3>1. PICK m \in Seq(Byte) : m = left \o more
            BY <2>4
        <3>2. /\ w \in Seq(Byte) /\ Len(w) >= LeastSize(fields[n].length)
              /\ FieldEnd(w \o m, fields[n].length, 0) = Len(w)
            BY <2>5, FieldIsRead
        <3>. QED  BY <2>5, <3>1, <3>2, Zenon
    <2>. HIDE DEF w, left
    <2>7. Len(w) \in Nat /\ Len(w \o left) = Len(w) + Len(left)
          /\ (w \o left) \o more = w \o (left \o more)
        <3>1. Len(w) \in Nat /\ Len(w \o left) = Len(w) + Len(left)
            BY <2>4, <2>6, ConcatTakeDrop
        <3>2. (w \o left) \o more = w \o (left \o more)
            <4>1. w \in Seq(Byte) /\ left \in Seq(Byte) /\ more \in Seq(Byte)
                BY <2>4, <2>6
            <4>. QED  BY <4>1, BytesConcat
        <3>. QED  BY <3>1, <3>2
    <2>8. Drop(b, W[n - 1]) = w \o (left \o more)
        BY <2>1, <2>3, <2>7
    <2>9. /\ Len(w \o (left \o more)) = Len(w) + Len(left \o more)
          /\ Drop(w \o (left \o more), Len(w)) = left \o more
        BY <2>4, <2>6, ConcatTakeDrop
    <2>10. W[n - 1] = Len(R) - (Len(w) + Len(left))
        BY <2>1, <2>3, <2>7
    <2>11. W[n - 1] \in 0..Len(b) /\ Len(w) \in 0..(Len(b) - W[n - 1])
        <3>1. PICK x, y, z, u, v \in Nat : x = Len(w) /\ y = Len(left) /\ z = Len(R) /\ u = Len(more)
                                         /\ v = W[n - 1]
            BY <1>4, <2>1, <2>4, <2>7
        <3>2. v = z - (x + y) /\ Len(b) = z + u
            BY <1>4, <2>10, <3>1
        <3>3. v \in 0..(z + u) /\ x \in 0..((z + u) - v)
            BY <3>2
        <3>. QED  BY <3>1, <3>2, <3>3
    <2>12. W[n] = W[n - 1] + Len(w)
        <3>1. PICK from \in 0..Len(b) : from = W[n - 1]
            BY <2>11
        <3>2. FieldEnd(Drop(b, from), lengths[n], 0) = Len(w) /\ lengths[n] \in U16
            BY <1>1, <2>6, <2>8, <3>1
        <3>3. FieldEnd(b, lengths[n], from) = from + Len(w)
            BY <1>4, <2>7, <3>2, FieldEndAt
        <3>. QED  BY <1>5, <3>1, <3>3
    <2>13. Drop(b, W[n]) = left \o more
        BY <1>4, <2>8, <2>9, <2>11, <2>12, DropTwice
    <2>14. W[n] \in Nat /\ W[n] = Len(R) - Len(left)
        BY <1>4, <2>1, <2>4, <2>7, <2>10, <2>12
    <2>15. W[n] >= M[n].min
        <3>1. M[n].min = M[n - 1].min + LeastSize(lengths[n]) /\ M[n - 1].min \in Nat
            BY <1>6, <2>2
        <3>2. LeastSize(lengths[n]) \in Nat
            BY <1>1, BaseFacts DEF LeastSize
        <3>3. PICK x, y, m, l \in Nat : /\ x = W[n - 1] /\ y = Len(w)
                                        /\ m = M[n - 1].min /\ l = LeastSize(lengths[n])
            BY <2>1, <2>7, <3>1, <3>2
        <3>4. x >= m /\ y >= l
            BY <2>1, <2>6, <3>3
        <3>5. x + y >= m + l
            BY <3>4
        <3>. QED  BY <2>12, <3>1, <3>3, <3>5
    <2>. QED  BY <2>13, <2>14, <2>15 DEF left
<1>. HIDE DEF T
<1>10. N \in T
    <2>1. \A n \in 1..N : n - 1 \in T => n \in T
        BY <1>9
    <2>2. 0..N \subseteq T
        BY <1>1, <1>8, <2>1, UpTo
    <2>. QED  BY <1>1, <2>2
<1>11. W[N] = Len(R) /\ W[N] >= M[N].min
    <2>1. W[N] = Len(R) - Len(V[N - N]) /\ W[N] >= M[N].min
        BY <1>10 DEF T
    <2>2. N - N = 0 /\ Len(V[0]) = 0
        BY <1>1, <1>2
    <2>. QED  BY <1>4, <2>1, <2>2
<1>12. RecordEnd(lengths, b) = Len(R)
    <2>1. RecordEnd(lengths, b) = IF W[N] = Eof THEN Eof ELSE Within(b, W[N])
        BY <1>1 DEF RecordEnd, W
    <2>2. W[N] # Eof /\ ~(W[N] > Len(b))
        BY <1>4, <1>11 DEF Eof
    <2>. QED  BY <1>11, <2>1, <2>2 DEF Within
<1>13. Len(b) >= M[N].min
    BY <1>1, <1>4, <1>6, <1>11
<1>14. Scan(lengths).min = M[N].min
    BY <1>1 DEF Scan, M
<1>. QED  BY <1>3, <1>12, <1>13, <1>14 DEF b, R, lengths

\* Record n from the end, in front of what stands behind it.
RecordInFront(set, n, bytes) ==
    RecordWritten(set.definition.fields, set.records[Len(set.records) - n + 1]) \o bytes

LEMMA DataSetFacts ==
    ASSUME NEW set, IsDataSet(set)
    PROVE  /\ set.definition \in Template
           /\ set.definition.fields \in FieldLists
           /\ set.definition.fields \in Seq(FieldSpecifier) /\ set.definition.fields # <<>>
           /\ Len(set.records) \in Nat /\ DOMAIN set.records = 1..Len(set.records)
           /\ \A r \in 1..Len(set.records) : IsRecord(set.definition.fields, set.records[r])
           /\ set.tail \in Seq(Byte)
BY JsonAssumption DEF JsonAssumption, IsDataSet, IsSequence, IsRecord, Template

LEMMA RecordsFacts ==
    ASSUME NEW set, IsDataSet(set)
    PROVE  /\ RecordsWritten(set)[0] = set.tail
           /\ \A n \in 1..Len(set.records) :
                  RecordsWritten(set)[n] = RecordInFront(set, n, RecordsWritten(set)[n - 1])
           /\ \A n \in 0..Len(set.records) : RecordsWritten(set)[n] \in Seq(Byte)
<1>. DEFINE N == Len(set.records)
            V == RecordsWritten(set)
            step == [i \in 1..N |-> [b \in Seq(Byte) |-> RecordInFront(set, i, b)]]
<1>1. N \in Nat /\ set.tail \in Seq(Byte) /\ set.definition.fields \in Seq(FieldSpecifier)
      /\ \A r \in 1..N : IsRecord(set.definition.fields, set.records[r])
    BY DataSetFacts
<1>2. ASSUME NEW n \in 1..N, NEW b \in Seq(Byte)
      PROVE  RecordInFront(set, n, b) \in Seq(Byte)
    <2>1. N - n + 1 \in 1..N
        BY <1>1
    <2>2. RecordWritten(set.definition.fields, set.records[N - n + 1]) \in Seq(Byte)
        BY <1>1, <1>2, <2>1, RecordIsRead
    <2>. QED  BY <2>2, ConcatProperties DEF RecordInFront
<1>3. step \in [1..N -> [Seq(Byte) -> Seq(Byte)]]
      /\ \A i \in 1..N : \A b \in Seq(Byte) : step[i][b] = RecordInFront(set, i, b)
    BY <1>2
<1>. HIDE DEF step, N
<1>4. PICK f \in [0..N -> Seq(Byte)] : Steps(f, N, set.tail, step)
    BY <1>1, <1>3, Recursion
<1>5. ASSUME NEW n \in 1..N  PROVE f[n] = RecordInFront(set, n, f[n - 1])
    <2>1. n - 1 \in 0..N
        BY <1>1
    <2>2. f[n - 1] \in Seq(Byte) /\ f[n] = step[n][f[n - 1]]
        BY <1>4, <2>1 DEF Steps
    <2>. QED  BY <1>3, <2>2
<1>6. f = [n \in 0..N |-> IF n = 0 THEN set.tail ELSE RecordInFront(set, n, f[n - 1])]
    BY <1>1, <1>4, <1>5 DEF Steps
<1>. USE DEF N
<1>7. V = [n \in 0..N |-> IF n = 0 THEN set.tail ELSE RecordInFront(set, n, V[n - 1])]
    BY <1>6, Zenon DEF RecordsWritten, RecordInFront
<1>. HIDE DEF V, N
<1>8. V[0] = set.tail /\ \A n \in 1..N : V[n] = RecordInFront(set, n, V[n - 1])
    BY <1>1, <1>7
<1>9. \A n \in 0..N : V[n] \in Seq(Byte)
    <2>1. V[0] \in Seq(Byte) /\ \A n \in 1..N : V[n - 1] \in Seq(Byte) => V[n] \in Seq(Byte)
        BY <1>1, <1>2, <1>8
    <2>. QED  BY <1>1, <2>1, EveryValue
<1>. QED  BY <1>8, <1>9 DEF V, N

\* A varlen field that is found inside the buffer occupies what it is found in.
LEMMA VarlenOccupies ==
    ASSUME NEW bytes \in Seq(Byte), NEW from \in Nat, NEW to \in from..Len(bytes),
           VarlenEnd(bytes, from) = to
    PROVE  Occupies(bytes, VariableLength, from, to)
<1>1. Len(bytes) \in Nat /\ (\A i \in 1..Len(bytes) : bytes[i] \in 0..LongMarker)
      /\ LongMarker \in Nat /\ Base \in Nat
    BY ElementOfSeq, BaseFacts
<1>2. from < Len(bytes) /\ to # Eof
    BY <1>1 DEF VarlenEnd, Eof
<1>3. CASE bytes[from + 1] < LongMarker
    <2>1. bytes[from + 1] \in Nat
        BY <1>1, <1>2
    <2>2. to = from + 1 + bytes[from + 1]
        BY <1>1, <1>2, <1>3 DEF VarlenEnd
    <2>. QED  BY <1>3, <2>1, <2>2 DEF Occupies
<1>4. CASE ~(bytes[from + 1] < LongMarker)
    <2>1. bytes[from + 1] = LongMarker
        <3>1. bytes[from + 1] \in 0..LongMarker
            BY <1>1, <1>2
        <3>. QED  BY <1>1, <1>4, <3>1
    <2>2. ~(from + 3 > Len(bytes))
        BY <1>1, <1>2, <1>4 DEF VarlenEnd
    <2>3. to = from + 3 + bytes[from + 2] * Base + bytes[from + 3]
        BY <1>1, <1>2, <1>4, <2>2 DEF VarlenEnd
    <2>4. bytes[from + 2] \in Nat /\ bytes[from + 3] \in Nat
        BY <1>1, <2>2
    <2>5. PICK p \in Nat : p = bytes[from + 2] * Base
        <3>1. PICK x \in Nat : x = bytes[from + 2]
            BY <2>4
        <3>2. x * Base \in Nat
            BY <1>1
        <3>. QED  BY <3>1, <3>2
    <2>6. PICK q \in Nat : q = bytes[from + 3]
        BY <2>4
    <2>7. to = from + 3 + p + q /\ to \in Nat
        BY <2>3, <2>5, <2>6
    <2>8. from + 3 <= to /\ p + q = to - from - 3
        BY <2>7
    <2>9. bytes[from + 2] * Base + bytes[from + 3] = to - from - 3
        BY <2>5, <2>6, <2>8
    <2>. QED  BY <2>1, <2>8, <2>9 DEF Occupies
<1>. QED  BY <1>3, <1>4

\* What the walk finds is a record, so that it finds none where there is none.
LEMMA NoneIsFound ==
    ASSUME NEW lengths \in Seq(U16), NEW bytes \in Seq(Byte), CutsOf(lengths, bytes) = {}
    PROVE  RecordEnd(lengths, bytes) = Eof
<1>. DEFINE N == Len(lengths)
            W == WalkOver(lengths, bytes)
            ends == [n \in 1..N |-> W[n]]
<1>1. SUFFICES ASSUME RecordEnd(lengths, bytes) # Eof  PROVE ends \in CutsOf(lengths, bytes)
    OBVIOUS
<1>2. N \in Nat /\ Len(bytes) \in Nat /\ \A n \in 1..N : lengths[n] \in U16 /\ lengths[n] \in Nat
    BY ElementOfSeq, BaseFacts
<1>3. W[0] = 0 /\ (\A n \in 1..N : W[n] = FieldEnd(bytes, lengths[n], W[n - 1]))
      /\ \A n \in 0..N : W[n] \in Ends
    BY WalkFacts
<1>4. W[N] \in Nat /\ W[N] <= Len(bytes) /\ W[N] # Eof
    <2>1. W[N] # Eof /\ ~(W[N] > Len(bytes))
        BY <1>1 DEF RecordEnd, Within
    <2>. QED  BY <1>2, <1>3, <2>1 DEF Ends
<1>. DEFINE T == {k \in 0..N : W[N - k] \in Nat /\ W[N - k] # Eof /\ W[N - k] <= Len(bytes)}
<1>. HIDE DEF N, W
<1>5. 0 \in T
    <2>1. N - 0 = N
        BY <1>2
    <2>. QED  BY <1>2, <1>4, <2>1
<1>6. ASSUME NEW k \in 1..N, k - 1 \in T  PROVE k \in T
    <2>1. N - (k - 1) \in 1..N /\ (N - (k - 1)) - 1 = N - k /\ N - k \in 0..N
        BY <1>2
    <2>2. W[N - (k - 1)] \in Nat /\ W[N - (k - 1)] # Eof /\ W[N - (k - 1)] <= Len(bytes)
        BY <1>6
    <2>3. W[N - k] \in Ends /\ lengths[N - (k - 1)] \in U16
          /\ W[N - (k - 1)] = FieldEnd(bytes, lengths[N - (k - 1)], W[N - k])
        BY <1>2, <1>3, <2>1
    <2>4. W[N - k] # Eof /\ W[N - (k - 1)] >= W[N - k]
        BY <2>2, <2>3, FieldEndRange
    <2>. QED  BY <1>2, <2>2, <2>3, <2>4 DEF Ends
<1>7. \A k \in 0..N : k \in T
    <2>. HIDE DEF T
    <2>1. \A k \in 1..N : k - 1 \in T => k \in T
        BY <1>6
    <2>2. 0..N \subseteq T
        BY <1>2, <1>5, <2>1, UpTo
    <2>. QED  BY <2>2
<1>8. ASSUME NEW n \in 0..N  PROVE W[n] \in 0..Len(bytes) /\ W[n] # Eof
    <2>1. N - n \in 0..N /\ N - (N - n) = n
        BY <1>2
    <2>2. N - n \in T
        BY <1>7, <2>1
    <2>. QED  BY <1>2, <2>1, <2>2
<1>. HIDE DEF T
<1>9. ASSUME NEW n \in 1..N
      PROVE  /\ ends[n] \in 0..Len(bytes)
             /\ (IF n = 1 THEN 0 ELSE ends[n - 1]) = W[n - 1]
             /\ W[n - 1] <= ends[n] /\ Occupies(bytes, lengths[n], W[n - 1], ends[n])
    <2>1. n - 1 \in 0..N /\ (n # 1 => n - 1 \in 1..N) /\ n \in 0..N
        BY <1>2
    <2>2. ends[n] = W[n] /\ W[n] \in 0..Len(bytes) /\ W[n] # Eof
          /\ W[n - 1] \in 0..Len(bytes) /\ W[n - 1] # Eof
        BY <1>8, <2>1
    <2>3. (IF n = 1 THEN 0 ELSE ends[n - 1]) = W[n - 1]
        BY <1>3, <2>1
    <2>4. W[n] = FieldEnd(bytes, lengths[n], W[n - 1]) /\ lengths[n] \in U16
        BY <1>2, <1>3
    <2>5. W[n - 1] \in Ends
        BY <1>3, <2>1
    <2>6. W[n - 1] <= W[n]
        BY <2>2, <2>4, <2>5, FieldEndRange
    <2>7. Occupies(bytes, lengths[n], W[n - 1], W[n])
        <3>1. CASE lengths[n] = VariableLength
            <4>1. VarlenEnd(bytes, W[n - 1]) = W[n]
                BY <2>2, <2>4, <3>1 DEF FieldEnd
            <4>2. W[n - 1] \in Nat /\ W[n] \in W[n - 1]..Len(bytes)
                BY <1>2, <2>2, <2>6
            <4>. QED  BY <3>1, <4>1, <4>2, VarlenOccupies
        <3>2. CASE lengths[n] # VariableLength
            BY <2>2, <2>4, <3>2 DEF FieldEnd, Occupies
        <3>. QED  BY <3>1, <3>2
    <2>. QED  BY <2>2, <2>3, <2>6, <2>7
<1>10. ends \in [1..N -> 0..Len(bytes)]
    BY <1>9
<1>. HIDE DEF ends
<1>. QED  BY <1>9, <1>10 DEF CutsOf, N

-----------------------------------------------------------------------------
(* The inductive invariant, first of all its types.                        *)

\* What a capture carries.
Carry == {frame.message : frame \in Frames} \ {NoMessage}
Line == [datagram : Nat, set : Nat, odid : Odids, sequence : Nat, flow : Flows]

Here == <<datagram, set_idx>>
AtSet == datagram <= Len(payloads) /\ HeaderDecodes /\ set_idx <= Len(Message.sets)
Decoding == stage \in {"run", "done"}

\* Loading comes first and leaves the rest alone.
Loaded ==
    /\ stage \in {"load", "run", "done", "failed"}
    /\ captured \in Seq(Frames) /\ frame_idx \in 1..(Len(captured) + 1)
    /\ payloads \in Seq(Carry) /\ payloads = DatagramsIn[frame_idx - 1]
    /\ datagram \in 1..(Len(payloads) + 1)
    /\ stage = "load" => /\ templates = <<>> /\ emitted = <<>> /\ layout = NoLayout
                         /\ datagram = 1 /\ set_idx = 1 /\ record_idx = 1
    /\ Decoding => frame_idx = Len(captured) + 1
    /\ stage = "done" => datagram > Len(payloads)

\* What the loops over sets and template records have gone past is in order.
InPlace ==
    /\ set_idx \in Nat \ {0} /\ record_idx \in Nat \ {0}
    /\ datagram <= Len(payloads) =>
           /\ set_idx # 1 => HeaderDecodes /\ set_idx <= Len(Message.sets) + 1
           /\ \A j \in 1..(set_idx - 1) : Message.sets[j].kind # "Malformed"
    /\ AtSet /\ Current.kind \in TemplateKinds =>
           /\ record_idx <= Len(Current.records) + 1
           /\ \A k \in 1..(record_idx - 1) : Current.records[k] # Bad
    /\ AtSet /\ Current.kind \notin TemplateKinds => record_idx = 1

\* A layout is in force in a data set only.
InData ==
    /\ layout \in FieldLists \cup {NoLayout} /\ field_idx \in 0..(Len(layout) + 1)
    /\ layout = NoLayout => field_idx = 0
    /\ layout # NoLayout => stage = "run" /\ AtSet /\ Current.kind = "Data"
    /\ rest \in Seq(Byte) /\ unread \in Seq(Byte)
    /\ flow \in Flows /\ emitted \in Seq(Line)

TypesInv == IndInv /\ Idle /\ Loaded /\ InPlace /\ InData

LEMMA CarryFacts ==
    ASSUME NEW message \in Carry
    PROVE  /\ message # NoMessage /\ IsMessage(message)
           /\ message.version \in Nat /\ message.odid \in Odids /\ message.sequence \in Nat
           /\ Len(message.sets) \in Nat /\ DOMAIN message.sets = 1..Len(message.sets)
           /\ \A j \in 1..Len(message.sets) : IsSet(message.sets[j])
<1>1. message # NoMessage /\ IsMessage(message)
    BY JsonAssumption DEF JsonAssumption, Carry, IsFrame
<1>. QED  BY <1>1 DEF IsMessage, IsSequence

\* The message and the set in hand.
LEMMA AtHand ==
    ASSUME TypesInv
    PROVE  /\ \A i \in 1..Len(payloads) : payloads[i] \in Carry
           /\ datagram \in Nat \ {0} /\ Len(payloads) \in Nat
           /\ datagram <= Len(payloads) => Message \in Carry
           /\ AtSet => set_idx \in 1..Len(Message.sets) /\ IsSet(Current)
<1>1. (\A i \in 1..Len(payloads) : payloads[i] \in Carry)
      /\ datagram \in Nat \ {0} /\ Len(payloads) \in Nat
    BY ElementOfSeq, LenProperties DEF TypesInv, Loaded
<1>2. datagram <= Len(payloads) => Message \in Carry
    BY <1>1 DEF Message
<1>3. ASSUME AtSet  PROVE set_idx \in 1..Len(Message.sets) /\ IsSet(Current)
    <2>1. Len(Message.sets) \in Nat /\ \A j \in 1..Len(Message.sets) : IsSet(Message.sets[j])
        BY <1>2, <1>3, CarryFacts DEF AtSet
    <2>2. set_idx \in 1..Len(Message.sets)
        BY <1>3, <2>1 DEF AtSet, TypesInv, InPlace
    <2>. QED  BY <2>1, <2>2 DEF Current
<1>. QED  BY <1>1, <1>2, <1>3

LEMMA UnitIsASession == Unit \in Sessions
BY JsonAssumption, Zenon DEF JsonAssumption, Unit

-----------------------------------------------------------------------------
(* The store.                                                              *)

\* The collector only calls the store.
LEMMA StoreInv ==
    ASSUME TypesInv, JsonNext
    PROVE  IndInv' /\ Idle'
<1>1. CASE HandleTemplate
    <2>1. AtSet /\ Current.kind \in TemplateKinds /\ NextIsGood
          /\ Insert(Unit, Message.odid, Current.records[record_idx])
        BY <1>1 DEF HandleTemplate, InSets, Running, AtSet
    <2>2. Message.odid \in Odids
        BY <2>1, AtHand, CarryFacts DEF AtSet
    <2>3. Current.records[record_idx] \in Template
        <3>1. Current.records \in Seq(Template \cup {Bad})
            BY <2>1, AtHand DEF IsSet, TemplateKinds
        <3>2. record_idx \in 1..Len(Current.records) /\ Current.records[record_idx] # Bad
            BY <2>1, <3>1, LenProperties DEF NextIsGood, TypesInv, InPlace
        <3>. QED  BY <3>1, <3>2, ElementOfSeq
    <2>4. Next
        BY <2>1, <2>2, <2>3, UnitIsASession, Zenon DEF Next
    <2>. QED  BY <2>1, <2>4, NextInv DEF TypesInv, Insert, Idle
<1>2. CASE LookUpTemplate
    <2>1. AtSet /\ Current.kind = "Data" /\ Get(Unit, Message.odid, Current.definition.id)
        BY <1>2 DEF LookUpTemplate, InSets, Running, AtSet
    <2>2. Message.odid \in Odids
        BY <2>1, AtHand, CarryFacts DEF AtSet
    <2>3. Current.definition.id \in TemplateIds
        BY <2>1, AtHand DEF IsSet, IsDataSet, Template, TemplateKinds
    <2>4. Next
        BY <2>1, <2>2, <2>3, UnitIsASession, Zenon DEF Next
    <2>. QED  BY <2>1, <2>4, NextInv DEF TypesInv, Get, Idle
<1>3. CASE UNCHANGED vars
    BY <1>3, NextInv DEF TypesInv, Idle, vars
<1>. QED  BY <1>1, <1>2, <1>3 DEF JsonNext, ReadFrame, FailToLoad, FinishLoading, LeaveDatagram,
              FinishTemplates, StartRecord, PopulateField, PrintFlow, FinishData, Finish

-----------------------------------------------------------------------------
(* Loading.                                                                *)

\* A datagram is found where the capture carries one.
LEMMA FrameIsTold ==
    ASSUME NEW frame \in Frames
    PROVE  (Extracts(frame) /\ frame.len > EthHdr + frame.ihl + 8) <=> frame.message # NoMessage
<1>1. IsFrame(frame)
    BY JsonAssumption DEF JsonAssumption
<1>. QED  BY <1>1 DEF IsFrame, Extracts, EthHdr

LEMMA FrameIsRead ==
    ASSUME TypesInv, ReadFrame
    PROVE  payloads' \in Seq(Carry) /\ payloads' = DatagramsIn'[frame_idx' - 1]
           /\ frame_idx' \in 1..(Len(captured) + 1) /\ Len(payloads') >= Len(payloads)
<1>. DEFINE frame == captured[frame_idx]
            S == {f.message : f \in Frames}
            places == {i \in DOMAIN Carried : Carried[i] # NoMessage}
<1>1. captured \in Seq(Frames) /\ frame_idx \in 1..Len(captured) /\ frame \in Frames
      /\ payloads \in Seq(Carry) /\ payloads = DatagramsIn[frame_idx - 1]
      /\ Len(captured) \in Nat /\ DOMAIN captured = 1..Len(captured)
      /\ \A i \in 1..Len(captured) : captured[i] \in Frames
    BY ElementOfSeq, LenProperties DEF TypesInv, Loaded, ReadFrame
<1>2. frame_idx' = frame_idx + 1
      /\ payloads' = IF frame.message # NoMessage THEN Append(payloads, frame.message) ELSE payloads
    BY <1>1, FrameIsTold DEF ReadFrame
<1>3. DatagramsIn' = DatagramsIn
    BY DEF ReadFrame, DatagramsIn, Carried
<1>4. Carried \in Seq(S) /\ Len(Carried) = Len(captured)
      /\ \A i \in 1..Len(captured) : Carried[i] = captured[i].message
    BY <1>1 DEF Carried
<1>5. DatagramsIn[frame_idx] = PickedWith(Carried, places, frame_idx, DatagramsIn[frame_idx - 1])
    BY <1>1, <1>4, PickedFacts DEF DatagramsIn
<1>6. frame_idx \in places <=> frame.message # NoMessage
    BY <1>1, <1>4
<1>. HIDE DEF places
<1>7. payloads' = DatagramsIn[frame_idx]
    BY <1>1, <1>2, <1>4, <1>5, <1>6 DEF PickedWith
<1>8. payloads' \in Seq(Carry) /\ Len(payloads') >= Len(payloads)
    <2>1. CASE frame.message # NoMessage
        <3>1. frame.message \in Carry
            BY <1>1, <2>1 DEF Carry
        <3>. QED  BY <1>1, <1>2, <2>1, <3>1
    <2>2. CASE frame.message = NoMessage
        BY <1>1, <1>2, <2>2
    <2>. QED  BY <2>1, <2>2
<1>9. frame_idx' - 1 = frame_idx /\ frame_idx' \in 1..(Len(captured) + 1)
    BY <1>1, <1>2
<1>10. payloads' = DatagramsIn'[frame_idx' - 1]
    BY <1>3, <1>7, <1>9, Zenon
<1>. QED  BY <1>8, <1>9, <1>10

-----------------------------------------------------------------------------
(* The loops over datagrams, sets and template records.                    *)

LEMMA SetFacts ==
    ASSUME NEW set, IsSet(set)
    PROVE  /\ set.kind \in TemplateKinds =>
                  /\ Len(set.records) \in Nat /\ DOMAIN set.records = 1..Len(set.records)
                  /\ \A k \in 1..Len(set.records) : set.records[k] \in Template \cup {Bad}
           /\ set.kind = "Data" => IsDataSet(set)
           /\ "Data" \notin TemplateKinds /\ "Malformed" \notin TemplateKinds
<1>1. CASE set.kind \in TemplateKinds
    <2>1. set.records \in Seq(Template \cup {Bad})
        BY <1>1 DEF IsSet, TemplateKinds
    <2>. QED  BY <1>1, <2>1, ElementOfSeq, LenProperties DEF TemplateKinds
<1>2. CASE set.kind \notin TemplateKinds
    BY <1>2 DEF IsSet, TemplateKinds
<1>. QED  BY <1>1, <1>2

LEMMA SetReached ==
    ASSUME NEW received \in Seq(Carry), NEW d \in Nat \ {0}, d <= Len(received),
           NEW s \in Nat \ {0}, s <= Len(received[d].sets)
    PROVE  received[d] \in Carry /\ s \in 1..Len(received[d].sets) /\ IsSet(received[d].sets[s])
<1>1. received[d] \in Carry
    BY ElementOfSeq, LenProperties
<1>2. Len(received[d].sets) \in Nat /\ \A j \in 1..Len(received[d].sets) : IsSet(received[d].sets[j])
    BY <1>1, CarryFacts
<1>. QED  BY <1>1, <1>2

LEMMA StartOfRecords == ASSUME NEW n \in Nat  PROVE 1 <= n + 1 /\ 1..(1 - 1) = {}
OBVIOUS

\* A set that is reached is reached at its first record.
LEMMA AtFirstRecord ==
    ASSUME payloads' \in Seq(Carry), datagram' \in Nat \ {0}, set_idx' \in Nat \ {0}, record_idx' = 1,
           (/\ datagram <= Len(payloads) => 
                   /\ set_idx # 1 => HeaderDecodes /\ set_idx <= Len(Message.sets) + 1
                   /\ \A j \in 1..(set_idx - 1) : Message.sets[j].kind # "Malformed")'
    PROVE  InPlace'
<1>1. ASSUME AtSet', (Current.kind \in TemplateKinds)'
      PROVE  (/\ record_idx <= Len(Current.records) + 1
              /\ \A k \in 1..(record_idx - 1) : Current.records[k] # Bad)'
    <2>1. IsSet(payloads'[datagram'].sets[set_idx'])
        BY <1>1, SetReached DEF AtSet, Message
    <2>2. Len(payloads'[datagram'].sets[set_idx'].records) \in Nat
        BY <1>1, <2>1, SetFacts DEF Message, Current
    <2>3. /\ record_idx' <= Len(payloads'[datagram'].sets[set_idx'].records) + 1
          /\ 1..(record_idx' - 1) = {}
        BY <2>2, StartOfRecords, Zenon
    <2>. QED  BY <2>3, Zenon DEF Message, Current
<1>2. record_idx' \in Nat \ {0}
    OBVIOUS
<1>. QED  BY <1>1, <1>2, Zenon DEF InPlace

LEMMA LoadedInv ==
    ASSUME TypesInv, JsonNext
    PROVE  Loaded'
<1>1. /\ payloads \in Seq(Carry) /\ Len(payloads) \in Nat /\ datagram \in 1..(Len(payloads) + 1)
      /\ datagram \in Nat
    BY LenProperties DEF TypesInv, Loaded
<1>2. CASE ReadFrame
    <2>1. payloads' \in Seq(Carry) /\ payloads' = DatagramsIn'[frame_idx' - 1]
          /\ frame_idx' \in 1..(Len(captured) + 1) /\ Len(payloads') >= Len(payloads)
        BY <1>2, FrameIsRead
    <2>2. datagram' \in 1..(Len(payloads') + 1)
        BY <1>1, <1>2, <2>1, LenProperties DEF ReadFrame, placeVars
    <2>. QED  BY <1>2, <2>1, <2>2 DEF TypesInv, Loaded, ReadFrame, vars, placeVars, dataVars, Decoding
<1>3. ASSUME UNCHANGED loadVars  PROVE payloads' = DatagramsIn'[frame_idx' - 1]
    <2>1. DatagramsIn' = DatagramsIn
        BY <1>3 DEF loadVars, DatagramsIn, Carried
    <2>. QED  BY <1>3, <2>1 DEF TypesInv, Loaded, loadVars
<1>4. CASE FailToLoad \/ FinishLoading
    <2>1. UNCHANGED loadVars /\ stage = "load"
        BY <1>4 DEF FailToLoad, FinishLoading
    <2>2. stage' = "run" => frame_idx' = Len(captured') + 1
        BY <1>4, <2>1, LenProperties DEF FailToLoad, FinishLoading, loadVars, TypesInv, Loaded
    <2>. QED  BY <1>3, <1>4, <2>1, <2>2
              DEF FailToLoad, FinishLoading, TypesInv, Loaded, loadVars, vars, dataVars, Decoding
<1>5. CASE /\ UNCHANGED loadVars /\ stage = "run" /\ stage' = "run"
           /\ datagram' = datagram \/ (datagram' = datagram + 1 /\ datagram <= Len(payloads))
    <2>1. datagram' \in 1..(Len(payloads') + 1)
        BY <1>1, <1>5 DEF loadVars
    <2>. QED  BY <1>3, <1>5, <2>1 DEF TypesInv, Loaded, loadVars, Decoding
<1>6. CASE Finish
    BY <1>3, <1>6 DEF Finish, TypesInv, Loaded, loadVars, Decoding
<1>7. CASE LeaveDatagram \/ HandleTemplate \/ FinishTemplates \/ LookUpTemplate
    BY <1>5, <1>7 DEF LeaveDatagram, HandleTemplate, FinishTemplates, LookUpTemplate, InSets, Running,
           NextSet, NextDatagram, placeVars
<1>8. CASE StartRecord \/ PopulateField \/ PrintFlow \/ FinishData
    <2>1. layout # NoLayout
        BY <1>8 DEF StartRecord, PopulateField, PrintFlow, FinishData, NoLayout
    <2>2. stage = "run"
        BY <2>1 DEF TypesInv, InData
    <2>. QED  BY <1>5, <1>8, <2>2 DEF StartRecord, PopulateField, PrintFlow, FinishData, NextSet, placeVars
<1>. QED  BY <1>2, <1>4, <1>6, <1>7, <1>8 DEF JsonNext

\* The next set: nothing malformed is left behind.
LEMMA NextSetInPlace ==
    ASSUME TypesInv, AtSet, Current.kind # "Malformed", NextSet, UNCHANGED loadVars
    PROVE  InPlace'
<1>1. set_idx \in 1..Len(Message.sets) /\ datagram \in Nat \ {0} /\ Message \in Carry
      /\ Len(Message.sets) \in Nat
    BY AtHand, CarryFacts DEF AtSet
<1>2. /\ payloads' \in Seq(Carry) /\ datagram' = datagram /\ Message' = Message
      /\ set_idx' = set_idx + 1 /\ record_idx' = 1 /\ HeaderDecodes' /\ HeaderDecodes
    BY DEF TypesInv, Loaded, NextSet, loadVars, Message, HeaderDecodes, AtSet
<1>3. \A j \in 1..(set_idx - 1) : Message.sets[j].kind # "Malformed"
    BY DEF TypesInv, InPlace, AtSet
<1>4. \A j \in 1..set_idx : Message.sets[j].kind # "Malformed"
    BY <1>1, <1>3 DEF Current
<1>5. set_idx' - 1 = set_idx /\ set_idx' <= Len(Message.sets) + 1 /\ set_idx' \in Nat \ {0}
    BY <1>1, <1>2
<1>6. /\ set_idx' # 1 => HeaderDecodes' /\ set_idx' <= Len(Message'.sets) + 1
      /\ \A j \in 1..(set_idx' - 1) : Message'.sets[j].kind # "Malformed"
    BY <1>2, <1>4, <1>5
<1>. QED  BY <1>1, <1>2, <1>5, <1>6, AtFirstRecord

LEMMA InPlaceInv ==
    ASSUME TypesInv, JsonNext
    PROVE  InPlace'
<1>1. /\ payloads \in Seq(Carry) /\ Len(payloads) \in Nat /\ datagram \in Nat \ {0}
      /\ payloads' \in Seq(Carry)
    BY AtHand, LoadedInv DEF TypesInv, Loaded
<1>2. CASE ReadFrame
    <2>1. datagram' = 1 /\ set_idx' = 1 /\ record_idx' = 1
        BY <1>2 DEF ReadFrame, placeVars, TypesInv, Loaded
    <2>2. set_idx' \in Nat \ {0} /\ datagram' \in Nat \ {0} /\ \A j \in 1..(set_idx' - 1) : FALSE
        BY <2>1
    <2>. QED  BY <1>1, <2>1, <2>2, AtFirstRecord
<1>3. CASE LeaveDatagram
    <2>1. datagram' = datagram + 1 /\ set_idx' = 1 /\ record_idx' = 1
        BY <1>3 DEF LeaveDatagram, NextDatagram
    <2>2. set_idx' \in Nat \ {0} /\ datagram' \in Nat \ {0} /\ \A j \in 1..(set_idx' - 1) : FALSE
        BY <1>1, <2>1
    <2>. QED  BY <1>1, <2>1, <2>2, AtFirstRecord
<1>4. CASE HandleTemplate
    <2>1. /\ AtSet /\ Current.kind \in TemplateKinds /\ NextIsGood
          /\ UNCHANGED <<payloads, datagram, set_idx>> /\ record_idx' = record_idx + 1
        BY <1>4 DEF HandleTemplate, InSets, Running, AtSet, loadVars
    <2>2. Message' = Message /\ Current' = Current /\ (HeaderDecodes' <=> HeaderDecodes)
        BY <2>1 DEF Message, Current, HeaderDecodes
    <2>3. Len(Current.records) \in Nat /\ record_idx \in Nat \ {0}
          /\ record_idx <= Len(Current.records) /\ Current.records[record_idx] # Bad
        BY <2>1, AtHand, SetFacts DEF NextIsGood, TypesInv, InPlace
    <2>4. \A k \in 1..(record_idx - 1) : Current.records[k] # Bad
        BY <2>1 DEF TypesInv, InPlace
    <2>5. record_idx' - 1 = record_idx /\ record_idx' \in Nat \ {0}
        BY <2>1, <2>3
    <2>6. /\ record_idx' <= Len(Current'.records) + 1
          /\ \A k \in 1..(record_idx' - 1) : Current'.records[k] # Bad
        BY <2>1, <2>2, <2>3, <2>4, <2>5
    <2>7. /\ set_idx' \in Nat \ {0}
          /\ datagram' <= Len(payloads') =>
                 /\ set_idx' # 1 => HeaderDecodes' /\ set_idx' <= Len(Message'.sets) + 1
                 /\ \A j \in 1..(set_idx' - 1) : Message'.sets[j].kind # "Malformed"
        BY <2>1, <2>2 DEF TypesInv, InPlace
    <2>. QED  BY <2>1, <2>2, <2>5, <2>6, <2>7 DEF InPlace
<1>5. CASE FinishTemplates
    <2>1. AtSet /\ Current.kind # "Malformed" /\ NextSet /\ UNCHANGED loadVars
        BY <1>5 DEF FinishTemplates, InSets, Running, AtSet, TemplateKinds
    <2>. QED  BY <2>1, NextSetInPlace
<1>6. CASE UNCHANGED <<payloads, datagram, set_idx, record_idx>>
    BY <1>6 DEF TypesInv, InPlace, AtSet, HeaderDecodes, Message, Current
<1>7. CASE LookUpTemplate
    <2>1. /\ AtSet /\ Current.kind = "Data" /\ UNCHANGED loadVars
          /\ UNCHANGED placeVars \/ NextSet
        BY <1>7 DEF LookUpTemplate, InSets, Running, AtSet
    <2>. QED  BY <1>6, <2>1, NextSetInPlace DEF placeVars, loadVars
<1>8. CASE FinishData
    <2>1. AtSet /\ Current.kind = "Data" /\ UNCHANGED loadVars /\ NextSet
        BY <1>8 DEF FinishData, TypesInv, InData
    <2>. QED  BY <2>1, NextSetInPlace
<1>. QED  BY <1>2, <1>3, <1>4, <1>5, <1>6, <1>7, <1>8 DEF JsonNext, FailToLoad, FinishLoading,
              StartRecord, PopulateField, PrintFlow, Finish, loadVars, placeVars

-----------------------------------------------------------------------------
(* The loops over records and fields.                                      *)

LEMMA ProjectedFacts ==
    ASSUME NEW element \in DOMAIN Projected
    PROVE  /\ Projected[element].member \in Members
           /\ Projected[element].version \in Versions
BY Zenon DEF Members, Versions

LEMMA BytesAreNumbers ==
    ASSUME NEW data \in Seq(Byte)
    PROVE  data \in Seq(Nat) /\ BigEndian(data) \in Nat
<1>1. Byte \subseteq Nat
    BY BaseFacts
<1>2. data \in Seq(Nat)
    BY <1>1, SeqMonotonic
<1>3. BigEndian(data) \in Nat
    <2>1. PICK number \in [0..Len(data) -> Nat] : BigEndian(data) = number[Len(data)]
        BY BigEndianFacts
    <2>. QED  BY <2>1, LenProperties
<1>. QED  BY <1>2, <1>3

LEMMA PopulateType ==
    ASSUME NEW sofar \in Flows, NEW element, NEW data \in Seq(Byte)
    PROVE  Populate(sofar, element, data) \in Flows
<1>1. CASE element \notin DOMAIN Projected
    BY <1>1 DEF Populate
<1>2. CASE element \in DOMAIN Projected
    <2>1. Projected[element].member \in Members /\ Projected[element].version \in Versions
        BY <1>2, ProjectedFacts
    <2>2. Accessed(Projected[element].kind, data) \in Seq(Nat)
        BY BytesAreNumbers DEF Accessed, Absent
    <2>. QED  BY <1>2, <2>1, <2>2, Zenon DEF Populate, Flows
<1>. QED  BY <1>1, <1>2

LEMMA EmptyFlowType == EmptyFlow \in Flows
BY DEF EmptyFlow, Flows, Versions, Absent

\* What is cut off is a part of what there is.
LEMMA CutType ==
    ASSUME NEW length \in U16, NEW bytes \in Seq(Byte)
    PROVE  /\ CutFrom(length, bytes).data \in Seq(Byte)
           /\ CutFrom(length, bytes).size \in 0..Len(bytes)
<1>. DEFINE end == VarlenEnd(bytes, 0)
<1>1. length \in Nat /\ Len(bytes) \in Nat /\ Eof = -1
    BY BaseFacts, LenProperties DEF Eof
<1>2. CASE length # VariableLength /\ ~(Len(bytes) < length)
    <2>1. length \in 0..Len(bytes)
        BY <1>1, <1>2
    <2>2. Take(bytes, length) \in Seq(Byte)
        BY <2>1, TakeDrop
    <2>. QED  BY <1>2, <2>1, <2>2 DEF CutFrom, CutOff
<1>3. CASE length = VariableLength /\ ~(end = Eof \/ end > Len(bytes))
    <2>1. end \in 0..Len(bytes)
        BY <1>1, <1>3, VarlenEndRange DEF Ends
    <2>2. SubSeq(bytes, PrefixSize(bytes) + 1, end) \in Seq(Byte)
        <3>1. PrefixSize(bytes) + 1 \in 1..4
            BY DEF PrefixSize
        <3>. HIDE DEF end
        <3>2. \A i \in (PrefixSize(bytes) + 1)..end : i \in 1..Len(bytes) /\ bytes[i] \in Byte
            BY <2>1, <3>1, ElementOfSeq
        <3>. QED  BY <1>1, <2>1, <3>1, <3>2
    <2>. QED  BY <1>3, <2>1, <2>2 DEF CutFrom, CutOff
<1>4. CASE /\ ~(length # VariableLength /\ ~(Len(bytes) < length))
           /\ ~(length = VariableLength /\ ~(end = Eof \/ end > Len(bytes)))
    <2>1. CutFrom(length, bytes) = CannotCut
        BY <1>4 DEF CutFrom
    <2>. QED  BY <1>1, <2>1 DEF CannotCut
<1>. QED  BY <1>2, <1>3, <1>4

\* A layout in force.
LEMMA LayoutFacts ==
    ASSUME TypesInv
    PROVE  /\ layout \in Seq(FieldSpecifier) /\ Len(layout) \in Nat
           /\ layout # NoLayout => /\ Len(layout) > 0 /\ stage = "run" /\ AtSet
                                   /\ Current.kind = "Data" /\ IsDataSet(Current)
<1>1. layout \in Seq(FieldSpecifier)
    <2>1. layout \in FieldLists \cup {<<>>} /\ FieldLists \subseteq Seq(FieldSpecifier) \ {<<>>}
        BY JsonAssumption DEF JsonAssumption, TypesInv, InData, NoLayout
    <2>2. <<>> \in Seq(FieldSpecifier)
        OBVIOUS
    <2>. QED  BY <2>1, <2>2
<1>2. layout # NoLayout => Len(layout) > 0
    BY <1>1 DEF NoLayout
<1>3. ASSUME layout # NoLayout
      PROVE  stage = "run" /\ AtSet /\ Current.kind = "Data" /\ IsDataSet(Current)
    <2>1. stage = "run" /\ AtSet /\ Current.kind = "Data"
        BY <1>3 DEF TypesInv, InData
    <2>. QED  BY <2>1, AtHand, SetFacts
<1>. QED  BY <1>1, <1>2, <1>3, LenProperties

LEMMA InDataInv ==
    ASSUME TypesInv, JsonNext
    PROVE  InData'
<1>. USE DEF TypesInv, InData
<1>1. layout \in Seq(FieldSpecifier) /\ Len(layout) \in Nat
    BY LayoutFacts
<1>2. ASSUME UNCHANGED <<payloads, datagram, set_idx>>
      PROVE  (AtSet' <=> AtSet) /\ Current' = Current
    BY <1>2 DEF AtSet, Current, Message, HeaderDecodes
<1>3. CASE UNCHANGED dataVars /\ layout = NoLayout
    BY <1>3 DEF dataVars
<1>4. CASE LookUpTemplate
    <2>. DEFINE key == <<Unit, Message.odid, Current.definition.id>>
    <2>1. /\ AtSet /\ Current.kind = "Data" /\ layout = NoLayout /\ stage = "run"
          /\ UNCHANGED <<payloads, unread, field_idx, flow, emitted>>
        BY <1>4 DEF LookUpTemplate, InSets, Running, AtSet, loadVars
    <2>2. CASE key \in DOMAIN templates
        <3>1. layout' = templates[key].fields /\ rest' = BytesOf(Current) /\ UNCHANGED placeVars
            BY <1>4, <2>2 DEF LookUpTemplate
        <3>2. templates[key] \in Template
            BY <2>2 DEF IndInv, TypeOK
        <3>3. layout' \in FieldLists /\ layout' \in Seq(FieldSpecifier)
            BY <3>1, <3>2, JsonAssumption DEF Template, JsonAssumption
        <3>4. rest' \in Seq(Byte)
            <4>1. IsDataSet(Current)
                BY <2>1, AtHand, SetFacts
            <4>2. Len(Current.records) \in 0..Len(Current.records)
                BY <4>1, DataSetFacts
            <4>. QED  BY <3>1, <4>1, <4>2, RecordsFacts DEF BytesOf
        <3>5. AtSet' /\ Current'.kind = "Data" /\ stage' = "run"
            BY <1>2, <2>1, <3>1 DEF placeVars
        <3>6. field_idx' = 0 /\ field_idx' \in 0..(Len(layout') + 1)
            BY <2>1, <3>3, LenProperties
        <3>. QED  BY <2>1, <3>3, <3>4, <3>5, <3>6
    <2>3. CASE key \notin DOMAIN templates
        BY <1>4, <2>1, <2>3 DEF LookUpTemplate
    <2>. QED  BY <2>2, <2>3
<1>5. CASE StartRecord
    <2>1. /\ layout # NoLayout /\ field_idx = 0 /\ HasRecord
          /\ unread' = Take(rest, RecordSize) /\ rest' = Drop(rest, RecordSize)
          /\ field_idx' = 1 /\ flow' = EmptyFlow
          /\ UNCHANGED <<payloads, placeVars, layout, emitted>>
        BY <1>5 DEF StartRecord, loadVars
    <2>2. RecordSize \in 0..Len(rest)
        BY <1>1, <2>1, LengthsFacts, RecordEndRange DEF HasRecord, RecordSize
    <2>3. unread' \in Seq(Byte) /\ rest' \in Seq(Byte)
        BY <2>1, <2>2, TakeDrop
    <2>4. flow' \in Flows
        BY <2>1, EmptyFlowType
    <2>5. field_idx' \in 0..(Len(layout') + 1)
        BY <1>1, <2>1
    <2>. QED  BY <1>2, <2>1, <2>3, <2>4, <2>5 DEF placeVars
<1>6. CASE PopulateField
    <2>. DEFINE cut == CutFrom(layout[field_idx].length, unread)
    <2>1. /\ field_idx \in 1..Len(layout)
          /\ unread' = Drop(unread, cut.size)
          /\ flow' = IF cut.ok THEN Populate(flow, layout[field_idx].element, cut.data) ELSE flow
          /\ field_idx' = field_idx + 1
          /\ UNCHANGED <<payloads, placeVars, layout, rest, emitted>>
        BY <1>1, <1>6, LenProperties DEF PopulateField, loadVars
    <2>2. layout[field_idx].length \in U16
        <3>1. layout[field_idx] \in FieldSpecifier
            BY <1>1, <2>1, ElementOfSeq
        <3>. QED  BY <3>1 DEF FieldSpecifier
    <2>3. cut.data \in Seq(Byte) /\ cut.size \in 0..Len(unread)
        BY <2>2, CutType
    <2>. HIDE DEF cut
    <2>4. unread' \in Seq(Byte) /\ flow' \in Flows
        BY <2>1, <2>3, TakeDrop, PopulateType
    <2>5. field_idx' \in 0..(Len(layout') + 1) /\ layout # NoLayout
        BY <1>1, <2>1 DEF NoLayout
    <2>. QED  BY <1>2, <2>1, <2>4, <2>5 DEF placeVars
<1>7. CASE PrintFlow
    <2>1. /\ layout # NoLayout /\ field_idx' = 0
          /\ emitted' = Append(emitted,
                 [datagram |-> datagram, set |-> set_idx, odid |-> Message.odid,
                  sequence |-> Message.sequence, flow |-> flow])
          /\ UNCHANGED <<payloads, placeVars, layout, rest, unread, flow>>
        BY <1>7 DEF PrintFlow, loadVars
    <2>2. datagram \in Nat /\ set_idx \in Nat /\ Message.odid \in Odids /\ Message.sequence \in Nat
        BY <2>1, AtHand, CarryFacts, LayoutFacts DEF AtSet, InPlace
    <2>3. emitted' \in Seq(Line)
        BY <2>1, <2>2 DEF Line
    <2>4. field_idx' \in 0..(Len(layout') + 1)
        BY <1>1, <2>1
    <2>. QED  BY <1>2, <2>1, <2>3, <2>4 DEF placeVars
<1>8. CASE FinishData
    <2>1. layout' = NoLayout /\ rest' = <<>> /\ field_idx' = 0 /\ UNCHANGED <<unread, flow, emitted>>
        BY <1>8 DEF FinishData
    <2>2. field_idx' \in 0..(Len(layout') + 1)
        BY <2>1 DEF NoLayout
    <2>. QED  BY <2>1, <2>2
<1>9. CASE ReadFrame \/ FailToLoad \/ FinishLoading
    BY <1>3, <1>9 DEF ReadFrame, FailToLoad, FinishLoading, Loaded
<1>10. CASE LeaveDatagram \/ HandleTemplate \/ FinishTemplates
    BY <1>3, <1>10 DEF LeaveDatagram, HandleTemplate, FinishTemplates, InSets, Running
<1>11. CASE Finish
    <2>1. layout = NoLayout
        BY <1>11, AtHand DEF Finish, AtSet
    <2>. QED  BY <1>3, <1>11, <2>1 DEF Finish
<1>. QED  BY <1>4, <1>5, <1>6, <1>7, <1>8, <1>9, <1>10, <1>11 DEF JsonNext

LEMMA TypesAtInit == JsonInit => TypesInv
<1>. SUFFICES ASSUME JsonInit  PROVE TypesInv
    OBVIOUS
<1>. USE DEF JsonInit
<1>1. captured \in Seq(Frames) /\ Len(captured) \in Nat
      /\ DOMAIN captured = 1..Len(captured) /\ \A i \in 1..Len(captured) : captured[i] \in Frames
    <2>1. captured \in Seq(Frames)
        BY SeqDef, JsonAssumption DEF JsonAssumption, BoundedSeq, SeqOf
    <2>. QED  BY <2>1, LenProperties, ElementOfSeq
<1>2. DatagramsIn[frame_idx - 1] = <<>>
    <2>1. Carried \in Seq({f.message : f \in Frames})
        BY <1>1 DEF Carried
    <2>2. frame_idx - 1 = 0
        OBVIOUS
    <2>. QED  BY <2>1, <2>2, PickedFacts DEF DatagramsIn
<1>3. Loaded
    BY <1>1, <1>2 DEF Loaded, Init, Decoding
<1>4. InPlace
    <2>1. ~(datagram <= Len(payloads))
        OBVIOUS
    <2>. QED  BY <2>1 DEF InPlace, AtSet
<1>5. InData
    BY EmptyFlowType DEF InData, NoLayout
<1>. QED  BY <1>3, <1>4, <1>5, InitInv DEF TypesInv, Init, Idle

LEMMA TypesByNext == TypesInv /\ [JsonNext]_jsonVars => TypesInv'
<1>. SUFFICES ASSUME TypesInv, [JsonNext]_jsonVars  PROVE TypesInv'
    OBVIOUS
<1>1. CASE JsonNext
    BY <1>1, StoreInv, LoadedInv, InPlaceInv, InDataInv DEF TypesInv
<1>2. CASE UNCHANGED jsonVars
    <2>1. IndInv' /\ Idle'
        BY <1>2, NextInv DEF jsonVars, vars, TypesInv, Idle
    <2>2. Loaded'
        <3>1. DatagramsIn' = DatagramsIn
            BY <1>2 DEF jsonVars, loadVars, DatagramsIn, Carried
        <3>. QED  BY <1>2, <3>1 DEF TypesInv, Loaded, Decoding, jsonVars, vars, loadVars, placeVars, dataVars
    <2>3. InPlace' /\ InData'
        BY <1>2 DEF TypesInv, InPlace, InData, AtSet, HeaderDecodes, Message, Current,
               jsonVars, loadVars, placeVars, dataVars
    <2>. QED  BY <2>1, <2>2, <2>3 DEF TypesInv
<1>. QED  BY <1>1, <1>2

THEOREM TypesInvariance == JsonSpec => []TypesInv
<1>. QED  BY TypesAtInit, TypesByNext, PTL DEF JsonSpec

\* The loops stay inside the payload, the set and the record in hand, whatever
\* the capture holds, and no line is printed with a value of another type.
THEOREM JsonTypeCorrect == JsonSpec => []JsonTypeOK
<1>1. ASSUME TypesInv  PROVE JsonTypeOK
    <2>. USE DEF TypesInv
    <2>1. /\ stage \in {"load", "run", "done", "failed"}
          /\ captured \in Seq(Frames) /\ frame_idx \in 1..(Len(captured) + 1)
          /\ payloads \in Seq({frame.message : frame \in Frames} \ {NoMessage})
          /\ datagram \in 1..(Len(payloads) + 1)
        BY <1>1 DEF Loaded, Carry
    <2>2. ASSUME Running, HeaderDecodes  PROVE set_idx \in 1..(Len(Message.sets) + 1)
        <3>1. datagram <= Len(payloads) /\ Len(Message.sets) \in Nat
            BY <1>1, <2>2, AtHand, CarryFacts DEF Running
        <3>2. set_idx \in Nat \ {0} /\ (set_idx # 1 => set_idx <= Len(Message.sets) + 1)
            BY <1>1, <3>1 DEF InPlace
        <3>. QED  BY <3>1, <3>2
    <2>3. ASSUME InSets
          PROVE  /\ Current.kind \in TemplateKinds => record_idx \in 1..(Len(Current.records) + 1)
                 /\ Current.kind = "Data" => record_idx = 1
        <3>1. AtSet
            BY <2>3 DEF InSets, Running, AtSet
        <3>2. IsSet(Current) /\ record_idx \in Nat \ {0}
            BY <1>1, <3>1, AtHand DEF InPlace
        <3>3. ASSUME Current.kind \in TemplateKinds  PROVE record_idx \in 1..(Len(Current.records) + 1)
            BY <1>1, <3>1, <3>2, <3>3, SetFacts DEF InPlace
        <3>4. ASSUME Current.kind = "Data"  PROVE record_idx = 1
            BY <1>1, <3>1, <3>2, <3>4, SetFacts DEF InPlace
        <3>. QED  BY <3>3, <3>4
    <2>4. /\ layout \in FieldLists \cup {NoLayout} /\ field_idx \in 0..(Len(layout) + 1)
          /\ layout # NoLayout => stage = "run" /\ datagram <= Len(payloads)
          /\ rest \in Seq(Byte) /\ unread \in Seq(Byte)
          /\ flow \in Flows /\ emitted \in Seq(Line)
        BY <1>1 DEF InData, AtSet
    <2>. QED  BY <2>1, <2>2, <2>3, <2>4, Zenon DEF JsonTypeOK, Line
<1>. QED  BY <1>1, TypesInvariance, PTL

-----------------------------------------------------------------------------
(* The places of a capture and their order.                                *)

\* What a capture says does not change.
LEMMA CaptureKept ==
    ASSUME UNCHANGED captured
    PROVE  /\ Datagrams' = Datagrams /\ SetPlaces' = SetPlaces
           /\ DataPlaces' = DataPlaces /\ TemplatePlaces' = TemplatePlaces
           /\ \A p : SetAt(p)' = SetAt(p) /\ RecordAt(p)' = RecordAt(p) /\ KeyAt(p)' = KeyAt(p)
                     /\ AnnouncedFor(p)' = AnnouncedFor(p) /\ LinesFor(p)' = LinesFor(p)
                     /\ (AnnouncedRightly(p)' <=> AnnouncedRightly(p))
           /\ NoEvictions' <=> NoEvictions
<1>1. Datagrams' = Datagrams
    BY DEF Datagrams, DatagramsIn, Carried
<1>2. \A p : SetAt(p)' = SetAt(p) /\ RecordAt(p)' = RecordAt(p) /\ KeyAt(p)' = KeyAt(p)
    BY <1>1 DEF SetAt, RecordAt, KeyAt
<1>3. SetPlaces' = SetPlaces
    BY <1>1 DEF SetPlaces, SetAt
<1>4. DataPlaces' = DataPlaces /\ TemplatePlaces' = TemplatePlaces
    BY <1>1, <1>3 DEF DataPlaces, TemplatePlaces, SetAt
<1>5. \A p : AnnouncedFor(p)' = AnnouncedFor(p)
    BY <1>1, <1>4 DEF AnnouncedFor, KeyAt, RecordAt, SetAt
<1>6. \A p : AnnouncedRightly(p)' <=> AnnouncedRightly(p)
    BY <1>2, <1>5 DEF AnnouncedRightly
<1>7. \A p : LinesFor(p)' = LinesFor(p)
    BY <1>1 DEF LinesFor, SetAt
<1>8. NoEvictions' <=> NoEvictions
    BY <1>1, <1>4 DEF NoEvictions, KeyAt, RecordAt, SetAt
<1>. QED  BY <1>1, <1>2, <1>3, <1>4, <1>5, <1>6, <1>7, <1>8

LEMMA AllRead ==
    ASSUME TypesInv, Decoding \/ FinishLoading
    PROVE  /\ Datagrams = payloads /\ Len(Datagrams) \in Nat /\ DOMAIN Datagrams = 1..Len(Datagrams)
           /\ \A i \in 1..Len(Datagrams) : Datagrams[i] \in Carry
<1>1. payloads = DatagramsIn[frame_idx - 1] /\ frame_idx = Len(captured) + 1
      /\ Len(captured) \in Nat /\ payloads \in Seq(Carry)
    <2>1. frame_idx = Len(captured) + 1
        BY LenProperties DEF TypesInv, Loaded, FinishLoading
    <2>. QED  BY <2>1, LenProperties DEF TypesInv, Loaded
<1>2. frame_idx - 1 = Len(captured)
    BY <1>1
<1>3. Datagrams = payloads
    BY <1>1, <1>2 DEF Datagrams
<1>. QED  BY <1>1, <1>3, ElementOfSeq, LenProperties

LEMMA SetPlaceFacts ==
    ASSUME TypesInv, Decoding \/ FinishLoading, NEW i, NEW j
    PROVE  /\ <<i, j>> \in SetPlaces <=>
                  /\ i \in 1..Len(Datagrams) /\ j \in 1..Len(Datagrams[i].sets)
                  /\ Datagrams[i].version = 10
                  /\ \A k \in 1..j : Datagrams[i].sets[k].kind # "Malformed"
           /\ <<i, j>> \in SetPlaces => IsSet(Datagrams[i].sets[j]) /\ i \in Nat /\ j \in Nat \ {0}
<1>1. /\ DOMAIN Datagrams = 1..Len(Datagrams) /\ Len(Datagrams) \in Nat
      /\ \A n \in 1..Len(Datagrams) :
             /\ Len(Datagrams[n].sets) \in Nat
             /\ DOMAIN Datagrams[n].sets = 1..Len(Datagrams[n].sets)
             /\ \A k \in 1..Len(Datagrams[n].sets) : IsSet(Datagrams[n].sets[k])
    BY AllRead, CarryFacts
<1>2. <<i, j>> \in UNION {{n} \X DOMAIN Datagrams[n].sets : n \in DOMAIN Datagrams}
      <=> i \in DOMAIN Datagrams /\ j \in DOMAIN Datagrams[i].sets
    OBVIOUS
<1>3. <<i, j>>[1] = i /\ <<i, j>>[2] = j /\ \A k : SetAt(<<i, k>>) = Datagrams[i].sets[k]
    BY DEF SetAt
<1>4. <<i, j>> \in SetPlaces <=>
          /\ <<i, j>> \in UNION {{n} \X DOMAIN Datagrams[n].sets : n \in DOMAIN Datagrams}
          /\ Datagrams[i].version = 10
          /\ \A k \in 1..j : SetAt(<<i, k>>).kind # "Malformed"
    <2>. DEFINE U == UNION {{n} \X DOMAIN Datagrams[n].sets : n \in DOMAIN Datagrams}
                Good(p) == /\ Datagrams[p[1]].version = 10
                           /\ \A k \in 1..p[2] : SetAt(<<p[1], k>>).kind # "Malformed"
    <2>1. SetPlaces = {p \in U : Good(p)}
        BY DEF SetPlaces
    <2>2. Good(<<i, j>>) <=> /\ Datagrams[i].version = 10
                             /\ \A k \in 1..j : SetAt(<<i, k>>).kind # "Malformed"
        BY <1>3
    <2>. HIDE DEF U, Good
    <2>3. <<i, j>> \in SetPlaces <=> <<i, j>> \in U /\ Good(<<i, j>>)
        BY <2>1
    <2>. QED  BY <2>2, <2>3 DEF U
<1>5. (i \in DOMAIN Datagrams /\ j \in DOMAIN Datagrams[i].sets) <=>
          (i \in 1..Len(Datagrams) /\ j \in 1..Len(Datagrams[i].sets))
    BY <1>1
<1>6. <<i, j>> \in SetPlaces <=>
          /\ i \in 1..Len(Datagrams) /\ j \in 1..Len(Datagrams[i].sets)
          /\ Datagrams[i].version = 10
          /\ \A k \in 1..j : Datagrams[i].sets[k].kind # "Malformed"
    BY <1>2, <1>3, <1>4, <1>5, Zenon
<1>7. i \in 1..Len(Datagrams) /\ j \in 1..Len(Datagrams[i].sets)
      => IsSet(Datagrams[i].sets[j]) /\ i \in Nat /\ j \in Nat \ {0}
    BY <1>1
<1>. QED  BY <1>6, <1>7, Zenon

LEMMA DataPlaceFacts ==
    ASSUME TypesInv, Decoding \/ FinishLoading, NEW p \in DataPlaces
    PROVE  /\ p = <<p[1], p[2]>> /\ <<p[1], p[2]>> \in SetPlaces /\ SetAt(p).kind = "Data"
           /\ p[1] \in Nat /\ p[2] \in Nat \ {0} /\ p[1] <= Len(Datagrams)
<1>1. p \in SetPlaces /\ SetAt(p).kind = "Data"
    BY DEF DataPlaces
<1>2. p = <<p[1], p[2]>>
    BY <1>1 DEF SetPlaces
<1>. QED  BY <1>1, <1>2, SetPlaceFacts, AllRead

LEMMA TemplatePlaceFacts ==
    ASSUME TypesInv, Decoding \/ FinishLoading, NEW i, NEW j, NEW k
    PROVE  <<i, j, k>> \in TemplatePlaces <=>
               /\ <<i, j>> \in SetPlaces
               /\ Datagrams[i].sets[j].kind \in TemplateKinds
               /\ k \in 1..Len(Datagrams[i].sets[j].records)
               /\ \A n \in 1..k : Datagrams[i].sets[j].records[n] # Bad
<1>. DEFINE Of(p) == {<<p[1], p[2], m>> : m \in {n \in DOMAIN SetAt(p).records :
                                               \A l \in 1..n : SetAt(p).records[l] # Bad}}
            sets == {q \in SetPlaces : SetAt(q).kind \in TemplateKinds}
<1>1. TemplatePlaces = UNION {Of(p) : p \in sets}
    BY DEF TemplatePlaces
<1>2. \A p \in sets : p = <<p[1], p[2]>>
    BY DEF SetPlaces
<1>3. <<i, j, k>> \in TemplatePlaces <=> <<i, j>> \in sets /\ <<i, j, k>> \in Of(<<i, j>>)
    <2>1. ASSUME <<i, j, k>> \in TemplatePlaces
          PROVE  <<i, j>> \in sets /\ <<i, j, k>> \in Of(<<i, j>>)
        <3>1. PICK p \in sets : <<i, j, k>> \in Of(p)
            BY <1>1, <2>1
        <3>2. p[1] = i /\ p[2] = j
            BY <3>1
        <3>3. p = <<i, j>>
            BY <1>2, <3>1, <3>2
        <3>. QED  BY <3>1, <3>3
    <2>2. ASSUME <<i, j>> \in sets, <<i, j, k>> \in Of(<<i, j>>)
          PROVE  <<i, j, k>> \in TemplatePlaces
        BY <1>1, <2>2
    <2>. QED  BY <2>1, <2>2
<1>4. SetAt(<<i, j>>) = Datagrams[i].sets[j]
    BY DEF SetAt
<1>5. <<i, j, k>> \in Of(<<i, j>>) <=>
          k \in DOMAIN SetAt(<<i, j>>).records /\ \A l \in 1..k : SetAt(<<i, j>>).records[l] # Bad
    OBVIOUS
<1>6. <<i, j>> \in sets =>
          DOMAIN SetAt(<<i, j>>).records = 1..Len(SetAt(<<i, j>>).records)
    BY <1>4, SetPlaceFacts, SetFacts
<1>. HIDE DEF Of
<1>. QED  BY <1>3, <1>4, <1>5, <1>6

LEMMA AnnouncementFacts ==
    ASSUME TypesInv, Decoding \/ FinishLoading, NEW t \in TemplatePlaces
    PROVE  /\ t = <<t[1], t[2], t[3]>> /\ <<t[1], t[2]>> \in SetPlaces
           /\ SetAt(t).kind \in TemplateKinds
           /\ t[1] \in Nat /\ t[2] \in Nat /\ t[3] \in Nat \ {0}
           /\ t[3] \in 1..Len(SetAt(t).records)
           /\ \A n \in 1..t[3] : SetAt(t).records[n] # Bad
           /\ RecordAt(t) \in Template
           /\ KeyAt(t) \in Odids \X TemplateIds
<1>1. t = <<t[1], t[2], t[3]>>
    BY DEF TemplatePlaces
<1>2. SetAt(t) = Datagrams[t[1]].sets[t[2]]
    BY DEF SetAt
<1>3. /\ <<t[1], t[2]>> \in SetPlaces /\ SetAt(t).kind \in TemplateKinds
      /\ t[3] \in 1..Len(SetAt(t).records)
      /\ \A n \in 1..t[3] : SetAt(t).records[n] # Bad
    BY <1>1, <1>2, TemplatePlaceFacts
<1>4. t[1] \in 1..Len(Datagrams) /\ t[1] \in Nat /\ t[2] \in Nat /\ IsSet(SetAt(t))
    BY <1>2, <1>3, SetPlaceFacts
<1>5. Len(SetAt(t).records) \in Nat /\ RecordAt(t) \in Template \cup {Bad}
    BY <1>3, <1>4, SetFacts DEF RecordAt
<1>6. RecordAt(t) \in Template /\ t[3] \in Nat \ {0}
    BY <1>3, <1>5 DEF RecordAt
<1>7. Datagrams[t[1]].odid \in Odids
    BY <1>4, AllRead, CarryFacts
<1>. QED  BY <1>1, <1>3, <1>4, <1>6, <1>7 DEF KeyAt, Template

\* The set in hand is one of them.
LEMMA HereIsAPlace ==
    ASSUME TypesInv, Decoding, AtSet
    PROVE  /\ Datagrams[datagram] = Message /\ SetAt(Here) = Current
           /\ Here \in SetPlaces <=> Current.kind # "Malformed"
<1>1. Datagrams[datagram] = Message /\ SetAt(Here) = Current
    BY AllRead DEF Message, Current, SetAt, Here
<1>2. /\ datagram \in 1..Len(Datagrams) /\ set_idx \in 1..Len(Message.sets)
      /\ Len(Message.sets) \in Nat
    BY AllRead, AtHand, CarryFacts DEF AtSet
<1>3. Message.version = 10 /\ \A j \in 1..(set_idx - 1) : Message.sets[j].kind # "Malformed"
    BY DEF AtSet, HeaderDecodes, TypesInv, InPlace
<1>4. (\A j \in 1..set_idx : Message.sets[j].kind # "Malformed") <=> Current.kind # "Malformed"
    BY <1>2, <1>3 DEF Current
<1>. QED  BY <1>1, <1>2, <1>3, <1>4, SetPlaceFacts DEF Here

\* Going on to the next set goes past this one.
LEMMA NextSetPasses ==
    ASSUME TypesInv, NextSet, NEW p, p[1] \in Nat, p[2] \in Nat
    PROVE  Precedes(p, Here)' <=> (Precedes(p, Here) \/ (p[1] = datagram /\ p[2] = set_idx))
<1>1. datagram \in Nat /\ set_idx \in Nat
    BY AtHand DEF TypesInv, InPlace
<1>2. Here'[1] = datagram /\ Here'[2] = set_idx + 1 /\ Here[1] = datagram /\ Here[2] = set_idx
    BY DEF NextSet, Here
<1>. QED  BY <1>1, <1>2 DEF Precedes

\* Leaving a datagram goes past nothing that could be decoded.
LEMMA LeavingPasses ==
    ASSUME TypesInv, Decoding, LeaveDatagram, NEW p, <<p[1], p[2]>> \in SetPlaces
    PROVE  /\ Precedes(p, Here)' <=> Precedes(p, Here)
           /\ ~(p[1] = datagram /\ p[2] = set_idx) /\ ~(p[1] = datagram + 1 /\ p[2] < 1)
           /\ p[1] = datagram => p[2] < set_idx
<1>1. datagram \in Nat /\ set_idx \in Nat \ {0} /\ datagram <= Len(payloads)
    BY AtHand DEF TypesInv, InPlace, LeaveDatagram, Running
<1>2. /\ p[1] \in Nat /\ p[2] \in Nat \ {0} /\ p[1] \in 1..Len(Datagrams)
      /\ p[2] \in 1..Len(Datagrams[p[1]].sets) /\ Datagrams[p[1]].version = 10
      /\ \A k \in 1..p[2] : Datagrams[p[1]].sets[k].kind # "Malformed"
    BY SetPlaceFacts
<1>3. ASSUME p[1] = datagram  PROVE p[2] < set_idx
    <2>1. Message = Datagrams[p[1]] /\ HeaderDecodes /\ Len(Message.sets) \in Nat
        BY <1>1, <1>2, <1>3, AllRead, AtHand, CarryFacts DEF Message, HeaderDecodes
    <2>2. CASE set_idx > Len(Message.sets)
        BY <1>1, <1>2, <2>1, <2>2
    <2>3. CASE InSets /\ Current.kind = "Malformed"
        <3>1. ~(set_idx \in 1..p[2])
            BY <1>2, <2>1, <2>3 DEF Current
        <3>. QED  BY <1>1, <1>2, <3>1
    <2>. QED  BY <2>1, <2>2, <2>3 DEF LeaveDatagram
<1>4. Here'[1] = datagram + 1 /\ Here'[2] = 1 /\ Here[1] = datagram /\ Here[2] = set_idx
    BY DEF LeaveDatagram, NextDatagram, Here
<1>5. Precedes(p, Here') <=> Precedes(p, Here)
    BY <1>1, <1>2, <1>3, <1>4 DEF Precedes
<1>. QED  BY <1>1, <1>2, <1>3, <1>5

-----------------------------------------------------------------------------
(* A capture announces finitely many templates.                            *)

LEMMA ImageOfFinite ==
    ASSUME NEW S, NEW T, NEW f \in [S -> T], IsFiniteSet(S), \A y \in T : \E x \in S : f[x] = y
    PROVE  IsFiniteSet(T) /\ Cardinality(T) <= Cardinality(S)
<1>1. f \in Surjection(S, T)
    BY DEF Surjection
<1>. QED  BY <1>1, FS_Surjection

LEMMA UpToIsFinite ==
    ASSUME NEW n \in Nat
    PROVE  IsFiniteSet(1..n)
BY FS_Interval

LEMMA FinitelyAnnounced ==
    ASSUME TypesInv, Decoding
    PROVE  IsFiniteSet(TemplatePlaces)
<1>1. /\ Len(Datagrams) \in Nat /\ DOMAIN Datagrams = 1..Len(Datagrams)
      /\ \A i \in 1..Len(Datagrams) : /\ Len(Datagrams[i].sets) \in Nat
                                      /\ DOMAIN Datagrams[i].sets = 1..Len(Datagrams[i].sets)
    BY AllRead, CarryFacts
<1>. DEFINE row == [i \in DOMAIN Datagrams |-> {i} \X DOMAIN Datagrams[i].sets]
            rows == {{i} \X DOMAIN Datagrams[i].sets : i \in DOMAIN Datagrams}
<1>2. IsFiniteSet(rows)
    <2>1. IsFiniteSet(DOMAIN Datagrams)
        BY <1>1, UpToIsFinite
    <2>2. row \in [DOMAIN Datagrams -> rows] /\ \A y \in rows : \E i \in DOMAIN Datagrams : row[i] = y
        OBVIOUS
    <2>. HIDE DEF row, rows
    <2>. QED  BY <2>1, <2>2, ImageOfFinite
<1>3. \A r \in rows : IsFiniteSet(r)
    <2>. SUFFICES ASSUME NEW i \in DOMAIN Datagrams
                  PROVE  IsFiniteSet({i} \X DOMAIN Datagrams[i].sets)
        OBVIOUS
    <2>1. IsFiniteSet({i})
        BY FS_Singleton
    <2>2. IsFiniteSet(DOMAIN Datagrams[i].sets)
        BY <1>1, UpToIsFinite
    <2>. QED  BY <2>1, <2>2, FS_Product
<1>4. IsFiniteSet(SetPlaces)
    <2>1. IsFiniteSet(UNION rows)
        BY <1>2, <1>3, FS_UNION
    <2>2. SetPlaces \in SUBSET UNION rows
        BY DEF SetPlaces
    <2>. QED  BY <2>1, <2>2, FS_Subset
<1>. DEFINE Ks(p) == {n \in DOMAIN SetAt(p).records : \A l \in 1..n : SetAt(p).records[l] # Bad}
            Of(p) == {<<p[1], p[2], k>> : k \in Ks(p)}
            sets == {q \in SetPlaces : SetAt(q).kind \in TemplateKinds}
            announced == {Of(p) : p \in sets}
<1>5. IsFiniteSet(sets)
    BY <1>4, FS_Subset
<1>6. IsFiniteSet(announced)
    <2>. DEFINE of == [p \in sets |-> Of(p)]
    <2>1. of \in [sets -> announced] /\ \A y \in announced : \E p \in sets : of[p] = y
        OBVIOUS
    <2>. HIDE DEF of, announced, sets
    <2>. QED  BY <1>5, <2>1, ImageOfFinite
<1>7. ASSUME NEW p \in sets  PROVE IsFiniteSet(Of(p))
    <2>1. p = <<p[1], p[2]>> /\ SetAt(p) = Datagrams[p[1]].sets[p[2]] /\ p \in SetPlaces
        BY DEF SetPlaces, SetAt
    <2>2. IsSet(SetAt(p)) /\ SetAt(p).kind \in TemplateKinds
        BY <2>1, SetPlaceFacts
    <2>3. IsFiniteSet(DOMAIN SetAt(p).records)
        BY <2>2, SetFacts, UpToIsFinite
    <2>4. IsFiniteSet(Ks(p))
        BY <2>3, FS_Subset
    <2>. DEFINE k == [n \in Ks(p) |-> <<p[1], p[2], n>>]
    <2>5. k \in [Ks(p) -> Of(p)] /\ \A y \in Of(p) : \E n \in Ks(p) : k[n] = y
        OBVIOUS
    <2>. HIDE DEF k, Of, Ks
    <2>. QED  BY <2>4, <2>5, ImageOfFinite
<1>8. TemplatePlaces = UNION announced
    BY DEF TemplatePlaces
<1>9. \A a \in announced : IsFiniteSet(a)
    BY <1>7
<1>. HIDE DEF announced
<1>. QED  BY <1>6, <1>8, <1>9, FS_UNION

-----------------------------------------------------------------------------
(* The store holds what was announced.                                     *)

\* The template records that have been handled.
Handled ==
    {t \in TemplatePlaces : \/ Precedes(t, Here)
                            \/ t[1] = datagram /\ t[2] = set_idx /\ t[3] < record_idx}

StoreKey(key) == <<Unit, key[1], key[2]>>

\* t is the first to announce its template.
IsFirst(t) == \A u \in Handled : KeyAt(u) = KeyAt(t) => NotAfter(t, u)

\* What is in the store was announced, and as long as there is room for all it
\* is the first announcement.
TableAsAnnounced ==
    Decoding =>
        /\ \A key \in DOMAIN templates :
               \E t \in Handled : StoreKey(KeyAt(t)) = key /\ templates[key] = RecordAt(t)
        /\ NoEvictions =>
               \A t \in Handled :
                   /\ StoreKey(KeyAt(t)) \in DOMAIN templates
                   /\ \E u \in Handled : /\ KeyAt(u) = KeyAt(t) /\ IsFirst(u)
                                         /\ templates[StoreKey(KeyAt(t))] = RecordAt(u)

\* As long as there is room for all, there is room for one more.
LEMMA RoomLeft ==
    ASSUME TypesInv, Decoding, TableAsAnnounced, NoEvictions, NEW t \in TemplatePlaces,
           StoreKey(KeyAt(t)) \notin DOMAIN templates
    PROVE  Len(recency) < Capacity
<1>. DEFINE keys == {KeyAt(u) : u \in TemplatePlaces}
            stored == {StoreKey(k) : k \in keys}
            key == StoreKey(KeyAt(t))
            table == DOMAIN templates \cup {key}
<1>1. IsFiniteSet(keys)
    <2>. DEFINE f == [u \in TemplatePlaces |-> KeyAt(u)]
    <2>1. f \in [TemplatePlaces -> keys] /\ \A y \in keys : \E u \in TemplatePlaces : f[u] = y
        OBVIOUS
    <2>. HIDE DEF f, keys
    <2>. QED  BY <2>1, FinitelyAnnounced, ImageOfFinite
<1>2. IsFiniteSet(stored) /\ Cardinality(stored) <= Cardinality(keys)
    <2>. DEFINE f == [k \in keys |-> StoreKey(k)]
    <2>1. f \in [keys -> stored] /\ \A y \in stored : \E k \in keys : f[k] = y
        OBVIOUS
    <2>. HIDE DEF f, keys, stored
    <2>. QED  BY <1>1, <2>1, ImageOfFinite
<1>3. table \in SUBSET stored
    <2>1. \A k \in DOMAIN templates : \E u \in TemplatePlaces : StoreKey(KeyAt(u)) = k
        BY DEF TableAsAnnounced, Handled
    <2>. QED  BY <2>1
<1>4. IsFiniteSet(table) /\ Cardinality(table) = Len(recency) + 1
    <2>1. IsFiniteSet(DOMAIN templates) /\ Cardinality(DOMAIN templates) = Len(recency)
        BY TableSize DEF TypesInv
    <2>. QED  BY <2>1, FS_AddElement
<1>5. Cardinality(table) <= Cardinality(stored)
    BY <1>2, <1>3, FS_Subset
<1>6. Cardinality(keys) <= Capacity
    BY DEF NoEvictions
<1>7. Cardinality(keys) \in Nat /\ Cardinality(stored) \in Nat /\ Len(recency) \in Nat
    BY <1>1, <1>2, FS_CardinalityType, LenProperties DEF TypesInv, IndInv, TypeOK
<1>. HIDE DEF keys, stored, table
<1>. QED  BY <1>2, <1>4, <1>5, <1>6, <1>7, CapacityAssumption

\* What an insertion does to the table.
LEMMA InsertFacts ==
    ASSUME IndInv, NEW session, NEW odid, NEW record, Insert(session, odid, record)
    PROVE  LET key == <<session, odid, record.id>>
           IN  /\ key \in DOMAIN templates => templates' = templates
               /\ key \notin DOMAIN templates =>
                      /\ \A k \in DOMAIN templates' :
                             \/ k = key /\ templates'[k] = record
                             \/ k # key /\ k \in DOMAIN templates /\ templates'[k] = templates[k]
                      /\ Len(recency) < Capacity => DOMAIN templates' = DOMAIN templates \cup {key}
<1>. DEFINE key == <<session, odid, record.id>>
<1>1. CASE Collide(key, record) \/ Refresh(key, record)
    BY <1>1 DEF Collide, Refresh
<1>2. CASE Install(key, record) /\ Capacity = 0
    <2>1. Len(recency) \in Nat
        BY LenProperties DEF IndInv, TypeOK
    <2>. QED  BY <1>2, <2>1 DEF Install, LruInsert
<1>3. CASE Install(key, record) /\ Capacity # 0
    <2>1. recency \in Seq(Keys) /\ IsInjective(recency) /\ Len(recency) <= Capacity
          /\ Range(recency) = DOMAIN templates /\ Len(recency) \in Nat
        BY LenProperties DEF IndInv, TypeOK, ListMatchesTable
    <2>2. Capacity > 0
        BY <1>3, CapacityAssumption
    <2>3. Range(MakeRoom(recency)) \subseteq Range(recency)
        BY <2>1, <2>2, RoomMade
    <2>4. Len(recency) < Capacity => Range(MakeRoom(recency)) = DOMAIN templates
        BY <2>2, KeptKeys
    <2>5. templates' = [k \in Range(MakeRoom(recency)) \cup {key} |->
                            IF k = key THEN record ELSE templates[k]]
          /\ key \notin DOMAIN templates
        BY <1>3 DEF Install, LruInsert
    <2>. QED  BY <2>1, <2>3, <2>4, <2>5
<1>. QED  BY <1>1, <1>2, <1>3 DEF Insert

\* Where nothing is left in the set in hand, going on handles nothing.
LEMMA NothingLeftBehind ==
    ASSUME TypesInv, Decoding, NextSet, UNCHANGED captured,
           \A t \in TemplatePlaces : t[1] = datagram /\ t[2] = set_idx => t[3] < record_idx
    PROVE  Handled' = Handled
<1>1. TemplatePlaces' = TemplatePlaces
    BY CaptureKept
<1>2. ASSUME NEW t \in TemplatePlaces
      PROVE  (/\ Precedes(t, Here)' \/ (t[1] = datagram' /\ t[2] = set_idx' /\ t[3] < record_idx'))
             <=> (Precedes(t, Here) \/ (t[1] = datagram /\ t[2] = set_idx /\ t[3] < record_idx))
    <2>1. t[1] \in Nat /\ t[2] \in Nat /\ t[3] \in Nat \ {0}
        BY AnnouncementFacts, Zenon
    <2>2. Precedes(t, Here)' <=> (Precedes(t, Here) \/ (t[1] = datagram /\ t[2] = set_idx))
        BY <2>1, NextSetPasses
    <2>3. ~(t[3] < record_idx')
        BY <2>1 DEF NextSet
    <2>. QED  BY <2>2, <2>3
<1>. QED  BY <1>1, <1>2 DEF Handled

LEMMA NoAnnouncementHere ==
    ASSUME TypesInv, Decoding, AtSet, Current.kind \notin TemplateKinds, NEW t \in TemplatePlaces
    PROVE  ~(t[1] = datagram /\ t[2] = set_idx)
BY AnnouncementFacts, AllRead DEF SetAt, Current, Message

\* The place of the template record in hand.
NewPlace == <<datagram, set_idx, record_idx>>

LEMMA OneMoreHandled ==
    ASSUME TypesInv, Decoding, HandleTemplate
    PROVE  /\ NewPlace \in TemplatePlaces /\ Handled' = Handled \cup {NewPlace}
           /\ RecordAt(NewPlace) = Current.records[record_idx]
           /\ KeyAt(NewPlace) = <<Message.odid, RecordAt(NewPlace).id>>
           /\ \A t \in Handled : NotAfter(t, NewPlace)
<1>1. /\ AtSet /\ Current.kind \in TemplateKinds /\ NextIsGood /\ UNCHANGED <<captured, datagram, set_idx>>
      /\ record_idx' = record_idx + 1
    BY DEF HandleTemplate, InSets, Running, AtSet, loadVars
<1>2. Datagrams[datagram] = Message /\ Current = Datagrams[datagram].sets[set_idx] /\ Here \in SetPlaces
    BY <1>1, HereIsAPlace DEF Current, TemplateKinds
<1>3. Len(Current.records) \in Nat /\ record_idx \in Nat \ {0}
      /\ \A k \in 1..(record_idx - 1) : Current.records[k] # Bad
    BY <1>1, AtHand, SetFacts DEF TypesInv, InPlace
<1>4. record_idx \in 1..Len(Current.records) /\ \A k \in 1..record_idx : Current.records[k] # Bad
    BY <1>1, <1>3 DEF NextIsGood
<1>5. NewPlace \in TemplatePlaces
    BY <1>1, <1>2, <1>4, TemplatePlaceFacts DEF NewPlace, Here
<1>6. RecordAt(NewPlace) = Current.records[record_idx]
      /\ KeyAt(NewPlace) = <<Message.odid, RecordAt(NewPlace).id>>
    BY <1>2 DEF RecordAt, KeyAt, SetAt, NewPlace
<1>7. Handled' = Handled \cup {NewPlace}
    <2>1. TemplatePlaces' = TemplatePlaces /\ Here' = Here
        BY <1>1, CaptureKept DEF Here
    <2>2. ASSUME NEW t \in TemplatePlaces
          PROVE  (t[1] = datagram /\ t[2] = set_idx /\ t[3] < record_idx') <=>
                     ((t[1] = datagram /\ t[2] = set_idx /\ t[3] < record_idx) \/ t = NewPlace)
        <3>1. t = <<t[1], t[2], t[3]>> /\ t[3] \in Nat
            BY AnnouncementFacts
        <3>2. t[3] < record_idx' <=> (t[3] < record_idx \/ t[3] = record_idx)
            BY <1>1, <1>3, <3>1
        <3>. QED  BY <3>1, <3>2 DEF NewPlace
    <2>. QED  BY <1>1, <1>5, <2>1, <2>2 DEF Handled, Precedes
<1>8. ASSUME NEW t \in Handled  PROVE NotAfter(t, NewPlace)
    <2>1. t[3] \in Nat
        BY AnnouncementFacts DEF Handled
    <2>. QED  BY <1>3, <2>1 DEF Handled, NotAfter, Precedes, Here, NewPlace
<1>. QED  BY <1>5, <1>6, <1>7, <1>8

LEMMA OthersHandleNothing ==
    ASSUME TypesInv, Decoding, JsonNext, ~HandleTemplate
    PROVE  Handled' = Handled /\ templates' = templates /\ UNCHANGED captured
<1>1. CASE LeaveDatagram
    <2>1. UNCHANGED <<captured, templates>> /\ TemplatePlaces' = TemplatePlaces
        BY <1>1, CaptureKept DEF LeaveDatagram, loadVars, vars
    <2>2. ASSUME NEW t \in TemplatePlaces
          PROVE  (Precedes(t, Here)' \/ (t[1] = datagram' /\ t[2] = set_idx' /\ t[3] < record_idx'))
                 <=> (Precedes(t, Here) \/ (t[1] = datagram /\ t[2] = set_idx /\ t[3] < record_idx))
        <3>1. <<t[1], t[2]>> \in SetPlaces /\ t[3] \in Nat /\ t[3] >= 1
            BY AnnouncementFacts
        <3>2. (Precedes(t, Here)' <=> Precedes(t, Here)) /\ ~(t[1] = datagram /\ t[2] = set_idx)
            BY <1>1, <3>1, LeavingPasses
        <3>3. ~(t[3] < record_idx')
            BY <1>1, <3>1 DEF LeaveDatagram, NextDatagram
        <3>. QED  BY <3>2, <3>3
    <2>. QED  BY <2>1, <2>2 DEF Handled
<1>2. CASE FinishTemplates
    <2>1. /\ AtSet /\ Current.kind \in TemplateKinds /\ ~NextIsGood /\ NextSet
          /\ UNCHANGED <<captured, templates>>
        BY <1>2 DEF FinishTemplates, InSets, Running, AtSet, loadVars, vars
    <2>2. ASSUME NEW t \in TemplatePlaces, t[1] = datagram, t[2] = set_idx  PROVE t[3] < record_idx
        <3>1. SetAt(t) = Current /\ t[3] \in 1..Len(Current.records) /\ t[3] \in Nat
              /\ \A n \in 1..t[3] : Current.records[n] # Bad
            BY <2>2, AllRead, AnnouncementFacts DEF SetAt, Current, Message
        <3>2. record_idx \in Nat \ {0} /\ Len(Current.records) \in Nat
            BY <2>1, AtHand, SetFacts DEF TypesInv, InPlace
        <3>. QED  BY <2>1, <3>1, <3>2 DEF NextIsGood
    <2>. QED  BY <2>1, <2>2, NothingLeftBehind
<1>3. CASE AtSet /\ Current.kind = "Data" /\ NextSet /\ UNCHANGED <<captured, templates>>
    <2>1. "Data" \notin TemplateKinds
        BY DEF TemplateKinds
    <2>. QED  BY <1>3, <2>1, NoAnnouncementHere, NothingLeftBehind
<1>4. CASE UNCHANGED <<captured, templates, datagram, set_idx, record_idx>>
    <2>1. TemplatePlaces' = TemplatePlaces
        BY <1>4, CaptureKept
    <2>. QED  BY <1>4, <2>1 DEF Handled, Precedes, Here
<1>5. CASE LookUpTemplate
    <2>1. /\ AtSet /\ Current.kind = "Data" /\ UNCHANGED <<captured, templates>>
          /\ UNCHANGED placeVars \/ NextSet
        BY <1>5 DEF LookUpTemplate, InSets, Running, AtSet, Get, loadVars
    <2>. QED  BY <1>3, <1>4, <2>1 DEF placeVars
<1>6. CASE FinishData
    <2>1. AtSet /\ Current.kind = "Data" /\ NextSet /\ UNCHANGED <<captured, templates>>
        BY <1>6, LayoutFacts DEF FinishData, loadVars, vars
    <2>. QED  BY <1>3, <2>1
<1>7. ~(ReadFrame \/ FailToLoad \/ FinishLoading)
    BY DEF Decoding, ReadFrame, FailToLoad, FinishLoading
<1>. QED  BY <1>1, <1>2, <1>4, <1>5, <1>6, <1>7 DEF JsonNext, StartRecord, PopulateField, PrintFlow,
              Finish, loadVars, placeVars, vars

\* A domain that is kept apart has its keys kept apart.
LEMMA StoreKeyInjective ==
    ASSUME NEW a \in Odids \X TemplateIds, NEW b \in Odids \X TemplateIds
    PROVE  StoreKey(a) = StoreKey(b) <=> a = b
BY DEF StoreKey

LEMMA HandledFacts ==
    ASSUME TypesInv, Decoding, NEW t \in Handled
    PROVE  t \in TemplatePlaces /\ KeyAt(t) \in Odids \X TemplateIds
BY AnnouncementFacts DEF Handled

LEMMA TableByTemplate ==
    ASSUME TypesInv, Decoding, TableAsAnnounced, HandleTemplate
    PROVE  TableAsAnnounced'
<1>. DEFINE record == Current.records[record_idx]
            key == <<Unit, Message.odid, record.id>>
<1>1. /\ NewPlace \in TemplatePlaces /\ Handled' = Handled \cup {NewPlace}
      /\ RecordAt(NewPlace) = record /\ StoreKey(KeyAt(NewPlace)) = key
      /\ \A t \in Handled : NotAfter(t, NewPlace)
    BY OneMoreHandled DEF StoreKey
<1>2. /\ UNCHANGED captured
      /\ key \in DOMAIN templates => templates' = templates
      /\ key \notin DOMAIN templates =>
             /\ \A k \in DOMAIN templates' :
                    \/ k = key /\ templates'[k] = record
                    \/ k # key /\ k \in DOMAIN templates /\ templates'[k] = templates[k]
             /\ Len(recency) < Capacity => DOMAIN templates' = DOMAIN templates \cup {key}
    BY InsertFacts DEF HandleTemplate, TypesInv, loadVars
<1>3. KeyAt(NewPlace) \in Odids \X TemplateIds
    BY <1>1, AnnouncementFacts
<1>. HIDE DEF record, key
<1>4. /\ \A t : KeyAt(t)' = KeyAt(t) /\ RecordAt(t)' = RecordAt(t)
      /\ NoEvictions' <=> NoEvictions
    BY <1>2, CaptureKept
<1>5. ASSUME NEW k \in DOMAIN templates'
      PROVE  \E t \in Handled' : StoreKey(KeyAt(t)) = k /\ templates'[k] = RecordAt(t)
    <2>1. CASE k = key /\ templates'[k] = record
        BY <1>1, <2>1
    <2>2. CASE k \in DOMAIN templates /\ templates'[k] = templates[k]
        BY <1>1, <2>2 DEF TableAsAnnounced
    <2>. QED  BY <1>2, <1>5, <2>1, <2>2
<1>. DEFINE Holds(t) ==
         /\ StoreKey(KeyAt(t)) \in DOMAIN templates'
         /\ \E u \in Handled' :
                /\ KeyAt(u) = KeyAt(t) /\ templates'[StoreKey(KeyAt(t))] = RecordAt(u)
                /\ \A v \in Handled' : KeyAt(v) = KeyAt(u) => NotAfter(u, v)
<1>6. ASSUME NoEvictions, NEW t \in Handled'  PROVE Holds(t)
    <2>1. ASSUME NEW s \in Handled, KeyAt(s) = KeyAt(t)  PROVE Holds(t)
        <3>1. PICK u \in Handled : /\ KeyAt(u) = KeyAt(s) /\ IsFirst(u)
                                   /\ templates[StoreKey(KeyAt(s))] = RecordAt(u)
            BY <1>6, <2>1 DEF TableAsAnnounced
        <3>2. StoreKey(KeyAt(s)) \in DOMAIN templates
            BY <1>6, <2>1 DEF TableAsAnnounced
        <3>3. \A v \in Handled' : KeyAt(v) = KeyAt(u) => NotAfter(u, v)
            BY <1>1, <3>1 DEF IsFirst
        <3>4. /\ StoreKey(KeyAt(s)) \in DOMAIN templates'
              /\ templates'[StoreKey(KeyAt(s))] = templates[StoreKey(KeyAt(s))]
            <4>1. CASE key \in DOMAIN templates
                BY <1>2, <3>2, <4>1
            <4>2. CASE key \notin DOMAIN templates
                <5>1. Len(recency) < Capacity
                    BY <1>1, <1>6, <4>2, RoomLeft
                <5>. QED  BY <1>2, <3>2, <4>2, <5>1
            <4>. QED  BY <4>1, <4>2
        <3>. QED  BY <1>1, <2>1, <3>1, <3>3, <3>4
    <2>2. ASSUME t = NewPlace, \A s \in Handled : KeyAt(s) # KeyAt(t)  PROVE Holds(t)
        <3>1. key \notin DOMAIN templates
            <4>1. SUFFICES ASSUME key \in DOMAIN templates  PROVE FALSE
                OBVIOUS
            <4>2. PICK s \in Handled : StoreKey(KeyAt(s)) = key
                BY <4>1 DEF TableAsAnnounced
            <4>3. KeyAt(s) = KeyAt(NewPlace)
                BY <1>1, <1>3, <4>2, HandledFacts, StoreKeyInjective
            <4>. QED  BY <2>2, <4>3
        <3>2. Len(recency) < Capacity
            BY <1>1, <1>6, <3>1, RoomLeft
        <3>3. key \in DOMAIN templates' /\ templates'[key] = record
            BY <1>2, <3>1, <3>2
        <3>4. NotAfter(NewPlace, NewPlace)
            <4>1. record_idx \in Nat
                BY DEF TypesInv, InPlace
            <4>. QED  BY <4>1 DEF NotAfter, NewPlace
        <3>5. \A v \in Handled' : KeyAt(v) = KeyAt(NewPlace) => NotAfter(NewPlace, v)
            BY <1>1, <2>2, <3>4
        <3>. QED  BY <1>1, <2>2, <3>3, <3>5
    <2>. QED  BY <1>1, <2>1, <2>2
<1>. HIDE DEF Holds
<1>7. NoEvictions => \A t \in Handled' : Holds(t)
    BY <1>6
<1>. USE DEF Holds
<1>8. TableAsAnnounced' <=>
          (Decoding' =>
            /\ \A k \in DOMAIN templates' :
                   \E t \in Handled' : StoreKey(KeyAt(t)) = k /\ templates'[k] = RecordAt(t)
            /\ NoEvictions => \A t \in Handled' : Holds(t))
    BY <1>4 DEF TableAsAnnounced, IsFirst, StoreKey
<1>. QED  BY <1>5, <1>7, <1>8

LEMMA TableInv ==
    ASSUME TypesInv, TableAsAnnounced, [JsonNext]_jsonVars
    PROVE  TableAsAnnounced'
<1>1. CASE Decoding /\ HandleTemplate
    BY <1>1, TableByTemplate
<1>2. ASSUME Decoding, UNCHANGED <<captured, templates>>, Handled' = Handled
      PROVE  TableAsAnnounced'
    <2>1. /\ \A t : KeyAt(t)' = KeyAt(t) /\ RecordAt(t)' = RecordAt(t)
          /\ NoEvictions' <=> NoEvictions
        BY <1>2, CaptureKept
    <2>. QED  BY <1>2, <2>1 DEF TableAsAnnounced, IsFirst, StoreKey
<1>3. CASE Decoding /\ JsonNext /\ ~HandleTemplate
    BY <1>2, <1>3, OthersHandleNothing
<1>4. CASE UNCHANGED jsonVars /\ Decoding
    <2>1. UNCHANGED <<captured, templates, datagram, set_idx, record_idx>>
        BY <1>4 DEF jsonVars, vars, loadVars, placeVars
    <2>2. TemplatePlaces' = TemplatePlaces
        BY <2>1, CaptureKept
    <2>3. Handled' = Handled
        BY <2>1, <2>2 DEF Handled, Precedes, Here
    <2>. QED  BY <1>2, <1>4, <2>1, <2>3
<1>5. CASE ~Decoding /\ Decoding'
    <2>1. FinishLoading /\ stage = "load"
        BY <1>5 DEF JsonNext, ReadFrame, FailToLoad, FinishLoading, LeaveDatagram, HandleTemplate,
              FinishTemplates, LookUpTemplate, StartRecord, PopulateField, PrintFlow, FinishData,
              Finish, InSets, Running, NextSet, NextDatagram, Decoding, jsonVars, placeVars
    <2>2. templates' = <<>> /\ datagram' = 1 /\ set_idx' = 1 /\ record_idx' = 1
        BY <2>1 DEF FinishLoading, TypesInv, Loaded, vars
    <2>3. TemplatePlaces' = TemplatePlaces
        BY <2>1, CaptureKept DEF FinishLoading, loadVars
    <2>4. Handled' = {}
        <3>1. ASSUME NEW t \in TemplatePlaces
              PROVE  /\ ~Precedes(t, Here)'
                     /\ ~(t[1] = datagram' /\ t[2] = set_idx' /\ t[3] < record_idx')
            <4>1. t[3] \in Nat \ {0} /\ <<t[1], t[2]>> \in SetPlaces
                BY <2>1, AnnouncementFacts
            <4>2. t[1] \in 1..Len(Datagrams) /\ t[2] \in Nat \ {0} /\ t[1] \in Nat
                BY <2>1, <4>1, SetPlaceFacts
            <4>. QED  BY <2>2, <4>1, <4>2 DEF Precedes, Here
        <3>. QED  BY <2>3, <3>1 DEF Handled
    <2>. QED  BY <2>2, <2>4 DEF TableAsAnnounced
<1>6. CASE ~Decoding'
    BY <1>6, Zenon DEF TableAsAnnounced
<1>. QED  BY <1>1, <1>3, <1>4, <1>5, <1>6

-----------------------------------------------------------------------------
(* What a record says, field by field.                                     *)

\* The places of the fields among the first n that say something of a member,
\* and of those that tell the version.
SayOf(fields, n, member) ==
    {i \in 1..n : fields[i].element \in DOMAIN Projected /\ Projected[fields[i].element].member = member}
SayVersion(fields, n) ==
    {i \in 1..n : fields[i].element \in DOMAIN Projected /\ Projected[fields[i].element].version # ""}

SaidOf(fields, record, n, member) ==
    IF SayOf(fields, n, member) = {} THEN Absent
    ELSE ValueOf(fields[LastOf(SayOf(fields, n, member))], record[LastOf(SayOf(fields, n, member))])
VersionSaid(fields, n) ==
    IF SayVersion(fields, n) = {} THEN ""
    ELSE Projected[fields[LastOf(SayVersion(fields, n))].element].version

LEMMA SaidFacts ==
    ASSUME NEW fields, NEW record, NEW n
    PROVE  Said(fields, record, n) =
               [version |-> VersionSaid(fields, n),
                members |-> [member \in Members |-> SaidOf(fields, record, n, member)]]
<1>. DEFINE shown == {i \in 1..n : fields[i].element \in DOMAIN Projected}
<1>1. \A member : {i \in shown : Projected[fields[i].element].member = member} = SayOf(fields, n, member)
    BY DEF SayOf
<1>2. {i \in shown : Projected[fields[i].element].version # ""} = SayVersion(fields, n)
    BY DEF SayVersion
<1>. QED  BY <1>1, <1>2, Zenon DEF Said, SaidOf, VersionSaid

LEMMA LastIs ==
    ASSUME NEW n \in Nat, NEW places \in SUBSET (1..n), n \in places
    PROVE  LastOf(places) = n
<1>1. \A j \in places : j <= n /\ j \in Nat
    OBVIOUS
<1>2. \A i \in places : (\A j \in places : j <= i) <=> i = n
    BY <1>1
<1>. QED  BY <1>2 DEF LastOf

LEMMA NothingSaid ==
    ASSUME NEW fields, NEW record
    PROVE  Said(fields, record, 0) = EmptyFlow
<1>1. \A member : SayOf(fields, 0, member) = {}
    BY DEF SayOf
<1>2. SayVersion(fields, 0) = {}
    BY DEF SayVersion
<1>. QED  BY <1>1, <1>2, SaidFacts, Zenon DEF SaidOf, VersionSaid, EmptyFlow

LEMMA AccessedIsValue ==
    ASSUME NEW field, field.element \in DOMAIN Projected, NEW value, NEW data,
           Len(data) = SizeOf(field, value), StandsFor(field, data, value)
    PROVE  Accessed(Projected[field.element].kind, data) = ValueOf(field, value)
<1>1. CASE IsNumber(field)
    BY <1>1 DEF IsNumber, StandsFor, Accessed, ValueOf
<1>2. CASE ~IsNumber(field)
    BY <1>2 DEF StandsFor, Accessed, ValueOf
<1>. QED  BY <1>1, <1>2

\* populate_flow adds what the next field says.
LEMMA OneMoreSaid ==
    ASSUME NEW fields, NEW record, NEW n \in Nat \ {0}, NEW data,
           Len(data) = SizeOf(fields[n], record[n]), StandsFor(fields[n], data, record[n])
    PROVE  Populate(Said(fields, record, n - 1), fields[n].element, data) = Said(fields, record, n)
<1>. DEFINE element == fields[n].element
            S(m) == SayOf(fields, m, Projected[element].member)
<1>1. 1..n = (1..(n - 1)) \cup {n} /\ n - 1 \in Nat
    OBVIOUS
<1>2. CASE element \notin DOMAIN Projected
    <2>1. \A member : SayOf(fields, n, member) = SayOf(fields, n - 1, member)
        BY <1>1, <1>2 DEF SayOf
    <2>2. SayVersion(fields, n) = SayVersion(fields, n - 1)
        BY <1>1, <1>2, Zenon DEF SayVersion
    <2>3. \A member : SaidOf(fields, record, n, member) = SaidOf(fields, record, n - 1, member)
        BY <2>1 DEF SaidOf
    <2>4. VersionSaid(fields, n) = VersionSaid(fields, n - 1)
        BY <2>2 DEF VersionSaid
    <2>5. Said(fields, record, n) = Said(fields, record, n - 1)
        BY <2>3, <2>4, SaidFacts
    <2>. QED  BY <1>2, <2>5 DEF Populate
<1>3. CASE element \in DOMAIN Projected
    <2>. DEFINE to == Projected[element]
    <2>1. to.member \in Members
        BY <1>3, ProjectedFacts
    <2>2. \A member : SayOf(fields, n, member) =
              IF member = to.member THEN SayOf(fields, n - 1, member) \cup {n} ELSE SayOf(fields, n - 1, member)
        BY <1>1, <1>3 DEF SayOf
    <2>3. SayVersion(fields, n) =
              IF to.version # "" THEN SayVersion(fields, n - 1) \cup {n} ELSE SayVersion(fields, n - 1)
        BY <1>1, <1>3, Zenon DEF SayVersion
    <2>4. \A member : SayOf(fields, n, member) \in SUBSET (1..n)
        BY DEF SayOf
    <2>5. SayVersion(fields, n) \in SUBSET (1..n)
        BY Zenon DEF SayVersion
    <2>6. Accessed(to.kind, data) = ValueOf(fields[n], record[n])
        BY <1>3, AccessedIsValue
    <2>7. \A member : SaidOf(fields, record, n, member) =
              IF member = to.member THEN Accessed(to.kind, data) ELSE SaidOf(fields, record, n - 1, member)
        <3>1. n \in SayOf(fields, n, to.member)
            BY <2>2
        <3>2. LastOf(SayOf(fields, n, to.member)) = n
            BY <2>4, <3>1, LastIs
        <3>. QED  BY <2>2, <2>6, <3>1, <3>2 DEF SaidOf
    <2>8. VersionSaid(fields, n) = IF to.version = "" THEN VersionSaid(fields, n - 1) ELSE to.version
        <3>1. to.version # "" => n \in SayVersion(fields, n) /\ LastOf(SayVersion(fields, n)) = n
            BY <2>3, <2>5, LastIs, Zenon
        <3>. QED  BY <2>3, <3>1, Zenon DEF VersionSaid
    <2>. DEFINE before == Said(fields, record, n - 1)
    <2>9. /\ before.version = VersionSaid(fields, n - 1)
          /\ before.members = [member \in Members |-> SaidOf(fields, record, n - 1, member)]
        BY SaidFacts
    <2>. HIDE DEF before, to
    <2>10. [before.members EXCEPT ![to.member] = Accessed(to.kind, data)]
               = [member \in Members |-> SaidOf(fields, record, n, member)]
        BY <2>1, <2>7, <2>9
    <2>11. Populate(before, element, data) =
               [version |-> IF to.version = "" THEN before.version ELSE to.version,
                members |-> [before.members EXCEPT ![to.member] = Accessed(to.kind, data)]]
        BY <1>3 DEF Populate, to
    <2>. QED  BY <2>8, <2>9, <2>10, <2>11, SaidFacts, Zenon DEF before
<1>. QED  BY <1>2, <1>3

-----------------------------------------------------------------------------
(* The loops over records and fields read what was written.                *)

\* k records of the set have been printed.
Reading(set, k) ==
    LET N == Len(set.records)
        fields == set.definition.fields
    IN  /\ layout = fields
        /\ field_idx = 0 => rest = RecordsWritten(set)[N - k]
        /\ field_idx > 0 =>
               /\ k < N
               /\ rest = RecordsWritten(set)[N - (k + 1)]
               /\ unread = ValuesWritten(fields, set.records[k + 1])[Len(fields) - (field_idx - 1)]
               /\ flow = Said(fields, set.records[k + 1], field_idx - 1)

\* Counting records: k of n have been gone past.
LEMMA StillToCome ==
    ASSUME NEW n \in Nat, NEW k \in 0..(n - 1)
    PROVE  /\ k < n /\ n - k \in 1..n /\ (n - k) - 1 = n - (k + 1) /\ n - (n - k) + 1 = k + 1
           /\ n - (k + 1) \in 0..n /\ k + 1 \in 1..n
OBVIOUS

\* Counting fields from the back.
LEMMA FromTheBack ==
    ASSUME NEW l \in Nat, NEW j \in 1..l
    PROVE  /\ l - (j - 1) \in 1..l /\ (l - (j - 1)) - 1 = l - j /\ l - (l - (j - 1)) + 1 = j
           /\ l - j \in 0..l /\ (j + 1) - 1 = j /\ j \in Nat \ {0}
OBVIOUS

\* The next record is what the code finds.
LEMMA NextRecordFound ==
    ASSUME NEW set, IsDataSet(set), NEW k \in 0..(Len(set.records) - 1)
    PROVE  LET fields == set.definition.fields
               lengths == Lengths(fields)
               left == RecordsWritten(set)[Len(set.records) - k]
               record == RecordWritten(fields, set.records[k + 1])
           IN  /\ RecordEnd(lengths, left) = Len(record) /\ Len(record) \in Nat
               /\ Len(left) >= Scan(lengths).min
               /\ Take(left, Len(record)) = record
               /\ Drop(left, Len(record)) = RecordsWritten(set)[Len(set.records) - (k + 1)]
<1>. DEFINE N == Len(set.records)
            fields == set.definition.fields
            lengths == Lengths(fields)
            W == RecordsWritten(set)
            record == RecordWritten(fields, set.records[k + 1])
            more == W[N - (k + 1)]
<1>1. N \in Nat /\ fields \in Seq(FieldSpecifier) /\ \A r \in 1..N : IsRecord(fields, set.records[r])
    BY DataSetFacts
<1>2. /\ \A n \in 1..N : W[n] = RecordInFront(set, n, W[n - 1])
      /\ \A n \in 0..N : W[n] \in Seq(Byte)
    BY RecordsFacts
<1>3. N - k \in 1..N /\ (N - k) - 1 = N - (k + 1) /\ N - (N - k) + 1 = k + 1
      /\ N - (k + 1) \in 0..N /\ k + 1 \in 1..N
    BY <1>1, StillToCome, Zenon
<1>4. W[N - k] = record \o more
    <2>1. W[N - k] = RecordInFront(set, N - k, W[(N - k) - 1])
        BY <1>2, <1>3
    <2>. QED  BY <1>3, <2>1 DEF RecordInFront
<1>5. more \in Seq(Byte) /\ IsRecord(fields, set.records[k + 1])
    BY <1>1, <1>2, <1>3
<1>. HIDE DEF fields, more, W, N
<1>6. /\ record \in Seq(Byte) /\ RecordEnd(Lengths(fields), record \o more) = Len(record)
      /\ Len(record \o more) >= Scan(Lengths(fields)).min
    BY <1>1, <1>5, RecordIsRead
<1>. HIDE DEF record
<1>7. Take(record \o more, Len(record)) = record /\ Drop(record \o more, Len(record)) = more
      /\ Len(record) \in Nat
    BY <1>5, <1>6, ConcatTakeDrop
<1>8. /\ RecordEnd(lengths, W[N - k]) = Len(record) /\ Len(record) \in Nat
      /\ Len(W[N - k]) >= Scan(lengths).min
      /\ Take(W[N - k], Len(record)) = record
      /\ Drop(W[N - k], Len(record)) = more
    BY <1>4, <1>6, <1>7, Zenon DEF lengths
<1>. QED  BY <1>8 DEF fields, more, W, N, record, lengths

LEMMA StartReads ==
    ASSUME NEW set, IsDataSet(set), NEW k \in 0..Len(set.records), Reading(set, k), StartRecord
    PROVE  Reading(set, k)'
<1>. DEFINE N == Len(set.records)
            fields == set.definition.fields
            lengths == Lengths(fields)
            record == RecordWritten(fields, set.records[k + 1])
<1>1. N \in Nat /\ fields \in Seq(FieldSpecifier) /\ Len(fields) \in Nat /\ lengths \in Seq(U16)
      /\ set.tail \in Seq(Byte)
    BY DataSetFacts, LengthsFacts, LenProperties
<1>2. layout = fields /\ rest = RecordsWritten(set)[N - k]
      /\ HasRecord /\ field_idx' = 1 /\ UNCHANGED layout /\ flow' = EmptyFlow
      /\ unread' = Take(rest, RecordSize) /\ rest' = Drop(rest, RecordSize)
    BY DEF Reading, StartRecord
<1>3. RecordSize = RecordEnd(lengths, rest) /\ RecordSize # Eof
    BY <1>2 DEF RecordSize, HasRecord
<1>4. k \in 0..(N - 1)
    <2>1. SUFFICES ASSUME k = N  PROVE FALSE
        BY <1>1
    <2>2. N - k = 0
        BY <1>1, <2>1
    <2>3. rest = set.tail
        BY <1>2, <2>2, RecordsFacts
    <2>4. CutsOf(lengths, set.tail) = {}
        BY DEF IsDataSet
    <2>. HIDE DEF lengths
    <2>. QED  BY <1>1, <1>3, <2>3, <2>4, NoneIsFound
<1>5. RecordSize = Len(record)
      /\ Take(rest, Len(record)) = record
      /\ Drop(rest, Len(record)) = RecordsWritten(set)[N - (k + 1)]
    BY <1>2, <1>3, <1>4, NextRecordFound
<1>6. unread' = record /\ rest' = RecordsWritten(set)[N - (k + 1)]
    BY <1>2, <1>5
<1>7. record = ValuesWritten(fields, set.records[k + 1])[Len(fields) - (1 - 1)]
    <2>1. Len(fields) - (1 - 1) = Len(fields)
        BY <1>1
    <2>. QED  BY <2>1 DEF RecordWritten
<1>8. flow' = Said(fields, set.records[k + 1], 1 - 1)
    BY <1>2, NothingSaid
<1>9. k < N
    <2>1. N \in Nat
        BY DataSetFacts
    <2>. HIDE DEF N
    <2>. QED  BY <1>4, <2>1, StillToCome, Zenon
<1>. QED  BY <1>2, <1>6, <1>7, <1>8, <1>9 DEF Reading

LEMMA PopulateReads ==
    ASSUME TypesInv, NEW set, IsDataSet(set), NEW k \in 0..Len(set.records), Reading(set, k), PopulateField
    PROVE  Reading(set, k)'
<1>. DEFINE N == Len(set.records)
            fields == set.definition.fields
            record == set.records[k + 1]
            V == ValuesWritten(fields, record)
            L == Len(fields)
            i == field_idx
            w == Written(fields[i], record[i])
<1>1. N \in Nat /\ fields \in Seq(FieldSpecifier) /\ L \in Nat /\ DOMAIN fields = 1..L
    BY DataSetFacts, LenProperties
<1>2. /\ layout = fields /\ i \in 1..L /\ UNCHANGED <<layout, rest>> /\ field_idx' = i + 1
      /\ unread' = Drop(unread, CutFrom(fields[i].length, unread).size)
      /\ flow' = IF CutFrom(fields[i].length, unread).ok
                 THEN Populate(flow, fields[i].element, CutFrom(fields[i].length, unread).data) ELSE flow
    BY <1>1 DEF Reading, PopulateField
<1>3. k < N /\ rest = RecordsWritten(set)[N - (k + 1)] /\ unread = V[L - (i - 1)]
      /\ flow = Said(fields, record, i - 1)
    BY <1>2 DEF Reading
<1>4. IsRecord(fields, record)
    BY <1>1, <1>3, DataSetFacts
<1>5. /\ \A n \in 1..L : V[n] = ValueInFront(fields, record, n, V[n - 1])
      /\ \A n \in 0..L : V[n] \in Seq(Byte)
    BY <1>1, <1>4, ValuesFacts
<1>. HIDE DEF N, L, V
<1>6. L - (i - 1) \in 1..L /\ (L - (i - 1)) - 1 = L - i /\ L - (L - (i - 1)) + 1 = i /\ L - i \in 0..L
      /\ (i + 1) - 1 = i /\ i \in Nat \ {0}
    BY <1>1, <1>2, FromTheBack, Zenon
<1>7. unread = w \o V[L - i]
    <2>1. unread = ValueInFront(fields, record, L - (i - 1), V[(L - (i - 1)) - 1])
        BY <1>3, <1>5, <1>6
    <2>. QED  BY <1>6, <2>1 DEF ValueInFront, L
<1>8. V[L - i] \in Seq(Byte)
    BY <1>5, <1>6
<1>9. fields[i] \in FieldSpecifier /\ Fits(fields[i], record[i])
    BY <1>1, <1>2, <1>4, ElementOfSeq DEF IsRecord, L
<1>10. PICK data \in Seq(Byte) :
           /\ CutFrom(fields[i].length, w \o V[L - i]) = CutOff(data, Len(w))
           /\ Len(data) = SizeOf(fields[i], record[i]) /\ StandsFor(fields[i], data, record[i])
    BY <1>8, <1>9, FieldIsRead
<1>11. w \in Seq(Byte) /\ Drop(w \o V[L - i], Len(w)) = V[L - i]
    BY <1>8, <1>9, FieldIsRead, ConcatTakeDrop
<1>. HIDE DEF w
<1>12. CutFrom(fields[i].length, unread) = CutOff(data, Len(w))
    BY <1>7, <1>10
<1>13. unread' = V[L - i] /\ flow' = Populate(flow, fields[i].element, data)
    BY <1>2, <1>7, <1>11, <1>12 DEF CutOff
<1>14. flow' = Said(fields, record, i)
    BY <1>3, <1>6, <1>10, <1>13, OneMoreSaid
<1>15. unread' = V[L - (field_idx' - 1)] /\ flow' = Said(fields, record, field_idx' - 1) /\ field_idx' # 0
    BY <1>2, <1>6, <1>13, <1>14
<1>. QED  BY <1>2, <1>3, <1>15, Zenon DEF Reading, N, L, V

LEMMA PrintReads ==
    ASSUME TypesInv, NEW set, IsDataSet(set), NEW k \in 0..Len(set.records), Reading(set, k), PrintFlow
    PROVE  /\ k + 1 \in 0..Len(set.records) /\ Reading(set, k + 1)'
           /\ flow = Meaning(set.definition.fields, set.records[k + 1])
<1>. DEFINE N == Len(set.records)
            L == Len(set.definition.fields)
<1>1. N \in Nat /\ L \in Nat
    BY DataSetFacts, LenProperties
<1>2. layout = set.definition.fields /\ field_idx > L /\ field_idx \in 0..(L + 1)
      /\ field_idx' = 0 /\ UNCHANGED <<layout, rest>>
    BY DEF Reading, PrintFlow, TypesInv, InData
<1>3. field_idx - 1 = L /\ field_idx > 0
    BY <1>1, <1>2
<1>4. k < N /\ rest = RecordsWritten(set)[N - (k + 1)]
      /\ flow = Said(set.definition.fields, set.records[k + 1], field_idx - 1)
    BY <1>3 DEF Reading
<1>5. flow = Meaning(set.definition.fields, set.records[k + 1])
    BY <1>3, <1>4 DEF Meaning
<1>. QED  BY <1>1, <1>2, <1>4, <1>5 DEF Reading

LEMMA FinishReads ==
    ASSUME NEW set, IsDataSet(set), NEW k \in 0..Len(set.records), Reading(set, k), FinishData
    PROVE  k = Len(set.records)
<1>. DEFINE N == Len(set.records)
            lengths == Lengths(set.definition.fields)
<1>1. N \in Nat
    BY DataSetFacts
<1>2. layout = set.definition.fields /\ rest = RecordsWritten(set)[N - k] /\ ~HasRecord
    BY DEF Reading, FinishData
<1>3. SUFFICES ASSUME k \in 0..(N - 1)  PROVE HasRecord
    BY <1>1, <1>2
<1>4. RecordEnd(lengths, rest) \in Nat /\ Len(rest) >= Scan(lengths).min
    BY <1>2, <1>3, NextRecordFound
<1>. QED  BY <1>2, <1>4 DEF HasRecord, RecordSize, Eof

-----------------------------------------------------------------------------
(* What has been printed.                                                  *)

PlaceOf(line) == <<line.datagram, line.set>>

\* The lines that came from a place.
From(lines, place) ==
    {k \in DOMAIN lines : lines[k].datagram = place[1] /\ lines[k].set = place[2]}

\* A line that is printed is one of the set in hand.
LEMMA PrintedMore ==
    ASSUME emitted \in Seq(Line), NEW line \in Line, emitted' = Append(emitted, line), NEW place
    PROVE  PrintedFor(place)' = IF line.datagram = place[1] /\ line.set = place[2]
                                THEN Append(PrintedFor(place), line) ELSE PrintedFor(place)
<1>1. /\ Len(emitted) \in Nat /\ emitted' \in Seq(Line) /\ Len(emitted') = Len(emitted) + 1
      /\ DOMAIN emitted = 1..Len(emitted) /\ DOMAIN emitted' = 1..(Len(emitted) + 1)
      /\ emitted'[Len(emitted) + 1] = line /\ \A k \in 1..Len(emitted) : emitted'[k] = emitted[k]
    OBVIOUS
<1>2. \A k \in 1..Len(emitted) : k \in From(emitted, place) <=> k \in From(emitted', place)
    BY <1>1 DEF From
<1>3. Len(emitted) + 1 \in From(emitted', place) <=> line.datagram = place[1] /\ line.set = place[2]
    BY <1>1 DEF From
<1>4. /\ PrintedFor(place) = Picked(emitted, From(emitted, place))[Len(emitted)]
      /\ PrintedFor(place)' = Picked(emitted', From(emitted', place))[Len(emitted')]
    BY DEF PrintedFor, From
<1>5. Picked(Append(emitted, line), From(emitted', place))[Len(Append(emitted, line))] =
          IF Len(emitted) + 1 \in From(emitted', place)
          THEN Append(Picked(emitted, From(emitted, place))[Len(emitted)], line)
          ELSE Picked(emitted, From(emitted, place))[Len(emitted)]
    BY <1>2, PickedMore
<1>. QED  BY <1>3, <1>4, <1>5

LEMMA PrintedNothing ==
    ASSUME emitted \in Seq(Line), NEW place,
           \A k \in 1..Len(emitted) : PlaceOf(emitted[k]) # <<place[1], place[2]>>
    PROVE  PrintedFor(place) = <<>>
<1>. DEFINE P == Picked(emitted, From(emitted, place))
            T == {n \in 0..Len(emitted) : P[n] = <<>>}
<1>1. Len(emitted) \in Nat /\ DOMAIN emitted = 1..Len(emitted)
    BY LenProperties
<1>2. P[0] = <<>> /\ \A n \in 1..Len(emitted) : P[n] = PickedWith(emitted, From(emitted, place), n, P[n - 1])
    BY PickedFacts
<1>3. \A n \in 1..Len(emitted) : n \notin From(emitted, place)
    BY DEF From, PlaceOf
<1>. HIDE DEF P
<1>4. 0 \in T /\ \A n \in 1..Len(emitted) : n - 1 \in T => n \in T
    BY <1>1, <1>2, <1>3 DEF PickedWith
<1>. HIDE DEF T
<1>5. 0..Len(emitted) \subseteq T
    BY <1>1, <1>4, UpTo
<1>6. Len(emitted) \in T
    BY <1>1, <1>5
<1>. QED  BY <1>6 DEF T, P, PrintedFor, From

LEMMA LinesForFacts ==
    ASSUME TypesInv, Decoding, NEW place \in DataPlaces
    PROVE  LET records == SetAt(place).records
               lines == LinesFor(place)
           IN  /\ Len(records) \in Nat /\ Len(lines) = Len(records)
               /\ SubSeq(lines, 1, 0) = <<>> /\ SubSeq(lines, 1, Len(records)) = lines
               /\ \A k \in 0..(Len(records) - 1) :
                      SubSeq(lines, 1, k + 1) = Append(SubSeq(lines, 1, k), lines[k + 1])
<1>. DEFINE N == Len(SetAt(place).records)
            lines == LinesFor(place)
            S == {lines[k] : k \in 1..N}
<1>1. IsDataSet(SetAt(place))
    <2>1. SetAt(place) = Datagrams[place[1]].sets[place[2]]
        BY DEF SetAt
    <2>. QED  BY <2>1, DataPlaceFacts, SetPlaceFacts, SetFacts
<1>2. N \in Nat /\ DOMAIN SetAt(place).records = 1..N
    BY <1>1, DataSetFacts
<1>3. lines = [k \in 1..N |-> lines[k]]
    BY <1>2 DEF LinesFor
<1>. HIDE DEF lines, N
<1>4. lines \in Seq(S) /\ Len(lines) = N
    BY <1>2, <1>3
<1>5. \A k \in 0..N : /\ SubSeq(lines, 1, k) \in Seq(S) /\ Len(SubSeq(lines, 1, k)) = k
                      /\ \A j \in 1..k : SubSeq(lines, 1, k)[j] = lines[j]
    BY <1>2, <1>4
<1>6. SubSeq(lines, 1, 0) = <<>>
    BY <1>2, <1>5, EmptySeq
<1>7. SubSeq(lines, 1, N) = lines
    BY <1>2, <1>4, <1>5, SeqEqual
<1>8. ASSUME NEW k \in 0..(N - 1)
      PROVE  SubSeq(lines, 1, k + 1) = Append(SubSeq(lines, 1, k), lines[k + 1])
    <2>1. k + 1 \in 0..N /\ k \in 0..N /\ lines[k + 1] \in S
        BY <1>2
    <2>2. PICK s \in Seq(S) : s = SubSeq(lines, 1, k)
        BY <1>5, <2>1
    <2>3. PICK t \in Seq(S) : t = SubSeq(lines, 1, k + 1)
        BY <1>5, <2>1
    <2>4. Len(s) = k /\ Len(t) = k + 1 /\ (\A j \in 1..k : s[j] = lines[j])
          /\ \A j \in 1..(k + 1) : t[j] = lines[j]
        BY <1>5, <2>1, <2>2, <2>3
    <2>5. PICK e \in S : e = lines[k + 1]
        BY <2>1
    <2>6. Append(s, e) \in Seq(S) /\ Len(Append(s, e)) = k + 1
          /\ \A j \in 1..(k + 1) : Append(s, e)[j] = lines[j]
        BY <2>1, <2>4, <2>5
    <2>7. t = Append(s, e)
        BY <2>4, <2>6, SeqEqual
    <2>. QED  BY <2>2, <2>3, <2>5, <2>7
<1>. QED  BY <1>2, <1>4, <1>6, <1>7, <1>8 DEF lines, N

-----------------------------------------------------------------------------
(* The template in force is the one that was announced first.              *)

LEMMA InFrontIsHandled ==
    ASSUME TypesInv, Decoding, AtSet, Current.kind = "Data", NEW t \in TemplatePlaces
    PROVE  t \in AnnouncedFor(Here) <=>
               t \in Handled /\ StoreKey(KeyAt(t)) = <<Unit, Message.odid, Current.definition.id>>
<1>1. Datagrams[datagram] = Message /\ SetAt(Here) = Current
    BY HereIsAPlace
<1>2. ~(t[1] = datagram /\ t[2] = set_idx)
    <2>1. Current.kind \notin TemplateKinds
        BY DEF TemplateKinds
    <2>. QED  BY <2>1, NoAnnouncementHere
<1>3. KeyAt(t) = <<KeyAt(t)[1], KeyAt(t)[2]>>
    BY DEF KeyAt
<1>4. StoreKey(KeyAt(t)) = <<Unit, Message.odid, Current.definition.id>>
      <=> KeyAt(t) = <<Message.odid, Current.definition.id>>
    BY <1>3 DEF StoreKey
<1>. QED  BY <1>1, <1>2, <1>4 DEF AnnouncedFor, Handled, Here

LEMMA InForce ==
    ASSUME TypesInv, Decoding, TableAsAnnounced, AtSet, Current.kind = "Data"
    PROVE  LET key == <<Unit, Message.odid, Current.definition.id>>
           IN  /\ key \in DOMAIN templates => AnnouncedFor(Here) # {}
               /\ AnnouncedRightly(Here) /\ NoEvictions =>
                      key \in DOMAIN templates /\ templates[key] = Current.definition
<1>. DEFINE key == <<Unit, Message.odid, Current.definition.id>>
<1>1. ASSUME key \in DOMAIN templates  PROVE AnnouncedFor(Here) # {}
    <2>1. PICK t \in Handled : StoreKey(KeyAt(t)) = key
        BY <1>1 DEF TableAsAnnounced
    <2>. QED  BY <2>1, HandledFacts, InFrontIsHandled
<1>2. ASSUME AnnouncedRightly(Here), NoEvictions
      PROVE  key \in DOMAIN templates /\ templates[key] = Current.definition
    <2>1. PICK t \in AnnouncedFor(Here) : /\ RecordAt(t) = Current.definition
                                          /\ \A u \in AnnouncedFor(Here) : NotAfter(t, u)
        BY <1>2, HereIsAPlace DEF AnnouncedRightly
    <2>2. t \in TemplatePlaces
        BY DEF AnnouncedFor
    <2>3. t \in Handled /\ StoreKey(KeyAt(t)) = key
        BY <2>1, <2>2, InFrontIsHandled
    <2>. HIDE DEF key
    <2>4. key \in DOMAIN templates
        BY <1>2, <2>3 DEF TableAsAnnounced
    <2>5. PICK u \in Handled : KeyAt(u) = KeyAt(t) /\ IsFirst(u) /\ templates[key] = RecordAt(u)
        BY <1>2, <2>3 DEF TableAsAnnounced
    <2>6. u \in TemplatePlaces /\ u \in AnnouncedFor(Here)
        BY <2>3, <2>5, HandledFacts, InFrontIsHandled DEF key
    <2>7. NotAfter(t, u) /\ NotAfter(u, t)
        BY <2>1, <2>3, <2>5, <2>6 DEF IsFirst
    <2>8. u = t
        <3>1. /\ t = <<t[1], t[2], t[3]>> /\ t[1] \in Nat /\ t[2] \in Nat /\ t[3] \in Nat
              /\ u = <<u[1], u[2], u[3]>> /\ u[1] \in Nat /\ u[2] \in Nat /\ u[3] \in Nat
            BY <2>2, <2>6, AnnouncementFacts
        <3>2. t[1] = u[1] /\ t[2] = u[2] /\ t[3] = u[3]
            BY <2>7, <3>1 DEF NotAfter, Precedes
        <3>. QED  BY <3>1, <3>2
    <2>. QED  BY <2>1, <2>4, <2>5, <2>8
<1>. QED  BY <1>1, <1>2

-----------------------------------------------------------------------------
(* What is printed is what the capture says.                               *)

\* The lines of a data set that has been gone past.
AsCaptured(place) ==
    IF AnnouncedFor(place) = {} THEN PrintedFor(place) = <<>>
    ELSE /\ AnnouncedRightly(place) /\ NoEvictions
            /\ OnlyIana(SetAt(place).definition.fields)
            => PrintedFor(place) = LinesFor(place)

\* Lines are printed set by set, and none for a set that has not been reached.
InOrder ==
    \A k \in 1..(Len(emitted) - 1) : ~Precedes(PlaceOf(emitted[k + 1]), PlaceOf(emitted[k]))
Reached ==
    \A k \in 1..Len(emitted) :
        /\ PlaceOf(emitted[k]) \in DataPlaces
        /\ \/ Precedes(PlaceOf(emitted[k]), Here)
           \/ PlaceOf(emitted[k]) = Here /\ layout # NoLayout
Passed == \A place \in DataPlaces : Precedes(place, Here) => AsCaptured(place)

\* The set in hand: its first records have been printed.
InHand ==
    layout # NoLayout =>
        /\ AnnouncedFor(Here) # {}
        /\ AnnouncedRightly(Here) /\ NoEvictions =>
               \E k \in 0..Len(Current.records) :
                   Reading(Current, k) /\ PrintedFor(Here) = SubSeq(LinesFor(Here), 1, k)

PrintedSoFar == Decoding => InOrder /\ Reached /\ Passed /\ InHand

LEMMA AsCapturedKept ==
    ASSUME UNCHANGED captured, NEW place, PrintedFor(place)' = PrintedFor(place)
    PROVE  AsCaptured(place)' <=> AsCaptured(place)
<1>1. /\ AnnouncedFor(place)' = AnnouncedFor(place) /\ SetAt(place)' = SetAt(place)
      /\ LinesFor(place)' = LinesFor(place)
      /\ AnnouncedRightly(place)' <=> AnnouncedRightly(place)
      /\ NoEvictions' <=> NoEvictions
    BY CaptureKept
<1>2. OnlyIana(SetAt(place).definition.fields)' <=> OnlyIana(SetAt(place).definition.fields)
    BY <1>1 DEF OnlyIana
<1>. QED  BY <1>1, <1>2 DEF AsCaptured

LEMMA HereKept ==
    ASSUME UNCHANGED <<captured, payloads, datagram, set_idx>>
    PROVE  /\ Here' = Here /\ Current' = Current
           /\ AnnouncedFor(Here)' = AnnouncedFor(Here)
           /\ AnnouncedRightly(Here)' <=> AnnouncedRightly(Here)
           /\ LinesFor(Here)' = LinesFor(Here) /\ (NoEvictions' <=> NoEvictions)
<1>1. Here' = Here /\ Current' = Current
    BY DEF Here, Current, Message
<1>2. /\ Datagrams' = Datagrams /\ TemplatePlaces' = TemplatePlaces /\ (NoEvictions' <=> NoEvictions)
      /\ \A p : KeyAt(p)' = KeyAt(p) /\ RecordAt(p)' = RecordAt(p)
    BY CaptureKept
<1>3. SetAt(Here)' = SetAt(Here)
    BY <1>1, <1>2 DEF SetAt
<1>4. AnnouncedFor(Here)' = AnnouncedFor(Here)
    BY <1>1, <1>2, <1>3 DEF AnnouncedFor, Precedes
<1>5. AnnouncedRightly(Here)' <=> AnnouncedRightly(Here)
    BY <1>2, <1>3, <1>4 DEF AnnouncedRightly
<1>6. LinesFor(Here)' = LinesFor(Here)
    BY <1>1, <1>2, <1>3 DEF LinesFor
<1>. QED  BY <1>1, <1>2, <1>4, <1>5, <1>6

\* Nothing has been printed for a set before its template has been looked up.
LEMMA NothingYet ==
    ASSUME TypesInv, Decoding, PrintedSoFar, layout = NoLayout
    PROVE  PrintedFor(Here) = <<>>
<1>1. emitted \in Seq(Line) /\ datagram \in Nat /\ set_idx \in Nat
    BY AtHand DEF TypesInv, InData, InPlace
<1>2. \A k \in 1..Len(emitted) : Precedes(PlaceOf(emitted[k]), Here)
    BY DEF PrintedSoFar, Reached
<1>3. Here[1] = datagram /\ Here[2] = set_idx
    BY DEF Here
<1>4. ~Precedes(<<Here[1], Here[2]>>, Here)
    BY <1>1, <1>3 DEF Precedes
<1>. QED  BY <1>1, <1>2, <1>4, PrintedNothing, Zenon

\* Going on to the next set, when this one has been printed as it should be.
LEMMA MovedOn ==
    ASSUME TypesInv, Decoding, PrintedSoFar, NextSet, UNCHANGED <<captured, emitted>>,
           layout' = NoLayout, Here \in DataPlaces => AsCaptured(Here)
    PROVE  PrintedSoFar'
<1>1. DataPlaces' = DataPlaces
    BY CaptureKept
<1>2. ASSUME NEW p \in DataPlaces
      PROVE  /\ Precedes(p, Here)' <=> (Precedes(p, Here) \/ p = Here)
             /\ AsCaptured(p)' <=> AsCaptured(p)
    <2>1. p = <<p[1], p[2]>> /\ p[1] \in Nat /\ p[2] \in Nat
        BY DataPlaceFacts
    <2>2. Precedes(p, Here)' <=> (Precedes(p, Here) \/ (p[1] = datagram /\ p[2] = set_idx))
        BY <2>1, NextSetPasses
    <2>3. PrintedFor(p)' = PrintedFor(p)
        BY DEF PrintedFor
    <2>4. p = Here <=> p[1] = datagram /\ p[2] = set_idx
        BY <2>1 DEF Here
    <2>. QED  BY <2>2, <2>3, <2>4, AsCapturedKept
<1>3. Passed'
    <2>1. SUFFICES ASSUME NEW p \in DataPlaces, Precedes(p, Here)'  PROVE AsCaptured(p)'
        BY <1>1 DEF Passed
    <2>2. AsCaptured(p)
        BY <1>2, <2>1 DEF PrintedSoFar, Passed
    <2>. QED  BY <1>2, <2>2
<1>4. Reached'
    <2>1. SUFFICES ASSUME NEW k \in 1..Len(emitted)
                   PROVE  PlaceOf(emitted[k])' \in DataPlaces /\ Precedes(PlaceOf(emitted[k]), Here)'
        BY <1>1 DEF Reached
    <2>2. PICK p : p = PlaceOf(emitted[k])
        OBVIOUS
    <2>3. p \in DataPlaces /\ (Precedes(p, Here) \/ p = Here) /\ PlaceOf(emitted[k])' = p
        BY <2>2 DEF PrintedSoFar, Reached, PlaceOf
    <2>4. Precedes(p, Here)'
        BY <1>2, <2>3
    <2>. QED  BY <2>3, <2>4 DEF Precedes
<1>5. InOrder'
    BY DEF PrintedSoFar, InOrder, PlaceOf
<1>6. InHand'
    BY DEF InHand
<1>. QED  BY <1>3, <1>4, <1>5, <1>6 DEF PrintedSoFar

\* Nothing is printed and the set in hand is the same.
LEMMA Stayed ==
    ASSUME PrintedSoFar, Decoding, UNCHANGED <<captured, emitted, datagram, set_idx>>,
           layout = NoLayout \/ layout' # NoLayout
    PROVE  /\ InOrder' /\ Reached' /\ Passed'
           /\ PrintedFor(Here)' = PrintedFor(Here)
<1>1. DataPlaces' = DataPlaces /\ Here' = Here
    BY CaptureKept DEF Here
<1>2. \A p : AsCaptured(p)' <=> AsCaptured(p)
    BY AsCapturedKept DEF PrintedFor
<1>3. InOrder' /\ Reached' /\ Passed'
    BY <1>1, <1>2 DEF PrintedSoFar, InOrder, Reached, Passed, Precedes, PlaceOf
<1>4. PrintedFor(Here)' = PrintedFor(Here)
    BY <1>1 DEF PrintedFor
<1>. QED  BY <1>3, <1>4

LEMMA LeavingKeeps ==
    ASSUME TypesInv, Decoding, PrintedSoFar, LeaveDatagram
    PROVE  PrintedSoFar'
<1>1. layout = NoLayout /\ UNCHANGED <<captured, emitted, layout>>
    BY DEF LeaveDatagram, Running, loadVars, dataVars
<1>2. DataPlaces' = DataPlaces
    BY <1>1, CaptureKept
<1>3. ASSUME NEW p \in DataPlaces
      PROVE  /\ Precedes(p, Here)' <=> Precedes(p, Here)
             /\ AsCaptured(p)' <=> AsCaptured(p)
    <2>1. PrintedFor(p)' = PrintedFor(p)
        BY <1>1 DEF PrintedFor
    <2>. QED  BY <1>1, <2>1, DataPlaceFacts, LeavingPasses, AsCapturedKept
<1>4. Passed'
    BY <1>2, <1>3 DEF PrintedSoFar, Passed
<1>5. Reached'
    <2>1. SUFFICES ASSUME NEW k \in 1..Len(emitted)
                   PROVE  PlaceOf(emitted[k])' \in DataPlaces /\ Precedes(PlaceOf(emitted[k]), Here)'
        BY <1>1, <1>2 DEF Reached
    <2>2. PICK p : p = PlaceOf(emitted[k])
        OBVIOUS
    <2>3. p \in DataPlaces /\ Precedes(p, Here) /\ PlaceOf(emitted[k])' = p
        BY <1>1, <2>2 DEF PrintedSoFar, Reached, PlaceOf
    <2>4. Precedes(p, Here)'
        BY <1>3, <2>3
    <2>. QED  BY <2>3, <2>4 DEF Precedes
<1>6. InOrder' /\ InHand'
    BY <1>1 DEF PrintedSoFar, InOrder, InHand, PlaceOf
<1>. QED  BY <1>4, <1>5, <1>6 DEF PrintedSoFar

LEMMA LookUpKeeps ==
    ASSUME TypesInv, Decoding, TableAsAnnounced, PrintedSoFar, LookUpTemplate
    PROVE  PrintedSoFar'
<1>. DEFINE key == <<Unit, Message.odid, Current.definition.id>>
<1>1. /\ layout = NoLayout /\ AtSet /\ Current.kind = "Data" /\ field_idx = 0
      /\ UNCHANGED <<captured, payloads, emitted, field_idx>>
    BY DEF LookUpTemplate, InSets, Running, AtSet, TypesInv, InData, loadVars
<1>2. Here \in DataPlaces /\ SetAt(Here) = Current
    BY <1>1, HereIsAPlace DEF DataPlaces
<1>3. PrintedFor(Here) = <<>>
    BY <1>1, NothingYet
<1>4. /\ key \in DOMAIN templates => AnnouncedFor(Here) # {}
      /\ AnnouncedRightly(Here) /\ NoEvictions =>
             key \in DOMAIN templates /\ templates[key] = Current.definition
    BY <1>1, InForce
<1>5. CASE key \notin DOMAIN templates
    <2>1. NextSet /\ layout' = NoLayout
        BY <1>1, <1>5 DEF LookUpTemplate
    <2>2. AsCaptured(Here)
        BY <1>3, <1>4, <1>5 DEF AsCaptured
    <2>. QED  BY <1>1, <2>1, <2>2, MovedOn
<1>6. CASE key \in DOMAIN templates
    <2>1. layout' = templates[key].fields /\ rest' = BytesOf(Current) /\ UNCHANGED placeVars
        BY <1>6 DEF LookUpTemplate
    <2>2. UNCHANGED <<captured, payloads, emitted, datagram, set_idx>>
        BY <1>1, <2>1 DEF placeVars
    <2>3. InOrder' /\ Reached' /\ Passed' /\ PrintedFor(Here)' = PrintedFor(Here)
        BY <1>1, <2>2, Stayed
    <2>4. ASSUME AnnouncedRightly(Here), NoEvictions
          PROVE  \E k \in 0..Len(Current.records) :
                     Reading(Current, k)' /\ PrintedFor(Here) = SubSeq(LinesFor(Here), 1, k)
        <3>1. PICK set : set = Current
            OBVIOUS
        <3>2. IsDataSet(set) /\ Len(set.records) \in Nat
            BY <1>1, <3>1, AtHand, SetFacts, DataSetFacts
        <3>3. SubSeq(LinesFor(Here), 1, 0) = <<>>
            BY <1>2, LinesForFacts
        <3>4. layout' = set.definition.fields
            BY <1>4, <2>1, <2>4, <3>1
        <3>5. rest' = RecordsWritten(set)[Len(set.records) - 0]
            BY <2>1, <3>1, <3>2 DEF BytesOf
        <3>6. Reading(set, 0)'
            BY <1>1, <3>4, <3>5 DEF Reading
        <3>7. Reading(Current, 0)'
            BY <2>2, <3>1, <3>6, HereKept DEF Reading
        <3>. QED  BY <1>3, <3>1, <3>2, <3>3, <3>7
    <2>5. InHand'
        BY <1>4, <1>6, <2>2, <2>3, <2>4, HereKept DEF InHand
    <2>. QED  BY <2>3, <2>5 DEF PrintedSoFar
<1>. QED  BY <1>5, <1>6

\* The next record is started, or a field of it is read.
LEMMA ReadingKeeps ==
    ASSUME TypesInv, Decoding, PrintedSoFar, StartRecord \/ PopulateField
    PROVE  PrintedSoFar'
<1>1. UNCHANGED <<captured, payloads, emitted, datagram, set_idx, layout>>
    BY DEF StartRecord, PopulateField, loadVars, placeVars
<1>2. layout # NoLayout
    BY DEF StartRecord, PopulateField, NoLayout
<1>3. IsDataSet(Current)
    BY <1>2, LayoutFacts
<1>4. InOrder' /\ Reached' /\ Passed' /\ PrintedFor(Here)' = PrintedFor(Here)
    BY <1>1, <1>2, Stayed
<1>5. ASSUME NEW k \in 0..Len(Current.records), Reading(Current, k)
      PROVE  Reading(Current, k)'
    <2>1. PICK set : set = Current
        OBVIOUS
    <2>2. Reading(set, k)'
        BY <1>3, <1>5, <2>1, StartReads, PopulateReads
    <2>. QED  BY <1>1, <2>1, <2>2, HereKept DEF Reading
<1>6. AnnouncedFor(Here) # {}
      /\ (AnnouncedRightly(Here) /\ NoEvictions =>
              \E k \in 0..Len(Current.records) :
                  Reading(Current, k) /\ PrintedFor(Here) = SubSeq(LinesFor(Here), 1, k))
    BY <1>2 DEF PrintedSoFar, InHand
<1>7. InHand'
    BY <1>1, <1>4, <1>5, <1>6, HereKept DEF InHand
<1>. QED  BY <1>4, <1>7 DEF PrintedSoFar

LEMMA PrintKeeps ==
    ASSUME TypesInv, Decoding, PrintedSoFar, PrintFlow
    PROVE  PrintedSoFar'
<1>1. /\ layout # NoLayout /\ UNCHANGED <<captured, payloads, datagram, set_idx, layout>>
      /\ emitted \in Seq(Line) /\ datagram \in Nat /\ set_idx \in Nat
    BY AtHand DEF PrintFlow, loadVars, placeVars, TypesInv, InData, InPlace
<1>2. AtSet /\ Current.kind = "Data" /\ IsDataSet(Current)
    BY <1>1, LayoutFacts
<1>3. /\ Here \in DataPlaces /\ SetAt(Here) = Current /\ Datagrams[datagram] = Message
      /\ Here[1] = datagram /\ Here[2] = set_idx
    BY <1>2, HereIsAPlace DEF DataPlaces, Here
<1>4. PICK line : line = [datagram |-> datagram, set |-> set_idx, odid |-> Message.odid,
                          sequence |-> Message.sequence, flow |-> flow]
    OBVIOUS
<1>5. emitted' = Append(emitted, line) /\ PlaceOf(line) = Here
    BY <1>4 DEF PrintFlow, PlaceOf, Here
<1>6. line \in Line
    <2>1. Message \in Carry /\ flow \in Flows
        BY <1>2, AtHand DEF AtSet, TypesInv, InData
    <2>. QED  BY <1>1, <1>4, <2>1, CarryFacts DEF Line
<1>7. \A p : PrintedFor(p)' = IF line.datagram = p[1] /\ line.set = p[2]
                              THEN Append(PrintedFor(p), line) ELSE PrintedFor(p)
    BY <1>1, <1>5, <1>6, PrintedMore
<1>8. /\ Len(emitted) \in Nat /\ Len(emitted') = Len(emitted) + 1
      /\ \A k \in 1..Len(emitted) : emitted'[k] = emitted[k]
      /\ emitted'[Len(emitted) + 1] = line
    BY <1>1, <1>5, <1>6
<1>9. DataPlaces' = DataPlaces /\ Here' = Here
    BY <1>1, CaptureKept, HereKept
<1>10. Reached'
    <2>1. ASSUME NEW k \in 1..Len(emitted')
          PROVE  /\ PlaceOf(emitted'[k]) \in DataPlaces
                 /\ Precedes(PlaceOf(emitted'[k]), Here) \/ PlaceOf(emitted'[k]) = Here
        <3>1. CASE k = Len(emitted) + 1
            BY <1>3, <1>5, <1>8, <3>1
        <3>2. CASE k # Len(emitted) + 1
            <4>1. k \in 1..Len(emitted) /\ emitted'[k] = emitted[k]
                BY <1>8, <3>2
            <4>. QED  BY <4>1 DEF PrintedSoFar, Reached
        <3>. QED  BY <3>1, <3>2
    <2>2. \A k \in 1..Len(emitted') :
              /\ PlaceOf(emitted[k])' \in DataPlaces'
              /\ Precedes(PlaceOf(emitted[k]), Here)' \/ PlaceOf(emitted[k])' = Here'
        <3>1. SUFFICES ASSUME NEW k \in 1..Len(emitted')
                       PROVE  /\ PlaceOf(emitted[k])' \in DataPlaces'
                              /\ Precedes(PlaceOf(emitted[k]), Here)' \/ PlaceOf(emitted[k])' = Here'
            OBVIOUS
        <3>2. PICK p : p = PlaceOf(emitted'[k])
            OBVIOUS
        <3>3. p \in DataPlaces /\ (Precedes(p, Here) \/ p = Here)
            BY <2>1, <3>2
        <3>4. PlaceOf(emitted[k])' = p
            BY <3>2 DEF PlaceOf
        <3>. QED  BY <1>9, <3>3, <3>4 DEF Precedes
    <2>. QED  BY <1>1, <2>2 DEF Reached, NoLayout
<1>11. InOrder'
    <2>1. ASSUME NEW k \in 1..(Len(emitted') - 1)
          PROVE  ~Precedes(PlaceOf(emitted'[k + 1]), PlaceOf(emitted'[k]))
        <3>1. k \in 1..Len(emitted) /\ emitted'[k] = emitted[k]
            BY <1>8
        <3>2. CASE k = Len(emitted)
            <4>1. PICK p : p = PlaceOf(emitted[k])
                OBVIOUS
            <4>2. p \in DataPlaces /\ (Precedes(p, Here) \/ p = Here)
                BY <3>1, <4>1 DEF PrintedSoFar, Reached
            <4>3. p[1] \in Nat /\ p[2] \in Nat
                BY <4>2, DataPlaceFacts
            <4>4. Here[1] \in Nat /\ Here[2] \in Nat
                BY <1>1, <1>3
            <4>5. ~Precedes(Here, p)
                BY <4>2, <4>3, <4>4 DEF Precedes
            <4>. QED  BY <1>5, <1>8, <3>1, <3>2, <4>1, <4>5
        <3>3. CASE k # Len(emitted)
            <4>1. k \in 1..(Len(emitted) - 1) /\ k + 1 \in 1..Len(emitted)
                BY <1>8, <3>1, <3>3
            <4>2. emitted'[k + 1] = emitted[k + 1]
                BY <1>8, <4>1
            <4>. QED  BY <3>1, <4>1, <4>2 DEF PrintedSoFar, InOrder
        <3>. QED  BY <3>2, <3>3
    <2>. QED  BY <2>1 DEF InOrder, Precedes, PlaceOf
<1>12. Passed'
    <2>1. SUFFICES ASSUME NEW p \in DataPlaces, Precedes(p, Here)  PROVE AsCaptured(p)'
        BY <1>9 DEF Passed, Precedes
    <2>2. ~(line.datagram = p[1] /\ line.set = p[2])
        BY <1>1, <1>3, <1>4, <2>1 DEF Precedes
    <2>3. PrintedFor(p)' = PrintedFor(p) /\ AsCaptured(p)
        BY <1>7, <2>1, <2>2 DEF PrintedSoFar, Passed
    <2>. QED  BY <1>1, <2>3, AsCapturedKept
<1>13. InHand'
    <2>1. AnnouncedFor(Here) # {}
          /\ (AnnouncedRightly(Here) /\ NoEvictions =>
                  \E k \in 0..Len(Current.records) :
                      Reading(Current, k) /\ PrintedFor(Here) = SubSeq(LinesFor(Here), 1, k))
        BY <1>1 DEF PrintedSoFar, InHand
    <2>2. PrintedFor(Here)' = Append(PrintedFor(Here), line)
        <3>1. PICK h : h = Here
            OBVIOUS
        <3>2. PrintedFor(h)' = Append(PrintedFor(h), line)
            BY <1>3, <1>4, <1>7, <3>1
        <3>3. PrintedFor(Here)' = PrintedFor(h)'
            BY <1>9, <3>1 DEF PrintedFor
        <3>. QED  BY <3>1, <3>2, <3>3
    <2>3. ASSUME NEW k \in 0..Len(Current.records), Reading(Current, k),
                 PrintedFor(Here) = SubSeq(LinesFor(Here), 1, k)
          PROVE  /\ k + 1 \in 0..Len(Current.records) /\ Reading(Current, k + 1)'
                 /\ PrintedFor(Here)' = SubSeq(LinesFor(Here), 1, k + 1)
        <3>1. PICK set : set = Current
            OBVIOUS
        <3>2. /\ k + 1 \in 0..Len(set.records) /\ Reading(set, k + 1)'
              /\ flow = Meaning(set.definition.fields, set.records[k + 1])
            BY <1>2, <2>3, <3>1, PrintReads
        <3>3. Reading(Current, k + 1)'
            BY <1>1, <3>1, <3>2, HereKept DEF Reading
        <3>4. Len(set.records) \in Nat /\ DOMAIN set.records = 1..Len(set.records)
            BY <1>2, <3>1, DataSetFacts
        <3>5. k + 1 \in DOMAIN set.records /\ k \in 0..(Len(set.records) - 1)
            BY <2>3, <3>1, <3>2, <3>4
        <3>6. LinesFor(Here)[k + 1] = line
            BY <1>3, <1>4, <3>1, <3>2, <3>5 DEF LinesFor
        <3>7. SubSeq(LinesFor(Here), 1, k + 1) = Append(SubSeq(LinesFor(Here), 1, k), LinesFor(Here)[k + 1])
            BY <1>3, <3>1, <3>5, LinesForFacts
        <3>. QED  BY <2>2, <2>3, <3>1, <3>2, <3>3, <3>6, <3>7
    <2>. QED  BY <1>1, <2>1, <2>3, HereKept DEF InHand
<1>. QED  BY <1>10, <1>11, <1>12, <1>13 DEF PrintedSoFar

\* The last record has been printed when no more is found.
LEMMA FinishKeeps ==
    ASSUME TypesInv, Decoding, PrintedSoFar, FinishData
    PROVE  PrintedSoFar'
<1>1. layout # NoLayout /\ NextSet /\ layout' = NoLayout /\ UNCHANGED <<captured, emitted>>
    BY DEF FinishData, loadVars
<1>2. AtSet /\ Current.kind = "Data" /\ IsDataSet(Current)
    BY <1>1, LayoutFacts
<1>3. Here \in DataPlaces /\ SetAt(Here) = Current
    BY <1>2, HereIsAPlace DEF DataPlaces
<1>4. AnnouncedFor(Here) # {}
      /\ (AnnouncedRightly(Here) /\ NoEvictions =>
              \E k \in 0..Len(Current.records) :
                  Reading(Current, k) /\ PrintedFor(Here) = SubSeq(LinesFor(Here), 1, k))
    BY <1>1 DEF PrintedSoFar, InHand
<1>5. ASSUME NEW k \in 0..Len(Current.records), Reading(Current, k)
      PROVE  SubSeq(LinesFor(Here), 1, k) = LinesFor(Here)
    <2>1. PICK set : set = Current
        OBVIOUS
    <2>2. k = Len(set.records)
        BY <1>2, <1>5, <2>1, FinishReads
    <2>. QED  BY <1>3, <2>1, <2>2, LinesForFacts
<1>6. AsCaptured(Here)
    BY <1>4, <1>5 DEF AsCaptured
<1>. QED  BY <1>1, <1>6, MovedOn

LEMMA PrintedInv ==
    ASSUME TypesInv, TableAsAnnounced, PrintedSoFar, [JsonNext]_jsonVars
    PROVE  PrintedSoFar'
<1>1. CASE Decoding /\ LeaveDatagram
    BY <1>1, LeavingKeeps
<1>2. CASE Decoding /\ LookUpTemplate
    BY <1>2, LookUpKeeps
<1>3. CASE Decoding /\ (StartRecord \/ PopulateField)
    BY <1>3, ReadingKeeps
<1>4. CASE Decoding /\ PrintFlow
    BY <1>4, PrintKeeps
<1>5. CASE Decoding /\ FinishData
    BY <1>5, FinishKeeps
<1>6. CASE Decoding /\ FinishTemplates
    <2>1. /\ AtSet /\ Current.kind \in TemplateKinds /\ NextSet /\ layout' = NoLayout
          /\ UNCHANGED <<captured, emitted>>
        BY <1>6 DEF FinishTemplates, InSets, Running, AtSet, loadVars, dataVars
    <2>2. Here \notin DataPlaces
        BY <1>6, <2>1, HereIsAPlace DEF DataPlaces, TemplateKinds
    <2>. QED  BY <1>6, <2>1, <2>2, MovedOn
<1>7. CASE Decoding /\ (HandleTemplate \/ Finish)
    <2>1. layout = NoLayout
        BY <1>7, AtHand, LayoutFacts DEF HandleTemplate, InSets, Running, Finish, AtSet
    <2>2. layout' = NoLayout /\ UNCHANGED <<captured, emitted, datagram, set_idx>>
        BY <1>7, <2>1 DEF HandleTemplate, Finish, loadVars, dataVars
    <2>3. InOrder' /\ Reached' /\ Passed' /\ InHand'
        BY <1>7, <2>1, <2>2, Stayed DEF InHand
    <2>. QED  BY <2>3 DEF PrintedSoFar
<1>8. CASE Decoding /\ UNCHANGED jsonVars
    <2>1. UNCHANGED <<captured, payloads, emitted, datagram, set_idx, layout, field_idx, rest, unread, flow>>
        BY <1>8 DEF jsonVars, loadVars, placeVars, dataVars
    <2>2. InOrder' /\ Reached' /\ Passed' /\ PrintedFor(Here)' = PrintedFor(Here)
        BY <1>8, <2>1, Stayed
    <2>3. InHand'
        BY <1>8, <2>1, <2>2, HereKept DEF PrintedSoFar, InHand, Reading
    <2>. QED  BY <2>2, <2>3 DEF PrintedSoFar
<1>9. CASE Decoding /\ (ReadFrame \/ FailToLoad \/ FinishLoading)
    BY <1>9 DEF Decoding, ReadFrame, FailToLoad, FinishLoading
<1>10. CASE ~Decoding /\ Decoding'
    <2>1. FinishLoading /\ stage = "load"
        BY <1>10, LayoutFacts
           DEF JsonNext, ReadFrame, FailToLoad, FinishLoading, LeaveDatagram, HandleTemplate,
              FinishTemplates, LookUpTemplate, StartRecord, PopulateField, PrintFlow, FinishData,
              Finish, InSets, Running, NextSet, NextDatagram, Decoding, jsonVars, placeVars
    <2>2. emitted' = <<>> /\ layout' = NoLayout /\ datagram' = 1 /\ set_idx' = 1
        BY <2>1 DEF FinishLoading, TypesInv, Loaded, dataVars
    <2>3. DataPlaces' = DataPlaces
        BY <2>1, CaptureKept DEF FinishLoading, loadVars
    <2>4. ASSUME NEW p \in DataPlaces  PROVE ~Precedes(p, Here)'
        <3>1. p[1] \in 1..Len(Datagrams) /\ p[1] \in Nat /\ p[2] \in Nat \ {0}
            BY <2>1, DataPlaceFacts, SetPlaceFacts
        <3>. QED  BY <2>2, <3>1 DEF Precedes, Here
    <2>5. Passed'
        BY <2>3, <2>4 DEF Passed
    <2>. QED  BY <2>2, <2>5 DEF PrintedSoFar, InOrder, Reached, InHand
<1>11. CASE ~Decoding'
    BY <1>11 DEF PrintedSoFar
<1>. QED  BY <1>1, <1>2, <1>3, <1>4, <1>5, <1>6, <1>7, <1>8, <1>9, <1>10, <1>11 DEF JsonNext

\* At the end everything has been gone past.
LEMMA PrintedAll ==
    ASSUME TypesInv, PrintedSoFar
    PROVE  OutputAsCaptured
<1>1. SUFFICES ASSUME stage = "done", NoOptions  PROVE OutputAsCaptured
    BY DEF OutputAsCaptured
<1>2. Decoding /\ datagram > Len(payloads) /\ layout = NoLayout /\ emitted \in Seq(Line)
    BY <1>1, AtHand, LayoutFacts DEF Decoding, TypesInv, Loaded, InData
<1>3. \A k \in 1..(Len(emitted) - 1) :
          ~Precedes(<<emitted[k + 1].datagram, emitted[k + 1].set>>,
                    <<emitted[k].datagram, emitted[k].set>>)
    BY <1>2 DEF PrintedSoFar, InOrder, PlaceOf
<1>4. \A line \in Range(emitted) : <<line.datagram, line.set>> \in DataPlaces
    <2>1. DOMAIN emitted = 1..Len(emitted)
        BY <1>2, LenProperties
    <2>. QED  BY <1>2, <2>1 DEF PrintedSoFar, Reached, PlaceOf, Range
<1>5. ASSUME NEW p \in DataPlaces  PROVE AsCaptured(p)
    <2>1. p[1] \in Nat /\ p[1] <= Len(payloads)
        BY <1>2, DataPlaceFacts, AllRead
    <2>2. Precedes(p, Here)
        BY <1>2, <2>1, AtHand DEF Precedes, Here
    <2>. QED  BY <1>2, <2>2 DEF PrintedSoFar, Passed
<1>. QED  BY <1>3, <1>4, <1>5 DEF OutputAsCaptured, AsCaptured

\* Whatever a capture without IP options holds, the finished output is what it
\* says: one line per record of every data set whose template was announced first
\* in its domain, with the values that were exported, in order, and no line that
\* is not a record's (json_collector.rs 253-308).
THEOREM OutputIsAsCaptured == JsonSpec => []OutputAsCaptured
<1>. DEFINE AllInv == TypesInv /\ TableAsAnnounced /\ PrintedSoFar
<1>1. JsonInit => AllInv
    BY TypesAtInit DEF JsonInit, TableAsAnnounced, PrintedSoFar, Decoding
<1>2. AllInv /\ [JsonNext]_jsonVars => AllInv'
    BY TypesByNext, TableInv, PrintedInv
<1>3. AllInv => OutputAsCaptured
    BY PrintedAll
<1>. QED  BY <1>1, <1>2, <1>3, PTL DEF JsonSpec
=============================================================================
