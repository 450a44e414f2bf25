------------------------- MODULE PacketStreamProofs -------------------------
(***************************************************************************)
(* Theorems about PacketStream: however the bytes of the connection are    *)
(* cut into reads, recv_loop finds the packets that were sent.  The proofs *)
(* go by the digits of a length (Lengths), what packet_size makes of the   *)
(* beginning of a packet (Packets), and where start_pos is then.           *)
(***************************************************************************)
EXTENDS PacketStream, Induction, SequenceTheorems, FiniteSetTheorems, TLAPS

Bytes == [digit : 0 .. Base - 1, more : BOOLEAN]

-----------------------------------------------------------------------------
(* Sequences *)

\* What is joined, at the places where it is then.
LEMMA Joined ==
  ASSUME NEW S, NEW s \in Seq(S), NEW t \in Seq(S)
  PROVE  /\ s \o t \in Seq(S) /\ Len(s) \in Nat /\ Len(t) \in Nat /\ Len(s \o t) \in Nat
         /\ Len(s \o t) = Len(s) + Len(t)
         /\ \A j \in 1 .. Len(s) : (s \o t)[j] = s[j]
         /\ \A j \in 1 .. Len(t) : (s \o t)[Len(s) + j] = t[j]
<1>1. Len(s) \in Nat /\ Len(t) \in Nat
  OBVIOUS
<1>2. /\ s \o t \in Seq(S) /\ Len(s \o t) = Len(s) + Len(t)
      /\ \A i \in 1 .. Len(s) + Len(t) :
           (s \o t)[i] = IF i <= Len(s) THEN s[i] ELSE t[i - Len(s)]
  BY ConcatProperties
<1>3. \A j \in 1 .. Len(s) : j \in 1 .. Len(s) + Len(t) /\ j <= Len(s)
  BY <1>1
<1>4. \A j \in 1 .. Len(t) : /\ Len(s) + j \in 1 .. Len(s) + Len(t)
                            /\ ~(Len(s) + j <= Len(s)) /\ Len(s) + j - Len(s) = j
  BY <1>1
<1> QED  BY <1>1, <1>2, <1>3, <1>4

\* What is cut out of a sequence.
LEMMA Cut ==
  ASSUME NEW S, NEW s \in Seq(S), NEW m \in Nat, NEW n \in Nat, m <= n, n <= Len(s)
  PROVE  /\ SubSeq(s, m + 1, n) \in Seq(S) /\ Len(SubSeq(s, m + 1, n)) = n - m
         /\ \A j \in 1 .. n - m : m + j \in 1 .. Len(s) /\ SubSeq(s, m + 1, n)[j] = s[m + j]
<1>1. Len(s) \in Nat
  OBVIOUS
<1>2. \A i \in m + 1 .. n : s[i] \in S
  BY <1>1
<1>3. m + 1 \in Int /\ n \in Int
  OBVIOUS
<1>4. /\ SubSeq(s, m + 1, n) \in Seq(S)
      /\ Len(SubSeq(s, m + 1, n)) = IF m + 1 <= n THEN n - (m + 1) + 1 ELSE 0
      /\ \A i \in 1 .. n - (m + 1) + 1 : SubSeq(s, m + 1, n)[i] = s[m + 1 + i - 1]
  BY <1>2, <1>3, SubSeqProperties
<1>5. n - (m + 1) + 1 = n - m /\ \A j \in 1 .. n - m : m + 1 + j - 1 = m + j
  OBVIOUS
<1>6. \A j \in 1 .. n - m : m + j \in 1 .. Len(s)
  BY <1>1
<1>7. Len(SubSeq(s, m + 1, n)) = n - m
  BY <1>4
<1> QED  BY <1>4, <1>5, <1>6, <1>7

\* A sequence is what stands at its places.
LEMMA Places ==
  ASSUME NEW S, NEW s \in Seq(S)
  PROVE  /\ Len(s) \in Nat /\ DOMAIN s = 1 .. Len(s)
         /\ \A j \in 1 .. Len(s) : s[j] \in S
OBVIOUS

-----------------------------------------------------------------------------
(* Lengths *)

\* A number is its last digit and the rest.
LEMMA Division ==
  ASSUME NEW n \in Nat, n >= Base
  PROVE  /\ n % Base \in 0 .. Base - 1 /\ n \div Base \in 0 .. n - 1
         /\ n = (n % Base) + Base * (n \div Base)
<1>1. Base \in Nat /\ Base > 1
  BY ConstantsAssumption
<1>2. n % Base \in 0 .. Base - 1 /\ n = (n % Base) + Base * (n \div Base)
  BY <1>1
<1>3. n \div Base \in Nat
  BY <1>1
<1> DEFINE q == n \div Base
<1>4. q < n
  <2>1. n % Base \in Nat /\ q \in Nat /\ n = (n % Base) + Base * q
    BY <1>1, <1>2, <1>3
  <2> HIDE DEF q
  <2>2. Base * q <= n
    BY <1>1, <2>1
  <2>3. q = 0 \/ Base * q >= q + q
    BY <1>1, <2>1
  <2> QED  BY <1>1, <2>1, <2>2, <2>3
<1> QED  BY <1>2, <1>3, <1>4

\* The digits of a number, computed from one place on.
Extends(f, i) == IF i < Base THEN <<i>> ELSE <<i % Base>> \o f[i \div Base]

DigitsUpTo(g, n) ==
  /\ g \in [0 .. n -> Seq(0 .. Base - 1)]
  /\ \A i \in 0 .. n : g[i] = Extends(g, i)

\* Up to any number there are digits.
LEMMA DigitsExist ==
  ASSUME NEW n \in Nat
  PROVE  \E g : DigitsUpTo(g, n)
<1> DEFINE T == {m \in 0 .. n : \E g : DigitsUpTo(g, m)}
<1>0. Base \in Nat /\ Base > 1
  BY ConstantsAssumption
<1>1. 0 \in T
  <2> DEFINE g == [i \in 0 .. 0 |-> <<i>>]
  <2>1. /\ \A i \in 0 .. 0 : i = 0 /\ i < Base /\ <<i>> \in Seq(0 .. Base - 1)
        /\ 0 \in 0 .. 0
    BY <1>0
  <2>2. g \in [0 .. 0 -> Seq(0 .. Base - 1)]
    BY <2>1
  <2>3. DigitsUpTo(g, 0)
    <3>1. \A i \in 0 .. 0 : g[i] = <<i>> /\ i < Base
      BY <2>1
    <3> HIDE DEF g
    <3> QED  BY <2>2, <3>1 DEF DigitsUpTo, Extends
  <2> HIDE DEF g
  <2> QED  BY <2>3
<1>2. ASSUME NEW m \in 1 .. n, m - 1 \in T
      PROVE  m \in T
  <2>1. PICK g : DigitsUpTo(g, m - 1)
    BY <1>2
  <2> DEFINE h == [i \in 0 .. m |-> IF i = m THEN Extends(g, m) ELSE g[i]]
  <2>2. /\ m \in Nat /\ g \in [0 .. m - 1 -> Seq(0 .. Base - 1)]
        /\ \A i \in 0 .. m - 1 : g[i] = Extends(g, i)
    BY <2>1 DEF DigitsUpTo
  <2>3. ASSUME NEW i \in 0 .. m
        PROVE  /\ Extends(g, i) \in Seq(0 .. Base - 1) /\ Extends(h, i) = Extends(g, i)
               /\ h[i] = Extends(g, i)
    <3>1. h[i] = Extends(g, i)
      <4>1. i = m \/ i \in 0 .. m - 1
        BY <2>2
      <4> QED  BY <2>2, <4>1
    <3>2. CASE i < Base
      <4>1. i \in 0 .. Base - 1
        BY <1>0, <3>2
      <4>2. <<i>> \in Seq(0 .. Base - 1)
        BY <4>1
      <4> QED  BY <3>1, <3>2, <4>2 DEF Extends
    <3>3. CASE ~(i < Base)
      <4>1. /\ i \in Nat /\ i >= Base
        BY <1>0, <3>3
      <4>2. i % Base \in 0 .. Base - 1 /\ i \div Base \in 0 .. i - 1
        BY <4>1, Division
      <4>3. i \div Base \in 0 .. m - 1 /\ i \div Base # m /\ i \div Base \in 0 .. m
        BY <2>2, <4>2
      <4>4. h[i \div Base] = g[i \div Base] /\ g[i \div Base] \in Seq(0 .. Base - 1)
        BY <2>2, <4>3
      <4>5. <<i % Base>> \o g[i \div Base] \in Seq(0 .. Base - 1)
        BY <4>2, <4>4, ConcatProperties
      <4> HIDE DEF h
      <4> QED  BY <3>1, <3>3, <4>4, <4>5 DEF Extends
    <3> QED  BY <3>2, <3>3
  <2>4. DigitsUpTo(h, m)
    <3>1. h \in [0 .. m -> Seq(0 .. Base - 1)]
      <4>1. \A i \in 0 .. m : h[i] \in Seq(0 .. Base - 1)
        BY <2>3
      <4> QED  BY <4>1
    <3> HIDE DEF h
    <3> QED  BY <2>3, <3>1 DEF DigitsUpTo
  <2> HIDE DEF h
  <2> QED  BY <2>4
<1> HIDE DEF T
<1>3. \A m \in 0 .. n : m \in T
  BY <1>1, <1>2, UpTo
<1>4. n \in T
  BY <1>3
<1> QED  BY <1>4 DEF T

\* And no others.
LEMMA DigitsAgree ==
  ASSUME NEW n \in Nat, NEW m \in Nat, NEW g, NEW h, DigitsUpTo(g, n), DigitsUpTo(h, m),
         NEW k \in Nat, k <= n, k <= m
  PROVE  g[k] = h[k]
<1> DEFINE T == {i \in 0 .. k : g[i] = h[i]}
<1>0. Base \in Nat /\ Base > 1
  BY ConstantsAssumption
<1>1. ASSUME NEW i \in 0 .. k, \A j \in 0 .. i - 1 : j \in T
      PROVE  i \in T
  <2>1. g[i] = Extends(g, i) /\ h[i] = Extends(h, i)
    BY DEF DigitsUpTo
  <2>2. CASE i < Base
    BY <2>1, <2>2 DEF Extends
  <2>3. CASE ~(i < Base)
    <3>1. i \in Nat /\ i >= Base
      BY <1>0, <2>3
    <3>2. i \div Base \in 0 .. i - 1
      BY <3>1, Division
    <3>3. g[i \div Base] = h[i \div Base]
      BY <1>1, <3>2
    <3> QED  BY <2>1, <2>3, <3>3 DEF Extends
  <2> QED  BY <2>2, <2>3
<1> HIDE DEF T
<1>2. \A i \in 0 .. k : i \in T
  BY <1>1, StrongUpTo
<1> QED  BY <1>2 DEF T

\* So the digits of a number are its last one and those of the rest.
LEMMA DigitsAre ==
  ASSUME NEW n \in Nat
  PROVE  /\ Digits[n] = IF n < Base THEN <<n>> ELSE <<n % Base>> \o Digits[n \div Base]
         /\ Digits[n] \in Seq(0 .. Base - 1) /\ Len(Digits[n]) \in Nat \ {0}
<1> DEFINE Is(f) == f = [i \in Nat |-> IF i < Base THEN <<i>>
                                       ELSE <<i % Base>> \o f[i \div Base]]
           best(i) == CHOOSE g : DigitsUpTo(g, i)
           d == [i \in Nat |-> best(i)[i]]
<1>0. Base \in Nat /\ Base > 1
  BY ConstantsAssumption
<1>1. \A i \in Nat : DigitsUpTo(best(i), i)
  BY DigitsExist
<1>2. ASSUME NEW i \in Nat
      PROVE  d[i] = Extends(d, i)
  <2>1. d[i] = best(i)[i] /\ best(i)[i] = Extends(best(i), i)
    BY <1>1 DEF DigitsUpTo
  <2>2. CASE i < Base
    BY <2>1, <2>2 DEF Extends
  <2>3. CASE ~(i < Base)
    <3> DEFINE q == i \div Base
    <3>1. q \in 0 .. i - 1
      BY <1>0, <2>3, Division
    <3> HIDE DEF q
    <3>2. q \in Nat /\ q <= i /\ q <= q
      BY <3>1
    <3>3. DigitsUpTo(best(i), i) /\ DigitsUpTo(best(q), q)
      BY <1>1, <3>2
    <3> HIDE DEF best
    <3>4. best(i)[q] = best(q)[q]
      BY <3>2, <3>3, DigitsAgree
    <3>5. d[q] = best(i)[q]
      BY <3>2, <3>4
    <3>6. d[i \div Base] = best(i)[i \div Base]
      BY <3>5 DEF q
    <3> HIDE DEF d
    <3> QED  BY <2>1, <2>3, <3>6 DEF Extends
  <2> QED  BY <2>2, <2>3
<1>3. Is(d)
  <2>1. d = [i \in Nat |-> d[i]]
    OBVIOUS
  <2> HIDE DEF d
  <2> QED  BY <1>2, <2>1 DEF Extends
<1>4. Is(Digits)
  <2> HIDE DEF d
  <2>1. Is(CHOOSE f : Is(f))
    BY <1>3
  <2> QED  BY <2>1 DEF Digits
<1>5. \A i \in Nat : Digits[i] = IF i < Base THEN <<i>>
                                 ELSE <<i % Base>> \o Digits[i \div Base]
  BY <1>4
<1> DEFINE T == {i \in 0 .. n : /\ Digits[i] \in Seq(0 .. Base - 1)
                                /\ Len(Digits[i]) \in Nat \ {0}}
<1>6. ASSUME NEW i \in 0 .. n, \A j \in 0 .. i - 1 : j \in T
      PROVE  i \in T
  <2>0. i \in Nat
    OBVIOUS
  <2>1. CASE i < Base
    <3>1. Digits[i] = <<i>>
      BY <1>5, <2>0, <2>1
    <3>2. i \in 0 .. Base - 1
      BY <1>0, <2>0, <2>1
    <3>3. <<i>> \in Seq(0 .. Base - 1) /\ Len(<<i>>) = 1 /\ 1 \in Nat \ {0}
      BY <3>2
    <3> QED  BY <3>1, <3>3
  <2>2. CASE ~(i < Base)
    <3>1. i % Base \in 0 .. Base - 1 /\ i \div Base \in 0 .. i - 1
      BY <1>0, <2>0, <2>2, Division
    <3>2. Digits[i \div Base] \in Seq(0 .. Base - 1)
      BY <1>6, <3>1
    <3>3. Digits[i] = <<i % Base>> \o Digits[i \div Base]
      BY <1>5, <2>0, <2>2
    <3>4. <<i % Base>> \in Seq(0 .. Base - 1) /\ Len(<<i % Base>>) = 1
      BY <3>1
    <3>5. /\ Digits[i] \in Seq(0 .. Base - 1)
          /\ Len(Digits[i]) = 1 + Len(Digits[i \div Base])
      BY <3>2, <3>3, <3>4, ConcatProperties
    <3>6. Len(Digits[i \div Base]) \in Nat
      BY <3>2
    <3> QED  BY <3>5, <3>6
  <2> QED  BY <2>1, <2>2
<1> HIDE DEF T
<1>7. \A i \in 0 .. n : i \in T
  BY <1>6, StrongUpTo
<1>8. n \in T
  BY <1>7
<1> QED  BY <1>5, <1>8 DEF T

\* The value of bytes, computed from the last one on.
Accumulates(v, bytes) ==
  LET n == Len(bytes)
  IN  /\ v \in [0 .. n -> Nat] /\ v[0] = 0
      /\ \A i \in 1 .. n : v[i] = bytes[n - i + 1].digit + Base * v[i - 1]

\* That is how Value is defined, and it is defined for all bytes.
LEMMA ValueIs ==
  ASSUME NEW bytes \in Seq(Bytes)
  PROVE  \E v : Accumulates(v, bytes) /\ Value(bytes) = v[Len(bytes)]
<1> DEFINE n == Len(bytes)
           step == [i \in 1 .. n |-> [x \in Nat |-> bytes[n - i + 1].digit + Base * x]]
           Is(f) == f = [i \in 0 .. n |-> IF i = 0 THEN 0
                                          ELSE bytes[n - i + 1].digit + Base * f[i - 1]]
<1>0. Base \in Nat /\ Base > 1 /\ n \in Nat
  BY ConstantsAssumption
<1>1. ASSUME NEW i \in 1 .. n
      PROVE  bytes[n - i + 1].digit \in Nat
  <2>1. n - i + 1 \in 1 .. n
    BY <1>0
  <2>2. bytes[n - i + 1] \in Bytes
    BY <2>1
  <2> QED  BY <1>0, <2>2 DEF Bytes
<1>2. step \in [1 .. n -> [Nat -> Nat]]
  <2>1. ASSUME NEW i \in 1 .. n, NEW x \in Nat
        PROVE  bytes[n - i + 1].digit + Base * x \in Nat
    BY <1>0, <1>1
  <2> HIDE DEF n
  <2> QED  BY <2>1
<1>3. PICK f : Computes(f, n, Nat, 0, step)
  <2> HIDE DEF n, step
  <2> QED  BY <1>0, <1>2, Iterated
<1>4. /\ f \in [0 .. n -> Nat] /\ f[0] = 0
      /\ \A i \in 1 .. n : f[i] = bytes[n - i + 1].digit + Base * f[i - 1]
  <2>1. f \in [0 .. n -> Nat] /\ f[0] = 0 /\ \A i \in 1 .. n : f[i] = step[i][f[i - 1]]
    BY <1>3 DEF Computes
  <2>2. \A i \in 1 .. n : f[i - 1] \in Nat
    BY <1>0, <2>1, Predecessor
  <2> HIDE DEF n
  <2> QED  BY <2>1, <2>2
<1>5. Is(f)
  <2> HIDE DEF n
  <2> QED  BY <1>0, <1>4
<1> DEFINE v == CHOOSE g : Is(g)
<1>6. Is(v)
  BY <1>5
<1>7. Value(bytes) = v[n]
  BY DEF Value
<1> HIDE DEF v
<1>8. v = f
  <2> DEFINE T == {i \in 0 .. n : v[i] = f[i]}
  <2> HIDE DEF n
  <2>1. 0 \in T
    BY <1>0, <1>4, <1>6
  <2>2. ASSUME NEW i \in 1 .. n, i - 1 \in T
        PROVE  i \in T
    <3>1. i \in 0 .. n /\ i # 0
      BY <1>0, Predecessor
    <3> QED  BY <1>4, <1>6, <2>2, <3>1
  <2> HIDE DEF T
  <2>3. \A i \in 0 .. n : i \in T
    BY <1>0, <2>1, <2>2, UpTo
  <2>4. \A i \in 0 .. n : v[i] = f[i]
    BY <2>3 DEF T
  <2>5. v = [i \in 0 .. n |-> v[i]] /\ f = [i \in 0 .. n |-> f[i]]
    BY <1>4, <1>6
  <2> QED  BY <2>4, <2>5
<1>9. Accumulates(f, bytes)
  BY <1>4 DEF Accumulates
<1> QED  BY <1>7, <1>8, <1>9

\* One byte more has the lowest digit.
LEMMA ValueOfMore ==
  ASSUME NEW bytes \in Seq(Bytes), bytes # << >>
  PROVE  /\ Tail(bytes) \in Seq(Bytes)
         /\ Value(bytes) = bytes[1].digit + Base * Value(Tail(bytes))
<1> DEFINE n == Len(bytes)
           rest == Tail(bytes)
<1>1. /\ rest \in Seq(Bytes) /\ Len(rest) = n - 1 /\ n \in Nat \ {0}
      /\ \A i \in 1 .. n - 1 : rest[i] = bytes[i + 1]
  OBVIOUS
<1>2. PICK v : Accumulates(v, bytes) /\ Value(bytes) = v[n]
  BY ValueIs
<1> HIDE DEF rest
<1>3. PICK w : Accumulates(w, rest) /\ Value(rest) = w[n - 1]
  BY <1>1, ValueIs
<1> HIDE DEF n
<1> DEFINE T == {i \in 0 .. n - 1 : v[i] = w[i]}
<1>4. /\ v[0] = 0 /\ w[0] = 0
      /\ \A i \in 1 .. n : v[i] = bytes[n - i + 1].digit + Base * v[i - 1]
      /\ \A i \in 1 .. n - 1 : w[i] = rest[n - 1 - i + 1].digit + Base * w[i - 1]
  BY <1>1, <1>2, <1>3 DEF Accumulates, n
<1>5. 0 \in T
  BY <1>1, <1>4
<1>6. ASSUME NEW i \in 1 .. n - 1, i - 1 \in T
      PROVE  i \in T
  <2>1. n - 1 - i + 1 \in 1 .. n - 1 /\ n - 1 - i + 1 + 1 = n - i + 1 /\ i \in 1 .. n
        /\ i \in 0 .. n - 1
    BY <1>1
  <2>2. rest[n - 1 - i + 1] = bytes[n - i + 1]
    BY <1>1, <2>1
  <2> QED  BY <1>4, <1>6, <2>1, <2>2
<1> HIDE DEF T
<1>7. \A i \in 0 .. n - 1 : i \in T
  <2>1. n - 1 \in Nat
    BY <1>1
  <2> QED  BY <1>5, <1>6, <2>1, UpTo
<1>8. n - 1 \in 0 .. n - 1 /\ n \in 1 .. n /\ n - n + 1 = 1
  BY <1>1
<1>9. v[n - 1] = w[n - 1]
  BY <1>7, <1>8 DEF T
<1>10. v[n] = bytes[1].digit + Base * v[n - 1]
  BY <1>4, <1>8
<1> QED  BY <1>1, <1>2, <1>3, <1>9, <1>10 DEF rest

\* The value of the digits of a number is the number.
LEMMA ValueOfDigits ==
  ASSUME NEW n \in Nat, NEW bytes \in Seq(Bytes), Len(bytes) = Len(Digits[n]),
         \A j \in 1 .. Len(bytes) : bytes[j].digit = Digits[n][j]
  PROVE  Value(bytes) = n
<1> DEFINE Has(b, i) == /\ Len(b) = Len(Digits[i])
                        /\ \A j \in 1 .. Len(b) : b[j].digit = Digits[i][j]
           T == {i \in 0 .. n : \A b \in Seq(Bytes) : Has(b, i) => Value(b) = i}
<1>0. Base \in Nat /\ Base > 1
  BY ConstantsAssumption
<1>1. ASSUME NEW i \in 0 .. n, \A j \in 0 .. i - 1 : j \in T
      PROVE  i \in T
  <2> SUFFICES ASSUME NEW b \in Seq(Bytes), Has(b, i)
               PROVE  Value(b) = i
    OBVIOUS
  <2>0. /\ i \in Nat /\ Len(b) \in Nat /\ b # << >>
        /\ Digits[i] \in Seq(0 .. Base - 1) /\ Len(Digits[i]) \in Nat \ {0}
    <3>1. i \in Nat
      OBVIOUS
    <3>2. Len(Digits[i]) \in Nat \ {0} /\ Digits[i] \in Seq(0 .. Base - 1)
      BY <3>1, DigitsAre
    <3> QED  BY <3>1, <3>2
  <2> DEFINE rest == Tail(b)
  <2>1. /\ rest \in Seq(Bytes) /\ Value(b) = b[1].digit + Base * Value(rest)
        /\ Len(rest) = Len(b) - 1 /\ \A j \in 1 .. Len(b) - 1 : rest[j] = b[j + 1]
    BY <2>0, ValueOfMore
  <2> HIDE DEF rest
  <2>2. CASE i < Base
    <3>1. Digits[i] = <<i>>
      BY <2>0, <2>2, DigitsAre
    <3>2. Len(b) = 1 /\ b[1].digit = i
      BY <3>1
    <3>3. PICK v : Accumulates(v, rest) /\ Value(rest) = v[Len(rest)]
      BY <2>1, ValueIs
    <3>4. Value(rest) = 0
      <4>1. Len(rest) = 0
        BY <2>1, <3>2
      <4> QED  BY <3>3, <4>1 DEF Accumulates
    <3> QED  BY <1>0, <2>0, <2>1, <3>2, <3>4
  <2>3. CASE ~(i < Base)
    <3> DEFINE q == i \div Base
               low == i % Base
    <3>1. low \in 0 .. Base - 1 /\ q \in 0 .. i - 1 /\ i = low + Base * q
      BY <1>0, <2>0, <2>3, Division
    <3>2. Digits[i] = <<low>> \o Digits[q]
      BY <2>0, <2>3, DigitsAre
    <3> HIDE DEF q, low
    <3>3. q \in Nat /\ Digits[q] \in Seq(0 .. Base - 1) /\ Len(Digits[q]) \in Nat
      <4>1. q \in Nat
        BY <3>1
      <4>2. Digits[q] \in Seq(0 .. Base - 1) /\ Len(Digits[q]) \in Nat
        BY <4>1, DigitsAre
      <4> QED  BY <4>1, <4>2
    <3>4. /\ Len(Digits[i]) = 1 + Len(Digits[q]) /\ Digits[i][1] = low
          /\ \A j \in 1 .. Len(Digits[q]) : Digits[i][j + 1] = Digits[q][j]
      <4>1. <<low>> \in Seq(0 .. Base - 1) /\ Len(<<low>>) = 1 /\ <<low>>[1] = low
        BY <3>1
      <4>2. \A j \in 1 .. Len(Digits[q]) :
              /\ j + 1 \in 1 .. 1 + Len(Digits[q]) /\ ~(j + 1 <= 1) /\ j + 1 - 1 = j
        BY <3>3
      <4>3. 1 \in 1 .. 1 + Len(Digits[q]) /\ 1 <= 1
        BY <3>3
      <4> QED  BY <3>2, <3>3, <4>1, <4>2, <4>3, ConcatProperties
    <3>5. Len(rest) = Len(Digits[q]) /\ b[1].digit = low
      <4>1. 1 \in 1 .. Len(b) /\ Len(b) = 1 + Len(Digits[q])
        BY <2>0, <3>3, <3>4
      <4> QED  BY <2>1, <3>3, <3>4, <4>1
    <3>6. ASSUME NEW j \in 1 .. Len(rest)
          PROVE  rest[j].digit = Digits[q][j]
      <4>1. j \in 1 .. Len(b) - 1 /\ j + 1 \in 1 .. Len(b) /\ j \in 1 .. Len(Digits[q])
        BY <2>0, <2>1, <3>5
      <4> QED  BY <2>1, <3>4, <4>1
    <3>7. Value(rest) = q
      BY <1>1, <2>1, <3>1, <3>5, <3>6
    <3> QED  BY <2>1, <3>1, <3>5, <3>7
  <2> QED  BY <2>2, <2>3
<1> HIDE DEF T
<1>2. \A i \in 0 .. n : i \in T
  BY <1>1, StrongUpTo
<1>3. n \in T
  BY <1>2
<1> QED  BY <1>3 DEF T

-----------------------------------------------------------------------------
(* Packets *)

\* The fixed header ends where no more digits follow.
LEMMA HeaderIs ==
  ASSUME NEW size \in Nat
  PROVE  LET n == Len(Digits[size])
             h == Header(size)
         IN  /\ n \in Nat \ {0} /\ h \in Seq(Bytes) /\ Len(h) = n + 1 /\ h[1] = Byte(0, FALSE)
             /\ \A j \in 1 .. n : h[j + 1] = Byte(Digits[size][j], j < n)
<1> DEFINE d == Digits[size]
           n == Len(d)
           type == Byte(0, FALSE)
           front == <<type>>
           length == [i \in DOMAIN d |-> Byte(d[i], i < n)]
<1>1. /\ d \in Seq(0 .. Base - 1) /\ n \in Nat \ {0} /\ DOMAIN d = 1 .. n
      /\ \A i \in 1 .. n : d[i] \in 0 .. Base - 1
  <2>1. d \in Seq(0 .. Base - 1) /\ n \in Nat \ {0}
    BY DigitsAre
  <2> QED  BY <2>1, Places
<1>2. type \in Bytes
  <2>1. 0 \in 0 .. Base - 1
    BY ConstantsAssumption
  <2> QED  BY <2>1 DEF Byte, Bytes
<1>3. front \in Seq(Bytes) /\ Len(front) = 1 /\ front[1] = type
  <2> HIDE DEF type
  <2> QED  BY <1>2
<1> HIDE DEF d, n
<1>4. \A i \in 1 .. n : Byte(d[i], i < n) \in Bytes
  BY <1>1 DEF Byte, Bytes
<1>5. /\ length \in Seq(Bytes) /\ Len(length) = n
      /\ \A i \in 1 .. n : length[i] = Byte(d[i], i < n)
  BY <1>1, <1>4
<1>6. Header(size) = front \o length
  BY DEF Header, d, n
<1> HIDE DEF front, length
<1> HIDE DEF type
<1>7. 1 \in 1 .. 1 /\ 1 + n = n + 1 /\ \A j \in 1 .. n : 1 + j = j + 1
  BY <1>1
<1>8. /\ front \o length \in Seq(Bytes) /\ Len(front \o length) = 1 + n
      /\ (front \o length)[1] = front[1]
      /\ \A j \in 1 .. n : (front \o length)[1 + j] = length[j]
  BY <1>3, <1>5, <1>7, Joined
<1>9. /\ Header(size) \in Seq(Bytes) /\ Len(Header(size)) = n + 1
      /\ Header(size)[1] = type
      /\ \A j \in 1 .. n : Header(size)[j + 1] = Byte(d[j], j < n)
  BY <1>3, <1>5, <1>6, <1>7, <1>8
<1> QED  BY <1>1, <1>9 DEF d, n, type

\* A packet is its header and as many bytes as that says.
LEMMA EncodedIs ==
  ASSUME NEW size \in Nat
  PROVE  /\ Encoded(size) \in Seq(Bytes) /\ Len(Encoded(size)) = Len(Header(size)) + size
         /\ \A j \in 1 .. Len(Header(size)) : Encoded(size)[j] = Header(size)[j]
<1> DEFINE h == Header(size)
           body == [i \in 1 .. size |-> Byte(Base - 1, TRUE)]
<1>1. h \in Seq(Bytes) /\ Len(h) \in Nat
  <2>1. h \in Seq(Bytes)
    BY HeaderIs
  <2> QED  BY <2>1, Places
<1>2. Byte(Base - 1, TRUE) \in Bytes
  <2>1. Base - 1 \in 0 .. Base - 1
    BY ConstantsAssumption
  <2> QED  BY <2>1 DEF Byte, Bytes
<1>3. body \in Seq(Bytes) /\ Len(body) = size
  <2> DEFINE byte == Byte(Base - 1, TRUE)
  <2>1. byte \in Bytes
    BY <1>2
  <2> HIDE DEF byte
  <2>2. [i \in 1 .. size |-> byte] \in Seq(Bytes) /\ Len([i \in 1 .. size |-> byte]) = size
    BY <2>1
  <2> QED  BY <2>2 DEF byte
<1>4. Encoded(size) = h \o body
  BY DEF Encoded
<1> HIDE DEF h, body
<1>5. /\ Encoded(size) \in Seq(Bytes) /\ Len(Encoded(size)) = Len(h) + size
      /\ \A j \in 1 .. Len(h) : Encoded(size)[j] = h[j]
  <2>1. /\ h \o body \in Seq(Bytes) /\ Len(h \o body) = Len(h) + Len(body)
        /\ \A j \in 1 .. Len(h) : (h \o body)[j] = h[j]
    BY <1>1, <1>3, Joined
  <2> QED  BY <1>3, <1>4, <2>1
<1> QED  BY <1>5 DEF h

\* What has been sent grows by a packet at a time.
LEMMA SentIs ==
  LET n == Len(Sizes)
  IN  /\ Sent \in [0 .. n -> Seq(Bytes)] /\ Sent[0] = << >>
      /\ \A i \in 1 .. n : /\ Sizes[i] \in Nat
                           /\ Sent[i] = Sent[i - 1] \o Encoded(Sizes[i])
<1> DEFINE n == Len(Sizes)
           step == [i \in 1 .. n |-> [s \in Seq(Bytes) |-> s \o Encoded(Sizes[i])]]
           Is(f) == f = [i \in 0 .. n |-> IF i = 0 THEN << >>
                                          ELSE f[i - 1] \o Encoded(Sizes[i])]
<1>0. n \in Nat /\ (\A i \in 1 .. n : Sizes[i] \in Nat) /\ << >> \in Seq(Bytes)
  BY ConstantsAssumption
<1>1. step \in [1 .. n -> [Seq(Bytes) -> Seq(Bytes)]]
  <2>1. ASSUME NEW i \in 1 .. n, NEW s \in Seq(Bytes)
        PROVE  s \o Encoded(Sizes[i]) \in Seq(Bytes)
    <3>1. Encoded(Sizes[i]) \in Seq(Bytes)
      BY <1>0, EncodedIs
    <3> QED  BY <3>1, ConcatProperties
  <2> HIDE DEF n
  <2> QED  BY <2>1
<1>2. PICK f : Computes(f, n, Seq(Bytes), << >>, step)
  <2> HIDE DEF n, step
  <2> QED  BY <1>0, <1>1, Iterated
<1>3. /\ f \in [0 .. n -> Seq(Bytes)] /\ f[0] = << >>
      /\ \A i \in 1 .. n : f[i] = f[i - 1] \o Encoded(Sizes[i])
  <2>1. /\ f \in [0 .. n -> Seq(Bytes)] /\ f[0] = << >>
        /\ \A i \in 1 .. n : f[i] = step[i][f[i - 1]]
    BY <1>2 DEF Computes
  <2>2. \A i \in 1 .. n : f[i - 1] \in Seq(Bytes)
    BY <1>0, <2>1, Predecessor
  <2> HIDE DEF n
  <2> QED  BY <2>1, <2>2
<1>4. Is(f)
  <2>1. \A i \in 0 .. n : i = 0 \/ i \in 1 .. n
    BY <1>0
  <2>2. f = [i \in 0 .. n |-> f[i]]
    BY <1>3
  <2> HIDE DEF n
  <2> QED  BY <1>3, <2>1, <2>2
<1>5. Is(Sent)
  <2>1. Is(CHOOSE g : Is(g))
    BY <1>4
  <2> QED  BY <2>1 DEF Sent
<1> DEFINE T == {i \in 0 .. n : Sent[i] \in Seq(Bytes)}
<1> HIDE DEF n
<1>6. 0 \in T
  BY <1>0, <1>5
<1>7. ASSUME NEW i \in 1 .. n, i - 1 \in T
      PROVE  i \in T
  <2>1. i \in 0 .. n /\ i # 0
    BY <1>0, Predecessor
  <2>2. Sent[i] = Sent[i - 1] \o Encoded(Sizes[i])
    BY <1>5, <2>1
  <2>3. Sent[i - 1] \in Seq(Bytes) /\ Encoded(Sizes[i]) \in Seq(Bytes)
    BY <1>0, <1>7, EncodedIs
  <2>4. Sent[i] \in Seq(Bytes)
    BY <2>2, <2>3, ConcatProperties
  <2> QED  BY <2>1, <2>4
<1> HIDE DEF T
<1>8. \A i \in 0 .. n : i \in T
  BY <1>0, <1>6, <1>7, UpTo
<1>9. Sent \in [0 .. n -> Seq(Bytes)]
  <2>1. \A i \in 0 .. n : Sent[i] \in Seq(Bytes)
    BY <1>8 DEF T
  <2>2. Sent = [i \in 0 .. n |-> Sent[i]]
    BY <1>5
  <2> QED  BY <2>1, <2>2
<1>10. Sent[0] = << >> /\ \A i \in 1 .. n : Sent[i] = Sent[i - 1] \o Encoded(Sizes[i])
  <2>1. 0 \in 0 .. n /\ \A i \in 1 .. n : i \in 0 .. n /\ i # 0
    BY <1>0, Predecessor
  <2> QED  BY <1>5, <2>1
<1> QED  BY <1>0, <1>9, <1>10 DEF n

\* The stream begins with what has been sent after any number of packets.
LEMMA StreamBegins ==
  ASSUME NEW i \in 0 .. Len(Sizes)
  PROVE  /\ Stream \in Seq(Bytes) /\ Sent[i] \in Seq(Bytes) /\ Len(Sent[i]) \in Nat
         /\ Len(Stream) \in Nat /\ Len(Sent[i]) <= Len(Stream)
         /\ \A p \in 1 .. Len(Sent[i]) : Stream[p] = Sent[i][p]
<1> DEFINE n == Len(Sizes)
           T == {m \in 0 .. n : m >= i => /\ Len(Sent[i]) <= Len(Sent[m])
                                          /\ \A p \in 1 .. Len(Sent[i]) :
                                               Sent[m][p] = Sent[i][p]}
<1>0. n \in Nat /\ \A m \in 0 .. n : Sent[m] \in Seq(Bytes) /\ Len(Sent[m]) \in Nat
  <2>1. n \in Nat
    BY ConstantsAssumption
  <2>2. \A m \in 0 .. n : Sent[m] \in Seq(Bytes)
    BY SentIs
  <2> QED  BY <2>1, <2>2
<1>00. \A m \in 1 .. n : /\ Encoded(Sizes[m]) \in Seq(Bytes)
                         /\ Sent[m] = Sent[m - 1] \o Encoded(Sizes[m])
  BY SentIs, EncodedIs
<1> HIDE DEF n
<1>1. i \in 0 .. n /\ i \in Nat
  BY <1>0 DEF n
<1>2. 0 \in T
  <2>1. 0 >= i => i = 0
    BY <1>1
  <2> QED  BY <1>0, <1>1, <2>1
<1>3. ASSUME NEW m \in 1 .. n, m - 1 \in T
      PROVE  m \in T
  <2>1. m \in 0 .. n /\ m - 1 \in 0 .. n /\ m \in Nat
    BY <1>0, Predecessor
  <2>2. CASE m > i
    <3>1. m - 1 >= i
      BY <1>1, <2>1, <2>2
    <3>2. /\ Len(Sent[i]) <= Len(Sent[m - 1])
          /\ \A p \in 1 .. Len(Sent[i]) : Sent[m - 1][p] = Sent[i][p]
      BY <1>3, <3>1
    <3>3. /\ Len(Sent[m]) = Len(Sent[m - 1]) + Len(Encoded(Sizes[m]))
          /\ Len(Encoded(Sizes[m])) \in Nat
          /\ \A p \in 1 .. Len(Sent[m - 1]) : Sent[m][p] = Sent[m - 1][p]
      <4> DEFINE before == Sent[m - 1]
                 packet == Encoded(Sizes[m])
      <4>1. before \in Seq(Bytes) /\ packet \in Seq(Bytes) /\ Sent[m] = before \o packet
        BY <1>0, <1>00, <2>1
      <4> HIDE DEF before, packet
      <4>2. /\ Len(before \o packet) = Len(before) + Len(packet) /\ Len(packet) \in Nat
            /\ \A p \in 1 .. Len(before) : (before \o packet)[p] = before[p]
        BY <4>1, Joined
      <4> QED  BY <4>1, <4>2 DEF before, packet
    <3>4. Len(Sent[i]) \in Nat /\ Len(Sent[m - 1]) \in Nat
      BY <1>0, <1>1, <2>1
    <3>5. /\ Len(Sent[i]) <= Len(Sent[m])
          /\ \A p \in 1 .. Len(Sent[i]) : p \in 1 .. Len(Sent[m - 1])
      <4> DEFINE a == Len(Sent[i])
                 b == Len(Sent[m - 1])
                 c == Len(Encoded(Sizes[m]))
      <4>1. a \in Nat /\ b \in Nat /\ c \in Nat /\ a <= b /\ Len(Sent[m]) = b + c
        BY <3>2, <3>3, <3>4
      <4> HIDE DEF a, b, c
      <4>2. a <= b + c /\ \A p \in 1 .. a : p \in 1 .. b
        BY <4>1
      <4> QED  BY <4>1, <4>2 DEF a, b
    <3> QED  BY <2>1, <3>2, <3>3, <3>5
  <2>3. CASE ~(m > i)
    <3>1. m >= i => m = i
      BY <1>1, <2>1, <2>3
    <3> QED  BY <1>0, <1>1, <2>1, <3>1
  <2> QED  BY <2>2, <2>3
<1> HIDE DEF T
<1>4. \A m \in 0 .. n : m \in T
  BY <1>0, <1>2, <1>3, UpTo
<1>5. n \in 0 .. n /\ n \in T /\ n >= i
  BY <1>0, <1>1, <1>4
<1>6. /\ Len(Sent[i]) <= Len(Sent[n])
      /\ \A p \in 1 .. Len(Sent[i]) : Sent[n][p] = Sent[i][p]
  BY <1>5 DEF T
<1>7. Stream = Sent[n]
  BY DEF Stream, n
<1> QED  BY <1>0, <1>1, <1>5, <1>6, <1>7

\* Where a packet is in the stream, and that its header is there.
LEMMA PacketAt ==
  ASSUME NEW i \in 1 .. Len(Sizes)
  PROVE  LET h == Header(Sizes[i])
         IN  /\ Sizes[i] \in Nat /\ StartOf(i) \in Nat /\ EndOf(i) \in Nat
             /\ EndOf(i) = StartOf(i) + Len(h) + Sizes[i] /\ EndOf(i) <= Len(Stream)
             /\ \A j \in 1 .. Len(h) : Stream[StartOf(i) + j] = h[j]
<1> DEFINE h == Header(Sizes[i])
           before == Sent[i - 1]
           packet == Encoded(Sizes[i])
<1>0. Len(Sizes) \in Nat /\ i \in 0 .. Len(Sizes) /\ i - 1 \in 0 .. Len(Sizes)
  BY ConstantsAssumption, Predecessor
<1>1. /\ Sizes[i] \in Nat /\ before \in Seq(Bytes) /\ Len(before) \in Nat
      /\ Sent[i] = before \o packet
  <2>1. Sizes[i] \in Nat /\ before \in Seq(Bytes) /\ Sent[i] = before \o packet
    BY <1>0, SentIs
  <2> QED  BY <2>1
<1>2. /\ packet \in Seq(Bytes) /\ Len(packet) = Len(h) + Sizes[i] /\ Len(h) \in Nat
      /\ \A j \in 1 .. Len(h) : packet[j] = h[j]
  <2>1. h \in Seq(Bytes)
    BY <1>1, HeaderIs
  <2>2. Len(h) \in Nat
    BY <2>1
  <2> QED  BY <1>1, <2>2, EncodedIs
<1>3. /\ Len(Sent[i]) <= Len(Stream) /\ \A p \in 1 .. Len(Sent[i]) : Stream[p] = Sent[i][p]
  BY <1>0, StreamBegins
<1> HIDE DEF h, before, packet
<1>4. /\ Len(Sent[i]) = Len(before) + Len(h) + Sizes[i]
      /\ \A j \in 1 .. Len(h) : Sent[i][Len(before) + j] = h[j]
  <2>1. /\ Len(Sent[i]) = Len(before) + Len(packet)
        /\ \A j \in 1 .. Len(packet) : Sent[i][Len(before) + j] = packet[j]
    BY <1>1, <1>2, Joined
  <2>2. \A j \in 1 .. Len(h) : j \in 1 .. Len(packet)
    BY <1>1, <1>2
  <2> QED  BY <1>1, <1>2, <2>1, <2>2
<1>5. \A j \in 1 .. Len(h) : Stream[Len(before) + j] = h[j]
  <2>1. \A j \in 1 .. Len(h) : Len(before) + j \in 1 .. Len(Sent[i])
    BY <1>1, <1>2, <1>4
  <2> QED  BY <1>3, <1>4, <2>1
<1>6. Len(Sent[i]) \in Nat
  BY <1>1, <1>2, <1>4
<1> QED  BY <1>1, <1>3, <1>4, <1>5, <1>6 DEF StartOf, EndOf, h, before

\* Of these bytes all but the last say that more follow.
LEMMA HeaderBytes ==
  ASSUME NEW size \in Nat, NEW j \in 1 .. Len(Digits[size])
  PROVE  /\ Header(size)[j + 1].digit = Digits[size][j]
         /\ Header(size)[j + 1].more <=> j < Len(Digits[size])
<1>1. Header(size)[j + 1] = Byte(Digits[size][j], j < Len(Digits[size]))
  BY HeaderIs
<1>2. \A digit, more : Byte(digit, more).digit = digit /\ Byte(digit, more).more = more
  BY DEF Byte
<1>3. CASE j < Len(Digits[size])
  <2>1. Header(size)[j + 1] = Byte(Digits[size][j], TRUE)
    BY <1>1, <1>3, Zenon
  <2> QED  BY <1>2, <1>3, <2>1
<1>4. CASE ~(j < Len(Digits[size]))
  <2>1. (j < Len(Digits[size])) = FALSE
    BY <1>4
  <2>2. Header(size)[j + 1] = Byte(Digits[size][j], FALSE)
    BY <1>1, <2>1, Zenon
  <2> QED  BY <1>2, <1>4, <2>2
<1> QED  BY <1>3, <1>4

\* What packet_size makes of as much of a packet as there is: its size, if it has at
\* most four length bytes and all of them are there.
LEMMA SizeOfPacket ==
  ASSUME NEW size \in Nat, NEW buffer \in Seq(Bytes),
         \A j \in 1 .. Len(buffer) : j <= Len(Header(size)) => buffer[j] = Header(size)[j]
  PROVE  LET n == Len(Digits[size])
         IN  packet_size(buffer) = IF n <= 4 /\ n + 1 <= Len(buffer) THEN size + n + 1
                                   ELSE IF Len(buffer) >= 5 THEN 0 ELSE None
<1> DEFINE n == Len(Digits[size])
           last == {k \in 2 .. Len(buffer) : ~buffer[k].more}
           k == CHOOSE k \in last : \A j \in last : k <= j
<1>1. n \in Nat \ {0} /\ Len(Header(size)) = n + 1
  BY HeaderIs
<1>2. Len(buffer) \in Nat
  OBVIOUS
<1>3. ASSUME NEW j \in 1 .. n, j + 1 <= Len(buffer)
      PROVE  /\ buffer[j + 1].digit = Digits[size][j]
             /\ buffer[j + 1].more <=> j < n
  <2>1. j + 1 \in 1 .. Len(buffer) /\ j + 1 <= Len(Header(size))
    BY <1>1, <1>2, <1>3
  <2>2. buffer[j + 1] = Header(size)[j + 1]
    BY <2>1
  <2> QED  BY <2>2, HeaderBytes
<1>4. packet_size(buffer) = IF last # {} /\ k <= 5 THEN Value(SubSeq(buffer, 2, k)) + k
                            ELSE IF Len(buffer) >= 5 THEN 0 ELSE None
  BY DEF packet_size
<1>5. \A i \in last : i \in Nat /\ i >= n + 1 /\ i <= Len(buffer)
  <2> SUFFICES ASSUME NEW i \in last, i < n + 1
               PROVE  FALSE
    <3>1. \A i \in last : i \in 2 .. Len(buffer)
      OBVIOUS
    <3> HIDE DEF last, n
    <3> QED  BY <1>1, <1>2, <3>1
  <2>1. i \in 2 .. Len(buffer) /\ ~buffer[i].more
    OBVIOUS
  <2> HIDE DEF n
  <2>2. i - 1 \in 1 .. n /\ i - 1 + 1 = i /\ i <= Len(buffer) /\ i - 1 < n
    BY <1>1, <1>2, <2>1
  <2> QED  BY <1>3, <2>1, <2>2
<1>6. n + 1 <= Len(buffer) => n + 1 \in last
  <2> SUFFICES ASSUME n + 1 <= Len(buffer)
               PROVE  n + 1 \in last
    OBVIOUS
  <2>1. n \in 1 .. n /\ ~(n < n) /\ n + 1 \in 2 .. Len(buffer)
    BY <1>1, <1>2
  <2>2. ~buffer[n + 1].more
    BY <1>3, <2>1
  <2> QED  BY <2>1, <2>2
<1>7. CASE n <= 4 /\ n + 1 <= Len(buffer)
  <2>1. n + 1 \in last
    BY <1>6, <1>7
  <2>2. k = n + 1
    <3> HIDE DEF last, n
    <3>1. \A j \in last : n + 1 <= j
      BY <1>1, <1>5
    <3>2. k \in last /\ \A j \in last : k <= j
      BY <2>1, <3>1
    <3> HIDE DEF k
    <3>3. k \in Nat /\ k <= n + 1 /\ n + 1 <= k
      BY <1>5, <2>1, <3>1, <3>2
    <3> QED  BY <1>1, <3>3
  <2> HIDE DEF k, last
  <2> DEFINE bytes == SubSeq(buffer, 2, n + 1)
  <2>3. /\ bytes \in Seq(Bytes) /\ Len(bytes) = n
        /\ \A j \in 1 .. n : bytes[j] = buffer[j + 1]
    <3> DEFINE first == 1
               end == n + 1
    <3> HIDE DEF n
    <3>1. first \in Nat /\ end \in Nat /\ first <= end /\ end <= Len(buffer)
      BY <1>1, <1>7
    <3>2. first + 1 = 2 /\ end - first = n /\ \A j \in 1 .. n : first + j = j + 1
      BY <1>1
    <3> HIDE DEF first, end
    <3>3. /\ SubSeq(buffer, first + 1, end) \in Seq(Bytes)
          /\ Len(SubSeq(buffer, first + 1, end)) = end - first
          /\ \A j \in 1 .. end - first : SubSeq(buffer, first + 1, end)[j] = buffer[first + j]
      BY <3>1, Cut
    <3> QED  BY <3>2, <3>3 DEF end
  <2>4. ASSUME NEW j \in 1 .. Len(bytes)
        PROVE  bytes[j].digit = Digits[size][j]
    <3>1. j \in 1 .. n /\ j + 1 <= Len(buffer)
      <4>1. j \in 1 .. n
        BY <2>3
      <4> HIDE DEF n, bytes
      <4> QED  BY <1>1, <1>2, <1>7, <4>1
    <3>2. bytes[j] = buffer[j + 1]
      BY <2>3, <3>1
    <3> HIDE DEF bytes
    <3> QED  BY <1>3, <3>1, <3>2
  <2>5. Len(bytes) = Len(Digits[size])
    BY <2>3
  <2> HIDE DEF bytes
  <2>6. Value(bytes) = size
    BY <2>3, <2>4, <2>5, ValueOfDigits
  <2>7. k <= 5 /\ last # {} /\ SubSeq(buffer, 2, k) = bytes /\ Value(bytes) + k = size + n + 1
    <3> HIDE DEF n
    <3> QED  BY <1>1, <1>7, <2>1, <2>2, <2>6 DEF bytes
  <2> QED  BY <1>4, <1>7, <2>7
<1>8. CASE ~(n <= 4 /\ n + 1 <= Len(buffer))
  <2>1. ~(last # {} /\ k <= 5)
    <3> SUFFICES ASSUME last # {}, k <= 5
                 PROVE  FALSE
      OBVIOUS
    <3> HIDE DEF last, n
    <3>1. PICK i \in last : TRUE
      OBVIOUS
    <3>2. i \in Nat /\ i >= n + 1 /\ i <= Len(buffer)
      BY <1>5
    <3>3. n + 1 <= Len(buffer)
      BY <1>1, <1>2, <3>2
    <3>4. n + 1 \in last /\ \A j \in last : n + 1 <= j
      BY <1>1, <1>5, <1>6, <3>3
    <3>5. k \in last
      BY <3>4
    <3>6. k \in Nat /\ k >= n + 1
      BY <1>5, <3>5
    <3> QED  BY <1>1, <1>8, <3>3, <3>6
  <2> QED  BY <1>4, <1>8, <2>1
<1> QED  BY <1>7, <1>8

-----------------------------------------------------------------------------
(* Packets are decoded *)

\* Until a torn packet is decoded, the buffer holds what was read last, and start_pos
\* is the end of the last packet that was decoded.
HeldInv ==
  /\ held \in Seq(Bytes) /\ Len(held) <= BufferSize /\ start \in 0 .. Len(held)
  /\ taken \in 0 .. Len(Stream) /\ Len(held) <= taken
  /\ \A j \in 1 .. Len(held) : held[j] = Stream[Origin + j]
  /\ status = "reading" => start = 0

DecodedInv ==
  /\ decoded \in Seq(Nat \X Nat \X Nat) /\ Len(decoded) <= Len(Sizes)
  /\ Origin + start = Len(Sent[Len(decoded)])
  /\ \A k \in 1 .. Len(decoded) : /\ decoded[k] = <<StartOf(k), EndOf(k), EndOf(k)>>
                                  /\ Len(Digits[Sizes[k]]) <= 4

\* After that, the loop has failed or is about to.
TornInv ==
  /\ held \in Seq(Bytes) /\ Len(held) <= BufferSize /\ start \in 0 .. BufferSize
  /\ taken \in 0 .. Len(Stream) /\ torn
  /\ \/ status = "PacketError" /\ start <= Len(held)
     \/ status \in {"scanning", "panicked"} /\ start > Len(held)
  /\ decoded \in Seq(Nat \X Nat \X Nat) /\ Len(decoded) <= Len(Sizes)
  /\ \A k \in 1 .. Len(decoded) :
       /\ decoded[k][1] = StartOf(k) /\ decoded[k][2] = EndOf(k)
       /\ decoded[k][3] = EndOf(k) \/ k = Len(decoded)

\* A read that ends inside a body tears it.
StatusInv ==
  /\ torn \in BOOLEAN /\ (InsideBody(taken) => torn)
  /\ status \in {"reading", "scanning", "closed", "full", "PacketError", "panicked"}

StreamInv == StatusInv /\ ((HeldInv /\ DecodedInv) \/ TornInv)

\* What packet_size makes of the rest of the buffer, if it is the beginning of the
\* packet that is next.
Measured(size, rest) ==
  IF Len(Digits[size]) <= 4 /\ Len(Digits[size]) + 1 <= rest THEN size + Len(Digits[size]) + 1
  ELSE IF rest >= 5 THEN 0 ELSE None

\* The rest of the buffer is the beginning of the next packet, or empty behind the last.
LEMMA SizeIs ==
  ASSUME HeldInv, DecodedInv
  PROVE  /\ Len(held) \in Nat /\ Len(decoded) \in Nat /\ Len(Sizes) \in Nat
         /\ Len(decoded) < Len(Sizes)
              => Size = Measured(Sizes[Len(decoded) + 1], Len(held) - start)
         /\ ~(Len(decoded) < Len(Sizes)) => start = Len(held) /\ Size = None
<1> DEFINE k == Len(decoded)
           l == Len(held)
           buffer == SubSeq(held, start + 1, l)
<1>0. k \in Nat /\ l \in Nat /\ Len(Sizes) \in Nat
  BY ConstantsAssumption DEF HeldInv, DecodedInv
<1>1. /\ start \in 0 .. l /\ k <= Len(Sizes) /\ taken \in 0 .. Len(Stream) /\ l <= taken
      /\ taken - l + start = Len(Sent[k]) /\ held \in Seq(Bytes)
      /\ \A j \in 1 .. l : held[j] = Stream[taken - l + j]
  BY DEF HeldInv, DecodedInv, Origin
<1> HIDE DEF k
<1>2. /\ buffer \in Seq(Bytes) /\ Len(buffer) = l - start
      /\ \A j \in 1 .. l - start : start + j \in 1 .. l /\ buffer[j] = held[start + j]
  <2>1. start \in Nat /\ start <= l /\ l <= l
    BY <1>0, <1>1
  <2> QED  BY <1>0, <1>1, <2>1, Cut
<1>3. Size = packet_size(buffer)
  BY DEF Size
<1> HIDE DEF l, buffer
<1>4. CASE k < Len(Sizes)
  <2> DEFINE size == Sizes[k + 1]
             h == Header(size)
  <2>1. k + 1 \in 1 .. Len(Sizes) /\ (k + 1) - 1 = k
    BY <1>0, <1>4
  <2>2. /\ size \in Nat /\ StartOf(k + 1) \in Nat
        /\ \A j \in 1 .. Len(h) : Stream[StartOf(k + 1) + j] = h[j]
    BY <2>1, PacketAt
  <2>3. Len(h) \in Nat
    BY <2>2, HeaderIs, Places
  <2>4. StartOf(k + 1) = taken - l + start
    <3>1. Sent[(k + 1) - 1] = Sent[k]
      BY <2>1, Zenon
    <3>2. StartOf(k + 1) = Len(Sent[(k + 1) - 1])
      BY DEF StartOf
    <3>3. StartOf(k + 1) = Len(Sent[k])
      BY <3>1, <3>2, Zenon
    <3> QED  BY <1>1, <3>3
  <2> HIDE DEF h
  <2>5. ASSUME NEW j \in 1 .. Len(buffer), j <= Len(h)
        PROVE  buffer[j] = h[j]
    <3>1. j \in 1 .. l - start /\ j \in 1 .. Len(h)
      BY <1>2, <2>3, <2>5
    <3>2. buffer[j] = held[start + j] /\ start + j \in 1 .. l
      BY <1>2, <3>1
    <3>3. held[start + j] = Stream[taken - l + (start + j)]
      BY <1>1, <3>2
    <3>4. taken - l + (start + j) = StartOf(k + 1) + j
      BY <1>0, <1>1, <2>4, <3>1
    <3> QED  BY <2>2, <3>1, <3>2, <3>3, <3>4
  <2> HIDE DEF size
  <2>6. packet_size(buffer) = Measured(size, l - start)
    BY <1>2, <2>2, <2>5, SizeOfPacket DEF h, Measured
  <2> QED  BY <1>0, <1>3, <1>4, <2>6 DEF k, l, size
<1>5. CASE ~(k < Len(Sizes))
  <2>1. k = Len(Sizes)
    BY <1>0, <1>1, <1>5
  <2>2. Len(Sent[k]) = Len(Stream) /\ Len(Stream) \in Nat
    <3>1. k \in 0 .. Len(Sizes)
      BY <1>0, <2>1
    <3> QED  BY <2>1, <3>1, StreamBegins DEF Stream
  <2>3. start = l
    BY <1>0, <1>1, <2>2
  <2>4. Len(buffer) = 0
    BY <1>0, <1>2, <2>3
  <2>5. packet_size(buffer) = None
    BY <2>4 DEF packet_size
  <2> QED  BY <1>0, <1>3, <1>5, <2>3, <2>5 DEF k, l
<1> QED  BY <1>4, <1>5

\* A packet that has a size is the next one, its length bytes are there, and its size
\* leads to its end.
LEMMA PacketFound ==
  ASSUME HeldInv, DecodedInv, Size \notin {None, 0}
  PROVE  LET k == Len(decoded) + 1
         IN  /\ k \in 1 .. Len(Sizes) /\ Len(Digits[Sizes[k]]) <= 4 /\ Size \in Nat \ {0}
             /\ StartOf(k) = Origin + start /\ EndOf(k) = Origin + start + Size
             /\ StartOf(k) \in Nat /\ EndOf(k) \in Nat
             /\ StartOf(k) + Len(Header(Sizes[k])) <= taken
<1> DEFINE k == Len(decoded) + 1
           size == Sizes[k]
           n == Len(Digits[size])
           l == Len(held)
<1>1. Len(held) \in Nat /\ Len(decoded) \in Nat /\ Len(Sizes) \in Nat /\ l \in Nat
  BY SizeIs
<1>2. Len(decoded) < Len(Sizes) /\ Size = Measured(size, l - start)
  BY SizeIs
<1>3. k \in 1 .. Len(Sizes) /\ k - 1 = Len(decoded)
  BY <1>1, <1>2
<1> HIDE DEF k
<1>4. /\ size \in Nat /\ StartOf(k) \in Nat /\ EndOf(k) \in Nat
      /\ EndOf(k) = StartOf(k) + Len(Header(size)) + size
  BY <1>3, PacketAt
<1>5. Len(Header(size)) = n + 1 /\ n \in Nat \ {0}
  BY <1>4, HeaderIs
<1>6. StartOf(k) = Origin + start
  BY <1>3 DEF StartOf, DecodedInv
<1>7. start \in 0 .. l /\ taken \in Nat /\ l <= taken
  <2>1. Len(Stream) \in Nat
    BY <1>1, StreamBegins, 0 \in 0 .. Len(Sizes)
  <2> QED  BY <2>1 DEF HeldInv
<1>8. n <= 4 /\ n + 1 <= l - start /\ Size = size + n + 1
  BY <1>2 DEF Measured
<1> HIDE DEF l
<1>9. Origin = taken - l
  BY DEF Origin, l
<1> HIDE DEF n, size
<1>10. /\ Size \in Nat \ {0} /\ EndOf(k) = Origin + start + Size
       /\ StartOf(k) + Len(Header(size)) <= taken
  BY <1>1, <1>4, <1>5, <1>6, <1>7, <1>8, <1>9
<1> QED  BY <1>3, <1>4, <1>6, <1>8, <1>10 DEF k, size, n

\* What is known of the numbers.
LEMMA Numbers ==
  ASSUME HeldInv, DecodedInv
  PROVE  /\ Len(held) \in Nat /\ start \in Nat /\ taken \in Nat /\ start <= Len(held)
         /\ Len(held) <= taken /\ Len(Stream) \in Nat /\ taken <= Len(Stream)
         /\ Stream \in Seq(Bytes) /\ BufferSize \in Nat /\ Origin \in Nat
         /\ Origin + Len(held) = taken
<1>1. Stream \in Seq(Bytes) /\ Len(Stream) \in Nat /\ Len(held) \in Nat /\ BufferSize \in Nat
  <2>1. 0 \in 0 .. Len(Sizes)
    BY SizeIs
  <2> QED  BY <2>1, StreamBegins, SizeIs, ConstantsAssumption
<1>2. /\ start \in 0 .. Len(held) /\ taken \in 0 .. Len(Stream) /\ Len(held) <= taken
  BY DEF HeldInv
<1> QED  BY <1>1, <1>2 DEF Origin

\* The stream does not begin in a body.
LEMMA OutsideAtFirst == ~InsideBody(0)
<1> SUFFICES ASSUME NEW i \in DOMAIN Sizes, StartOf(i) + Len(Header(Sizes[i])) <= 0
             PROVE  FALSE
  BY DEF InsideBody
<1>1. i \in 1 .. Len(Sizes)
  BY ConstantsAssumption
<1>2. Sizes[i] \in Nat /\ StartOf(i) \in Nat
  BY <1>1, PacketAt
<1>3. /\ Len(Header(Sizes[i])) = Len(Digits[Sizes[i]]) + 1
      /\ Len(Digits[Sizes[i]]) \in Nat \ {0}
  BY <1>2, HeaderIs
<1> QED  BY <1>2, <1>3

\* Only a read can end inside a body.
LEMMA Outside ==
  ASSUME taken' = taken
  PROVE  InsideBody(taken)' = InsideBody(taken)
BY DEF InsideBody, StartOf, EndOf

\* At first there is nothing.
LEMMA StreamInit == Init => StreamInv
<1> SUFFICES ASSUME Init
             PROVE  StreamInv
  OBVIOUS
<1>1. /\ held = << >> /\ start = 0 /\ taken = 0 /\ decoded = << >> /\ torn = FALSE
      /\ status = "reading"
  BY DEF Init
<1>2. Len(Sizes) \in Nat /\ 0 \in 0 .. Len(Sizes) /\ BufferSize \in Nat
  BY ConstantsAssumption
<1>3. Len(Stream) \in Nat /\ Sent[0] = << >>
  BY <1>2, StreamBegins, SentIs
<1>4. << >> \in Seq(Bytes) /\ << >> \in Seq(Nat \X Nat \X Nat) /\ Len(<< >>) = 0
  OBVIOUS
<1>5. HeldInv
  BY <1>1, <1>2, <1>3, <1>4 DEF HeldInv
<1>6. DecodedInv
  BY <1>1, <1>2, <1>3, <1>4 DEF DecodedInv, Origin
<1>7. StatusInv
  BY <1>1, OutsideAtFirst DEF StatusInv
<1> QED  BY <1>5, <1>6, <1>7 DEF StreamInv

\* A read continues what the buffer holds.
LEMMA ReadStep ==
  ASSUME HeldInv, DecodedInv, StatusInv, NEW len \in 1 .. BufferSize, Read(len)
  PROVE  StreamInv'
<1> DEFINE l == Len(held)
           more == SubSeq(Stream, taken + 1, taken + len)
<1>0. HeldInv /\ DecodedInv /\ StatusInv
  OBVIOUS
<1>1. /\ l \in Nat /\ start \in Nat /\ taken \in Nat /\ start <= l
      /\ l <= taken /\ Len(Stream) \in Nat /\ taken <= Len(Stream)
      /\ Stream \in Seq(Bytes) /\ BufferSize \in Nat /\ Origin = taken - l
  BY <1>0, Numbers DEF Origin
<1>2. /\ len \in Nat /\ len <= BufferSize - l /\ taken + len <= Len(Stream)
      /\ held' = held \o more /\ taken' = taken + len /\ start' = start /\ decoded' = decoded
      /\ status' = "scanning" /\ torn' = (torn \/ InsideBody(taken + len))
  BY <1>1 DEF Read
<1>3. /\ more \in Seq(Bytes) /\ Len(more) = len
      /\ \A j \in 1 .. len : more[j] = Stream[taken + j]
  <2> DEFINE end == taken + len
  <2>1. end \in Nat /\ taken <= end /\ end <= Len(Stream) /\ end - taken = len
    BY <1>1, <1>2
  <2> HIDE DEF end
  <2>2. /\ SubSeq(Stream, taken + 1, end) \in Seq(Bytes)
        /\ Len(SubSeq(Stream, taken + 1, end)) = end - taken
        /\ \A j \in 1 .. end - taken : SubSeq(Stream, taken + 1, end)[j] = Stream[taken + j]
    BY <1>1, <2>1, Cut
  <2> QED  BY <2>1, <2>2 DEF end
<1> HIDE DEF more
<1>4. /\ held' \in Seq(Bytes) /\ Len(held') = l + len
      /\ \A j \in 1 .. l : held'[j] = held[j]
      /\ \A j \in 1 .. len : held'[l + j] = more[j]
  <2>1. held \in Seq(Bytes) /\ more \in Seq(Bytes)
    BY <1>0, <1>3 DEF HeldInv
  <2>2. /\ held \o more \in Seq(Bytes) /\ Len(held \o more) = l + Len(more)
        /\ \A j \in 1 .. l : (held \o more)[j] = held[j]
        /\ \A j \in 1 .. Len(more) : (held \o more)[l + j] = more[j]
    BY <2>1, Joined
  <2> QED  BY <1>2, <1>3, <2>2
<1>5. Origin' = Origin
  <2>1. Origin' = taken' - Len(held')
    BY DEF Origin
  <2> HIDE DEF l
  <2> QED  BY <1>1, <1>2, <1>4, <2>1
<1>6. ASSUME NEW j \in 1 .. l + len
      PROVE  held'[j] = Stream[Origin + j]
  <2>1. CASE j \in 1 .. l
    <3>1. held[j] = Stream[Origin + j]
      BY <1>0, <2>1 DEF HeldInv
    <3> QED  BY <1>4, <2>1, <3>1
  <2>2. CASE j \notin 1 .. l
    <3> DEFINE i == j - l
    <3>1. i \in 1 .. len /\ l + i = j /\ taken + i = Origin + j
      <4> HIDE DEF l
      <4> QED  BY <1>1, <1>2, <2>2
    <3> HIDE DEF i
    <3>2. held'[l + i] = more[i] /\ more[i] = Stream[taken + i]
      BY <1>3, <1>4, <3>1
    <3> QED  BY <3>1, <3>2
  <2> QED  BY <2>1, <2>2
<1>7. HeldInv'
  <2>1. /\ held' \in Seq(Bytes) /\ Len(held') <= BufferSize /\ start' \in 0 .. Len(held')
        /\ taken' \in 0 .. Len(Stream) /\ Len(held') <= taken' /\ status' # "reading"
    <3> HIDE DEF l
    <3> QED  BY <1>1, <1>2, <1>4
  <2>2. \A j \in 1 .. Len(held') : held'[j] = Stream[Origin' + j]
    BY <1>4, <1>5, <1>6
  <2> QED  BY <2>1, <2>2 DEF HeldInv
<1>8. DecodedInv'
  BY <1>0, <1>2, <1>5 DEF DecodedInv
<1>9. StatusInv'
  <2>1. InsideBody(taken)' = InsideBody(taken + len)
    BY <1>2 DEF InsideBody, StartOf, EndOf
  <2>2. torn' \in BOOLEAN
    BY <1>0, <1>2 DEF StatusInv, InsideBody
  <2> QED  BY <1>2, <2>1, <2>2 DEF StatusInv
<1> QED  BY <1>7, <1>8, <1>9 DEF StreamInv

\* What is behind start_pos moves to the front.
LEMMA NeedMoreStep ==
  ASSUME HeldInv, DecodedInv, StatusInv, NeedMore
  PROVE  StreamInv'
<1> DEFINE l == Len(held)
<1>0. HeldInv /\ DecodedInv /\ StatusInv
  OBVIOUS
<1>1. /\ l \in Nat /\ start \in Nat /\ taken \in Nat /\ start <= l
      /\ l <= taken /\ Len(Stream) \in Nat /\ taken <= Len(Stream)
      /\ BufferSize \in Nat /\ Origin = taken - l /\ l <= BufferSize
  BY <1>0, Numbers DEF Origin, HeldInv
<1>2. /\ held' = SubSeq(held, start + 1, l) /\ start' = 0 /\ status' = "reading"
      /\ taken' = taken /\ decoded' = decoded /\ torn' = torn
  BY DEF NeedMore, Scanning
<1>3. /\ held' \in Seq(Bytes) /\ Len(held') = l - start
      /\ \A j \in 1 .. l - start : start + j \in 1 .. l /\ held'[j] = held[start + j]
  <2>1. held \in Seq(Bytes) /\ l <= l
    BY <1>0, <1>1 DEF HeldInv
  <2> QED  BY <1>1, <1>2, <2>1, Cut
<1>4. Origin' = Origin + start
  <2>1. Origin' = taken' - Len(held')
    BY DEF Origin
  <2> HIDE DEF l
  <2> QED  BY <1>1, <1>2, <1>3, <2>1
<1>5. ASSUME NEW j \in 1 .. l - start
      PROVE  held'[j] = Stream[Origin' + j]
  <2>1. held'[j] = held[start + j] /\ start + j \in 1 .. l
    BY <1>3
  <2>2. held[start + j] = Stream[Origin + (start + j)]
    BY <1>0, <2>1 DEF HeldInv
  <2>3. Origin + (start + j) = Origin' + j
    <3> HIDE DEF l
    <3> QED  BY <1>1, <1>4
  <2> QED  BY <2>1, <2>2, <2>3
<1>6. HeldInv'
  <2>1. /\ held' \in Seq(Bytes) /\ Len(held') <= BufferSize /\ start' \in 0 .. Len(held')
        /\ taken' \in 0 .. Len(Stream) /\ Len(held') <= taken' /\ start' = 0
    <3> HIDE DEF l
    <3> QED  BY <1>1, <1>2, <1>3
  <2>2. \A j \in 1 .. Len(held') : held'[j] = Stream[Origin' + j]
    BY <1>3, <1>5
  <2> QED  BY <2>1, <2>2 DEF HeldInv
<1>7. DecodedInv'
  <2>1. Origin' + start' = Origin + start
    <3> HIDE DEF l
    <3> QED  BY <1>1, <1>2, <1>4
  <2> QED  BY <1>0, <1>2, <2>1 DEF DecodedInv
<1>8. StatusInv'
  BY <1>0, <1>2, Outside DEF StatusInv
<1> QED  BY <1>6, <1>7, <1>8 DEF StreamInv

\* A packet is decoded, and the next begins where it ends.
LEMMA DecodeStep ==
  ASSUME HeldInv, DecodedInv, StatusInv, Decode
  PROVE  StreamInv'
<1> DEFINE l == Len(held)
           k == Len(decoded) + 1
<1>0. HeldInv /\ DecodedInv /\ StatusInv
  OBVIOUS
<1>1. /\ l \in Nat /\ start \in Nat /\ taken \in Nat /\ start <= l
      /\ l <= taken /\ Len(Stream) \in Nat /\ taken <= Len(Stream)
      /\ BufferSize \in Nat /\ Origin = taken - l
  BY <1>0, Numbers DEF Origin
<1>2. /\ Size \notin {None, 0} /\ start + Size <= l
      /\ decoded' = Append(decoded, <<Begin, End, End>>)
      /\ taken' = taken /\ torn' = torn /\ status = "scanning"
      /\ IF start + Size = l THEN held' = << >> /\ start' = 0 /\ status' = "reading"
         ELSE start' = start + Size /\ held' = held /\ status' = status
  BY DEF Decode, Scanning
<1>3. /\ k \in 1 .. Len(Sizes) /\ Len(Digits[Sizes[k]]) <= 4 /\ Size \in Nat \ {0}
      /\ StartOf(k) = Origin + start /\ EndOf(k) = Origin + start + Size
      /\ StartOf(k) \in Nat /\ EndOf(k) \in Nat
  BY <1>0, <1>2, PacketFound
<1>4. Origin' + start' = Origin + start + Size
  <2>1. Origin' = taken' - Len(held')
    BY DEF Origin
  <2> HIDE DEF k
  <2>2. CASE start + Size = l
    <3>1. Len(held') = 0
      BY <1>2, <2>2
    <3> HIDE DEF l
    <3> QED  BY <1>1, <1>2, <1>3, <2>1, <2>2, <3>1
  <2>3. CASE start + Size # l
    <3>1. Origin' = Origin
      BY <1>1, <1>2, <2>1, <2>3
    <3> HIDE DEF l
    <3> QED  BY <1>1, <1>2, <1>3, <2>3, <3>1
  <2> QED  BY <2>2, <2>3
<1>5. HeldInv'
  <2>1. CASE start + Size = l
    <3>1. held' = << >> /\ start' = 0 /\ status' = "reading" /\ taken' = taken /\ Len(<< >>) = 0
          /\ << >> \in Seq(Bytes)
      BY <1>2, <2>1
    <3> QED  BY <1>1, <3>1 DEF HeldInv
  <2>2. CASE start + Size # l
    <3>1. held' = held /\ start' = start + Size /\ status' = "scanning" /\ taken' = taken
      BY <1>2, <2>2
    <3>2. Origin' = Origin
      BY <3>1 DEF Origin
    <3>3. start' \in 0 .. l
      <4> HIDE DEF l, k
      <4> QED  BY <1>1, <1>2, <1>3, <3>1
    <3> QED  BY <1>0, <3>1, <3>2, <3>3 DEF HeldInv
  <2> QED  BY <2>1, <2>2
<1>6. DecodedInv'
  <2> DEFINE found == <<Begin, End, End>>
  <2>1. decoded \in Seq(Nat \X Nat \X Nat) /\ Len(decoded) \in Nat /\ k \in Nat
    BY <1>0 DEF DecodedInv
  <2>2. found = <<StartOf(k), EndOf(k), EndOf(k)>> /\ found \in Nat \X Nat \X Nat
    BY <1>3 DEF Begin, End
  <2> HIDE DEF found
  <2>3. /\ decoded' \in Seq(Nat \X Nat \X Nat) /\ Len(decoded') = k /\ decoded'[k] = found
        /\ \A j \in 1 .. Len(decoded) : decoded'[j] = decoded[j]
    <3>1. decoded' = Append(decoded, found)
      BY <1>2 DEF found
    <3> QED  BY <2>1, <2>2, <3>1, AppendProperties
  <2>4. Len(decoded') <= Len(Sizes)
    BY <1>3, <2>3
  <2>5. Origin' + start' = Len(Sent[Len(decoded')])
    BY <1>3, <1>4, <2>3 DEF EndOf
  <2>6. ASSUME NEW j \in 1 .. Len(decoded')
        PROVE  decoded'[j] = <<StartOf(j), EndOf(j), EndOf(j)>> /\ Len(Digits[Sizes[j]]) <= 4
    <3>1. j \in 1 .. Len(decoded) \/ j = k
      BY <2>1, <2>3
    <3> QED  BY <1>0, <1>3, <2>2, <2>3, <3>1 DEF DecodedInv
  <2> QED  BY <2>3, <2>4, <2>5, <2>6 DEF DecodedInv, StartOf, EndOf
<1>7. StatusInv'
  BY <1>0, <1>2, Outside DEF StatusInv
<1> QED  BY <1>5, <1>6, <1>7 DEF StreamInv

\* A torn packet is decoded: it is the next, all of its header is there, and the read
\* that was the last tore it.
LEMMA DecodeIncompleteStep ==
  ASSUME HeldInv, DecodedInv, StatusInv, DecodeIncomplete
  PROVE  StreamInv'
<1> DEFINE l == Len(held)
           k == Len(decoded) + 1
           found == <<Begin, End, taken>>
<1>1. /\ l \in Nat /\ start \in Nat /\ taken \in Nat /\ start <= l /\ Origin + l = taken
      /\ Origin \in Nat /\ BufferSize \in Nat /\ taken \in 0 .. Len(Stream)
  BY Numbers DEF HeldInv
<1>2. /\ Size \notin {None, 0} /\ l < start + Size /\ start + Size <= BufferSize
      /\ decoded' = Append(decoded, found)
      /\ held' = held /\ taken' = taken /\ torn' = torn /\ status = "scanning"
      /\ \/ status' = "PacketError" /\ start' = start
         \/ status' = "scanning" /\ start' = start + Size
  <2>1. /\ Size \notin {None, 0} /\ start + Size > l /\ start + Size <= BufferSize
    BY DEF DecodeIncomplete
  <2>2. Size \in Nat
    BY <2>1, PacketFound
  <2>3. l < start + Size
    <3> HIDE DEF l
    <3> QED  BY <1>1, <2>1, <2>2
  <2> QED  BY <2>1, <2>3 DEF DecodeIncomplete, Scanning
<1>3. /\ k \in 1 .. Len(Sizes) /\ Size \in Nat
      /\ StartOf(k) = Origin + start /\ EndOf(k) = Origin + start + Size
      /\ StartOf(k) \in Nat /\ EndOf(k) \in Nat
      /\ StartOf(k) + Len(Header(Sizes[k])) <= taken
  BY <1>2, PacketFound
<1>4. torn
  <2>1. k \in DOMAIN Sizes
    BY <1>3, ConstantsAssumption, Places
  <2>2. taken < EndOf(k)
    <3> HIDE DEF l, k
    <3> QED  BY <1>1, <1>2, <1>3
  <2>3. InsideBody(taken)
    BY <1>3, <2>1, <2>2 DEF InsideBody
  <2> QED  BY <2>3 DEF StatusInv
<1>5. /\ decoded' \in Seq(Nat \X Nat \X Nat) /\ Len(decoded') = k /\ decoded'[k] = found
      /\ \A j \in 1 .. Len(decoded) : decoded'[j] = decoded[j]
  <2>1. found = <<StartOf(k), EndOf(k), taken>> /\ found \in Nat \X Nat \X Nat
    BY <1>1, <1>3 DEF Begin, End
  <2> HIDE DEF found
  <2>2. decoded \in Seq(Nat \X Nat \X Nat)
    BY DEF DecodedInv
  <2> QED  BY <1>2, <2>1, <2>2, AppendProperties
<1>6. found[1] = StartOf(k) /\ found[2] = EndOf(k)
  BY <1>3 DEF Begin, End
<1> HIDE DEF found
<1>7. ASSUME NEW j \in 1 .. Len(decoded')
      PROVE  /\ decoded'[j][1] = StartOf(j) /\ decoded'[j][2] = EndOf(j)
             /\ decoded'[j][3] = EndOf(j) \/ j = Len(decoded')
  <2>1. CASE j = k
    BY <1>5, <1>6, <2>1
  <2>2. CASE j # k
    <3>1. Len(decoded) \in Nat
      BY SizeIs
    <3>2. j \in 1 .. Len(decoded)
      BY <1>5, <2>2, <3>1
    <3>3. decoded'[j] = <<StartOf(j), EndOf(j), EndOf(j)>>
      BY <1>5, <3>2 DEF DecodedInv
    <3> QED  BY <3>3
  <2> QED  BY <2>1, <2>2
<1>8. /\ start' \in 0 .. BufferSize
      /\ \/ status' = "PacketError" /\ start' <= Len(held')
         \/ status' \in {"scanning", "panicked"} /\ start' > Len(held')
  <2>1. Len(held') = l /\ l <= BufferSize
    BY <1>2 DEF HeldInv
  <2> HIDE DEF l, k
  <2>2. start + Size \in 0 .. BufferSize /\ start \in 0 .. BufferSize /\ start + Size > l
    BY <1>1, <1>2, <1>3, <2>1
  <2> QED  BY <1>1, <1>2, <2>1, <2>2
<1>9. Len(decoded') <= Len(Sizes)
  BY <1>3, <1>5
<1>10. TornInv'
  <2>1. held' \in Seq(Bytes) /\ Len(held') <= BufferSize /\ taken' \in 0 .. Len(Stream) /\ torn'
    BY <1>1, <1>2, <1>4 DEF HeldInv
  <2> QED  BY <1>5, <1>7, <1>8, <1>9, <2>1 DEF TornInv, StartOf, EndOf
<1>11. StatusInv'
  BY <1>2, Outside DEF StatusInv
<1> QED  BY <1>10, <1>11 DEF StreamInv

\* The loop ends.
LEMMA EndStep ==
  ASSUME HeldInv, DecodedInv, StatusInv, UNCHANGED <<held, start, taken, decoded, torn>>,
         status' = status \/ status' \in {"closed", "full", "PacketError", "panicked"}
  PROVE  StreamInv'
<1>1. Origin' = Origin
  BY DEF Origin
<1>2. HeldInv' /\ DecodedInv'
  BY <1>1 DEF HeldInv, DecodedInv, StartOf, EndOf
<1>3. StatusInv'
  BY Outside DEF StatusInv
<1> QED  BY <1>2, <1>3 DEF StreamInv

\* Behind a torn packet nothing is left to do but to panic.
LEMMA TornStep ==
  ASSUME TornInv, StatusInv, [Next]_vars
  PROVE  /\ TornInv' /\ StatusInv' /\ torn'
<1>1. status # "reading" /\ ~Scanning
  <2>1. Len(held) \in Nat /\ start \in Nat
    BY ConstantsAssumption DEF TornInv
  <2> QED  BY <2>1 DEF TornInv, Scanning
<1>2. SlicePanics \/ UNCHANGED vars
  BY <1>1 DEF Next, Scan, Read, ReadNothing, NeedMore, BadLength, Decode, DecodeIncomplete
<1>3. /\ UNCHANGED <<held, start, taken, decoded, torn>>
      /\ status' = status \/ (status = "scanning" /\ status' = "panicked")
  BY <1>2 DEF SlicePanics, vars
<1>4. TornInv'
  BY <1>3 DEF TornInv, StartOf, EndOf
<1>5. StatusInv'
  BY <1>3, Outside DEF StatusInv
<1> QED  BY <1>4, <1>5 DEF TornInv

\* Each step of the loop keeps the invariant.
LEMMA StreamStep == StreamInv /\ [Next]_vars => StreamInv'
<1> SUFFICES ASSUME StreamInv, [Next]_vars
             PROVE  StreamInv'
  OBVIOUS
<1>1. CASE TornInv
  BY <1>1, TornStep DEF StreamInv
<1>2. CASE HeldInv /\ DecodedInv
  <2>0. HeldInv /\ DecodedInv /\ StatusInv
    BY <1>2 DEF StreamInv
  <2>1. CASE \E len \in 1 .. BufferSize : Read(len)
    BY <2>0, <2>1, ReadStep
  <2>2. CASE ReadNothing
    BY <2>0, <2>2, EndStep DEF ReadNothing
  <2>3. CASE NeedMore
    BY <2>0, <2>3, NeedMoreStep
  <2>4. CASE BadLength
    BY <2>0, <2>4, EndStep DEF BadLength
  <2>5. CASE Decode
    BY <2>0, <2>5, DecodeStep
  <2>6. CASE DecodeIncomplete
    BY <2>0, <2>6, DecodeIncompleteStep
  <2>7. CASE SlicePanics
    BY <2>0, <2>7, EndStep DEF SlicePanics
  <2>8. CASE UNCHANGED vars
    BY <2>0, <2>8, EndStep DEF vars
  <2> QED  BY <2>1, <2>2, <2>3, <2>4, <2>5, <2>6, <2>7, <2>8 DEF Next, Scan
<1> QED  BY <1>1, <1>2 DEF StreamInv

\* So it always holds.
LEMMA StreamHolds == Spec => []StreamInv
BY StreamInit, StreamStep, PTL DEF Spec

\* Type correctness of the receive loop's buffer: the cursor never leaves it, and
\* start_pos passes the cursor only behind a torn packet, never the buffer.
THEOREM TypeCorrect == Spec => []TypeOK
<1>1. ASSUME HeldInv, DecodedInv, StatusInv
      PROVE  TypeOK
  <2>1. /\ start \in Nat /\ Len(held) \in Nat /\ start <= Len(held)
        /\ Len(held) <= BufferSize /\ BufferSize \in Nat
    BY <1>1, Numbers DEF HeldInv
  <2>2. start \in 0 .. BufferSize /\ ~(start > Len(held))
    BY <2>1
  <2> QED  BY <1>1, <2>2 DEF HeldInv, StatusInv, TypeOK, Bytes
<1>2. ASSUME TornInv, StatusInv
      PROVE  TypeOK
  <2>1. start > Len(held) => status \in {"scanning", "panicked"}
    <3>1. start \in Nat /\ Len(held) \in Nat
      BY <1>2, ConstantsAssumption DEF TornInv
    <3> QED  BY <1>2, <3>1 DEF TornInv
  <2> QED  BY <1>2, <2>1 DEF TornInv, StatusInv, TypeOK, Bytes
<1>3. StreamInv => TypeOK
  BY <1>1, <1>2 DEF StreamInv
<1> QED  BY <1>3, StreamHolds, PTL

\* recv_loop (io.rs): decode_slice is given the packets the broker sent, one after the
\* other and whole, however reads cut them - but for one whose body a read has torn
\* apart, behind which nothing is decoded; for any packets and any size of the buffer.
THEOREM PacketsDecoded == Spec => []DecodesPackets
<1>1. StreamInv => DecodesPackets
  <2> SUFFICES ASSUME StreamInv, NEW k \in DOMAIN decoded
               PROVE  /\ k \in DOMAIN Sizes
                      /\ decoded[k][1] = StartOf(k) /\ decoded[k][2] = EndOf(k)
                      /\ decoded[k][3] = EndOf(k) \/ (torn /\ k = Len(decoded))
    BY DEF DecodesPackets
  <2>1. decoded \in Seq(Nat \X Nat \X Nat) /\ Len(decoded) <= Len(Sizes)
    BY DEF StreamInv, DecodedInv, TornInv
  <2>2. k \in 1 .. Len(decoded) /\ Len(decoded) \in Nat
    BY <2>1, Places
  <2>3. k \in 1 .. Len(Sizes) /\ DOMAIN Sizes = 1 .. Len(Sizes)
    BY <2>1, <2>2, ConstantsAssumption, Places
  <2>4. CASE HeldInv /\ DecodedInv
    <3>1. decoded[k] = <<StartOf(k), EndOf(k), EndOf(k)>>
      BY <2>2, <2>4 DEF DecodedInv
    <3> QED  BY <2>3, <3>1
  <2>5. CASE TornInv
    BY <2>2, <2>3, <2>5 DEF TornInv
  <2> QED  BY <2>4, <2>5 DEF StreamInv
<1> QED  BY <1>1, StreamHolds, PTL

-----------------------------------------------------------------------------
(* The loop survives *)

\* While no body was torn apart, what is left of a packet after a scan is less than a
\* header.
SurvivesInv ==
  ~torn =>
    /\ status \notin {"panicked", "full"}
    /\ status = "PacketError" => /\ Len(decoded) < Len(Sizes)
                                 /\ Len(Digits[Sizes[Len(decoded) + 1]]) > 4
    /\ status = "reading" => Len(held) < 5

\* At first there is nothing.
LEMMA SurvivesInit == Init => SurvivesInv
<1> SUFFICES ASSUME Init
             PROVE  SurvivesInv
  OBVIOUS
<1>1. held = << >> /\ status = "reading" /\ Len(<< >>) = 0
  BY DEF Init
<1> QED  BY <1>1 DEF SurvivesInv

\* While no body was torn apart, a packet that has a size is in the buffer.
LEMMA Whole ==
  ASSUME HeldInv, DecodedInv, StatusInv, ~torn, Size \notin {None, 0}
  PROVE  ~(start + Size > Len(held))
<1> DEFINE k == Len(decoded) + 1
<1>1. /\ k \in 1 .. Len(Sizes) /\ Size \in Nat /\ EndOf(k) = Origin + start + Size
      /\ StartOf(k) + Len(Header(Sizes[k])) <= taken
  BY PacketFound
<1>2. k \in DOMAIN Sizes
  BY <1>1, ConstantsAssumption, Places
<1>3. ~(taken < EndOf(k))
  <2> HIDE DEF k
  <2> QED  BY <1>1, <1>2 DEF StatusInv, InsideBody
<1>4. /\ Len(held) \in Nat /\ start \in Nat /\ taken \in Nat /\ Origin \in Nat
      /\ Origin + Len(held) = taken
  BY Numbers
<1> HIDE DEF k
<1> QED  BY <1>1, <1>3, <1>4

\* Only a torn body could end the loop otherwise.
LEMMA SurvivesStep == StreamInv /\ SurvivesInv /\ [Next]_vars => SurvivesInv'
<1> SUFFICES ASSUME StreamInv, SurvivesInv, [Next]_vars, ~torn'
             PROVE  /\ status' \notin {"panicked", "full"}
                    /\ status' = "PacketError" =>
                         /\ Len(decoded') < Len(Sizes)
                         /\ Len(Digits[Sizes[Len(decoded') + 1]]) > 4
                    /\ status' = "reading" => Len(held') < 5
  BY DEF SurvivesInv
<1> DEFINE l == Len(held)
           k == Len(decoded) + 1
<1>0. HeldInv /\ DecodedInv /\ StatusInv
  BY TornStep DEF StreamInv
<1>1. /\ l \in Nat /\ start \in Nat /\ taken \in Nat /\ start <= l /\ l <= taken
      /\ BufferSize \in Nat /\ BufferSize >= 5 /\ Origin + l = taken /\ Origin \in Nat
  BY <1>0, Numbers, ConstantsAssumption
<1>2. ASSUME NEW len \in 1 .. BufferSize, Read(len)
      PROVE  status' = "scanning"
  BY <1>2 DEF Read
<1>3. ASSUME ~torn
      PROVE  /\ status \notin {"panicked", "full"}
             /\ status = "reading" => l < 5
             /\ status = "PacketError" => Len(decoded) < Len(Sizes) /\ Len(Digits[Sizes[k]]) > 4
  BY <1>3 DEF SurvivesInv
<1>4. CASE ReadNothing
  <2>1. /\ taken' = taken /\ torn' = torn /\ status = "reading"
        /\ status' = IF l = BufferSize THEN "full" ELSE "closed"
    BY <1>4 DEF ReadNothing
  <2>2. l # BufferSize
    <3> HIDE DEF l
    <3> QED  BY <1>1, <1>3, <2>1
  <2> QED  BY <1>3, <2>1, <2>2
<1>5. CASE NeedMore
  <2>1. /\ taken' = taken /\ torn' = torn /\ status' = "reading" /\ Size = None
        /\ held' = SubSeq(held, start + 1, l)
    BY <1>5 DEF NeedMore
  <2>2. Len(held') = l - start
    <3>1. held \in Seq(Bytes) /\ l <= l
      BY <1>0, <1>1 DEF HeldInv
    <3> QED  BY <1>1, <2>1, <3>1, Cut
  <2>3. l - start < 5
    <3>1. CASE Len(decoded) < Len(Sizes)
      <4>1. None = Measured(Sizes[k], l - start)
        BY <1>0, <2>1, <3>1, SizeIs
      <4>2. Sizes[k] \in Nat /\ Len(Digits[Sizes[k]]) \in Nat
        <5>1. k \in 1 .. Len(Sizes)
          BY <1>0, <3>1, SizeIs
        <5>2. Sizes[k] \in Nat
          BY <5>1, PacketAt
        <5> QED  BY <5>2, DigitsAre
      <4>3. None # 0 /\ None # Sizes[k] + Len(Digits[Sizes[k]]) + 1
        <5> HIDE DEF k
        <5>1. Sizes[k] + Len(Digits[Sizes[k]]) + 1 \in Nat /\ 0 \in Nat
          BY <4>2
        <5> QED  BY <5>1, ConstantsAssumption
      <4> HIDE DEF l, k
      <4> QED  BY <1>1, <4>1, <4>3 DEF Measured
    <3>2. CASE ~(Len(decoded) < Len(Sizes))
      <4>1. start = l
        BY <1>0, <3>2, SizeIs
      <4> HIDE DEF l
      <4> QED  BY <1>1, <4>1
    <3> QED  BY <3>1, <3>2
  <2> QED  BY <1>3, <2>1, <2>2, <2>3
<1>6. CASE BadLength
  <2>1. /\ taken' = taken /\ torn' = torn /\ decoded' = decoded /\ Size = 0
        /\ status' = "PacketError"
    BY <1>6 DEF BadLength
  <2>2. Len(decoded) < Len(Sizes)
    <3>1. None # 0
      BY ConstantsAssumption
    <3> QED  BY <1>0, <2>1, <3>1, SizeIs
  <2>3. 0 = Measured(Sizes[k], l - start)
    BY <1>0, <2>1, <2>2, SizeIs
  <2>4. Sizes[k] \in Nat /\ Len(Digits[Sizes[k]]) \in Nat
    <3>1. k \in 1 .. Len(Sizes)
      BY <1>0, <2>2, SizeIs
    <3>2. Sizes[k] \in Nat
      BY <3>1, PacketAt
    <3> QED  BY <3>2, DigitsAre
  <2>5. Len(Digits[Sizes[k]]) > 4
    <3> HIDE DEF l, k
    <3>1. Sizes[k] + Len(Digits[Sizes[k]]) + 1 # 0 /\ None # 0
      BY <2>4, ConstantsAssumption
    <3>2. l - start >= 5 /\ ~(Len(Digits[Sizes[k]]) <= 4 /\ Len(Digits[Sizes[k]]) + 1 <= l - start)
      BY <2>3, <3>1 DEF Measured
    <3> QED  BY <1>1, <2>4, <3>2
  <2> QED  BY <1>3, <2>1, <2>2, <2>5
<1>7. CASE Decode
  <2>1. /\ taken' = taken /\ torn' = torn /\ status = "scanning"
        /\ status' \in {"scanning", "reading"}
        /\ status' = "reading" => held' = << >>
    BY <1>7 DEF Decode, Scanning
  <2>2. Len(<< >>) = 0
    OBVIOUS
  <2> QED  BY <1>3, <2>1, <2>2
<1>8. CASE DecodeIncomplete
  <2>1. torn' = torn /\ status' \in {"PacketError", "scanning"}
    BY <1>8 DEF DecodeIncomplete, Scanning
  <2>2. Size \notin {None, 0} /\ start + Size > l
    BY <1>8 DEF DecodeIncomplete
  <2> QED  BY <1>0, <2>1, <2>2, Whole
<1>9. CASE SlicePanics
  <2>1. torn' = torn /\ (start > l \/ (Size # None /\ start + Size > BufferSize))
    BY <1>9 DEF SlicePanics
  <2>2. l <= BufferSize
    BY <1>0 DEF HeldInv
  <2>3. Size # None /\ start + Size > BufferSize
    <3> HIDE DEF l
    <3> QED  BY <1>1, <2>1
  <2>4. Size # 0
    <3> HIDE DEF l
    <3> QED  BY <1>1, <2>2, <2>3
  <2>5. Size \in Nat
    BY <1>0, <2>3, <2>4, PacketFound
  <2>6. start + Size > l
    <3> HIDE DEF l
    <3> QED  BY <1>1, <2>2, <2>3, <2>5
  <2> QED  BY <1>0, <2>1, <2>3, <2>4, <2>6, Whole
<1>10. CASE UNCHANGED vars
  BY <1>3, <1>10 DEF vars
<1> QED  BY <1>2, <1>4, <1>5, <1>6, <1>7, <1>8, <1>9, <1>10 DEF Next, Scan

\* The packets before the first that is malformed.
LEMMA WellFormedIs ==
  ASSUME NEW k \in Nat, k < Len(Sizes), \A j \in 1 .. k : Len(Digits[Sizes[j]]) <= 4,
         Len(Digits[Sizes[k + 1]]) > 4
  PROVE  WellFormed = k
<1> DEFINE W == {i \in DOMAIN Sizes : \A j \in 1 .. i : Len(Digits[Sizes[j]]) <= 4}
<1>1. DOMAIN Sizes = 1 .. Len(Sizes) /\ Len(Sizes) \in Nat
  BY ConstantsAssumption
<1>2. Len(Digits[Sizes[k + 1]]) \in Nat
  <2>1. k + 1 \in 1 .. Len(Sizes)
    BY <1>1
  <2>2. Sizes[k + 1] \in Nat
    BY <2>1, PacketAt
  <2> QED  BY <2>2, DigitsAre
<1>3. W = 1 .. k
  <2>1. ASSUME NEW i \in 1 .. k
        PROVE  i \in W
    <3>1. i \in DOMAIN Sizes /\ \A j \in 1 .. i : j \in 1 .. k
      BY <1>1
    <3> QED  BY <3>1
  <2>2. ASSUME NEW i \in W
        PROVE  i \in 1 .. k
    <3>1. i \in 1 .. Len(Sizes) /\ \A j \in 1 .. i : Len(Digits[Sizes[j]]) <= 4
      BY <1>1
    <3>2. k + 1 \notin 1 .. i
      BY <1>2, <3>1
    <3> QED  BY <3>1, <3>2
  <2> HIDE DEF W
  <2> QED  BY <2>1, <2>2
<1>4. Cardinality(1 .. k) = k
  <2>1. Cardinality(1 .. k) = IF 1 > k THEN 0 ELSE k - 1 + 1
    BY FS_Interval
  <2> QED  BY <2>1
<1> QED  BY <1>3, <1>4 DEF WellFormed

\* recv_loop, packet_size (io.rs): while no body is torn apart, only the broker or a
\* packet with more than four length bytes ends the loop, after all packets before it
\* were decoded, and what is left over from the last packet never fills the buffer.
THEOREM LoopSurvives == Spec => []StreamSurvives
<1>1. StreamInv /\ SurvivesInv => StreamSurvives
  <2> SUFFICES ASSUME StreamInv, SurvivesInv, ~torn
               PROVE  /\ status \notin {"panicked", "full"}
                      /\ status = "PacketError" => /\ WellFormed < Len(Sizes)
                                                   /\ Len(decoded) = WellFormed
                      /\ status = "reading" => Len(held) < 5
    BY DEF StreamSurvives
  <2>1. /\ status \notin {"panicked", "full"}
        /\ status = "reading" => Len(held) < 5
    BY DEF SurvivesInv
  <2>2. ASSUME status = "PacketError"
        PROVE  WellFormed < Len(Sizes) /\ Len(decoded) = WellFormed
    <3>1. /\ Len(decoded) < Len(Sizes) /\ Len(Digits[Sizes[Len(decoded) + 1]]) > 4
      BY <2>2 DEF SurvivesInv
    <3>2. /\ Len(decoded) \in Nat /\ \A j \in 1 .. Len(decoded) : Len(Digits[Sizes[j]]) <= 4
      BY DEF StreamInv, DecodedInv, TornInv
    <3>3. WellFormed = Len(decoded)
      BY <3>1, <3>2, WellFormedIs
    <3> QED  BY <3>1, <3>3
  <2> QED  BY <2>1, <2>2
<1> QED  BY <1>1, StreamHolds, SurvivesInit, SurvivesStep, PTL DEF Spec
=============================================================================
