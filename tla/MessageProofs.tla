--------------------------- MODULE MessageProofs ----------------------------
(***************************************************************************)
(* Theorems about Message, and lemmas about the operators it is built from *)
(* (Topic, Buffer, Light).                                                 *)
(***************************************************************************)
EXTENDS Message, Induction, SequenceTheorems, FiniteSetTheorems, TLAPS

-----------------------------------------------------------------------------
(* Topic *)

\* The prefixes and the separator are texts.
LEMMA CharactersOfTopics ==
  /\ <<"/">> \in Seq(Characters) /\ DeviceType \in Seq(Characters)
  /\ DeviceId \in Seq(Characters)
BY TopicAssumption DEF TopicAssumption

\* A text is a prefix if the other begins with its characters.
LEMMA PrefixPointwise ==
  ASSUME NEW s \in Seq(Characters), NEW t \in Seq(Characters)
  PROVE  IsPrefix(s, t) <=> Len(s) <= Len(t) /\ \A i \in 1 .. Len(s) : s[i] = t[i]
<1> SUFFICES ASSUME Len(s) <= Len(t)
             PROVE  SubSeq(s, 1, Len(s)) = SubSeq(t, 1, Len(s))
                      <=> \A i \in 1 .. Len(s) : s[i] = t[i]
  BY DEF IsPrefix
<1> DEFINE front == SubSeq(t, 1, Len(s))
<1>1. SubSeq(s, 1, Len(s)) = s
  BY SubSeqFull
<1>2. /\ front \in Seq(Characters) /\ Len(front) = Len(s)
      /\ \A i \in 1 .. Len(s) : front[i] = t[i]
  <2>1. 1 \in Int /\ Len(s) \in Int /\ \A i \in 1 .. Len(s) : t[i] \in Characters
    OBVIOUS
  <2> QED  BY <2>1, SubSeqProperties
<1> HIDE DEF front
<1>3. s = front <=> \A i \in 1 .. Len(s) : s[i] = t[i]
  BY <1>2, SeqEqual
<1> QED  BY <1>1, <1>3 DEF front

\* A text begins with a prefix: it is the prefix, or a separator or something
\* else comes next.
LEMMA StripsPointwise ==
  ASSUME NEW p \in Seq(Characters), NEW st \in Seq(Characters)
  PROVE  Strips(p, st) <=>
           IsPrefix(p, st) /\ st # p /\ st[Len(p) + 1] = "/"
<1> DEFINE q == p \o <<"/">>
<1>1. /\ q \in Seq(Characters) /\ Len(q) = Len(p) + 1
      /\ \A i \in 1 .. Len(p) : q[i] = p[i]
      /\ q[Len(p) + 1] = "/"
  BY CharactersOfTopics, ConcatProperties
<1> HIDE DEF q
<1>2. Strips(p, st) <=> Len(q) <= Len(st) /\ \A i \in 1 .. Len(q) : q[i] = st[i]
  BY <1>1, PrefixPointwise DEF Strips, q
<1>3. IsPrefix(p, st) <=> Len(p) <= Len(st) /\ \A i \in 1 .. Len(p) : p[i] = st[i]
  BY PrefixPointwise
<1>4. IsPrefix(p, st) => (st = p <=> Len(st) = Len(p))
  BY <1>3, SeqEqual
<1>5. 1 .. Len(q) = 1 .. Len(p) \cup {Len(p) + 1}
  BY <1>1
<1> QED  BY <1>1, <1>2, <1>3, <1>4, <1>5

\* A prefix and a separator that were stripped from a text can be put back.
LEMMA Restored ==
  ASSUME NEW p \in Seq(Characters), NEW st \in Seq(Characters), Strips(p, st)
  PROVE  /\ Stripped(p, st) \in Seq(Characters)
         /\ p \o <<"/">> \o Stripped(p, st) = st
<1> DEFINE q == p \o <<"/">>
<1>1. q \in Seq(Characters) /\ Len(q) = Len(p) + 1
  BY CharactersOfTopics, ConcatProperties
<1>2. Len(q) <= Len(st) /\ SubSeq(st, 1, Len(q)) = SubSeq(q, 1, Len(q))
  BY DEF Strips, IsPrefix
<1>3. SubSeq(st, 1, Len(q)) = q
  BY <1>1, <1>2, SubSeqFull
<1>4. SubSeq(st, 1, Len(q)) \o SubSeq(st, Len(q) + 1, Len(st)) = SubSeq(st, 1, Len(st))
  <2>1. /\ 1 \in 1 .. Len(st) + 1 /\ Len(st) \in Len(q) .. Len(st)
        /\ Len(q) \in 1 - 1 .. Len(st)
    BY <1>1, <1>2
  <2> HIDE DEF q
  <2> QED  BY <2>1, ConcatAdjacentSubSeq
<1>5. Stripped(p, st) = SubSeq(st, Len(q) + 1, Len(st))
  BY <1>1 DEF Stripped
<1>6. Stripped(p, st) \in Seq(Characters)
  <2>1. Len(q) + 1 \in Int /\ Len(st) \in Int
    BY <1>1
  <2>2. \A i \in Len(q) + 1 .. Len(st) : st[i] \in Characters
    BY <1>1
  <2> HIDE DEF q
  <2> QED  BY <1>5, <2>1, <2>2, SubSeqProperties
<1> QED  BY <1>3, <1>4, <1>5, <1>6, SubSeqFull

\* The text of a topic of the device is that of one of the device type.
LEMMA DevicePrefix ==
  ASSUME NEW name \in Seq(Characters)
  PROVE  DeviceType \o <<"/">> \o DeviceId \o <<"/">> \o name
           = DeviceType \o <<"/">> \o (DeviceId \o <<"/">> \o name)
<1> DEFINE front == DeviceType \o <<"/">>
           middle == DeviceId \o <<"/">>
<1>1. front \in Seq(Characters) /\ middle \in Seq(Characters)
  BY CharactersOfTopics, ConcatProperties
<1> HIDE DEF front
<1>2. front \o DeviceId \o <<"/">> = front \o middle
  BY <1>1, CharactersOfTopics, ConcatAssociative
<1> HIDE DEF middle
<1>3. (front \o middle) \o name = front \o (middle \o name)
  BY <1>1, ConcatAssociative
<1> QED  BY <1>2, <1>3 DEF front, middle

\* What from_str reads in a text is a topic that is printed as this text, if it
\* can be printed at all.
LEMMA ReadStandsForText ==
  ASSUME NEW st \in Seq(Characters), from_str(st) \notin {Panic, TooLarge}
  PROVE  to_string(from_str(st)) \in {st, TooLarge}
<1> DEFINE rest == Stripped(DeviceType, st)
<1>1. CASE ~Strips(DeviceType, st)
  <2>1. from_str(st) = Made("General", st)
    BY <1>1 DEF from_str, Fitting
  <2> QED  BY <2>1 DEF to_string, Made
<1>2. CASE Strips(DeviceType, st) /\ ~Strips(DeviceId, rest)
  <2>1. from_str(st) = Made("DeviceType", rest)
    BY <1>2 DEF from_str, Fitting
  <2>2. DeviceType \o <<"/">> \o rest = st
    BY <1>2, CharactersOfTopics, Restored
  <2> HIDE DEF rest
  <2> QED  BY <2>1, <2>2 DEF to_string, Made
<1>3. CASE Strips(DeviceType, st) /\ Strips(DeviceId, rest)
  <2> DEFINE name == Stripped(DeviceId, rest)
  <2>1. from_str(st) = Made("Device", name)
    BY <1>3 DEF from_str, Fitting
  <2>2. rest \in Seq(Characters) /\ DeviceType \o <<"/">> \o rest = st
    BY <1>3, CharactersOfTopics, Restored
  <2> HIDE DEF rest
  <2>3. name \in Seq(Characters) /\ DeviceId \o <<"/">> \o name = rest
    BY <1>3, <2>2, CharactersOfTopics, Restored
  <2> HIDE DEF name
  <2>4. DeviceType \o <<"/">> \o DeviceId \o <<"/">> \o name
          = DeviceType \o <<"/">> \o rest
    BY <2>3, DevicePrefix
  <2>5. DeviceType \o <<"/">> \o DeviceId \o <<"/">> \o name = st
    BY <2>2, <2>4
  <2>6. to_string(Made("Device", name)) \in {st, TooLarge}
    BY <2>5 DEF to_string, Made
  <2> QED  BY <2>1, <2>6
<1> QED  BY <1>1, <1>2, <1>3

\* The text of a topic is one.
LEMMA TextOfTopic ==
  ASSUME NEW t, t.variant \in Variants, t.name \in Seq(Characters),
         to_string(t) # TooLarge
  PROVE  to_string(t) \in Seq(Characters)
<1>1. DeviceType \o <<"/">> \in Seq(Characters)
  BY CharactersOfTopics, ConcatProperties
<1>2. DeviceType \o <<"/">> \o t.name \in Seq(Characters)
  BY <1>1, ConcatProperties
<1>3. DeviceType \o <<"/">> \o DeviceId \o <<"/">> \o t.name \in Seq(Characters)
  <2>1. DeviceType \o <<"/">> \o DeviceId \in Seq(Characters)
    BY <1>1, CharactersOfTopics, ConcatProperties
  <2>2. DeviceType \o <<"/">> \o DeviceId \o <<"/">> \in Seq(Characters)
    BY <2>1, CharactersOfTopics, ConcatProperties
  <2> QED  BY <2>2, ConcatProperties
<1> QED  BY <1>2, <1>3 DEF to_string, Variants

\* The bytes of a text are a number, and no fewer than its characters.
LEMMA SizeType ==
  ASSUME NEW st \in Seq(Characters)
  PROVE  /\ Size(st) \in Nat /\ Size(st) >= Len(st)
         /\ IsFiniteSet({i \in DOMAIN st : st[i] \in Wide})
<1> DEFINE wide == {i \in DOMAIN st : st[i] \in Wide}
<1>1. IsFiniteSet(wide)
  <2>1. wide \in SUBSET (1 .. Len(st)) /\ IsFiniteSet(1 .. Len(st))
    BY FS_Interval
  <2> QED  BY <2>1, FS_Subset
<1>2. Cardinality(wide) \in Nat
  BY <1>1, FS_CardinalityType
<1>3. Size(st) = Len(st) + Cardinality(wide)
  BY DEF Size
<1> HIDE DEF wide
<1> QED  BY <1>1, <1>2, <1>3 DEF wide

\* A text is not shorter than its end.
LEMMA SizeOfEnd ==
  ASSUME NEW front \in Seq(Characters), NEW st \in Seq(Characters)
  PROVE  Size(st) <= Size(front \o st)
<1> DEFINE all == front \o st
           wide == {i \in DOMAIN st : st[i] \in Wide}
           allWide == {i \in DOMAIN all : all[i] \in Wide}
           shift == [i \in wide |-> i + Len(front)]
<1>1. all \in Seq(Characters) /\ Len(all) = Len(front) + Len(st)
  BY ConcatProperties
<1>2. \A i \in 1 .. Len(st) :
        i + Len(front) \in 1 .. Len(all) /\ all[i + Len(front)] = st[i]
  BY <1>1
<1>3. shift \in Injection(wide, allWide)
  <2>1. shift \in [wide -> allWide]
    BY <1>1, <1>2
  <2>2. \A i \in wide, j \in wide : shift[i] = shift[j] => i = j
    OBVIOUS
  <2> QED  BY <2>1, <2>2 DEF Injection, IsInjective
<1>4. IsFiniteSet(wide) /\ IsFiniteSet(allWide)
  BY <1>1, SizeType
<1>5. Size(st) = Len(st) + Cardinality(wide) /\ Size(all) = Len(all) + Cardinality(allWide)
  BY DEF Size
<1> HIDE DEF all, wide, allWide, shift
<1>6. Cardinality(wide) <= Cardinality(allWide)
      /\ Cardinality(wide) \in Nat /\ Cardinality(allWide) \in Nat
  BY <1>3, <1>4, FS_Injection, FS_CardinalityType
<1>7. Size(st) <= Size(all)
  BY <1>1, <1>5, <1>6
<1> QED  BY <1>7 DEF all

\* Putting a prefix in front is undone by stripping it, and never a panic.
LEMMA PutInFront ==
  ASSUME NEW p \in Seq(Characters), NEW st \in Seq(Characters)
  PROVE  LET all == p \o <<"/">> \o st
         IN  /\ all \in Seq(Characters) /\ Size(st) <= Size(all)
             /\ ~StripPanics(p, all) /\ Strips(p, all) /\ Stripped(p, all) = st
<1> DEFINE q == p \o <<"/">>
           all == q \o st
<1>1. /\ q \in Seq(Characters) /\ Len(q) = Len(p) + 1
      /\ \A i \in 1 .. Len(p) : q[i] = p[i]
      /\ q[Len(p) + 1] = "/"
  BY CharactersOfTopics, ConcatProperties
<1>2. /\ all \in Seq(Characters) /\ Len(all) = Len(q) + Len(st)
      /\ \A i \in 1 .. Len(q) : all[i] = q[i]
      /\ \A i \in 1 .. Len(st) : all[i + Len(q)] = st[i]
  <2> HIDE DEF q
  <2>1. /\ all \in Seq(Characters) /\ Len(all) = Len(q) + Len(st)
        /\ \A i \in 1 .. Len(q) + Len(st) :
             all[i] = IF i <= Len(q) THEN q[i] ELSE st[i - Len(q)]
    BY <1>1, ConcatProperties
  <2> HIDE DEF all
  <2>2. ASSUME NEW i \in 1 .. Len(st)
        PROVE  all[i + Len(q)] = st[i]
    <3>1. /\ i + Len(q) \in 1 .. Len(q) + Len(st) /\ ~(i + Len(q) <= Len(q))
          /\ (i + Len(q)) - Len(q) = i
      BY <1>1
    <3> QED  BY <2>1, <3>1
  <2> QED  BY <1>1, <2>1, <2>2
<1> HIDE DEF q, all
<1>3. Size(st) <= Size(all)
  BY <1>1, SizeOfEnd DEF all
<1>4. ~StripPanics(p, all)
  <2>1. Len(all) # Len(p) /\ all[Len(p) + 1] = "/"
    BY <1>1, <1>2
  <2> QED  BY <2>1, TopicAssumption DEF StripPanics
<1>5. Strips(p, all)
  <2>1. IsPrefix(q, all)
    <3>1. Len(q) <= Len(all) /\ \A i \in 1 .. Len(q) : q[i] = all[i]
      BY <1>1, <1>2
    <3> QED  BY <1>1, <1>2, <3>1, PrefixPointwise
  <2> QED  BY <2>1 DEF Strips, q
<1>6. Stripped(p, all) = st
  <2> DEFINE rest == SubSeq(all, Len(q) + 1, Len(all))
  <2>1. rest \in Seq(Characters) /\ Len(rest) = Len(st)
        /\ \A i \in 1 .. Len(st) : rest[i] = all[Len(q) + i]
    <3>1. \A i \in Len(q) + 1 .. Len(all) : all[i] \in Characters
      BY <1>1, <1>2
    <3>2. Len(q) + 1 \in Int /\ Len(all) \in Int
      BY <1>1, <1>2
    <3> QED  BY <1>1, <1>2, <3>1, <3>2, SubSeqProperties
  <2>2. \A i \in 1 .. Len(st) : rest[i] = st[i]
    BY <1>1, <1>2, <2>1
  <2>3. Stripped(p, all) = rest
    BY <1>1, <1>2 DEF Stripped
  <2> HIDE DEF rest
  <2> QED  BY <2>1, <2>2, <2>3, SeqEqual
<1>7. p \o <<"/">> \o st = all
  BY DEF q, all
<1> QED  BY <1>2, <1>3, <1>4, <1>5, <1>6, <1>7

\* A topic comes back from its text, unless its name is taken for a prefix.
LEMMA TopicComesBack ==
  ASSUME NEW t \in AnyTopic, to_string(t) # TooLarge
  PROVE  IF Shadowed(t) THEN from_str(to_string(t)) # t
         ELSE from_str(to_string(t)) = t
<1> DEFINE shadow(prefix) == StripPanics(prefix, t.name) \/ Strips(prefix, t.name)
<1>1. /\ t.name \in Seq(Characters) /\ t.variant \in Variants
      /\ t = Made(t.variant, t.name)
  BY DEF AnyTopic, Made
<1>2. ASSUME NEW prefix \in Seq(Characters)
      PROVE  shadow(prefix) <=>
               /\ IsPrefix(prefix, t.name)
               /\ t.name = prefix \/ t.name[Len(prefix) + 1] \in Wide \cup {"/"}
  BY <1>1, StripsPointwise DEF StripPanics
<1>3. Shadowed(t) <=> \/ t.variant = "General" /\ shadow(DeviceType)
                      \/ t.variant = "DeviceType" /\ shadow(DeviceId)
  BY <1>2, CharactersOfTopics DEF Shadowed
<1>4. Panic # t /\ TooLarge # t
  BY ErrorsAreNoTopics
<1>5. \A variant, st : Size(st) <= TopicLength => Fitting(variant, st) = Made(variant, st)
  BY DEF Fitting
<1>6. \A variant, st : Fitting(variant, st) \in {Made(variant, st), TooLarge}
  BY DEF Fitting
<1>7. CASE t.variant = "General"
  <2>1. to_string(t) = t.name /\ Size(t.name) <= TopicLength
    BY <1>7 DEF to_string
  <2>2. CASE shadow(DeviceType)
    <3>1. from_str(t.name) # t
      BY <1>4, <1>6, <1>7, <2>2 DEF from_str, Made
    <3> QED  BY <1>3, <1>7, <2>1, <2>2, <3>1
  <2>3. CASE ~shadow(DeviceType)
    <3>1. from_str(t.name) = t
      BY <1>1, <1>5, <1>7, <2>1, <2>3 DEF from_str
    <3> QED  BY <1>3, <1>7, <2>1, <2>3, <3>1
  <2> QED  BY <2>2, <2>3
<1>8. CASE t.variant = "DeviceType"
  <2> DEFINE all == DeviceType \o <<"/">> \o t.name
  <2>1. to_string(t) = all /\ Size(all) <= TopicLength
    BY <1>8 DEF to_string
  <2>2. /\ Size(t.name) \in Nat /\ Size(all) \in Nat /\ Size(t.name) <= Size(all)
        /\ ~StripPanics(DeviceType, all) /\ Strips(DeviceType, all)
        /\ Stripped(DeviceType, all) = t.name
    BY <1>1, CharactersOfTopics, PutInFront, SizeType
  <2> HIDE DEF all
  <2>3. Size(t.name) <= TopicLength
    BY <2>1, <2>2, TopicAssumption
  <2>4. CASE shadow(DeviceId)
    <3>1. from_str(all) # t
      BY <1>4, <1>6, <1>8, <2>2, <2>4 DEF from_str, Made
    <3> QED  BY <1>3, <1>8, <2>1, <2>4, <3>1
  <2>5. CASE ~shadow(DeviceId)
    <3>1. from_str(all) = t
      BY <1>1, <1>5, <1>8, <2>2, <2>3, <2>5 DEF from_str
    <3> QED  BY <1>3, <1>8, <2>1, <2>5, <3>1
  <2> QED  BY <2>4, <2>5
<1>9. CASE t.variant = "Device"
  <2> DEFINE rest == DeviceId \o <<"/">> \o t.name
             all == DeviceType \o <<"/">> \o rest
  <2>1. to_string(t) = all /\ Size(all) <= TopicLength
    <3>1. DeviceType \o <<"/">> \o DeviceId \o <<"/">> \o t.name = all
      BY <1>1, DevicePrefix
    <3> QED  BY <1>9, <3>1 DEF to_string
  <2>2. /\ rest \in Seq(Characters) /\ Size(t.name) <= Size(rest)
        /\ ~StripPanics(DeviceId, rest) /\ Strips(DeviceId, rest)
        /\ Stripped(DeviceId, rest) = t.name
    BY <1>1, CharactersOfTopics, PutInFront
  <2> HIDE DEF rest
  <2>3. /\ all \in Seq(Characters) /\ Size(rest) <= Size(all)
        /\ ~StripPanics(DeviceType, all) /\ Strips(DeviceType, all)
        /\ Stripped(DeviceType, all) = rest
    BY <2>2, CharactersOfTopics, PutInFront
  <2> HIDE DEF all
  <2>4. Size(t.name) <= TopicLength
    <3>1. Size(t.name) \in Nat /\ Size(rest) \in Nat /\ Size(all) \in Nat
      BY <1>1, <2>2, <2>3, SizeType
    <3> QED  BY <2>1, <2>2, <2>3, <3>1, TopicAssumption
  <2>5. from_str(all) = t
    BY <1>1, <1>5, <1>9, <2>2, <2>3, <2>4 DEF from_str
  <2>6. ~Shadowed(t)
    BY <1>9 DEF Shadowed
  <2> QED  BY <2>1, <2>5, <2>6
<1> QED  BY <1>1, <1>7, <1>8, <1>9 DEF Variants

\* What is a prefix stays one behind another text, with the same text after it.
LEMMA PrefixBehind ==
  ASSUME NEW q \in Seq(Characters), NEW s \in Seq(Characters), NEW t \in Seq(Characters),
         IsPrefix(s, t)
  PROVE  /\ IsPrefix(q \o s, q \o t)
         /\ t # s => (q \o t)[Len(q \o s) + 1] = t[Len(s) + 1]
<1>1. /\ q \o s \in Seq(Characters) /\ Len(q \o s) = Len(q) + Len(s)
      /\ \A i \in 1 .. Len(q) + Len(s) :
           (q \o s)[i] = IF i <= Len(q) THEN q[i] ELSE s[i - Len(q)]
  BY ConcatProperties
<1>2. /\ q \o t \in Seq(Characters) /\ Len(q \o t) = Len(q) + Len(t)
      /\ \A i \in 1 .. Len(q) + Len(t) :
           (q \o t)[i] = IF i <= Len(q) THEN q[i] ELSE t[i - Len(q)]
  BY ConcatProperties
<1>3. Len(s) <= Len(t) /\ \A i \in 1 .. Len(s) : s[i] = t[i]
  BY PrefixPointwise
<1> DEFINE qs == q \o s
           qt == q \o t
<1> HIDE DEF qs, qt
<1>4. ASSUME NEW i \in 1 .. Len(q) + Len(s)
      PROVE  qs[i] = qt[i]
  <2>1. CASE i <= Len(q)
    BY <1>1, <1>2, <1>3, <2>1 DEF qs, qt
  <2>2. CASE ~(i <= Len(q))
    <3>1. i - Len(q) \in 1 .. Len(s) /\ i \in 1 .. Len(q) + Len(t)
      BY <1>3, <2>2
    <3>2. qs[i] = s[i - Len(q)] /\ qt[i] = t[i - Len(q)]
      BY <1>1, <1>2, <2>2, <3>1 DEF qs, qt
    <3> QED  BY <1>3, <3>1, <3>2
  <2> QED  BY <2>1, <2>2
<1>5. IsPrefix(qs, qt)
  <2>1. qs \in Seq(Characters) /\ qt \in Seq(Characters) /\ Len(qs) = Len(q) + Len(s)
        /\ Len(qs) <= Len(qt)
    BY <1>1, <1>2, <1>3 DEF qs, qt
  <2> QED  BY <1>4, <2>1, PrefixPointwise
<1>6. ASSUME t # s
      PROVE  qt[Len(qs) + 1] = t[Len(s) + 1]
  <2>1. Len(s) < Len(t)
    BY <1>3, <1>6, SeqEqual
  <2> DEFINE i == Len(q) + Len(s) + 1
  <2>2. i \in 1 .. Len(q) + Len(t) /\ ~(i <= Len(q)) /\ i - Len(q) = Len(s) + 1
    BY <2>1
  <2>3. Len(qs) + 1 = i
    BY <1>1 DEF qs
  <2> HIDE DEF i
  <2> QED  BY <1>2, <2>2, <2>3 DEF qt
<1> QED  BY <1>5, <1>6 DEF qs, qt

\* Why from_str makes no topic of a text.
LEMMA WhyNoTopic ==
  ASSUME NEW st \in Seq(Characters)
  PROVE  /\ from_str(st) = TooLarge => Size(st) > TopicLength
         /\ from_str(st) = Panic =>
              \E prefix \in {DeviceType, DeviceType \o <<"/">> \o DeviceId} :
                /\ IsPrefix(prefix, st)
                /\ st = prefix \/ st[Len(prefix) + 1] \in Wide
         /\ from_str(st) \notin {TooLarge, Panic} => from_str(st) \in AnyTopic
<1> DEFINE rest == Stripped(DeviceType, st)
<1>1. ASSUME NEW variant \in Variants, NEW name \in Seq(Characters), Size(name) <= Size(st),
             from_str(st) = Fitting(variant, name)
      PROVE  /\ from_str(st) = TooLarge => Size(st) > TopicLength
             /\ from_str(st) # Panic
             /\ from_str(st) # TooLarge => from_str(st) \in AnyTopic
  <2>1. Size(name) \in Nat /\ Size(st) \in Nat /\ TopicLength \in Nat
    BY SizeType, TopicAssumption
  <2>2. Made(variant, name) \in AnyTopic
    BY DEF Made, AnyTopic
  <2>3. Made(variant, name) # TooLarge /\ Made(variant, name) # Panic /\ Panic # TooLarge
    BY <2>2, ErrorsAreNoTopics
  <2> QED  BY <1>1, <2>1, <2>2, <2>3 DEF Fitting
<1>2. CASE StripPanics(DeviceType, st)
  BY <1>2, ErrorsAreNoTopics DEF StripPanics, from_str
<1>3. CASE ~StripPanics(DeviceType, st) /\ ~Strips(DeviceType, st)
  <2>1. from_str(st) = Fitting("General", st) /\ "General" \in Variants
    BY <1>3 DEF from_str, Variants
  <2>2. Size(st) <= Size(st)
    <3>1. Size(st) \in Nat
      BY SizeType
    <3> QED  BY <3>1
  <2> QED  BY <1>1, <2>1, <2>2
<1>4. CASE ~StripPanics(DeviceType, st) /\ Strips(DeviceType, st)
  <2> DEFINE q == DeviceType \o <<"/">>
  <2>1. rest \in Seq(Characters) /\ q \o rest = st /\ q \in Seq(Characters)
    BY <1>4, CharactersOfTopics, Restored, ConcatProperties
  <2> HIDE DEF q, rest
  <2>2. Size(rest) <= Size(st)
    BY <2>1, SizeOfEnd
  <2>3. CASE StripPanics(DeviceId, rest)
    <3>1. from_str(st) = Panic
      BY <1>4, <2>3 DEF from_str, rest
    <3>2. /\ IsPrefix(q \o DeviceId, st)
          /\ rest # DeviceId => st[Len(q \o DeviceId) + 1] = rest[Len(DeviceId) + 1]
      BY <2>1, <2>3, CharactersOfTopics, PrefixBehind DEF StripPanics
    <3>3. st = q \o DeviceId \/ st[Len(q \o DeviceId) + 1] \in Wide
      BY <2>1, <2>3, <3>2 DEF StripPanics
    <3> QED  BY <3>1, <3>2, <3>3, ErrorsAreNoTopics DEF q
  <2>4. CASE ~StripPanics(DeviceId, rest) /\ ~Strips(DeviceId, rest)
    <3>1. from_str(st) = Fitting("DeviceType", rest) /\ "DeviceType" \in Variants
      BY <1>4, <2>4 DEF from_str, Variants, rest
    <3> QED  BY <1>1, <2>1, <2>2, <3>1
  <2>5. CASE ~StripPanics(DeviceId, rest) /\ Strips(DeviceId, rest)
    <3> DEFINE name == Stripped(DeviceId, rest)
               p == DeviceId \o <<"/">>
    <3>1. from_str(st) = Fitting("Device", name) /\ "Device" \in Variants
      BY <1>4, <2>5 DEF from_str, Variants, rest
    <3>2. name \in Seq(Characters) /\ p \o name = rest /\ p \in Seq(Characters)
      BY <2>1, <2>5, CharactersOfTopics, Restored, ConcatProperties
    <3> HIDE DEF name, p
    <3>3. Size(name) <= Size(rest)
      BY <3>2, SizeOfEnd
    <3>4. Size(name) <= Size(st)
      <4>1. Size(name) \in Nat /\ Size(rest) \in Nat /\ Size(st) \in Nat
        BY <2>1, <3>2, SizeType
      <4> QED  BY <2>2, <3>3, <4>1
    <3> QED  BY <1>1, <3>1, <3>2, <3>4
  <2> QED  BY <2>3, <2>4, <2>5
<1> QED  BY <1>2, <1>3, <1>4

-----------------------------------------------------------------------------
(* Buffer *)

\* A write that is not Ok found too little room, and one that is took all.
LEMMA WriteAllResult ==
  ASSUME NEW S, NEW b \in Seq(S), NEW buf \in Seq(S)
  PROVE  LET w == write_all(b, buf)
         IN  /\ w.outcome \in {"Ok", "Full", "Panic"}
             /\ w.outcome = "Ok" => w = Written("Ok", b \o buf, Len(buf))
             /\ w.outcome # "Ok" => w = Written(w.outcome, b, 0) /\ Len(b) + Len(buf) > N
<1> DEFINE w == write(b, buf)
<1>1. /\ w.outcome \in {"Ok", "Full", "Panic"}
      /\ w.outcome = "Ok" => w = Written("Ok", b \o buf, Len(buf))
      /\ w.outcome # "Ok" => w = Written(w.outcome, b, 0) /\ Len(b) + Len(buf) > N
  <2>1. CASE buf = << >>
    <3>1. b \o buf = b /\ Len(buf) = 0
      BY <2>1, ConcatEmptySeq
    <3> QED  BY <2>1, <3>1 DEF write, Written
  <2>2. CASE buf # << >>
    <3>1. Len(buf) > 0 /\ Len(b) \in Nat /\ N \in Nat
      BY <2>2, LengthAssumption DEF LengthAssumption
    <3> QED  BY <2>2, <3>1 DEF write, Written, available
  <2> QED  BY <2>1, <2>2
<1>2. w.outcome = "Ok" => w.count = Len(buf)
  BY <1>1 DEF Written
<1> HIDE DEF w
<1>3. write_all(b, buf) = w
  <2>1. ~(Len(buf) < Len(buf))
    OBVIOUS
  <2> QED  BY <1>2, <2>1 DEF write_all, w
<1> QED  BY <1>1, <1>3

\* A new buffer takes the whole of a text, or there is more of it than fits.
LEMMA FromTakesAllOrNothing ==
  ASSUME NEW S, NEW buf \in Seq(S)
  PROVE  /\ Len(buf) <= N => from(buf).outcome = "Ok" /\ from(buf).buffer = buf
         /\ Len(buf) > N => from(buf).outcome = "Panic"
<1>1. << >> \in Seq(S) /\ Len(<< >>) = 0 /\ << >> \o buf = buf
  BY ConcatEmptySeq
<1>2. N \in Nat /\ N > 0 /\ Len(buf) \in Nat
  BY LengthAssumption DEF LengthAssumption
<1> DEFINE w == write_all(New, buf)
<1>3. /\ w.outcome \in {"Ok", "Full", "Panic"}
      /\ w.outcome = "Ok" => w = Written("Ok", buf, Len(buf))
      /\ w.outcome # "Ok" => w = Written(w.outcome, << >>, 0) /\ Len(buf) > N
  <2>1. New \in Seq(S) /\ New \o buf = buf /\ Len(New) + Len(buf) = Len(buf)
    BY <1>1, <1>2 DEF New
  <2>2. /\ w.outcome \in {"Ok", "Full", "Panic"}
        /\ w.outcome = "Ok" => w = Written("Ok", New \o buf, Len(buf))
        /\ w.outcome # "Ok" =>
             w = Written(w.outcome, New, 0) /\ Len(New) + Len(buf) > N
    BY <2>1, WriteAllResult
  <2> HIDE DEF w
  <2> QED  BY <2>1, <2>2 DEF New
<1>4. Len(buf) > N => w.outcome = "Panic"
  <2> SUFFICES ASSUME Len(buf) > N
               PROVE  w.outcome = "Panic"
    OBVIOUS
  <2>1. write(New, buf) = Written("Panic", New, 0)
    BY <1>1, <1>2 DEF write, available, New
  <2>2. write_all(New, buf) = write(New, buf)
    BY <2>1 DEF write_all, Written
  <2> QED  BY <2>1, <2>2 DEF Written
<1>5. from(buf) = [w EXCEPT !.outcome = IF @ = "Full" THEN "TooLarge" ELSE @]
  BY DEF from
<1> HIDE DEF w
<1> QED  BY <1>2, <1>3, <1>4, <1>5 DEF Written

-----------------------------------------------------------------------------
(* Light *)

\* A light understands its own state, whatever its color mode.
LEMMA RoundTrip ==
  ASSUME NEW l \in LightStates
  PROVE  from_payload(Serialize(l)) = l
<1> DEFINE p == Serialize(l)
           value == l.color.value
<1>1. /\ l = [state |-> l.state, color |-> l.color, effect |-> l.effect]
      /\ l.state \in {"On", "Off"} /\ l.color \in Colors
  BY DEF LightStates
<1>2. PICK mode \in DOMAIN FieldsOf :
        /\ l.color = Color(mode, value) /\ value \in [FieldsOf[mode] -> Values]
  BY <1>1 DEF Colors, Color
<1>3. p.state # None /\ FromStr(p.state) = l.state /\ p.effect = l.effect
  BY <1>1, NoneIsNoValue DEF Serialize, ToStr, FromStr
<1>4. mode = l.color.mode
  BY <1>2 DEF Color
<1>5. ColorOf(p) = l.color
  <2>1. CASE mode \in ColorModes
    <3>1. p.color = [f \in Fields |-> IF f \in FieldsOf[mode] THEN value[f] ELSE None]
      BY <1>4, <2>1 DEF Serialize
    <3>2. p.color # None
      <4>1. p.color \in [Fields -> Values \cup {None}]
        BY <3>1, <1>2
      <4> QED  BY <4>1, NoneIsNoValue
    <3>3. FieldsOf[mode] \subseteq Fields
      BY <2>1 DEF ColorModes, FieldsOf, Fields
    <3>4. \A f \in Fields : p.color[f] = None <=> f \notin FieldsOf[mode]
      BY <3>1, <1>2, NoneIsNoValue
    <3>5. ModeOf(p.color) = mode
      BY <2>1, <3>4 DEF ModeOf, ColorModes, FieldsOf, Fields
    <3>6. value = [f \in FieldsOf[mode] |-> OrDefault(p.color[f])]
      <4>1. \A f \in FieldsOf[mode] : OrDefault(p.color[f]) = value[f]
        BY <3>1, <3>3, <3>4 DEF OrDefault
      <4> QED  BY <4>1, <1>2
    <3> QED  BY <1>2, <3>2, <3>5, <3>6 DEF ColorOf
  <2>2. CASE mode \in {"brightness", "color_temp", "none"}
    <3>1. p.color = None
      BY <1>4, <2>2 DEF Serialize, ColorModes
    <3>2. CASE mode = "brightness"
      <4>1. value \in [{"brightness"} -> Values]
        BY <3>2, <1>2 DEF FieldsOf
      <4>2. p.brightness = value["brightness"] /\ p.color_temp = None
        BY <1>4, <3>2 DEF Serialize
      <4>3. p.brightness # None
        BY <4>1, <4>2, NoneIsNoValue
      <4>4. value = [brightness |-> p.brightness]
        BY <4>1, <4>2
      <4> QED  BY <1>2, <3>1, <3>2, <4>2, <4>3, <4>4 DEF ColorOf
    <3>3. CASE mode = "color_temp"
      <4>1. value \in [{"color_temp"} -> Values]
        BY <3>3, <1>2 DEF FieldsOf
      <4>2. p.color_temp = value["color_temp"]
        BY <1>4, <3>3 DEF Serialize
      <4>3. p.color_temp # None
        BY <4>1, <4>2, NoneIsNoValue
      <4>4. value = [color_temp |-> p.color_temp]
        BY <4>1, <4>2
      <4> QED  BY <1>2, <3>1, <3>3, <4>3, <4>4 DEF ColorOf
    <3>4. CASE mode = "none"
      <4>1. value \in [{} -> Values]
        BY <3>4, <1>2 DEF FieldsOf
      <4>2. p.color_temp = None /\ p.brightness = None
        BY <1>4, <3>4 DEF Serialize
      <4>3. value = << >>
        BY <4>1
      <4> QED  BY <1>2, <3>1, <3>4, <4>2, <4>3 DEF ColorOf
    <3> QED  BY <2>2, <3>2, <3>3, <3>4
  <2> QED  BY <2>1, <2>2 DEF ColorModes, FieldsOf
<1> QED  BY <1>1, <1>3, <1>5 DEF from_payload

\* What a color given becomes: its own values for the mode chosen.
FitsColor(color, p) ==
  LET given == {f \in Fields : p.color[f] # None}
  IN  /\ color.mode \in ColorModes /\ DOMAIN color.value = FieldsOf[color.mode]
      /\ \A f \in DOMAIN color.value :
           color.value[f] = IF f \in given THEN p.color[f] ELSE 0
      /\ given \subseteq {"y", "s"} \/ given \cap FieldsOf[color.mode] # {}
      /\ \A mode \in ColorModes :
           /\ given \subseteq FieldsOf[mode]
           /\ ("y" \in given => "x" \in given) /\ ("s" \in given => "h" \in given)
           => given \subseteq FieldsOf[color.mode]

\* What a single number becomes.
FitsNumber(color, p) ==
  LET numbers == {f \in {"color_temp", "brightness"} : p[f] # None}
  IN  /\ color.mode \in numbers \cup {"none"}
      /\ color.value = [f \in FieldsOf[color.mode] |-> p[f]]
      /\ color.mode = "none" => numbers = {}
      /\ color.mode = "brightness" => numbers = {"brightness"}

\* A light made of a command has its color.
LEMMA ColorUnderstood ==
  ASSUME NEW p, p.color # None
  PROVE  FitsColor(ColorOf(p), p)
<1> DEFINE color == ColorOf(p)
           mode == ModeOf(p.color)
           given == {f \in Fields : p.color[f] # None}
<1>1. color.mode = mode /\ color.value = [f \in FieldsOf[mode] |-> OrDefault(p.color[f])]
  BY DEF ColorOf, Color
<1>2. mode \in ColorModes
  BY DEF ModeOf, ColorModes
<1>3. FieldsOf[mode] \subseteq Fields
  BY <1>2 DEF FieldsOf, Fields, ColorModes
<1>4. /\ DOMAIN color.value = FieldsOf[mode]
      /\ \A f \in FieldsOf[mode] : color.value[f] = IF f \in given THEN p.color[f] ELSE 0
  BY <1>1, <1>3 DEF OrDefault
<1>5. \/ given \subseteq {"y", "s"} \/ given \cap FieldsOf[mode] # {}
  <2>1. "x" \in given => mode = "xy" /\ "x" \in FieldsOf[mode]
    BY DEF ModeOf, FieldsOf
  <2>2. "h" \in given => "x" \in given \/ "h" \in FieldsOf[mode]
    BY DEF ModeOf, FieldsOf, Fields
  <2>3. "c" \in given => "x" \in given \/ "h" \in given \/ "c" \in FieldsOf[mode]
    BY DEF ModeOf, FieldsOf, Fields
  <2>4. "w" \in given =>
          "x" \in given \/ "h" \in given \/ "c" \in given \/ "w" \in FieldsOf[mode]
    BY DEF ModeOf, FieldsOf, Fields
  <2>5. given \cap {"r", "g", "b"} # {} =>
          "x" \in given \/ "h" \in given \/ {"r", "g", "b"} \subseteq FieldsOf[mode]
    BY DEF ModeOf, FieldsOf, Fields
  <2> QED  BY <2>1, <2>2, <2>3, <2>4, <2>5 DEF Fields
<1>6. ASSUME NEW m \in ColorModes, given \subseteq FieldsOf[m],
             "y" \in given => "x" \in given, "s" \in given => "h" \in given
      PROVE  given \subseteq FieldsOf[mode]
  <2>1. CASE m = "xy"
    <3>1. given \subseteq {"x", "y"}
      BY <1>6, <2>1 DEF FieldsOf
    <3>2. "x" \in given => FieldsOf[mode] = {"x", "y"}
      BY DEF ModeOf, FieldsOf
    <3> QED  BY <1>6, <3>1, <3>2
  <2>2. CASE m = "hs"
    <3>1. given \subseteq {"h", "s"}
      BY <1>6, <2>2 DEF FieldsOf
    <3>2. "h" \in given => FieldsOf[mode] = {"h", "s"}
      BY <3>1 DEF ModeOf, FieldsOf, Fields
    <3> QED  BY <1>6, <3>1, <3>2
  <2>3. CASE m \in {"rgb", "rgbw", "rgbww"}
    <3>1. given \subseteq {"r", "g", "b", "c", "w"}
      BY <1>6, <2>3 DEF FieldsOf
    <3>2. /\ {"r", "g", "b"} \subseteq FieldsOf[mode]
          /\ "c" \in given => {"c", "w"} \subseteq FieldsOf[mode]
          /\ "w" \in given => "w" \in FieldsOf[mode]
      BY <3>1 DEF ModeOf, FieldsOf, Fields
    <3> QED  BY <3>1, <3>2
  <2> QED  BY <2>1, <2>2, <2>3 DEF ColorModes
<1> HIDE DEF color, mode
<1> QED  BY <1>1, <1>2, <1>4, <1>5, <1>6 DEF FitsColor, color

\* Without a color it is made of the number that comes first.
LEMMA NumberUnderstood ==
  ASSUME NEW p, p.color = None
  PROVE  FitsNumber(ColorOf(p), p)
<1> DEFINE color == ColorOf(p)
<1>1. CASE p.color_temp # None
  <2>1. color.mode = "color_temp" /\ color.value = [color_temp |-> p.color_temp]
    BY <1>1 DEF ColorOf, Color
  <2>2. color.value = [f \in FieldsOf["color_temp"] |-> p[f]]
    BY <2>1 DEF FieldsOf
  <2> QED  BY <1>1, <2>1, <2>2 DEF FitsNumber
<1>2. CASE p.color_temp = None /\ p.brightness # None
  <2>1. color.mode = "brightness" /\ color.value = [brightness |-> p.brightness]
    BY <1>2 DEF ColorOf, Color
  <2>2. color.value = [f \in FieldsOf["brightness"] |-> p[f]]
    BY <2>1 DEF FieldsOf
  <2> QED  BY <1>2, <2>1, <2>2 DEF FitsNumber
<1>3. CASE p.color_temp = None /\ p.brightness = None
  <2>1. color.mode = "none" /\ color.value = << >>
    BY <1>3 DEF ColorOf, Color
  <2>2. color.value = [f \in FieldsOf["none"] |-> p[f]]
    BY <2>1 DEF FieldsOf
  <2> QED  BY <1>3, <2>1, <2>2 DEF FitsNumber
<1> QED  BY <1>1, <1>2, <1>3

-----------------------------------------------------------------------------
(* The path of a message *)

\* A text begins with what it says.
LEMMA TextSays ==
  ASSUME NEW value, NEW n \in Nat
  PROVE  /\ Text(value, n) \in Seq({value} \X Nat)
         /\ Len(Text(value, n)) = n
         /\ n > 0 => Text(value, n)[1][1] = value
BY DEF Text

\* Four more elements leave a set finite.
LEMMA FourMore ==
  ASSUME NEW S, IsFiniteSet(S), NEW a, NEW b, NEW c, NEW d
  PROVE  IsFiniteSet(S \cup {a, b, c, d})
<1>1. IsFiniteSet(S \cup {a} \cup {b} \cup {c} \cup {d})
  BY FS_AddElement
<1>2. S \cup {a} \cup {b} \cup {c} \cup {d} = S \cup {a, b, c, d}
  OBVIOUS
<1> QED  BY <1>1, <1>2

\* JSON of a light is a text of some length.
LEMMA ContentOfJson ==
  ASSUME NEW m \in Messages, m.kind = "json"
  PROVE  /\ m.state \in LightStates
         /\ \E n \in Nat : Content(m) = Text(Serialize(m.state), n)
<1> DEFINE json == Serialize(m.state)
           present == {f \in DOMAIN json : json[f] # None}
           colors == IF json.color = None THEN {}
                     ELSE {f \in Fields : json.color[f] # None}
<1>1. m.state \in LightStates
  BY MessageAssumption
<1>2. Content(m) = Text(json, Cardinality(present) + Cardinality(colors))
  BY DEF Content
<1>3. IsFiniteSet(present) /\ IsFiniteSet(colors)
  <2>1. DOMAIN json = {"state", "effect", "brightness", "color_temp", "color"}
    BY DEF Serialize
  <2>2. IsFiniteSet(DOMAIN json)
    <3>1. IsFiniteSet({"state"})
      BY FS_Singleton
    <3>2. IsFiniteSet({"state"} \cup {"effect", "brightness", "color_temp", "color"})
      BY <3>1, FourMore
    <3> QED  BY <2>1, <3>2
  <2>3. IsFiniteSet(Fields)
    <3>1. IsFiniteSet({"h"})
      BY FS_Singleton
    <3>2. IsFiniteSet({"h"} \cup {"s", "x", "y", "r"})
      BY <3>1, FourMore
    <3>3. IsFiniteSet(({"h"} \cup {"s", "x", "y", "r"}) \cup {"g", "b", "w", "c"})
      BY <3>2, FourMore
    <3>4. Fields = ({"h"} \cup {"s", "x", "y", "r"}) \cup {"g", "b", "w", "c"}
      BY DEF Fields
    <3> QED  BY <3>3, <3>4
  <2>4. present \in SUBSET DOMAIN json /\ colors \in SUBSET Fields
    OBVIOUS
  <2> HIDE DEF json, present, colors
  <2> QED  BY <2>2, <2>3, <2>4, FS_Subset
<1>4. Cardinality(present) + Cardinality(colors) \in Nat
  <2>1. Cardinality(present) \in Nat /\ Cardinality(colors) \in Nat
    BY <1>3, FS_CardinalityType
  <2> HIDE DEF present, colors
  <2> QED  BY <2>1
<1> HIDE DEF json, present, colors
<1> QED  BY <1>1, <1>2, <1>4 DEF json

\* The parts of a text end where the lengths before them add up to.
LEMMA EndsType ==
  ASSUME NEW parts \in Seq(Nat)
  PROVE  /\ Ends(parts) \in [0 .. Len(parts) -> Nat]
         /\ Ends(parts)[0] = 0
         /\ \A i \in 1 .. Len(parts) : Ends(parts)[i] = Ends(parts)[i - 1] + parts[i]
<1> DEFINE n == Len(parts)
           S == Nat
           zero == 0
           step == [i \in 1 .. n |-> [x \in S |-> x + parts[i]]]
           Is(f) == f = [i \in 0 .. n |-> IF i = 0 THEN 0 ELSE f[i - 1] + parts[i]]
<1>1. n \in Nat /\ step \in [1 .. n -> [S -> S]] /\ zero \in S
  OBVIOUS
<1>2. PICK f : Computes(f, n, S, zero, step)
  <2> HIDE DEF n, S, step, zero
  <2> QED  BY <1>1, Iterated
<1>3. Is(f)
  <2>1. /\ f \in [0 .. n -> Nat] /\ f[0] = 0
        /\ \A i \in 1 .. n : f[i] = step[i][f[i - 1]]
    BY <1>2 DEF Computes
  <2>2. \A i \in 1 .. n : f[i - 1] \in Nat
    BY <1>1, <2>1, Predecessor
  <2>3. \A i \in 1 .. n : f[i] = f[i - 1] + parts[i]
    BY <2>1, <2>2
  <2> HIDE DEF n, step
  <2> QED  BY <1>1, <2>1, <2>3
<1>4. Is(Ends(parts))
  <2>1. Is(CHOOSE g : Is(g))
    BY <1>3
  <2> QED  BY <2>1 DEF Ends
<1> DEFINE e == Ends(parts)
<1>5. /\ DOMAIN e = 0 .. n /\ e[0] = 0 /\ e = [i \in 0 .. n |-> e[i]]
      /\ \A i \in 1 .. n : e[i] = e[i - 1] + parts[i]
  <2> HIDE DEF e
  <2>1. e = [i \in 0 .. n |-> IF i = 0 THEN 0 ELSE e[i - 1] + parts[i]]
    BY <1>4 DEF e
  <2>2. 0 \in 0 .. n /\ \A i \in 1 .. n : i \in 0 .. n /\ i # 0
    BY <1>1
  <2> HIDE DEF n
  <2> QED  BY <2>1, <2>2
<1>6. \A i \in 0 .. n : e[i] \in Nat
  <2> DEFINE T == {i \in 0 .. n : e[i] \in Nat}
  <2>1. 0 \in T
    BY <1>1, <1>5
  <2>2. ASSUME NEW i \in 1 .. n, i - 1 \in T
        PROVE  i \in T
    <3>1. e[i - 1] \in Nat
      BY <2>2
    <3>2. parts[i] \in Nat /\ i \in 0 .. n
      OBVIOUS
    <3>3. e[i] = e[i - 1] + parts[i]
      BY <1>5
    <3> HIDE DEF e
    <3> QED  BY <3>1, <3>2, <3>3
  <2> HIDE DEF T
  <2>3. \A i \in 0 .. n : i \in T
    BY <1>1, <2>1, <2>2, UpTo
  <2> QED  BY <2>3 DEF T
<1> HIDE DEF e
<1>7. e \in [0 .. n -> Nat]
  BY <1>5, <1>6
<1> QED  BY <1>5, <1>7 DEF e

\* No part of a text ends behind the whole of it.
LEMMA EndsMonotone ==
  ASSUME NEW parts \in Seq(Nat), NEW i \in 0 .. Len(parts)
  PROVE  Ends(parts)[i] <= Total(parts) /\ Total(parts) \in Nat
<1> DEFINE n == Len(parts)
           e == Ends(parts)
           T == {k \in 0 .. n : \A j \in 0 .. k : e[j] <= e[k]}
<1>1. /\ n \in Nat /\ e \in [0 .. n -> Nat]
      /\ \A k \in 1 .. n : parts[k] \in Nat /\ e[k] = e[k - 1] + parts[k]
  BY EndsType
<1> HIDE DEF n, e
<1>2. 0 \in T
  BY <1>1
<1>3. ASSUME NEW k \in 1 .. n, k - 1 \in T
      PROVE  k \in T
  <2>1. e[k - 1] <= e[k] /\ e[k] \in Nat /\ e[k - 1] \in Nat
    <3>1. e[k] \in Nat /\ e[k - 1] \in Nat
      BY <1>1, Predecessor
    <3>2. parts[k] \in Nat /\ e[k] = e[k - 1] + parts[k]
      BY <1>1
    <3> HIDE DEF T
    <3> QED  BY <3>1, <3>2
  <2>2. ASSUME NEW j \in 0 .. k
        PROVE  e[j] <= e[k]
    <3>1. CASE j = k
      BY <2>1, <3>1
    <3>2. CASE j # k
      <4>1. j \in 0 .. k - 1 /\ j \in 0 .. n
        BY <1>1, <3>2
      <4>2. e[j] <= e[k - 1] /\ e[j] \in Nat
        BY <1>1, <1>3, <4>1
      <4> QED  BY <2>1, <4>2
    <3> QED  BY <3>1, <3>2
  <2> QED  BY <1>1, <2>2
<1> HIDE DEF T
<1>4. \A k \in 0 .. n : k \in T
  BY <1>1, <1>2, <1>3, UpTo
<1>5. n \in T /\ n \in 0 .. n
  BY <1>1, <1>4
<1> QED  BY <1>1, <1>5 DEF T, Total, n, e

-----------------------------------------------------------------------------
(* Discovery *)

\* A sequence of something: what is needed of fields of which the values do not
\* matter.
IsSequence(s) == \E S : s \in Seq(S)

Keys(fields) == {fields[i][1] : i \in DOMAIN fields}

Told(fields, key) == {fields[i][2] : i \in {j \in DOMAIN fields : fields[j][1] = key}}

\* The fields are n, each with a key of its own.
FieldsAre(fields, keys, n) ==
  /\ IsSequence(fields) /\ Len(fields) = n /\ Keys(fields) = keys
  /\ \A i, j \in DOMAIN fields : fields[i][1] = fields[j][1] => i = j

\* Fields one after the other: the keys of both, and what either tells.
LEMMA FieldsOfBoth ==
  ASSUME NEW s, NEW t, IsSequence(s), IsSequence(t)
  PROVE  /\ Keys(s \o t) = Keys(s) \cup Keys(t)
         /\ \A key : Told(s \o t, key) = Told(s, key) \cup Told(t, key)
         /\ \A K, L, n, k : FieldsAre(s, K, n) /\ FieldsAre(t, L, k) /\ K \cap L = {}
              => FieldsAre(s \o t, K \cup L, n + k)
<1>1. PICK S : s \in Seq(S) /\ t \in Seq(S)
  <2>1. PICK A, B : s \in Seq(A) /\ t \in Seq(B)
    BY DEF IsSequence
  <2>2. s \in Seq(A \cup B) /\ t \in Seq(A \cup B)
    BY <2>1
  <2> QED  BY <2>2
<1> DEFINE st == s \o t
<1>2. /\ st \in Seq(S) /\ Len(st) = Len(s) + Len(t)
      /\ DOMAIN st = 1 .. Len(s) + Len(t) /\ DOMAIN s = 1 .. Len(s) /\ DOMAIN t = 1 .. Len(t)
      /\ Len(s) \in Nat /\ Len(t) \in Nat
      /\ \A i \in 1 .. Len(s) + Len(t) :
           st[i] = IF i <= Len(s) THEN s[i] ELSE t[i - Len(s)]
  BY <1>1, ConcatProperties
<1> HIDE DEF st
<1>3. \A i \in DOMAIN s : i \in DOMAIN st /\ st[i] = s[i]
  BY <1>2
<1>4. ASSUME NEW i \in DOMAIN t
      PROVE  i + Len(s) \in DOMAIN st /\ st[i + Len(s)] = t[i]
  <2>1. i + Len(s) \in 1 .. Len(s) + Len(t) /\ ~(i + Len(s) <= Len(s))
        /\ (i + Len(s)) - Len(s) = i
    BY <1>2
  <2> QED  BY <1>2, <2>1
<1>5. ASSUME NEW i \in DOMAIN st
      PROVE  \/ i \in DOMAIN s /\ st[i] = s[i]
             \/ i - Len(s) \in DOMAIN t /\ st[i] = t[i - Len(s)] /\ i \notin DOMAIN s
  <2>1. CASE i <= Len(s)
    BY <1>2, <2>1
  <2>2. CASE ~(i <= Len(s))
    <3>1. i - Len(s) \in 1 .. Len(t)
      BY <1>2, <2>2
    <3> QED  BY <1>2, <2>2, <3>1
  <2> QED  BY <2>1, <2>2
<1>6. Keys(st) = Keys(s) \cup Keys(t)
  BY <1>3, <1>4, <1>5 DEF Keys
<1>7. ASSUME NEW key
      PROVE  Told(st, key) = Told(s, key) \cup Told(t, key)
  BY <1>3, <1>4, <1>5 DEF Told
<1>8. ASSUME NEW K, NEW L, NEW n, NEW k,
             FieldsAre(s, K, n), FieldsAre(t, L, k), K \cap L = {}
      PROVE  FieldsAre(st, K \cup L, n + k)
  <2>1. IsSequence(st) /\ Len(st) = n + k /\ Keys(st) = K \cup L
    BY <1>2, <1>6, <1>8 DEF FieldsAre, IsSequence
  <2>2. ASSUME NEW i \in DOMAIN s, NEW j \in DOMAIN t
        PROVE  s[i][1] # t[j][1]
    <3>1. s[i][1] \in Keys(s) /\ t[j][1] \in Keys(t)
      BY DEF Keys
    <3>2. Keys(s) = K /\ Keys(t) = L
      BY <1>8 DEF FieldsAre
    <3> QED  BY <1>8, <3>1, <3>2
  <2>3. ASSUME NEW i \in DOMAIN st, NEW j \in DOMAIN st, st[i][1] = st[j][1]
        PROVE  i = j
    <3>1. CASE i \in DOMAIN s /\ j \in DOMAIN s
      BY <1>3, <1>8, <2>3, <3>1 DEF FieldsAre
    <3>2. CASE i \notin DOMAIN s /\ j \notin DOMAIN s
      <4>1. i - Len(s) \in DOMAIN t /\ j - Len(s) \in DOMAIN t
            /\ st[i] = t[i - Len(s)] /\ st[j] = t[j - Len(s)]
        BY <1>5, <3>2
      <4>2. i - Len(s) = j - Len(s)
        BY <1>8, <2>3, <4>1 DEF FieldsAre
      <4>3. i \in Int /\ j \in Int
        BY <1>2
      <4> QED  BY <1>2, <4>2, <4>3
    <3>3. CASE i \in DOMAIN s /\ j \notin DOMAIN s
      BY <1>5, <2>2, <2>3, <3>3
    <3>4. CASE i \notin DOMAIN s /\ j \in DOMAIN s
      BY <1>5, <2>2, <2>3, <3>4
    <3> QED  BY <3>1, <3>2, <3>3, <3>4
  <2> QED  BY <2>1, <2>3 DEF FieldsAre
<1> QED  BY <1>6, <1>7, <1>8 DEF st

\* A key that is not there tells nothing.
LEMMA ToldNothing ==
  ASSUME NEW s, NEW key, key \notin Keys(s)
  PROVE  Told(s, key) = {}
BY DEF Keys, Told

\* No field, one field and two fields.
LEMMA FewFields ==
  /\ FieldsAre(<< >>, {}, 0)
  /\ \A k, v : FieldsAre(<<<<k, v>>>>, {k}, 1)
  /\ \A k, v, l, w : k # l => FieldsAre(<<<<k, v>>, <<l, w>>>>, {k, l}, 2)
<1>1. FieldsAre(<< >>, {}, 0)
  <2>1. << >> \in Seq({})
    OBVIOUS
  <2> QED  BY <2>1 DEF FieldsAre, Keys, IsSequence
<1>2. ASSUME NEW k, NEW v
      PROVE  FieldsAre(<<<<k, v>>>>, {k}, 1)
  <2> DEFINE s == <<<<k, v>>>>
  <2>1. s \in Seq({<<k, v>>}) /\ Len(s) = 1 /\ DOMAIN s = {1} /\ s[1] = <<k, v>>
    OBVIOUS
  <2> HIDE DEF s
  <2>2. FieldsAre(s, {k}, 1)
    BY <2>1 DEF FieldsAre, Keys, IsSequence
  <2> QED  BY <2>2 DEF s
<1>3. ASSUME NEW k, NEW v, NEW l, NEW w, k # l
      PROVE  FieldsAre(<<<<k, v>>, <<l, w>>>>, {k, l}, 2)
  <2> DEFINE s == <<<<k, v>>, <<l, w>>>>
  <2>1. s \in Seq({<<k, v>>, <<l, w>>}) /\ Len(s) = 2 /\ DOMAIN s = {1, 2}
        /\ s[1] = <<k, v>> /\ s[2] = <<l, w>>
    OBVIOUS
  <2> HIDE DEF s
  <2>2. FieldsAre(s, {k, l}, 2)
    BY <1>3, <2>1 DEF FieldsAre, Keys, IsSequence
  <2> QED  BY <2>2 DEF s
<1> QED  BY <1>1, <1>2, <1>3

\* What a message about an entity consists of.
LEMMA FieldsOfLight ==
  ASSUME NEW c, c.platform = "light"
  PROVE  \E K, n :
           /\ FieldsAre(LightFields(c), K, n) /\ n \in Nat /\ n <= ComponentLength(c)
           /\ K \subseteq {"cmd_t", "schema", "sup_clrm", "effect", "fx_list"}
           /\ Told(LightFields(c), "cmd_t")
                = {IF c.command_topic = None THEN None ELSE announced(c.command_topic)}
<1> DEFINE told == IF c.command_topic = None THEN None ELSE announced(c.command_topic)
           first == <<<<"cmd_t", told>>, <<"schema", "json">>>>
           modes == IF c.modes = << >> THEN << >> ELSE <<<<"sup_clrm", c.modes>>>>
           effects == IF c.effects = << >> THEN << >>
                      ELSE <<<<"effect", TRUE>>, <<"fx_list", c.effects>>>>
           nModes == IF c.modes = << >> THEN 0 ELSE 1
           nEffects == IF c.effects = << >> THEN 0 ELSE 2
           kModes == IF c.modes = << >> THEN {} ELSE {"sup_clrm"}
           kEffects == IF c.effects = << >> THEN {} ELSE {"effect", "fx_list"}
<1>1. /\ FieldsAre(first, {"cmd_t", "schema"}, 2) /\ Told(first, "cmd_t") = {told}
  <2>1. "cmd_t" # "schema"
    OBVIOUS
  <2>2. ASSUME NEW v
        PROVE  /\ FieldsAre(<<<<"cmd_t", v>>, <<"schema", "json">>>>, {"cmd_t", "schema"}, 2)
               /\ Told(<<<<"cmd_t", v>>, <<"schema", "json">>>>, "cmd_t") = {v}
    <3>1. FieldsAre(<<<<"cmd_t", v>>, <<"schema", "json">>>>, {"cmd_t", "schema"}, 2)
      BY <2>1, FewFields
    <3>2. Told(<<<<"cmd_t", v>>, <<"schema", "json">>>>, "cmd_t") = {v}
      <4> DEFINE s == <<<<"cmd_t", v>>, <<"schema", "json">>>>
      <4>1. DOMAIN s = {1, 2} /\ s[1][1] = "cmd_t" /\ s[2][1] = "schema" /\ s[1][2] = v
        OBVIOUS
      <4> HIDE DEF s
      <4>2. Told(s, "cmd_t") = {v}
        BY <2>1, <4>1 DEF Told
      <4> QED  BY <4>2 DEF s
    <3> QED  BY <3>1, <3>2
  <2> HIDE DEF told
  <2> QED  BY <2>2
<1>2. FieldsAre(modes, kModes, nModes)
  BY FewFields
<1>3. FieldsAre(effects, kEffects, nEffects)
  <2>1. "effect" # "fx_list"
    OBVIOUS
  <2> QED  BY <2>1, FewFields
<1>4. LightFields(c) = first \o modes \o effects
  BY DEF LightFields
<1>5. ComponentLength(c) = 3 + nModes + nEffects
  BY DEF ComponentLength
<1>6. /\ kModes \subseteq {"sup_clrm"} /\ kEffects \subseteq {"effect", "fx_list"}
      /\ nModes \in Nat /\ nEffects \in Nat
  OBVIOUS
<1> HIDE DEF told, first, modes, effects, nModes, nEffects, kModes, kEffects
<1>7. /\ IsSequence(first) /\ IsSequence(modes) /\ IsSequence(effects)
      /\ Keys(modes) = kModes /\ Keys(effects) = kEffects
  BY <1>1, <1>2, <1>3 DEF FieldsAre
<1>8. /\ FieldsAre(first \o modes, {"cmd_t", "schema"} \cup kModes, 2 + nModes)
      /\ Told(first \o modes, "cmd_t") = {told}
  <2>1. {"cmd_t", "schema"} \cap kModes = {} /\ "cmd_t" \notin kModes
    BY <1>6
  <2>2. Told(modes, "cmd_t") = {}
    BY <1>7, <2>1, ToldNothing
  <2> QED  BY <1>1, <1>2, <1>7, <2>1, <2>2, FieldsOfBoth
<1>9. /\ FieldsAre(first \o modes \o effects,
                   {"cmd_t", "schema"} \cup kModes \cup kEffects, 2 + nModes + nEffects)
      /\ Told(first \o modes \o effects, "cmd_t") = {told}
  <2>1. ({"cmd_t", "schema"} \cup kModes) \cap kEffects = {} /\ "cmd_t" \notin kEffects
    BY <1>6
  <2>2. Told(effects, "cmd_t") = {} /\ IsSequence(first \o modes)
    BY <1>7, <1>8, <2>1, ToldNothing DEF FieldsAre
  <2> QED  BY <1>3, <1>7, <1>8, <2>1, <2>2, FieldsOfBoth
<1>10. /\ 2 + nModes + nEffects \in Nat /\ 2 + nModes + nEffects <= ComponentLength(c)
       /\ {"cmd_t", "schema"} \cup kModes \cup kEffects
            \subseteq {"cmd_t", "schema", "sup_clrm", "effect", "fx_list"}
  BY <1>5, <1>6
<1> QED  BY <1>4, <1>9, <1>10 DEF told

\* What a component adds to the message: only a light tells a command topic.
LEMMA FieldsOfComponent ==
  ASSUME NEW c, c.platform \in Platforms
  PROVE  \E K, n :
           /\ FieldsAre(ComponentFields(c), K, n) /\ n \in Nat /\ n <= ComponentLength(c)
           /\ K \subseteq {"cmd_t", "schema", "sup_clrm", "effect", "fx_list",
                           "device_class", "state_class", "unit_of_measurement"}
           /\ Told(ComponentFields(c), "cmd_t")
                = IF c.platform = "light"
                  THEN {IF c.command_topic = None THEN None ELSE announced(c.command_topic)}
                  ELSE {}
           /\ ComponentLength(c) \in Nat
<1>1. CASE c.platform = "light"
  <2>1. ComponentFields(c) = LightFields(c)
    BY <1>1 DEF ComponentFields
  <2>2. ComponentLength(c) \in Nat
    BY <1>1 DEF ComponentLength
  <2> QED  BY <1>1, <2>1, <2>2, FieldsOfLight
<1>2. CASE c.platform = "sensor"
  <2> DEFINE s == <<<<"device_class", c.device_class>>, <<"state_class", c.state_class>>>>
             t == <<<<"unit_of_measurement", c.unit_of_measurement>>>>
  <2>1. FieldsAre(s, {"device_class", "state_class"}, 2)
    <3>1. "device_class" # "state_class"
      OBVIOUS
    <3> QED  BY <3>1, FewFields
  <2>2. FieldsAre(t, {"unit_of_measurement"}, 1)
    BY FewFields
  <2>3. ComponentFields(c) = s \o t
    BY <1>2 DEF ComponentFields
  <2>4. ComponentLength(c) = 3
    BY <1>2 DEF ComponentLength
  <2> HIDE DEF s, t
  <2>5. FieldsAre(s \o t, {"device_class", "state_class"} \cup {"unit_of_measurement"}, 2 + 1)
    <3>1. IsSequence(s) /\ IsSequence(t)
          /\ {"device_class", "state_class"} \cap {"unit_of_measurement"} = {}
      BY <2>1, <2>2 DEF FieldsAre
    <3> QED  BY <2>1, <2>2, <3>1, FieldsOfBoth
  <2>6. Told(s \o t, "cmd_t") = {}
    <3>1. "cmd_t" \notin Keys(s \o t)
      BY <2>5 DEF FieldsAre
    <3> QED  BY <3>1, ToldNothing
  <2>7. FieldsAre(s \o t, {"device_class", "state_class", "unit_of_measurement"}, 3)
    <3>1. {"device_class", "state_class"} \cup {"unit_of_measurement"}
            = {"device_class", "state_class", "unit_of_measurement"} /\ 2 + 1 = 3
      OBVIOUS
    <3> QED  BY <2>5, <3>1
  <2> QED  BY <1>2, <2>3, <2>4, <2>6, <2>7
<1>3. CASE c.platform = "binary_sensor"
  <2> DEFINE s == <<<<"device_class", c.device_class>>>>
  <2>1. FieldsAre(s, {"device_class"}, 1)
    BY FewFields
  <2>2. ComponentFields(c) = s /\ ComponentLength(c) = 1
    BY <1>3 DEF ComponentFields, ComponentLength
  <2> HIDE DEF s
  <2>3. Told(s, "cmd_t") = {}
    <3>1. "cmd_t" \notin Keys(s)
      BY <2>1 DEF FieldsAre
    <3> QED  BY <3>1, ToldNothing
  <2> QED  BY <1>3, <2>1, <2>2, <2>3
<1> QED  BY <1>1, <1>2, <1>3 DEF Platforms

\* The list of topics in an availability.
Listed(topics) == [i \in DOMAIN topics |-> <<<<"topic", announced(topics[i])>>>>]

\* A whole discovery message: its keys differ, it is no longer than declared, and
\* it tells the topics of the entity.
LEMMA FieldsOfEntity ==
  ASSUME NEW e, e.component.platform \in Platforms
  PROVE  LET fields == DiscoveryFields(e)
             c == e.component
         IN  /\ IsSequence(fields) /\ Len(fields) \in Nat /\ Len(fields) > 0
             /\ Len(fields) <= DeclaredLength(e)
             /\ \A i, j \in DOMAIN fields : fields[i][1] = fields[j][1] => i = j
             /\ "avty" \in Keys(fields) <=> "avty_mode" \in Keys(fields)
             /\ Told(fields, "stat_t") = {announced(e.state_topic)}
             /\ Told(fields, "cmd_t")
                  = IF c.platform = "light"
                    THEN {IF c.command_topic = None THEN None ELSE announced(c.command_topic)}
                    ELSE {}
             /\ Told(fields, "avty") \subseteq {Listed(e.availability.topics)}
<1> DEFINE own == <<<<"dev", DeviceFields(e.device)>>, <<"o", OriginFields(e.origin)>>,
                    <<"p", e.component.platform>>, <<"obj_id", e.object_id>>,
                    <<"name", e.name>>, <<"stat_t", announced(e.state_topic)>>>>
           kOwn == {"dev", "o", "p", "obj_id", "name", "stat_t"}
           avty == AvailabilityFields(e.availability)
           kAvty == IF e.availability.mode = "none" THEN {} ELSE {"avty_mode", "avty"}
           nAvty == IF e.availability.mode = "none" THEN 0 ELSE 2
           uniq == IfSome("uniq_id", e.unique_id)
           kUniq == IF e.unique_id = None THEN {} ELSE {"uniq_id"}
           nUniq == IF e.unique_id = None THEN 0 ELSE 1
           rest == ComponentFields(e.component)
           kAny == {"cmd_t", "schema", "sup_clrm", "effect", "fx_list",
                    "device_class", "state_class", "unit_of_measurement"}
<1>1. FieldsAre(own, kOwn, 6) /\ Told(own, "stat_t") = {announced(e.state_topic)}
  <2>1. ASSUME NEW a, NEW b, NEW c, NEW d, NEW f, NEW g
        PROVE  LET s == <<<<"dev", a>>, <<"o", b>>, <<"p", c>>, <<"obj_id", d>>,
                          <<"name", f>>, <<"stat_t", g>>>>
               IN  FieldsAre(s, kOwn, 6) /\ Told(s, "stat_t") = {g}
    <3> DEFINE s == <<<<"dev", a>>, <<"o", b>>, <<"p", c>>, <<"obj_id", d>>,
                      <<"name", f>>, <<"stat_t", g>>>>
    <3>1. /\ s \in Seq({<<"dev", a>>, <<"o", b>>, <<"p", c>>, <<"obj_id", d>>,
                         <<"name", f>>, <<"stat_t", g>>})
          /\ Len(s) = 6 /\ DOMAIN s = {1, 2, 3, 4, 5, 6}
      OBVIOUS
    <3>2. /\ s[1][1] = "dev" /\ s[2][1] = "o" /\ s[3][1] = "p" /\ s[4][1] = "obj_id"
          /\ s[5][1] = "name" /\ s[6][1] = "stat_t" /\ s[6][2] = g
      OBVIOUS
    <3> HIDE DEF s
    <3>3. Keys(s) = kOwn
      BY <3>1, <3>2 DEF Keys
    <3>4. \A i, j \in DOMAIN s : s[i][1] = s[j][1] => i = j
      BY <3>1, <3>2
    <3>5. Told(s, "stat_t") = {g}
      BY <3>1, <3>2 DEF Told
    <3> QED  BY <3>1, <3>3, <3>4, <3>5 DEF FieldsAre, IsSequence, s
  <2> QED  BY <2>1
<1>2. FieldsAre(avty, kAvty, nAvty) /\ Told(avty, "avty") \subseteq {Listed(e.availability.topics)}
  <2>1. CASE e.availability.mode = "none"
    <3>1. avty = << >>
      BY <2>1 DEF AvailabilityFields
    <3>2. Told(<< >>, "avty") = {}
      BY FewFields, ToldNothing DEF FieldsAre
    <3> QED  BY <2>1, <3>1, <3>2, FewFields
  <2>2. CASE e.availability.mode # "none"
    <3>1. avty = <<<<"avty_mode", e.availability.mode>>,
                   <<"avty", Listed(e.availability.topics)>>>>
      BY <2>2 DEF AvailabilityFields, Listed
    <3>2. "avty_mode" # "avty"
      OBVIOUS
    <3>3. ASSUME NEW v, NEW w
          PROVE  /\ FieldsAre(<<<<"avty_mode", v>>, <<"avty", w>>>>, {"avty_mode", "avty"}, 2)
                 /\ Told(<<<<"avty_mode", v>>, <<"avty", w>>>>, "avty") = {w}
      <4>1. FieldsAre(<<<<"avty_mode", v>>, <<"avty", w>>>>, {"avty_mode", "avty"}, 2)
        BY <3>2, FewFields
      <4>2. Told(<<<<"avty_mode", v>>, <<"avty", w>>>>, "avty") = {w}
        <5> DEFINE s == <<<<"avty_mode", v>>, <<"avty", w>>>>
        <5>1. DOMAIN s = {1, 2} /\ s[1][1] = "avty_mode" /\ s[2][1] = "avty" /\ s[2][2] = w
          OBVIOUS
        <5> HIDE DEF s
        <5>2. Told(s, "avty") = {w}
          BY <3>2, <5>1 DEF Told
        <5> QED  BY <5>2 DEF s
      <4> QED  BY <4>1, <4>2
    <3>4. /\ FieldsAre(avty, {"avty_mode", "avty"}, 2)
          /\ Told(avty, "avty") = {Listed(e.availability.topics)}
      <4> HIDE DEF avty
      <4> QED  BY <3>1, <3>3
    <3>5. kAvty = {"avty_mode", "avty"} /\ nAvty = 2
      BY <2>2
    <3> HIDE DEF avty, kAvty, nAvty
    <3> QED  BY <3>4, <3>5
  <2> QED  BY <2>1, <2>2
<1>3. FieldsAre(uniq, kUniq, nUniq)
  BY FewFields DEF IfSome
<1>4. PICK K, n :
        /\ FieldsAre(rest, K, n) /\ n \in Nat /\ n <= ComponentLength(e.component)
        /\ K \subseteq kAny /\ ComponentLength(e.component) \in Nat
        /\ Told(rest, "cmd_t")
             = IF e.component.platform = "light"
               THEN {IF e.component.command_topic = None THEN None
                     ELSE announced(e.component.command_topic)}
               ELSE {}
  BY FieldsOfComponent
<1>5. DiscoveryFields(e) = own \o avty \o uniq \o rest
  BY DEF DiscoveryFields, EntityFields
<1>6. DeclaredLength(e) = ComponentLength(e.component) + 6 + nUniq + nAvty
  BY DEF DeclaredLength
<1>7. /\ kAvty \subseteq {"avty_mode", "avty"} /\ kUniq \subseteq {"uniq_id"}
      /\ "avty" \in kAvty <=> "avty_mode" \in kAvty
      /\ nAvty \in Nat /\ nUniq \in Nat
  OBVIOUS
<1>8. /\ kOwn \cap kAvty = {} /\ (kOwn \cup kAvty) \cap kUniq = {}
      /\ (kOwn \cup kAvty \cup kUniq) \cap K = {}
  BY <1>4, <1>7
<1>9. /\ {"stat_t", "cmd_t", "avty"} \cap K \subseteq {"cmd_t"}
      /\ {"stat_t", "cmd_t", "avty"} \cap kUniq = {}
      /\ {"stat_t", "cmd_t", "avty"} \cap kAvty \subseteq {"avty"}
      /\ {"stat_t", "cmd_t", "avty"} \cap kOwn \subseteq {"stat_t"}
      /\ {"avty", "avty_mode"} \cap (kOwn \cup kUniq \cup K) = {}
  BY <1>4, <1>7
<1> HIDE DEF own, kOwn, avty, kAvty, nAvty, uniq, kUniq, nUniq, rest, kAny
<1>10. /\ IsSequence(own) /\ IsSequence(avty) /\ IsSequence(uniq) /\ IsSequence(rest)
       /\ Keys(own) = kOwn /\ Keys(avty) = kAvty /\ Keys(uniq) = kUniq /\ Keys(rest) = K
  BY <1>1, <1>2, <1>3, <1>4 DEF FieldsAre
<1>11. FieldsAre(own \o avty, kOwn \cup kAvty, 6 + nAvty)
  BY <1>1, <1>2, <1>8, <1>10, FieldsOfBoth
<1>12. FieldsAre(own \o avty \o uniq, kOwn \cup kAvty \cup kUniq, 6 + nAvty + nUniq)
  <2>1. IsSequence(own \o avty)
    BY <1>11 DEF FieldsAre
  <2> QED  BY <1>3, <1>8, <1>10, <1>11, <2>1, FieldsOfBoth
<1>13. FieldsAre(DiscoveryFields(e), kOwn \cup kAvty \cup kUniq \cup K, 6 + nAvty + nUniq + n)
  <2>1. IsSequence(own \o avty \o uniq)
    BY <1>12 DEF FieldsAre
  <2> QED  BY <1>4, <1>5, <1>8, <1>10, <1>12, <2>1, FieldsOfBoth
<1>14. ASSUME NEW key
       PROVE  Told(DiscoveryFields(e), key)
                = Told(own, key) \cup Told(avty, key) \cup Told(uniq, key) \cup Told(rest, key)
  <2>1. IsSequence(own \o avty) /\ IsSequence(own \o avty \o uniq)
    BY <1>11, <1>12 DEF FieldsAre
  <2> QED  BY <1>5, <1>10, <2>1, FieldsOfBoth
<1>15. /\ Told(avty, "stat_t") = {} /\ Told(uniq, "stat_t") = {} /\ Told(rest, "stat_t") = {}
       /\ Told(own, "cmd_t") = {} /\ Told(avty, "cmd_t") = {} /\ Told(uniq, "cmd_t") = {}
       /\ Told(own, "avty") = {} /\ Told(uniq, "avty") = {} /\ Told(rest, "avty") = {}
  BY <1>9, <1>10, ToldNothing
<1>16. /\ Told(DiscoveryFields(e), "stat_t") = {announced(e.state_topic)}
       /\ Told(DiscoveryFields(e), "cmd_t") = Told(rest, "cmd_t")
       /\ Told(DiscoveryFields(e), "avty") \subseteq {Listed(e.availability.topics)}
  BY <1>1, <1>2, <1>14, <1>15
<1>17. /\ 6 + nAvty + nUniq + n \in Nat /\ 6 + nAvty + nUniq + n > 0
       /\ 6 + nAvty + nUniq + n <= DeclaredLength(e)
  BY <1>4, <1>6, <1>7
<1>18. "avty" \in kOwn \cup kAvty \cup kUniq \cup K
         <=> "avty_mode" \in kOwn \cup kAvty \cup kUniq \cup K
  BY <1>7, <1>9
<1> QED  BY <1>4, <1>13, <1>16, <1>17, <1>18 DEF FieldsAre

\* The content of a message is a text.
LEMMA ContentType ==
  ASSUME NEW m \in Messages
  PROVE  /\ Content(m) \in Seq(Bytes)
         /\ m.kind \in {"bytes", "display"} => Len(Content(m)) = Total(m.parts)
<1>1. \A value \in Sayings, n \in Nat : Text(value, n) \in Seq(Bytes)
  BY TextSays DEF Bytes, Text
<1>2. m.parts \in Seq(Nat) /\ m.kind \in {"bytes", "display", "json", "discovery"}
  BY MessageAssumption
<1>3. CASE m.kind \in {"bytes", "display"}
  <2>1. Total(m.parts) \in Nat
    BY <1>2, EndsMonotone
  <2>2. Content(m) = Text(None, Total(m.parts))
    BY <1>3 DEF Content
  <2>3. None \in Sayings
    BY DEF Sayings
  <2> QED  BY <1>1, <2>1, <2>2, <2>3, TextSays
<1>4. CASE m.kind = "json"
  <2>1. PICK n \in Nat : Content(m) = Text(Serialize(m.state), n)
    BY <1>4, ContentOfJson
  <2>2. Serialize(m.state) \in Sayings
    BY <1>4, ContentOfJson DEF Sayings
  <2> QED  BY <1>1, <1>4, <2>1, <2>2
<1>5. CASE m.kind = "discovery"
  <2>1. Content(m) = Text(DiscoveryFields(m.entity), Len(DiscoveryFields(m.entity)))
    BY <1>5 DEF Content
  <2>2. DiscoveryFields(m.entity) \in Sayings
    BY <1>5 DEF Sayings
  <2>3. Len(DiscoveryFields(m.entity)) \in Nat
    BY <1>5, MessageAssumption, FieldsOfEntity
  <2> QED  BY <1>1, <1>5, <2>1, <2>2, <2>3
<1> QED  BY <1>2, <1>3, <1>4, <1>5

\* How writing to a buffer may end.
Writes == [outcome : {"Ok", "Full", "Panic"}, buffer : Seq(Bytes), count : Nat]

\* Writing to a buffer ends in one of these ways.
LEMMA WrittenType ==
  ASSUME NEW b \in Seq(Bytes), NEW buf \in Seq(Bytes)
  PROVE  write_all(b, buf) \in Writes
<1> DEFINE w == write_all(b, buf)
           new == b \o buf
<1>1. /\ w.outcome \in {"Ok", "Full", "Panic"}
      /\ w = Written("Ok", new, Len(buf)) \/ w = Written(w.outcome, b, 0)
  BY WriteAllResult
<1>2. new \in Seq(Bytes) /\ Len(buf) \in Nat
  BY ConcatProperties
<1>3. \A o \in {"Ok", "Full", "Panic"}, c \in Nat :
        Written(o, b, c) \in Writes /\ Written(o, new, c) \in Writes
  BY <1>2 DEF Written, Writes
<1>4. 0 \in Nat
  OBVIOUS
<1> HIDE DEF w, new
<1>5. w \in Writes
  BY <1>1, <1>2, <1>3, <1>4
<1> QED  BY <1>5 DEF w

\* After each part of a Display either all of it so far is in the buffer, or there
\* is more to display than fits.
LEMMA DisplayedWhole ==
  ASSUME NEW m \in Messages, m.kind = "display"
  PROVE  LET w == WriteDisplay(m)
         IN  /\ w \in Writes
             /\ IF w.outcome = "Ok" THEN w.buffer = Content(m)
                ELSE Len(Content(m)) > N
<1> DEFINE n == Len(m.parts)
           whole == Content(m)
           e == Ends(m.parts)
           start == Written("Ok", New, 0)
           after(x, i) == IF x.outcome # "Ok" THEN x ELSE write_all(x.buffer, Part(m, i))
           step == [i \in 1 .. n |-> [x \in Writes |-> after(x, i)]]
           Is(f) == f = [i \in 0 .. n |->
                           IF i = 0 THEN start
                           ELSE IF f[i - 1].outcome # "Ok" THEN f[i - 1]
                           ELSE write_all(f[i - 1].buffer, Part(m, i))]
<1>1. /\ n \in Nat /\ m.parts \in Seq(Nat)
      /\ whole \in Seq(Bytes) /\ Len(whole) = Total(m.parts) /\ Total(m.parts) \in Nat
      /\ e \in [0 .. n -> Nat] /\ e[0] = 0 /\ e[n] = Len(whole)
      /\ \A i \in 0 .. n : e[i] <= Len(whole)
      /\ \A i \in 1 .. n : m.parts[i] \in Nat /\ e[i] = e[i - 1] + m.parts[i]
  <2>1. m.parts \in Seq(Nat)
    BY MessageAssumption
  <2>2. whole \in Seq(Bytes) /\ Len(whole) = Total(m.parts)
    BY ContentType
  <2>3. n \in Nat /\ 0 \in 0 .. n
    BY <2>1
  <2>4. \A i \in 0 .. n : e[i] <= Total(m.parts) /\ Total(m.parts) \in Nat
    BY <2>1, EndsMonotone
  <2> QED  BY <2>1, <2>2, <2>3, <2>4, EndsType DEF Total
<1> HIDE DEF n, whole, e
<1>2. ASSUME NEW i \in 1 .. n
      PROVE  /\ e[i - 1] \in Nat /\ e[i] \in Nat /\ e[i - 1] <= e[i] /\ e[i] <= Len(whole)
             /\ Part(m, i) = SubSeq(whole, e[i - 1] + 1, e[i])
             /\ Part(m, i) \in Seq(Bytes) /\ Len(Part(m, i)) = e[i] - e[i - 1]
  <2>1. i \in 0 .. n /\ i - 1 \in 0 .. n /\ i # 0
    BY <1>1, Predecessor
  <2>2. e[i - 1] \in Nat /\ e[i] \in Nat /\ e[i] <= Len(whole)
    BY <1>1, <2>1
  <2>3. m.parts[i] \in Nat /\ e[i] = e[i - 1] + m.parts[i]
    BY <1>1
  <2>4. e[i - 1] <= e[i]
    BY <2>2, <2>3
  <2>5. Part(m, i) = SubSeq(whole, e[i - 1] + 1, e[i])
    BY DEF Part, whole, e
  <2>6. e[i - 1] + 1 \in Int /\ e[i] \in Int
        /\ \A j \in e[i - 1] + 1 .. e[i] : whole[j] \in Bytes
    BY <1>1, <2>2
  <2>7. Part(m, i) \in Seq(Bytes) /\ Len(Part(m, i)) = e[i] - e[i - 1]
    BY <2>2, <2>4, <2>5, <2>6, SubSeqProperties
  <2> QED  BY <2>2, <2>4, <2>5, <2>7
<1>3. start \in Writes /\ step \in [1 .. n -> [Writes -> Writes]]
  <2>1. start \in Writes
    BY DEF Written, New, Writes
  <2>2. ASSUME NEW i \in 1 .. n, NEW x \in Writes
        PROVE  after(x, i) \in Writes
    <3>1. x.buffer \in Seq(Bytes) /\ Part(m, i) \in Seq(Bytes)
      BY <1>2 DEF Writes
    <3> QED  BY <3>1, WrittenType
  <2> HIDE DEF after
  <2> QED  BY <2>1, <2>2
<1>4. PICK f : Computes(f, n, Writes, start, step)
  <2> HIDE DEF start, step
  <2> QED  BY <1>1, <1>3, Iterated
<1>5. Is(f)
  <2>1. /\ f \in [0 .. n -> Writes] /\ f[0] = start
        /\ \A i \in 1 .. n : f[i] = step[i][f[i - 1]]
    BY <1>4 DEF Computes
  <2>2. \A i \in 1 .. n : f[i - 1] \in Writes
    BY <1>1, <2>1, Predecessor
  <2>3. \A i \in 1 .. n : f[i] = after(f[i - 1], i)
    BY <2>1, <2>2
  <2> HIDE DEF start, step
  <2> QED  BY <1>1, <2>1, <2>3
<1> DEFINE d == Displayed(m)
<1>6. Is(d)
  <2>1. Is(CHOOSE g : Is(g))
    BY <1>5
  <2> QED  BY <2>1 DEF Displayed, n
<1> DEFINE Holds(i) ==
      /\ d[i] \in Writes
      /\ IF d[i].outcome = "Ok" THEN d[i].buffer = SubSeq(whole, 1, e[i])
         ELSE Len(whole) > N
<1> HIDE DEF d
<1>7. Holds(0)
  <2>1. d[0] = start /\ e[0] = 0
    BY <1>1, <1>6
  <2>2. SubSeq(whole, 1, 0) = << >>
    BY SubSeqEmpty
  <2> QED  BY <1>3, <2>1, <2>2 DEF Written, New
<1>8. ASSUME NEW i \in 1 .. n, Holds(i - 1)
      PROVE  Holds(i)
  <2>1. d[i] = after(d[i - 1], i)
    <3>1. i \in 0 .. n /\ i # 0
      BY <1>1, Predecessor
    <3> QED  BY <1>6, <3>1
  <2>2. CASE d[i - 1].outcome # "Ok"
    BY <1>8, <2>1, <2>2
  <2>3. CASE d[i - 1].outcome = "Ok"
    <3> DEFINE b == d[i - 1].buffer
               w == write_all(b, Part(m, i))
    <3>1. d[i] = w /\ b \in Seq(Bytes) /\ b = SubSeq(whole, 1, e[i - 1])
      BY <1>8, <2>1, <2>3 DEF Writes
    <3>2. Len(b) = e[i - 1]
      <4>1. /\ 1 \in Int /\ e[i - 1] \in Int
            /\ \A j \in 1 .. e[i - 1] : whole[j] \in Bytes
        <5>1. \A j \in 1 .. Len(whole) : whole[j] \in Bytes
          BY <1>1
        <5>2. e[i - 1] \in Nat /\ e[i - 1] <= Len(whole) /\ Len(whole) \in Nat
          BY <1>1, <1>2
        <5> QED  BY <5>1, <5>2
      <4> QED  BY <1>2, <3>1, <4>1, SubSeqProperties
    <3>3. b \o Part(m, i) = SubSeq(whole, 1, e[i])
      <4>1. /\ 1 \in 1 .. Len(whole) + 1 /\ e[i - 1] \in 1 - 1 .. Len(whole)
            /\ e[i] \in e[i - 1] .. Len(whole)
        BY <1>1, <1>2
      <4> HIDE DEF b
      <4> QED  BY <1>1, <1>2, <3>1, <4>1, ConcatAdjacentSubSeq
    <3>4. w \in Writes
      BY <1>2, <3>1, WrittenType
    <3> HIDE DEF b
    <3>5. /\ w.outcome \in {"Ok", "Full", "Panic"}
          /\ w.outcome = "Ok" => w.buffer = b \o Part(m, i)
          /\ w.outcome # "Ok" => w.buffer = b /\ Len(b) + Len(Part(m, i)) > N
      <4>1. Part(m, i) \in Seq(Bytes)
        BY <1>2
      <4>2. /\ w.outcome \in {"Ok", "Full", "Panic"}
            /\ w.outcome = "Ok" => w = Written("Ok", b \o Part(m, i), Len(Part(m, i)))
            /\ w.outcome # "Ok" =>
                 w = Written(w.outcome, b, 0) /\ Len(b) + Len(Part(m, i)) > N
        BY <3>1, <4>1, WriteAllResult
      <4> HIDE DEF w
      <4> QED  BY <4>2 DEF Written
    <3> HIDE DEF w
    <3>6. w.outcome # "Ok" => Len(whole) > N
      BY <1>1, <1>2, <3>2, <3>5, LengthAssumption
    <3> QED  BY <3>1, <3>3, <3>4, <3>5, <3>6
  <2> QED  BY <2>2, <2>3
<1>9. Holds(n)
  <2> DEFINE T == {i \in 0 .. n : Holds(i)}
  <2>1. 0 \in T
    <3> HIDE DEF Holds
    <3> QED  BY <1>1, <1>7
  <2>2. ASSUME NEW i \in 1 .. n, i - 1 \in T
        PROVE  i \in T
    <3>1. Holds(i)
      BY <1>8, <2>2
    <3> HIDE DEF Holds
    <3> QED  BY <1>1, <3>1, Predecessor
  <2> HIDE DEF T
  <2>3. \A i \in 0 .. n : i \in T
    BY <1>1, <2>1, <2>2, UpTo
  <2>4. n \in T
    BY <1>1, <2>3
  <2> QED  BY <2>4 DEF T
<1>10. SubSeq(whole, 1, e[n]) = whole
  BY <1>1, SubSeqFull
<1>11. WriteDisplay(m) = d[n]
  BY DEF WriteDisplay, d, n
<1> QED  BY <1>9, <1>10, <1>11 DEF whole

\* The payload that is written is the content of the message, or there is more
\* than fits - or an entity with a topic that is too large.
LEMMA PayloadWritten ==
  ASSUME NEW m \in Messages
  PROVE  LET w == write_payload(m)
         IN  /\ w.outcome \in {"Ok", "TooLarge", "Panic"}
             /\ w.outcome = "Ok" => w.buffer = Content(m)
             /\ w.outcome # "Ok" /\ m.kind # "discovery" => Len(Content(m)) > N
<1> DEFINE Result(w) ==
      /\ w \in [outcome : {"Ok", "Full", "Panic", "Error"}, buffer : Seq(Bytes), count : Nat]
      /\ w.outcome = "Ok" => w.buffer = Content(m)
      /\ w.outcome # "Ok" /\ m.kind # "discovery" => Len(Content(m)) > N
<1>1. Content(m) \in Seq(Bytes) /\ Len(Content(m)) \in Nat /\ N \in Nat
      /\ New \in Seq(Bytes) /\ New \o Content(m) = Content(m)
      /\ Len(New) + Len(Content(m)) = Len(Content(m)) /\ N - Len(New) = N
  BY ContentType, ConcatEmptySeq, LengthAssumption DEF New
<1>2. Result(write_all(New, Content(m)))
  <2>1. write_all(New, Content(m)) \in Writes
    BY <1>1, WrittenType
  <2>2. LET w == write_all(New, Content(m))
        IN  /\ w.outcome = "Ok" => w = Written("Ok", New \o Content(m), Len(Content(m)))
            /\ w.outcome # "Ok" =>
                 w = Written(w.outcome, New, 0) /\ Len(New) + Len(Content(m)) > N
    BY <1>1, WriteAllResult
  <2> QED  BY <1>1, <2>1, <2>2 DEF Writes, Written
<1>3. Result(append_encoded(New, Content(m)))
  BY <1>1 DEF append_encoded, available, Written
<1>4. m.kind = "display" => Result(WriteDisplay(m))
  BY DisplayedWhole DEF Writes
<1>5. m.kind = "discovery" => Result(Written("Error", New, 0))
  BY <1>1 DEF Written
<1>6. PICK w : /\ Result(w)
               /\ write_payload(m) =
                    [w EXCEPT !.outcome = IF @ \in {"Full", "Error"} THEN "TooLarge" ELSE @]
  <2> HIDE DEF Result
  <2>1. m.kind \in {"bytes", "display", "json", "discovery"}
    BY MessageAssumption
  <2> QED  BY <1>2, <1>3, <1>4, <1>5, <2>1 DEF write_payload
<1> QED  BY <1>6

\* What publish() puts on the wire has the topic's text and the content of the
\* message, both within their limits.
LEMMA PublishedPacket ==
  ASSUME NEW m \in Messages, publish(m).packet # None
  PROVE  LET p == publish(m).packet
         IN  /\ publish(m).outcome = "Ok" /\ p.type = "PUBLISH"
             /\ p.topic = to_string(m.topic) /\ p.topic # TooLarge
             /\ p.topic \in Seq(Characters)
             /\ p.payload = Content(m) /\ Len(Content(m)) <= N
             /\ m.kind = "discovery" => Serializes(m.entity)
<1> DEFINE topic == to_string(m.topic)
           sent == Content(m)
           size == PublishSize(topic, sent, m.qos)
           whole == Text([type |-> "PUBLISH", topic |-> topic, payload |-> sent,
                          qos |-> m.qos], size)
<1>1. topic # TooLarge /\ publish(m) = send_packet(topic, sent, m.qos)
  <2>1. topic # TooLarge
    BY DEF publish, Failed
  <2>2. m.kind # "bytes" => /\ write_payload(m).outcome = "Ok"
                           /\ write_payload(m).buffer = Content(m)
    BY <2>1, PayloadWritten DEF publish, Failed
  <2> QED  BY <2>1, <2>2 DEF publish
<1>2. append_encoded(New, whole).outcome = "Ok"
  BY <1>1 DEF send_packet
<1>3. /\ publish(m).outcome = "Ok" /\ publish(m).packet.type = "PUBLISH"
      /\ publish(m).packet.topic = topic /\ publish(m).packet.payload = sent
  BY <1>1, <1>2 DEF send_packet
<1>4. topic \in Seq(Characters)
  BY <1>1, TextOfTopic, MessageAssumption DEF AnyTopic
<1>5. Len(sent) <= N
  <2>1. Size(topic) \in Nat /\ Len(sent) \in Nat /\ N \in Nat
    <3>1. Size(topic) \in Nat
      BY <1>4, SizeType
    <3>2. sent \in Seq(Bytes)
      BY ContentType
    <3> HIDE DEF sent, topic
    <3> QED  BY <3>1, <3>2, LengthAssumption
  <2>2. size \in Nat /\ Len(sent) <= size
    <3> HIDE DEF topic, sent
    <3> QED  BY <2>1 DEF PublishSize, LengthBytes, size
  <2>3. Len(whole) = size
    <3> HIDE DEF size
    <3> QED  BY <2>2, TextSays
  <2>4. Len(whole) <= N - 0
    <3> HIDE DEF whole
    <3> QED  BY <1>2 DEF append_encoded, Written, available, New
  <2> HIDE DEF whole, size, sent
  <2> QED  BY <2>1, <2>2, <2>3, <2>4
<1>6. ASSUME m.kind = "discovery"
      PROVE  Serializes(m.entity)
  <2>1. write_payload(m).outcome = "Ok"
    BY <1>1, <1>6 DEF publish, Failed
  <2>2. ~Serializes(m.entity) => write_payload(m).outcome = "TooLarge"
    BY <1>6 DEF write_payload, Written
  <2> QED  BY <2>1, <2>2
<1> QED  BY <1>1, <1>3, <1>4, <1>5, <1>6

\* A last will is the whole message, or there was none to be had.
LEMMA ConnectedPacket ==
  ASSUME NEW m \in Messages, m.kind # "discovery", connect(m).packet # None
  PROVE  LET p == connect(m).packet
         IN  /\ connect(m).outcome = "Ok" /\ p.type = "CONNECT"
             /\ IF p.will # None THEN p.will.payload = Content(m)
                ELSE to_string(m.topic) = TooLarge \/ Len(Content(m)) > N
<1> DEFINE topic == to_string(m.topic)
           w == write_payload(m)
           fits == topic # TooLarge /\ w.outcome = "Ok"
           will == IF fits THEN [topic |-> topic, payload |-> w.buffer] ELSE None
<1>1. /\ w.outcome \in {"Ok", "TooLarge", "Panic"}
      /\ w.outcome = "Ok" => w.buffer = Content(m)
      /\ w.outcome # "Ok" => Len(Content(m)) > N
  BY PayloadWritten
<1>2. /\ connect(m).outcome = "Ok"
      /\ connect(m).packet = [type |-> "CONNECT", will |-> will]
  BY DEF connect, Failed
<1>3. ASSUME fits
      PROVE  will # None /\ will.payload = Content(m)
  <2>1. topic \in Seq(Characters)
    BY <1>3, TextOfTopic, MessageAssumption DEF AnyTopic
  <2>2. w.buffer = Content(m) /\ Content(m) \in Seq(Bytes)
    BY <1>1, <1>3, ContentType
  <2>3. will = [topic |-> topic, payload |-> Content(m)]
    BY <1>3, <2>2
  <2> HIDE DEF topic, will
  <2> QED  BY <2>1, <2>2, <2>3, ErrorsAreNoMessages
<1>4. ASSUME ~fits
      PROVE  will = None /\ (topic = TooLarge \/ Len(Content(m)) > N)
  BY <1>1, <1>4
<1> HIDE DEF topic, w, fits, will
<1>5. IF will # None THEN will.payload = Content(m)
      ELSE topic = TooLarge \/ Len(Content(m)) > N
  BY <1>3, <1>4
<1> QED  BY <1>2, <1>5 DEF topic

\* A message of others is a PUBLISH with a text as its topic.
LEMMA OthersPacket ==
  ASSUME OthersPublish
  PROVE  /\ packet'.type = "PUBLISH" /\ packet'.topic \in Seq(Characters)
         /\ packet'.payload \in Seq(Bytes)
<1>1. \A st \in Texts(MaxReceived) : st \in Seq(Characters)
  BY MessageAssumption DEF Texts
<1>2. \A value \in Sayings, n \in Nat : Text(value, n) \in Seq(Bytes)
  BY DEF Bytes, Text
<1>3. None \in Sayings /\ (\A command \in Commands : command \in Sayings)
      /\ (\A n \in N .. N + 1 : n \in Nat) /\ 1 \in Nat /\ << >> \in Seq(Bytes)
  BY LengthAssumption DEF Sayings
<1>4. PICK p \in {<<topic, << >>>> : topic \in Texts(MaxReceived)}
                   \cup {<<<<"/">>, Text(None, n)>> : n \in N .. N + 1}
                   \cup {<<<<"/">>, Text(command, 1)>> : command \in Commands} :
        packet' = [type |-> "PUBLISH", topic |-> p[1], payload |-> p[2], qos |-> 0]
  BY DEF OthersPublish
<1>5. p[1] \in Seq(Characters) /\ p[2] \in Seq(Bytes)
  <2>1. CASE p \in {<<topic, << >>>> : topic \in Texts(MaxReceived)}
    <3>1. PICK topic \in Texts(MaxReceived) : p = <<topic, << >>>>
      BY <2>1
    <3> QED  BY <1>1, <1>3, <3>1
  <2>2. CASE p \in {<<<<"/">>, Text(None, n)>> : n \in N .. N + 1}
    <3>1. PICK n \in N .. N + 1 : p = <<<<"/">>, Text(None, n)>>
      BY <2>2
    <3>2. Text(None, n) \in Seq(Bytes)
      BY <1>2, <1>3
    <3> QED  BY <3>1, <3>2, CharactersOfTopics
  <2>3. CASE p \in {<<<<"/">>, Text(command, 1)>> : command \in Commands}
    <3>1. PICK command \in Commands : p = <<<<"/">>, Text(command, 1)>>
      BY <2>3
    <3>2. Text(command, 1) \in Seq(Bytes)
      BY <1>2, <1>3
    <3> QED  BY <3>1, <3>2, CharactersOfTopics
  <2> QED  BY <1>4, <2>1, <2>2, <2>3
<1> QED  BY <1>4, <1>5

-----------------------------------------------------------------------------
(* The path of a message *)

\* How far a message is: nothing is on the wire before its operation has ended,
\* nothing is received that is not on the wire, nothing is parsed that was not
\* received.
ProgressInv ==
  /\ message \in Messages \cup {None}
  /\ message # None /\ packet # None => outcome = "Ok"
  /\ received # None =>
       packet # None /\ packet.type = "PUBLISH" /\ received = Receive(packet)
  /\ light # None =>
       /\ Arrived /\ received.payload # << >>
       /\ message # None => message.kind = "json"
       /\ from_payload(Said) = light

\* What is on the wire.
PublishInv ==
  packet # None /\ packet.type = "PUBLISH" =>
    /\ packet.topic \in Seq(Characters) /\ packet.payload \in Seq(Bytes)
    /\ message # None =>
         /\ packet.topic = to_string(message.topic) /\ packet.topic # TooLarge
         /\ packet.payload = Content(message) /\ Len(packet.payload) <= N
         /\ message.kind = "discovery" => Serializes(message.entity)

ConnectInv ==
  packet # None /\ packet.type # "PUBLISH" =>
    /\ packet.type = "CONNECT" /\ message # None /\ message.kind # "discovery"
    /\ IF packet.will # None THEN packet.will.payload = Content(message)
       ELSE to_string(message.topic) = TooLarge \/ Len(Content(message)) > N

MessageInv == ProgressInv /\ PublishInv /\ ConnectInv

\* Nothing is on the wire at first.
LEMMA MessageInvInit == Init => MessageInv
BY DEF Init, MessageInv, ProgressInv, PublishInv, ConnectInv

\* Every step keeps what is on the wire and what is received true.
LEMMA MessageInvNext == MessageInv /\ [Next]_vars => MessageInv'
<1> SUFFICES ASSUME ProgressInv, PublishInv, ConnectInv, [Next]_vars
             PROVE  ProgressInv' /\ PublishInv' /\ ConnectInv'
  BY DEF MessageInv
<1>1. CASE Publish
  <2>1. packet = None /\ received = None /\ light = None
    BY <1>1 DEF Publish, ProgressInv, Arrived
  <2>2. message \in Messages /\ packet' = publish(message).packet
        /\ outcome' = publish(message).outcome
        /\ UNCHANGED <<message, received, light>>
    BY <1>1 DEF Publish, ProgressInv
  <2>3. packet' # None =>
          /\ outcome' = "Ok" /\ packet'.type = "PUBLISH"
          /\ packet'.topic = to_string(message.topic) /\ packet'.topic # TooLarge
          /\ packet'.topic \in Seq(Characters) /\ packet'.payload = Content(message)
          /\ Len(packet'.payload) <= N /\ packet'.payload \in Seq(Bytes)
          /\ message.kind = "discovery" => Serializes(message.entity)
    BY <2>2, PublishedPacket, ContentType
  <2> QED  BY <2>1, <2>2, <2>3 DEF ProgressInv, PublishInv, ConnectInv
<1>2. CASE Connect
  <2>1. packet = None /\ received = None /\ light = None
    BY <1>2 DEF Connect, ProgressInv, Arrived
  <2>2. message \in Messages /\ message.kind # "discovery" /\ message # None
        /\ packet' = connect(message).packet /\ outcome' = connect(message).outcome
        /\ UNCHANGED <<message, received, light>>
    BY <1>2 DEF Connect, ProgressInv
  <2>3. packet' # None =>
          /\ outcome' = "Ok" /\ packet'.type = "CONNECT"
          /\ IF packet'.will # None THEN packet'.will.payload = Content(message)
             ELSE to_string(message.topic) = TooLarge \/ Len(Content(message)) > N
    BY <2>2, ConnectedPacket
  <2> QED  BY <2>1, <2>2, <2>3 DEF ProgressInv, PublishInv, ConnectInv
<1>3. CASE OthersPublish
  <2>1. message = None /\ received = None /\ light = None
    BY <1>3 DEF OthersPublish, ProgressInv, Arrived
  <2>2. UNCHANGED <<message, outcome, received, light>>
    BY <1>3 DEF OthersPublish
  <2>3. /\ packet'.type = "PUBLISH" /\ packet'.topic \in Seq(Characters)
        /\ packet'.payload \in Seq(Bytes)
    BY <1>3, OthersPacket
  <2> QED  BY <2>1, <2>2, <2>3 DEF ProgressInv, PublishInv, ConnectInv
<1>4. CASE Deliver
  BY <1>4 DEF Deliver, ProgressInv, PublishInv, ConnectInv, Arrived
<1>5. CASE Parse
  BY <1>5 DEF Parse, ProgressInv, PublishInv, ConnectInv, Said, Arrived
<1>6. CASE UNCHANGED vars
  BY <1>6 DEF vars, ProgressInv, PublishInv, ConnectInv, Said, Arrived
<1> QED  BY <1>1, <1>2, <1>3, <1>4, <1>5, <1>6 DEF Next

\* The invariant holds of every behaviour.
LEMMA MessageInvHolds == Spec => []MessageInv
BY MessageInvInit, MessageInvNext, PTL DEF Spec

\* What the receive loop makes of a packet is topic and payload, unless one of
\* them is too large or not to be read.
LEMMA ReceivedWhole ==
  ASSUME MessageInv, received # None
  PROVE  /\ from_str(packet.topic) = Panic => received = Panic
         /\ from_str(packet.topic) # Panic /\ Len(packet.payload) > N => received = Panic
         /\ from_str(packet.topic) = TooLarge /\ Len(packet.payload) <= N
              => received = TooLarge
         /\ from_str(packet.topic) \notin {Panic, TooLarge} /\ Len(packet.payload) <= N
              => received = [topic |-> from_str(packet.topic), payload |-> packet.payload]
<1>1. received = Receive(packet) /\ packet.payload \in Seq(Bytes)
  BY DEF MessageInv, ProgressInv, PublishInv
<1>2. /\ Len(packet.payload) <= N => /\ from(packet.payload).outcome = "Ok"
                                     /\ from(packet.payload).buffer = packet.payload
      /\ Len(packet.payload) > N => from(packet.payload).outcome = "Panic"
  BY <1>1, FromTakesAllOrNothing
<1>3. Panic # TooLarge
  BY ErrorsAreNoTopics
<1> QED  BY <1>1, <1>2, <1>3 DEF Receive

\* The topic handed to the application stands for the one in the packet, whatever
\* device the client is (Topic::from_str against to_string).
THEOREM TopicStandsForText == Spec => []StandsForText
<1>1. MessageInv => StandsForText
  <2> SUFFICES ASSUME MessageInv, Arrived
               PROVE  to_string(received.topic) \in {packet.topic, TooLarge}
    BY DEF StandsForText
  <2>1. /\ packet.topic \in Seq(Characters) /\ received = Receive(packet)
    BY DEF Arrived, MessageInv, ProgressInv, PublishInv
  <2>2. /\ received.topic = from_str(packet.topic)
        /\ from_str(packet.topic) \notin {Panic, TooLarge}
    BY <2>1 DEF Arrived, Receive
  <2> QED  BY <2>1, <2>2, ReadStandsForText
<1> QED  BY <1>1, MessageInvHolds, PTL

\* A message arrives under the topic it was published to, unless the name that was
\* chosen repeats a prefix (Topic::to_string, recv_loop, Topic::from_str).
THEOREM ArrivesUnderItsTopic == Spec => []ArrivesAsSubscribed
<1>1. MessageInv => ArrivesAsSubscribed
  <2> SUFFICES ASSUME MessageInv, message # None, received # None
               PROVE  (Arrived /\ received.topic = message.topic) = ~Shadowed(message.topic)
    BY DEF ArrivesAsSubscribed
  <2> DEFINE t == message.topic
             r == from_str(packet.topic)
  <2>1. /\ t \in AnyTopic /\ packet.topic = to_string(t) /\ packet.topic # TooLarge
        /\ packet.payload \in Seq(Bytes) /\ Len(packet.payload) <= N
        /\ received = Receive(packet)
    BY MessageAssumption DEF MessageInv, ProgressInv, PublishInv
  <2>2. IF Shadowed(t) THEN r # t ELSE r = t
    BY <2>1, TopicComesBack
  <2>3. CASE r = t
    <3>1. received = [topic |-> t, payload |-> packet.payload]
      BY <2>1, <2>3, ReceivedWhole, ErrorsAreNoTopics
    <3>2. Arrived /\ received.topic = t
      BY <2>1, <3>1, ErrorsAreNoMessages DEF Arrived
    <3> QED  BY <2>2, <2>3, <3>2
  <2>4. CASE r # t
    <3>1. Arrived => received.topic = r
      BY <2>1 DEF Arrived, Receive
    <3> QED  BY <2>2, <2>4, <3>1
  <2> QED  BY <2>3, <2>4
<1> QED  BY <1>1, MessageInvHolds, PTL

\* What publish() accepts a client like this one receives whole.
THEOREM OwnMessagesAreRead == Spec => []OwnMessagesReadable
<1>1. MessageInv => OwnMessagesReadable
  <2> SUFFICES ASSUME MessageInv, message # None, received # None, ~Shadowed(message.topic)
               PROVE  Arrived /\ received.payload = packet.payload
    BY DEF OwnMessagesReadable
  <2> DEFINE t == message.topic
  <2>1. /\ t \in AnyTopic /\ packet.topic = to_string(t) /\ packet.topic # TooLarge
        /\ packet.payload \in Seq(Bytes) /\ Len(packet.payload) <= N
    BY MessageAssumption DEF MessageInv, ProgressInv, PublishInv
  <2>2. from_str(packet.topic) = t
    BY <2>1, TopicComesBack
  <2>3. received = [topic |-> t, payload |-> packet.payload]
    BY <2>1, <2>2, ReceivedWhole, ErrorsAreNoTopics
  <2> QED  BY <2>1, <2>3, ErrorsAreNoMessages DEF Arrived
<1> QED  BY <1>1, MessageInvHolds, PTL

\* The receive loop gives a message up only for a topic or a payload that is too
\* large, or a topic that from_str cannot slice (recv_loop, Topic::from_str).
THEOREM OnlyExtremesRejected == Spec => []RejectsOnlyExtremes
<1>1. MessageInv => RejectsOnlyExtremes
  <2> SUFFICES ASSUME MessageInv, received # None
               PROVE  RejectsOnlyExtremes
    <3>1. received = None => received # TooLarge /\ received # Panic
      BY ErrorsAreNoMessages
    <3> QED  BY <3>1 DEF RejectsOnlyExtremes
  <2> DEFINE t == from_str(packet.topic)
             whole == [topic |-> t, payload |-> packet.payload]
  <2>1. packet.topic \in Seq(Characters) /\ packet.payload \in Seq(Bytes)
        /\ Len(packet.payload) \in Nat /\ N \in Nat
    BY LengthAssumption DEF MessageInv, ProgressInv, PublishInv
  <2>2. t \notin {Panic, TooLarge} => whole \notin {Panic, TooLarge}
    <3>1. t \notin {Panic, TooLarge} =>
            whole \in [topic : AnyTopic, payload : Seq(Bytes)]
      BY <2>1, WhyNoTopic
    <3> QED  BY <3>1, ErrorsAreNoMessages
  <2>3. Panic # TooLarge
    BY ErrorsAreNoTopics
  <2>4. received = TooLarge => t = TooLarge
    BY <2>1, <2>2, <2>3, ReceivedWhole
  <2>5. received = Panic => t = Panic \/ Len(packet.payload) > N
    BY <2>1, <2>2, <2>3, ReceivedWhole
  <2> QED  BY <2>1, <2>4, <2>5, WhyNoTopic DEF RejectsOnlyExtremes
<1> QED  BY <1>1, MessageInvHolds, PTL

\* The broker gets all of a message or nothing, in whatever pieces it is written; a
\* last will is left out only if it is too large (write_payload, write_loop).
THEOREM WrittenWholeOrNot == Spec => []WholeOrNothing
<1>1. MessageInv => WholeOrNothing
  BY DEF MessageInv, PublishInv, ConnectInv, WholeOrNothing
<1> QED  BY <1>1, MessageInvHolds, PTL

\* A light's state that comes back to a light is the one it sent: through JSON, a
\* payload, a packet and the receive loop's payload (LightState).
THEOREM LightUnderstandsItself == Spec => []UnderstandsItself
<1>1. MessageInv => UnderstandsItself
  <2> SUFFICES ASSUME MessageInv, message # None, light # None
               PROVE  light = message.state
    BY DEF UnderstandsItself
  <2>1. /\ message \in Messages /\ message.kind = "json"
        /\ packet.payload = Content(message) /\ Len(packet.payload) <= N
        /\ packet.payload \in Seq(Bytes) /\ received = Receive(packet) /\ Arrived
        /\ received.payload # << >> /\ light = from_payload(received.payload[1][1])
    BY DEF MessageInv, ProgressInv, PublishInv, Said, Arrived
  <2>2. PICK n \in Nat : /\ packet.payload = Text(Serialize(message.state), n)
                         /\ message.state \in LightStates
    BY <2>1, ContentOfJson
  <2>3. received.payload = packet.payload
    <3>1. received.payload = from(packet.payload).buffer
      BY <2>1 DEF Receive, Arrived
    <3> QED  BY <2>1, <3>1, FromTakesAllOrNothing
  <2>4. n > 0
    BY <2>1, <2>2, <2>3 DEF Text
  <2>5. received.payload[1][1] = Serialize(message.state)
    <3>1. Text(Serialize(message.state), n)[1][1] = Serialize(message.state)
      BY <2>4, TextSays
    <3> QED  BY <2>2, <2>3, <3>1
  <2> QED  BY <2>1, <2>2, <2>5, RoundTrip
<1> QED  BY <1>1, MessageInvHolds, PTL

\* For any command and any values: the light gets the values that the command gives
\* for the mode chosen and 0 for the rest of it, nothing is lost that one mode can carry,
\* and without a color the color temperature comes before the brightness (ColorOf).
THEOREM ColorFromCommand == Spec => []ColorComesFromCommand
<1>1. MessageInv => ColorComesFromCommand
  <2> SUFFICES ASSUME ProgressInv, light \notin {None, PacketError}
               PROVE  IF Said.color # None THEN FitsColor(light.color, Said)
                      ELSE FitsNumber(light.color, Said)
    BY DEF MessageInv, ColorComesFromCommand, FitsColor, FitsNumber
  <2>1. light = from_payload(Said)
    BY DEF ProgressInv
  <2>2. light.color = ColorOf(Said)
    BY <2>1 DEF from_payload
  <2> QED  BY <2>2, ColorUnderstood, NumberUnderstood
<1> QED  BY <1>1, MessageInvHolds, PTL

-----------------------------------------------------------------------------
(* What Home Assistant is told *)

\* A discovery message that is on the wire says what the entity is made of.
LEMMA DiscoveryOnWire ==
  ASSUME MessageInv, message # None, message.kind = "discovery", packet # None
  PROVE  LET e == message.entity
         IN  /\ e.component.platform \in Platforms
             /\ packet.payload[1][1] = DiscoveryFields(e) /\ Serializes(e)
<1> DEFINE e == message.entity
           n == Len(DiscoveryFields(e))
<1>1. message \in Messages /\ packet.payload = Content(message) /\ Serializes(e)
  BY DEF MessageInv, ProgressInv, PublishInv, ConnectInv
<1>2. e.component.platform \in Platforms
  BY <1>1, MessageAssumption
<1>3. Content(message) = Text(DiscoveryFields(e), n)
  BY DEF Content
<1>4. n \in Nat /\ n > 0
  BY <1>2, FieldsOfEntity
<1>5. Text(DiscoveryFields(e), n)[1][1] = DiscoveryFields(e)
  <2> HIDE DEF e, n
  <2> QED  BY <1>4, TextSays
<1> QED  BY <1>1, <1>2, <1>3, <1>5

\* Distinct keys are as many as the fields they are of.
LEMMA DistinctKeys ==
  ASSUME NEW fields, Len(fields) \in Nat, DOMAIN fields = 1 .. Len(fields),
         \A i, j \in DOMAIN fields : fields[i][1] = fields[j][1] => i = j
  PROVE  Cardinality(Keys(fields)) = Len(fields)
<1> DEFINE n == Len(fields)
           key == [i \in 1 .. n |-> fields[i][1]]
<1>1. key \in Bijection(1 .. n, Keys(fields))
  <2>1. key \in [1 .. n -> Keys(fields)]
    BY DEF Keys
  <2>2. \A i, j \in 1 .. n : key[i] = key[j] => i = j
    OBVIOUS
  <2>3. \A k \in Keys(fields) : \E i \in 1 .. n : key[i] = k
    BY DEF Keys
  <2> HIDE DEF key
  <2> QED  BY <2>1, <2>2, <2>3 DEF Bijection, Injection, Surjection, IsInjective
<1>2. ExistsBijection(1 .. n, Keys(fields))
  BY <1>1 DEF ExistsBijection
<1>3. IsFiniteSet(1 .. n) /\ Cardinality(1 .. n) = n
  <2>1. 0 + 1 \in Int
    OBVIOUS
  <2> QED  BY FS_Interval
<1> QED  BY <1>2, <1>3, FS_Bijection

\* A discovery message names no key twice and is never longer than its serializer
\* was told (DiscoverySerializer::serialize_struct and the components').
THEOREM DiscoveryIsWellFormed == Spec => []DiscoveryWellFormed
<1>1. MessageInv => DiscoveryWellFormed
  <2> SUFFICES ASSUME MessageInv, message # None, message.kind = "discovery", packet # None
               PROVE  LET fields == packet.payload[1][1]
                          keys == Keys(fields)
                      IN  /\ Cardinality(keys) = Len(fields)
                          /\ ("avty" \in keys) = ("avty_mode" \in keys)
                          /\ Len(fields) <= DeclaredLength(message.entity)
    BY DEF DiscoveryWellFormed, Keys
  <2> DEFINE fields == DiscoveryFields(message.entity)
  <2>1. packet.payload[1][1] = fields /\ message.entity.component.platform \in Platforms
    BY DiscoveryOnWire
  <2>2. /\ IsSequence(fields) /\ Len(fields) \in Nat
        /\ Len(fields) <= DeclaredLength(message.entity)
        /\ \A i, j \in DOMAIN fields : fields[i][1] = fields[j][1] => i = j
        /\ ("avty" \in Keys(fields)) = ("avty_mode" \in Keys(fields))
    BY <2>1, FieldsOfEntity
  <2> HIDE DEF fields
  <2>3. DOMAIN fields = 1 .. Len(fields)
    BY <2>2 DEF IsSequence
  <2>4. Cardinality(Keys(fields)) = Len(fields)
    BY <2>2, <2>3, DistinctKeys
  <2> QED  BY <2>1, <2>2, <2>4
<1> QED  BY <1>1, MessageInvHolds, PTL

\* A packet without a payload has room for the text of any topic.
LEMMA TopicIsSent ==
  ASSUME NEW st \in Seq(Characters), Size(st) <= TopicLength
  PROVE  send_packet(st, << >>, 0).packet.topic = st
<1> DEFINE whole == [type |-> "PUBLISH", topic |-> st, payload |-> << >>, qos |-> 0]
           size == PublishSize(st, << >>, 0)
<1>1. Size(st) \in Nat /\ N \in Nat /\ TopicLength + 5 <= N /\ TopicLength \in Nat
  BY SizeType, PacketHoldsTopic, LengthAssumption, TopicAssumption
<1>2. size \in Nat /\ size <= N
  BY <1>1 DEF PublishSize, LengthBytes
<1>3. Len(Text(whole, size)) = size
  <2> HIDE DEF whole, size
  <2> QED  BY <1>2, TextSays
<1>4. append_encoded(New, Text(whole, size)).outcome = "Ok"
  <2> HIDE DEF whole, size
  <2> QED  BY <1>1, <1>2, <1>3 DEF append_encoded, Written, available, New
<1> QED  BY <1>4 DEF send_packet

\* A topic that fits where it is announced is also sent as it is announced.
LEMMA AnnouncedIsSent ==
  ASSUME NEW t \in AnyTopic, announced(t) # TooLarge
  PROVE  /\ announced(t) \in Seq(Characters)
         /\ send_packet(to_string(t), << >>, 0).packet.topic = announced(t)
<1>1. announced(t) = to_string(t)
  BY DEF announced
<1>2. to_string(t) \in Seq(Characters)
  BY <1>1, TextOfTopic DEF AnyTopic
<1>3. Size(to_string(t)) <= TopicLength
  BY <1>1 DEF to_string
<1> QED  BY <1>1, <1>2, <1>3, TopicIsSent

\* What Home Assistant is told is what the device does: state, commands and
\* availability go where they are announced (Entity::publish_discovery,
\* publish_state, Topic's Serialize, Topic::from_str).
THEOREM AnnouncedIsUsed == Spec => []AnnouncedTopicsAreUsed
<1>1. MessageInv => AnnouncedTopicsAreUsed
  <2> SUFFICES ASSUME MessageInv, message # None, message.kind = "discovery", packet # None
               PROVE  AnnouncedTopicsAreUsed
    BY DEF AnnouncedTopicsAreUsed
  <2> DEFINE e == message.entity
             c == e.component
             fields == packet.payload[1][1]
             goesTo(t) == send_packet(to_string(t), << >>, 0).packet.topic
             state == publish(StateMessage(e, <<1>>, CHOOSE l \in LightStates : TRUE))
  <2>1. /\ c.platform \in Platforms /\ fields = DiscoveryFields(e) /\ Serializes(e)
    BY DiscoveryOnWire
  <2>2. /\ e.state_topic \in AnyTopic /\ e.availability.topics \in Seq(AnyTopic)
        /\ c.platform = "light" => c.command_topic \in AnyTopic \cup {None}
    BY MessageAssumption DEF MessageInv, ProgressInv
  <2>3. /\ Told(fields, "stat_t") = {announced(e.state_topic)}
        /\ Told(fields, "cmd_t")
             = IF c.platform = "light"
               THEN {IF c.command_topic = None THEN None ELSE announced(c.command_topic)}
               ELSE {}
        /\ Told(fields, "avty") \subseteq {Listed(e.availability.topics)}
    BY <2>1, FieldsOfEntity
  <2>4. state.outcome = "Ok" => Told(fields, "stat_t") = {state.packet.topic}
    <3> DEFINE m == StateMessage(e, <<1>>, CHOOSE l \in LightStates : TRUE)
               topic == to_string(e.state_topic)
    <3>1. m.topic = e.state_topic
      BY DEF StateMessage
    <3>2. ASSUME publish(m).outcome = "Ok"
          PROVE  publish(m).packet.topic = topic
      <4>1. \E payload : publish(m) = send_packet(topic, payload, m.qos)
        <5> HIDE DEF m, topic
        <5>1. to_string(m.topic) = topic
          BY <3>1 DEF topic
        <5> QED  BY <3>2, <5>1 DEF publish, Failed
      <4>2. PICK payload : publish(m) = send_packet(topic, payload, m.qos)
        BY <4>1
      <4> HIDE DEF m, topic
      <4> QED  BY <3>2, <4>2 DEF send_packet
    <3> QED  BY <2>3, <3>2 DEF announced
  <2>5. ASSUME NEW text \in Told(fields, "cmd_t") \ {None}, ~Shadowed(c.command_topic)
        PROVE  from_str(text) = c.command_topic
    <3>1. /\ c.platform = "light" /\ c.command_topic # None
          /\ text = announced(c.command_topic)
      BY <2>3
    <3>2. c.command_topic \in AnyTopic /\ c.command_topic \in TopicsOf(e)
      BY <2>2, <3>1 DEF TopicsOf
    <3>3. to_string(c.command_topic) # TooLarge
      BY <2>1, <3>2 DEF Serializes, announced
    <3> QED  BY <2>5, <3>1, <3>2, <3>3, TopicComesBack DEF announced
  <2>6. ASSUME NEW topics \in Told(fields, "avty"), NEW i \in DOMAIN e.availability.topics
        PROVE  topics[i] = <<<<"topic", goesTo(e.availability.topics[i])>>>>
    <3>1. topics = Listed(e.availability.topics)
      BY <2>3
    <3>2. topics[i] = <<<<"topic", announced(e.availability.topics[i])>>>>
      BY <3>1 DEF Listed
    <3>3. /\ e.availability.topics[i] \in AnyTopic
          /\ announced(e.availability.topics[i]) # TooLarge
      <4>1. e.availability.topics[i] \in TopicsOf(e)
        BY DEF TopicsOf
      <4> QED  BY <2>1, <2>2, <4>1 DEF Serializes
    <3> QED  BY <3>2, <3>3, AnnouncedIsSent
  <2> QED  BY <2>4, <2>5, <2>6 DEF AnnouncedTopicsAreUsed, Told
<1> QED  BY <1>1, MessageInvHolds, PTL
=============================================================================
