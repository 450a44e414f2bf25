------------------------------- MODULE Topic --------------------------------
(***************************************************************************)
(* The topics of an application and their text on the wire                 *)
(* (src/src/topic.rs, to_string and from_str).  The prefixes are the point *)
(* here, so a text is a sequence of characters - of very few of them, one  *)
(* of which may be two bytes long in UTF-8.                                *)
(***************************************************************************)
EXTENDS SequencesExt, Naturals

CONSTANTS
  Characters,  \* the characters of a text, "/" among them
  Wide,        \* those of more than one byte
  DeviceType,  \* device_type()
  DeviceId,    \* device_id()
  TopicLength, \* 256: the bytes a TopicString holds
  TooLarge, Panic

ASSUME TopicAssumption ==
  /\ "/" \in Characters /\ Wide \subseteq Characters \ {"/"}
  /\ {DeviceType, DeviceId} \subseteq Seq(Characters)
  /\ TopicLength \in Nat

\* Its bytes.
Size(st) == Len(st) + Cardinality({i \in DOMAIN st : st[i] \in Wide})

Texts(n) ==
  {st \in UNION {[1 .. k -> Characters] : k \in 0 .. n} : Size(st) <= n}

Variants == {"DeviceType", "Device", "General"}

AnyTopic == [variant : Variants, name : Seq(Characters)]

Topics == [variant : Variants, name : Texts(TopicLength)]

ASSUME ErrorsAreNoTopics ==
  /\ Panic # TooLarge
  /\ {TooLarge, Panic} \cap AnyTopic = {} /\ TooLarge \notin Seq(Characters)

Made(variant, name) == [variant |-> variant, name |-> name]

\* Topic::to_string
to_string(t) ==
  LET full == CASE t.variant = "Device" ->
                     DeviceType \o <<"/">> \o DeviceId \o <<"/">> \o t.name
                [] t.variant = "DeviceType" -> DeviceType \o <<"/">> \o t.name
                [] OTHER -> t.name
  IN  IF Size(full) <= TopicLength THEN full ELSE TooLarge

\* Mutant of Strips: the separator is not looked at.
StripsAny(prefix, st) == IsPrefix(prefix, st)

\* strip_prefix finds the prefix and a separator behind it.
Strips(prefix, st) == IsPrefix(prefix \o <<"/">>, st)

\* The slice that should hold the separator is beyond the end of the text, or
\* it cuts a character in two.
StripPanics(prefix, st) ==
  IsPrefix(prefix, st) /\ (st = prefix \/ st[Len(prefix) + 1] \in Wide)

Stripped(prefix, st) == SubSeq(st, Len(prefix) + 2, Len(st))

\* Mutant of Fitting: the last place of a TopicString is not used.
FittingOffByOne(variant, st) ==
  IF Size(st) < TopicLength THEN Made(variant, st) ELSE TooLarge

\* topic.push_str(st)?
Fitting(variant, st) ==
  IF Size(st) <= TopicLength THEN Made(variant, st) ELSE TooLarge

\* Topic::from_str
from_str(st) ==
  IF StripPanics(DeviceType, st) THEN Panic
  ELSE IF ~Strips(DeviceType, st) THEN Fitting("General", st)
  ELSE LET rest == Stripped(DeviceType, st)
       IN  IF StripPanics(DeviceId, rest) THEN Panic
           ELSE IF Strips(DeviceId, rest)
                THEN Fitting("Device", Stripped(DeviceId, rest))
                ELSE Fitting("DeviceType", rest)
=============================================================================
