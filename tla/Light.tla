------------------------------- MODULE Light --------------------------------
(***************************************************************************)
(* The state of a light as it goes to Home Assistant and as it comes back  *)
(* in a command (src/src/homeassistant/light.rs), with the conversions of  *)
(* BinarySensorState it uses (src/src/homeassistant/binary_sensor.rs).     *)
(*                                                                         *)
(* A JSON payload is the record of its fields, None where one is missing.  *)
(***************************************************************************)
EXTENDS Naturals

CONSTANTS
  Values,   \* values of a number field, 0 is the default of every type
  Effects,  \* names of effects
  None,     \* Rust's None, and a field that is not there
  PacketError

ASSUME LightAssumption == Values \subseteq Nat /\ 0 \in Values

Fields == {"h", "s", "x", "y", "r", "g", "b", "w", "c"}

\* None is no value that a field can have.
ASSUME NoneIsNoValue ==
  /\ None \notin Values /\ None \notin {"ON", "OFF"}
  /\ None \notin [Fields -> Values \cup {None}]

\* The numbers that the variants of Color carry, by their fields in the JSON.
FieldsOf ==
  [none |-> {}, brightness |-> {"brightness"}, color_temp |-> {"color_temp"},
   hs |-> {"h", "s"}, xy |-> {"x", "y"}, rgb |-> {"r", "g", "b"},
   rgbw |-> {"r", "g", "b", "w"}, rgbww |-> {"r", "g", "b", "c", "w"}]

\* Those that are written as a SerializedColor.
ColorModes == {"hs", "xy", "rgb", "rgbw", "rgbww"}

Color(mode, value) == [mode |-> mode, value |-> value]

Colors ==
  UNION {{Color(mode, v) : v \in [FieldsOf[mode] -> Values]} : mode \in DOMAIN FieldsOf}

LightStates ==
  [state : {"On", "Off"}, color : Colors, effect : Effects \cup {None}]

-----------------------------------------------------------------------------
(* BinarySensorState *)

ToStr(state) == IF state = "On" THEN "ON" ELSE "OFF"

FromStr(string) == IF string = "ON" THEN "On" ELSE "Off"

FromBool(value) == IF value THEN "On" ELSE "Off"

\* Both arms say true.
ToBool(state) == CASE state = "On" -> TRUE [] state = "Off" -> TRUE

-----------------------------------------------------------------------------
(* LightState *)

\* Only the fields of the light's own mode are written.
Serialize(l) ==
  LET mode == l.color.mode
      only(m) == IF mode = m THEN l.color.value[m] ELSE None
  IN  [state |-> ToStr(l.state),
       effect |-> l.effect,
       brightness |-> only("brightness"),
       color_temp |-> only("color_temp"),
       color |-> IF mode \in ColorModes
                 THEN [f \in Fields |-> IF f \in FieldsOf[mode]
                                        THEN l.color.value[f] ELSE None]
                 ELSE None]

\* Mutant of ModeOf: the warm white of an RGBWW color is taken for a white.
ModeOfWhiteFirst(color) ==
  IF color["x"] # None THEN "xy"
  ELSE IF color["h"] # None THEN "hs"
  ELSE IF color["w"] # None THEN "rgbw"
  ELSE IF color["c"] # None THEN "rgbww"
  ELSE "rgb"

\* The first field that gives a mode away decides.
ModeOf(color) ==
  IF color["x"] # None THEN "xy"
  ELSE IF color["h"] # None THEN "hs"
  ELSE IF color["c"] # None THEN "rgbww"
  ELSE IF color["w"] # None THEN "rgbw"
  ELSE "rgb"

OrDefault(value) == IF value = None THEN 0 ELSE value

\* Mutant of ColorOf: the saturation is read from the hue.
HueTwice(p) ==
  IF p.color # None
  THEN Color(ModeOf(p.color),
             [f \in FieldsOf[ModeOf(p.color)] |->
                OrDefault(p.color[IF f = "s" THEN "h" ELSE f])])
  ELSE IF p.color_temp # None THEN Color("color_temp", [color_temp |-> p.color_temp])
  ELSE IF p.brightness # None THEN Color("brightness", [brightness |-> p.brightness])
  ELSE Color("none", << >>)

\* A color is preferred to a color temperature, and that to a brightness.
ColorOf(p) ==
  IF p.color # None
  THEN Color(ModeOf(p.color),
             [f \in FieldsOf[ModeOf(p.color)] |-> OrDefault(p.color[f])])
  ELSE IF p.color_temp # None THEN Color("color_temp", [color_temp |-> p.color_temp])
  ELSE IF p.brightness # None THEN Color("brightness", [brightness |-> p.brightness])
  ELSE Color("none", << >>)

\* LightState::from_payload.  The state is the one field that must be there.
from_payload(p) ==
  IF p.state = None THEN PacketError
  ELSE [state |-> FromStr(p.state), color |-> ColorOf(p), effect |-> p.effect]

\* Each field of a color has a value of its own in a command, so that none is taken
\* for another.
Own == [h |-> 1, s |-> 2, x |-> 3, y |-> 4, r |-> 5, g |-> 6, b |-> 7, w |-> 8, c |-> 9]

\* What Home Assistant may send: any of the fields.
Commands ==
  [state : {"ON", "OFF", None}, effect : Effects \cup {None},
   brightness : Values \cup {None}, color_temp : Values \cup {None},
   color : {[f \in Fields |-> IF f \in given THEN Own[f] ELSE None] :
              given \in SUBSET Fields} \cup {None}]
=============================================================================
