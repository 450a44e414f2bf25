----------------------------- MODULE Discovery ------------------------------
(***************************************************************************)
(* The discovery message of an entity (src/src/homeassistant/mod.rs): the  *)
(* fields that DiscoverySerializer::serialize_struct (ser.rs) writes ahead *)
(* of those of the component (light.rs, sensor.rs, binary_sensor.rs).      *)
(*                                                                         *)
(* A JSON object is the sequence of its fields <<key, value>>.             *)
(***************************************************************************)
EXTENDS Topic, Light

Option(S) == S \cup {None}

\* The JSON of an Option is null or the value.
OrElse(value, default) == IF value = None THEN default ELSE value

\* A field that is skipped if there is no value.
IfSome(key, value) == IF value = None THEN << >> ELSE <<<<key, value>>>>

\* Mutant of announced: the prefixes are left out.
announced_bare(t) == t.name

\* Serialize for Topic
announced(t) == to_string(t)

\* Serialize for Device
DeviceFields(d) ==
  <<<<"name", OrElse(d.name, DeviceType)>>, <<"ids", DeviceId>>>>
    \o IfSome("cu", d.configuration_url)

\* derive(Serialize) for Origin, with name_or_device
OriginFields(o) == <<<<"name", OrElse(o.name, DeviceType)>>>>

\* AvailabilityTopicList of AvailabilityTopicItems
AvailabilityFields(a) ==
  IF a.mode = "none" THEN << >>
  ELSE <<<<"avty_mode", a.mode>>,
         <<"avty", [i \in DOMAIN a.topics |-> <<<<"topic", announced(a.topics[i])>>>>]>>>>

LightFields(c) ==
  <<<<"cmd_t", IF c.command_topic = None THEN None ELSE announced(c.command_topic)>>,
    <<"schema", "json">>>>
    \o (IF c.modes = << >> THEN << >> ELSE <<<<"sup_clrm", c.modes>>>>)
    \o (IF c.effects = << >> THEN << >>
        ELSE <<<<"effect", TRUE>>, <<"fx_list", c.effects>>>>)

Platforms == {"light", "sensor", "binary_sensor"}

ComponentFields(c) ==
  CASE c.platform = "light"  -> LightFields(c)
    [] c.platform = "sensor" ->
         <<<<"device_class", c.device_class>>, <<"state_class", c.state_class>>,
           <<"unit_of_measurement", c.unit_of_measurement>>>>
    [] c.platform = "binary_sensor" -> <<<<"device_class", c.device_class>>>>

\* Mutant of EntityFields: no availability is written as null.
EntityFieldsNull(e) ==
  <<<<"dev", DeviceFields(e.device)>>, <<"o", OriginFields(e.origin)>>,
    <<"p", e.component.platform>>, <<"obj_id", e.object_id>>, <<"name", e.name>>,
    <<"stat_t", announced(e.state_topic)>>>>
    \o (IF e.availability.mode = "none" THEN <<<<"avty", None>>>>
        ELSE AvailabilityFields(e.availability))
    \o IfSome("uniq_id", e.unique_id)

\* What serialize_struct writes before it lets the component go on.
EntityFields(e) ==
  <<<<"dev", DeviceFields(e.device)>>, <<"o", OriginFields(e.origin)>>,
    <<"p", e.component.platform>>, <<"obj_id", e.object_id>>, <<"name", e.name>>,
    <<"stat_t", announced(e.state_topic)>>>>
    \o AvailabilityFields(e.availability)
    \o IfSome("uniq_id", e.unique_id)

DiscoveryFields(e) == EntityFields(e) \o ComponentFields(e.component)

\* The length that is declared to the serializer: the component's, enlarged.
ComponentLength(c) ==
  CASE c.platform = "light" -> 3 + (IF c.modes = << >> THEN 0 ELSE 1)
                                 + (IF c.effects = << >> THEN 0 ELSE 2)
    [] c.platform = "sensor"        -> 3
    [] c.platform = "binary_sensor" -> 1

DeclaredLength(e) ==
  ComponentLength(e.component) + 6
    + (IF e.unique_id = None THEN 0 ELSE 1)
    + (IF e.availability.mode = "none" THEN 0 ELSE 2)

\* The topics of an entity: one that is too large fails the serialization.
TopicsOf(e) ==
  {e.state_topic} \cup {e.availability.topics[i] : i \in DOMAIN e.availability.topics}
    \cup (IF e.component.platform = "light" /\ e.component.command_topic # None
          THEN {e.component.command_topic} ELSE {})

Serializes(e) == \A t \in TopicsOf(e) : announced(t) # TooLarge

\* The kind of message that Component::publish_state makes of a state.
StateKind(c) ==
  CASE c.platform = "light"         -> "json"
    [] c.platform = "sensor"        -> "display"
    [] c.platform = "binary_sensor" -> "bytes"
=============================================================================
