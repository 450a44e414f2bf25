----------------------------- MODULE MCMessage ------------------------------
(* A small instance of Message: one letter is the device type, another the   *)
(* id, a third is two bytes long.                                            *)
EXTENDS Message

Letters == {"t", "i", "/", "w"}
TypeText == <<"t">>
IdText == <<"i">>

Publishing(topic, kind, parts, qos) ==
  [topic |-> topic, kind |-> kind, parts |-> parts, state |-> None,
   entity |-> None, qos |-> qos]

ShortTopic == Made("General", <<"/">>)
DeviceTopic == Made("Device", << >>)

\* Every topic with a small payload.
EveryTopic == {Publishing(t, "bytes", <<1>>, 0) : t \in Topics}

\* Payloads up to one byte too long, in one piece or in two, the pieces around
\* the length where they stop to fit.
Lengths == 0 .. N + 1

EveryLength ==
  {Publishing(t, "bytes", <<n>>, qos) :
     t \in {ShortTopic, DeviceTopic}, n \in Lengths, qos \in 0 .. 2}
  \cup {Publishing(t, "display", <<m, n>>, 1) :
           t \in {ShortTopic, DeviceTopic}, m \in Lengths, n \in Lengths}

EveryLight ==
  {[Publishing(ShortTopic, "json", << >>, 0) EXCEPT !.state = l] : l \in LightStates}

\* Entities of every kind, every field of an Option there and not there, topics
\* of every variant, and one that is too long.
SlashText == <<"/">>
EntityTopics ==
  {ShortTopic, DeviceTopic, Made("DeviceType", <<"w">>), Made("Device", <<"i", "i">>)}

Availabilities ==
  {[mode |-> "none", topics |-> << >>]}
  \cup {[mode |-> mode, topics |-> topics] :
          mode \in {"all", "any", "latest"},
          topics \in {<< >>, <<ShortTopic>>, <<DeviceTopic, ShortTopic>>}}

Components ==
  [platform : {"light"}, command_topic : Option(EntityTopics),
   modes : {<< >>, <<"rgb", "xy">>}, effects : {<< >>, <<"rainbow">>}]
  \cup [platform : {"sensor"}, device_class : {None, "power"}, state_class : {None},
        unit_of_measurement : {None, "W"}]
  \cup [platform : {"binary_sensor"}, device_class : {None, "motion"}]

Names == Option({<<"w">>})

Entities ==
  [device : [name : Names, configuration_url : Names], origin : [name : {None}],
   object_id : {<<"w">>, <<"w", "w">>}, unique_id : Names, name : {<<"w">>},
   availability : Availabilities, state_topic : EntityTopics, component : Components]

EveryEntity == {DiscoveryMessage(e) : e \in Entities}

AllMessages == EveryTopic \cup EveryLength \cup EveryLight \cup EveryEntity
=============================================================================
