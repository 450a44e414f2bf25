\* The conversions of BinarySensorState.
CONSTANTS
  None = None  TooLarge = TooLarge  Panic = Panic  PacketError = PacketError
  Characters <- Letters
  Wide = {"w"}
  DeviceType <- TypeText
  DeviceId <- IdText
  TopicLength = 4
  N = 24
  Values = {0}
  Effects = {rainbow}
  Messages <- EveryLight
  DiscoveryPrefix <- SlashText
  Base = 8
  ConnectLength = 4
  MaxReceived = 6
SPECIFICATION Spec
INVARIANTS
  BoolRoundTrip
\* A message is delivered once.
CHECK_DEADLOCK FALSE
