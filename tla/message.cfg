\* Every topic of four bytes, every length of a payload of at most 24 bytes,
\* every light state over two values, entities of every kind; and what others
\* publish: topics of six bytes and commands with any of the fields.
CONSTANTS
  None = None  TooLarge = TooLarge  Panic = Panic  PacketError = PacketError
  Characters <- Letters
  Wide = {"w"}
  DeviceType <- TypeText
  DeviceId <- IdText
  TopicLength = 4
  N = 24
  Values = {0, 1}
  Effects = {rainbow}
  Messages <- AllMessages
  DiscoveryPrefix <- SlashText
  Base = 8
  ConnectLength = 4
  MaxReceived = 6
SPECIFICATION Spec
INVARIANTS
  ArrivesAsSubscribed
  StandsForText
  RejectsOnlyExtremes
  WholeOrNothing
  OwnMessagesReadable
  UnderstandsItself
  ColorComesFromCommand
  AnnouncedTopicsAreUsed
  DiscoveryWellFormed
\* A message is delivered once.
CHECK_DEADLOCK FALSE
