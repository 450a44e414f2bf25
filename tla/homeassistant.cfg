\* Two connections, Home Assistant starts twice; the application may be two
\* messages behind and publishes discovery when it is asked to.
CONSTANTS
  None = None
  AnnounceOn = {"HomeAssistantOnline"}
  MaxSessions = 2
  MaxStarts = 2
  DataCapacity = 2
SPECIFICATION LiveSpec
INVARIANTS
  AnswersGreeting
PROPERTIES
  GreetingMakesKnown
\* The bounds on connections and starts stop the model.
CHECK_DEADLOCK FALSE
