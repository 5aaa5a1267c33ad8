SPECIFICATION FairSpec
CONSTANTS
  MaxTurns = 3
  MaxCalls = 2
INVARIANTS
  EveryCallAnswered
  TraceTellsConversation
PROPERTIES
  LoopRunsOut
  AgentEnds
  ImplementsContract
CHECK_DEADLOCK FALSE
