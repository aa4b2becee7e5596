SPECIFICATION Spec
CONSTANTS
  a1 = a1
  a2 = a2
  m1 = m1
  m2 = m2
  NoAgent = NoAgent
  NoMessage = 0
  publish = publish
  NoEffect = NoEffect
  Effects <- MCEffects
  Calls <- MCCalls
  Attempts <- MCAttempts
  Protocols <- MCProtocols
  MaxTurns = 4
  MaxEvents = 2
SYMMETRY AttemptSymmetry
CHECK_DEADLOCK FALSE
INVARIANTS
  ResumeRunsNoTurnTwice
  EffectsHappenOnce
  TurnsInOrder
  CoherentConversation
PROPERTIES
  HistoryIsKept
