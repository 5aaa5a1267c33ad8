SPECIFICATION Spec
CONSTANTS
  security = security
  quality = quality
  performance = performance
  synth = synth
  solo = solo
  Role <- MCRole
  Agent <- MCAgent
  Synth <- synth
  Solo <- solo
  MaxIterations <- MCMaxIterations
INVARIANTS
  StaleFindingsNotPosted
CHECK_DEADLOCK FALSE
