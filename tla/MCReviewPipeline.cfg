SPECIFICATION FairSpec
CONSTANTS
  security = security
  quality = quality
  performance = performance
  synth = synth
  solo = solo
  Role <- MCRole
  Agent <- MCAgent
  Synth <- synth
  Solo <- solo
  MaxIterations <- MCMaxIterations
INVARIANTS
  ConclusionIsBacked
  CheckRunIsSettled
  FailureBesidesReviewIsGitHubs
  OrphansOnlyAfterCrash
  FindingsAreTheAgents
PROPERTIES
  ReviewRunsOut
  ReviewEnds
  NoCallOnceSuperseded
  ImplementsReviewContract
CHECK_DEADLOCK FALSE
