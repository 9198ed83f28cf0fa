SPECIFICATION FairSpec
CONSTANTS
  Handlers = {h1, h2, h3}
  MaxCommits = 4
  Idle = Idle
INVARIANTS
  TypeOK
  LoopFollowsDatabase
PROPERTIES
  RestartNeverGoesBack
  LiveRefinement
CHECK_DEADLOCK FALSE
