SPECIFICATION Spec
CONSTANTS
  Handlers = {h1, h2}
  MaxCommits = 3
  Idle = Idle
INVARIANTS
  DatabaseIsLiveTruth
CHECK_DEADLOCK FALSE
