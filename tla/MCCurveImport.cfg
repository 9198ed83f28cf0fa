SPECIFICATION Spec
SYMMETRY Symmetry
CONSTANTS
  Handlers = {h1, h2}
  Submissions <- MCSubmissions
  Files <- MCFiles
  BadLine = BadLine
  Idle = Idle
INVARIANTS
  RunningCurveIsSafe
