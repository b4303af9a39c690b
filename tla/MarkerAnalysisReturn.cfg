SPECIFICATION MCSpec
CONSTANTS
  a = a
  b = b
  Calls = {c1, c2}
  Inodes = {a, b}
  Duration <- MCDuration
  Keyframes = 2
  Checkpoint = 1
  MaxChanges = 2
  MaxRuns = 2
INVARIANT AlwaysRegenerated
SYMMETRY Symmetry
CHECK_DEADLOCK FALSE
