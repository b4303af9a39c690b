SPECIFICATION Spec
CONSTANTS
  Inodes = {a, b}
  MaxStamp = 1
  Threads = {t1, t2}
  Spans = {1, 2}
  MaxCalls = 1
INVARIANT OpenedOnce
