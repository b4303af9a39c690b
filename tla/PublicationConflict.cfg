SPECIFICATION Spec
CONSTANTS
  Publishers = {p1, p2}
  Contents = {a}
  Modes = {"parts"}
  Parts = 1
  Inodes = {f1, f2}
  NoInode = NoInode
  Absent = Absent
INVARIANT ConflictIsReal
SYMMETRY Symmetry
