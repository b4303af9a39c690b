SPECIFICATION Spec
CONSTANTS
  Publishers = {p1, p2}
  Contents = {a, b}
  Modes = {"parts", "stream"}
  Parts = 2
  Inodes = {f1, f2, f3}
  NoInode = NoInode
  Absent = Absent
INVARIANTS NeverPartial NamesAccountedFor OkMeansPublished
PROPERTY WriteOnce
SYMMETRY Symmetry
