SPECIFICATION Spec
CONSTANTS
  Segments = 3
  MaxCalls = 3
  None = None
INVARIANTS TypeOK CleanReuse FallbackDiscipline StreamingKept StatsAddUp NoWedge
PROPERTY PublishedRendered

