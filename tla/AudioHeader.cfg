SPECIFICATION Spec
CONSTANTS
  Sources <- MCHeaderSources
  NoBox = NoBox
  MaxTableEntries = 100
INVARIANT NoHoles
