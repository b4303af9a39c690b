SPECIFICATION Spec
CONSTANTS
  Sources <- MCSources
  NoBox = NoBox
  MaxTableEntries = 100
INVARIANTS OneLattice SeamsAreRounding NothingMadeUp RefusedOnlyWhenShort AnchorsMissNothing PicturesFollow PicturesShown
