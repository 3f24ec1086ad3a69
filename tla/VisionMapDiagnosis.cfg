CONSTANTS
  NImages = 2
  Stems = {s1, s2}
  Root = Root
  Nil = Nil
  MaxBoxes = 2
  Repeats = 2
  MaxTurns = 2
  Sizes <- MCSizes
  Offsets <- MCOffsets
  Widths <- MCWidths
  Unit = 2
SPECIFICATION Spec
SYMMETRY Symmetry
CHECK_DEADLOCK FALSE
INVARIANTS
  TypeOK
  SummaryCovers
  DetailsKept
  CropCovers
