\* One field over a sparse space of three rectangles in a 4x4 box.
CONSTANTS
  Rects <- MCSparse
  BoxLo <- MCBoxLo
  BoxHi <- MCBoxHi3
  NumFields = 1
  FieldSize = 2
  MaxBytes = {1, 2, 4, 6, 8, 12, 24}
  SizeMod = 65536
SPECIFICATION Spec
INVARIANTS TypeOK ExactlyOnce ChunkIsContiguous
