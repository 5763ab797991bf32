\* Two fields over a dense 3x2 space: the second field must start at r.lo.
CONSTANTS
  Rects <- MCDense
  BoxLo <- MCBoxLo
  BoxHi <- MCBoxHi2
  NumFields = 2
  FieldSize = 2
  MaxBytes = {2, 4, 12}
  SizeMod = 65536
SPECIFICATION Spec
INVARIANTS ExactlyOnce
