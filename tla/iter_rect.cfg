\* A 3x2x2 box, two fields: Rect in SOA (block 12) and hybrid (blocks of
\* 4, 3 and 2) layouts, HDF5 over a 3x2x3 dataset.
CONSTANTS
  Lo <- MCLo3
  Hi <- MCHi3
  InstFieldSizes <- MCInstFieldSizes
  FieldIds <- MCFieldIds
  BlockSizes = {12, 4, 3, 2}
  AllocOffset = 0
  MaxBytes = {1, 2, 3, 4, 6, 12, 24}
SPECIFICATION MCSpec
INVARIANTS TypeOK ChunkIsContiguous
PROPERTIES ImplementsContract HDF5ImplementsContract
