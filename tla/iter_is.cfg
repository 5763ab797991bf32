\* Six elements, four valid masks (ready at construction or fetched by the
\* first step), two fields, SOA (block 6) and hybrid (blocks of 4 and 2).
CONSTANTS
  N = 6
  Masks <- MCMasks
  ReadyModes = {FALSE, TRUE}
  InstFieldSizes <- MCInstFieldSizes
  FieldIds <- MCFieldIds
  BlockSizes = {6, 4, 2}
  AllocOffset = 0
  ExtraElems = 0
  MaxBytes = {1, 2, 4, 6, 12}
SPECIFICATION Spec
INVARIANTS TypeOK ExactlyOnce ChunkIsContiguous
PROPERTIES ImplementsContract
