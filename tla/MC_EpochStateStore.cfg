CONSTANTS
  b1 = b1
  b2 = b2
  e1 = e1
  e2 = e2
  r1 = r1
  r2 = r2
  None = None
  Blocks <- MCBlocks
  EntryIDs <- MCEntryIDs
  Readers <- MCReaders
  Shape <- MCShape
SPECIFICATION Spec
SYMMETRY MCSymmetry
INVARIANT TypeOK
INVARIANT ByBlockIDLinearizable
INVARIANT CachesCoherent
