\* epochs 0..2 over heights 0..5 (see EpochQuery); trees of up to 6 blocks
CONSTANTS
  MaxEpoch = 2
  MaxHeight = 5
  MaxBlocks = 6
SPECIFICATION Spec
INVARIANT HeightBoundsMatchChain
INVARIANT NextEpochQueriesAgree
INVARIANT DescendantsExact
