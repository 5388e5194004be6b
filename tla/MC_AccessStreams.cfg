\* Streamer: heights 1..3, end of data after 2; provider: two runs of up to
\* two batches of two results, channel capacity 2 (see the two modules)
CONSTANTS
  MaxHeight = 3
  EndHeight = 2
  MaxRuns = 2
  MaxBatches = 2
  MaxBatch = 2
  ChanCap = 2
SPECIFICATION Spec
INVARIANT TypeOK
INVARIANT ClosedOnlyWhenComplete
INVARIANT MessageIndicesConsecutive
INVARIANT ArgumentsAcceptedExactlyWhenWellFormed
PROPERTY AllAvailableDelivered
PROPERTY CancelEventuallyStops
