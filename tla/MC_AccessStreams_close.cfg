\* the provider of MC_AccessStreams.cfg (two runs of up to two batches of
\* two results, channel capacity 2). Its goroutine may end up blocked for
\* good, which is what the property is about, so states with no step are
\* not reported as deadlocks.
CONSTANTS
  MaxHeight = 3
  EndHeight = 2
  MaxRuns = 2
  MaxBatches = 2
  MaxBatch = 2
  ChanCap = 2
SPECIFICATION Spec
PROPERTY CloseEndsRun
CHECK_DEADLOCK FALSE
