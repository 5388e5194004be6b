\* EpochMgrShutdown: epoch 0's bundle stored, epoch 1's transition queued.
\* BaseClient: three attempts per retry, accounts of 0..2 keys, key index 1.
\* FallbackLookup: one flow ID and two peer IDs, chains of up to three
\* translators; two blocks of up to two transactions, in every migration
\* state. BlockContext: every chain, heights around each boundary.
CONSTANTS
  MaxAttempts = 3
  MaxKeys = 2
  KeyIndex = 1
  MaxTranslators = 3
  f1 = f1
  p1 = p1
  p2 = p2
  b1 = b1
  b2 = b2
  t1 = t1
  t2 = t2
SPECIFICATION Spec
INVARIANT TypeOK
INVARIANT SealedOnlySuccess
INVARIANT HierarchicalFirstSuccess
INVARIANT ChainedViewsAgree
INVARIANT BlockHashAsExecuted
PROPERTY ShutdownCompletes
PROPERTY WaitForSealedTerminates
\* both lifecycles end: the engine's process exits after Done() or on a
\* thrown error, the client's caller once it has its answer
CHECK_DEADLOCK FALSE
