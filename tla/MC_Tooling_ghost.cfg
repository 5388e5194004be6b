\* AuthorizationFixes: three accounts (two controllers, one, none), three
\* controllers, one member name (old and new member sets equal or not), one
\* --addresses entry. GhostRPC: three engine IDs (CollectionProvider first),
\* one submitted event, networks of both kinds. CheckpointStats: two
\* accounts, up to three payloads, a payload buffer of one, every flag
\* combination. CadenceMigrations: two accounts, every list of migrations.
CONSTANTS
  a1 = a1
  a2 = a2
  a3 = a3
  c1 = c1
  c2 = c2
  c3 = c3
  m1 = m1
  MaxTokens = 1
  CollectionProviderID = CollectionProviderID
  CollectionIngestID = CollectionIngestID
  ProtocolConsensusID = ProtocolConsensusID
  MaxSubmits = 1
  MaxPayloads = 3
  PayloadBuf = 1
  None = None
SPECIFICATION Spec
INVARIANT NewRegistersEveryChannel
