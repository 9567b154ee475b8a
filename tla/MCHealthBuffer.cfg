\* What a gateway buffers, writes, reads and closes, beside one that contends.
SPECIFICATION Spec
CONSTANTS
  G1 = G1
  G2 = G2
  Replicas = {G1, G2}
  Kinds = {ok}
  FLUSH_AT = 2
  MAX_PENDING = 2
  CAS_ATTEMPTS = 2
  CloseRounds = 1
  MaxRecords <- RecordsDef
  MaxWrites = 2
  MaxReads <- ReadsDef
  Closers = {G1}
  MaxLosses <- LossesDef
INVARIANTS
  TypeOK
  ReadsItsOwn
  CloseLosesOneBatch
PROPERTIES
  ImplementsLog
  EventuallyWritten
