\* A producer and two competing consumers, a ring of two bytes, every mode and two chunk sizes.
CONSTANTS
  Byte = {0, 1}
  Capacity = 2
  StreamConfigs <- Configs
  MaxChunk = 3
  PoolChunk = 1
  Writers = {w1}
  Readers = {r1, r2}
  Payloads <- ThreePayloads
SPECIFICATION FairSpec
INVARIANT NoLostWakeup
PROPERTY ImplementsQueue
PROPERTY WriteReturns
PROPERTY CloseReleases
