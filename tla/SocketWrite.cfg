SPECIFICATION FairSpec
CONSTANTS
  N_BYTES_PER_ROUND = 2
  SOCK_BUFFER_SIZE = 1
  Capacity = 2
  MaxWrites = 3
  MaxLength = 2
INVARIANTS TypeOK ByteStream ResolvedMeansSent
PROPERTY ConnectedWriteSettles
CHECK_DEADLOCK FALSE
