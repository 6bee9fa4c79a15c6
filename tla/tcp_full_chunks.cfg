SPECIFICATION TCPSpec
CONSTANTS
  ZT_RAW_DATA_BYTES_SIZE = 2
  SEQ_LIMIT = 10
  TCPFiles <- FullChunks
  TCPFaults = FALSE
INVARIANT
  TCPSavedIsFile
CHECK_DEADLOCK FALSE
