SPECIFICATION HSpec
CONSTANTS
  ZT_RAW_DATA_BYTES_SIZE = 2
  SEQ_LIMIT = 10
  File <- ThreeChunks
  MAX_RESENDS_BEFORE_TIMEOUT = 2
  WINDOW_SIZE_START = 1
  WINDOW_SIZE_INC_RAP = 2
  WINDOW_SIZE_INC_REG = 1
  WINDOW_SIZE_DEC_REG = 2
  FailedPacketsBound = 50
  ClientSocketErrors = FALSE
  ServerSocketErrors = FALSE
  Duplicates = FALSE
  SmallIntOrder = TRUE
INVARIANT
  GivesUpOnSilence
