SPECIFICATION FairSpec
CONSTANTS
  ZT_RAW_DATA_BYTES_SIZE = 2
  SEQ_LIMIT = 10
  File <- TwoChunks
  MAX_RESENDS_BEFORE_TIMEOUT = 2
  WINDOW_SIZE_START = 1
  WINDOW_SIZE_INC_RAP = 2
  WINDOW_SIZE_INC_REG = 1
  WINDOW_SIZE_DEC_REG = 2
  FailedPacketsBound = 0
  ClientSocketErrors = FALSE
  ServerSocketErrors = FALSE
  Duplicates = FALSE
PROPERTIES
  SendingEnds
  RequestIsAnswered
  FileIsSaved
