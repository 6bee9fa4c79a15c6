SPECIFICATION Spec
CONSTANTS
  MaxStarts = 1
  ZT_RAW_DATA_BYTES_SIZE = 2
  SEQ_LIMIT = 10
  ServerSocketErrors = FALSE
  Clients = {"a", "b"}
  Files <- EmptyFiles
INVARIANT
  ReceivedFileIsWritten
