SPECIFICATION Spec
CONSTANTS
  MaxStarts = 2
  ZT_RAW_DATA_BYTES_SIZE = 2
  SEQ_LIMIT = 10
  ServerSocketErrors = TRUE
  Clients = {"a", "b"}
  Files <- AllSizes
INVARIANTS
  ServerTypeOK
  OnlyClientsBytes
  FinishesWithFile
  AckIsPromise
PROPERTIES
  FirstClientIsServed
