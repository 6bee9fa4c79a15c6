------------------------------ MODULE Packets ------------------------------
(***************************************************************************)
(* The packets of ZTransfer v5 (src/ztransfer/packets.py) and the way a    *)
(* file is cut into DATA packets and put together again.                   *)
(*                                                                         *)
(* A packet is a record with the fields its receiver reads.  A packet that *)
(* deserialize_packet rejects (CRC, magic, version, unknown type) or that  *)
(* is not 1000 bytes long has no record: every handler treats such a       *)
(* datagram alike, and an action of the handler says how.  CRC32 and       *)
(* SHA3-512 are taken to be collision free: a packet that verifies is one  *)
(* that was sent, and a file's checksum stands for the file.               *)
(***************************************************************************)
EXTENDS Integers, Sequences, FiniteSets

CONSTANTS
  ZT_RAW_DATA_BYTES_SIZE,   \* payload bytes of a packet (980)
  SEQ_LIMIT                 \* an ACK or RSND names a packet below it (2^32 - 1)

ASSUME ChunkSizeAssumption == ZT_RAW_DATA_BYTES_SIZE \in Nat \ {0}
ASSUME SeqLimitAssumption == SEQ_LIMIT \in Nat \ {0}

CREQ_SEQ == 0
DATA_SEQ_FIRST == 1

-----------------------------------------------------------------------------
(* Cutting a file into chunks                                              *)

NumDataPackets(size) ==
  (size \div ZT_RAW_DATA_BYTES_SIZE)
    + (IF size % ZT_RAW_DATA_BYTES_SIZE > 0 THEN 1 ELSE 0)

LastDataSeq(size) == DATA_SEQ_FIRST + NumDataPackets(size) - 1

AllDataSeqs(last_seq) == DATA_SEQ_FIRST .. last_seq

\* The file offset before the first byte of a DATA packet.
ChunkStart(seq) == (seq - 1) * ZT_RAW_DATA_BYTES_SIZE

\* struct.pack fills a short payload with zero bytes.
Padded(file, seq) ==
  [i \in 1 .. ZT_RAW_DATA_BYTES_SIZE |->
     IF ChunkStart(seq) + i <= Len(file) THEN file[ChunkStart(seq) + i] ELSE 0]

-----------------------------------------------------------------------------
(* Packets                                                                 *)

ZTConnReq(file) ==
  [ptype |-> "CREQ", seq |-> CREQ_SEQ, data_size |-> Len(file),
   last_seq |-> LastDataSeq(Len(file)), checksum |-> file]

ZTData(file, seq) ==
  [ptype |-> "DATA", seq |-> seq, file_data |-> Padded(file, seq)]

ZTAck(seq_to_ack)   == [ptype |-> "ACK", seq_to_ack |-> seq_to_ack]
ZTResend(seq_to_rsnd) == [ptype |-> "RSND", seq_to_rsnd |-> seq_to_rsnd]
ZTFinish == [ptype |-> "FIN"]

\* The range check of the client on an ACK or a RSND.
NamesData(seq) == DATA_SEQ_FIRST <= seq /\ seq < SEQ_LIMIT

-----------------------------------------------------------------------------
(* Putting the chunks together again                                       *)

\* The buffer positions the slice assignment for a DATA packet writes: up to
\* the end of the buffer for the last packet, one chunk for the others.
ChunkBytes(size, last_seq, seq) ==
  {i \in 1 .. size : /\ ChunkStart(seq) < i
                     /\ seq = last_seq \/ i <= seq * ZT_RAW_DATA_BYTES_SIZE}

\* Seeded fault: the slice starts at the packet's number instead of the one
\* before it, so that every chunk lands one chunk too far.
StoreChunkTooFar(buffer, last_seq, seq, file_data) ==
  [i \in DOMAIN buffer |->
     IF i - seq * ZT_RAW_DATA_BYTES_SIZE \in DOMAIN file_data
     THEN file_data[i - seq * ZT_RAW_DATA_BYTES_SIZE]
     ELSE buffer[i]]

StoreChunk(buffer, last_seq, seq, file_data) ==
  [i \in DOMAIN buffer |->
     IF i \in ChunkBytes(Len(buffer), last_seq, seq)
     THEN file_data[i - ChunkStart(seq)]
     ELSE buffer[i]]

EmptyBuffer(size) == [i \in 1 .. size |-> 0]
=============================================================================
