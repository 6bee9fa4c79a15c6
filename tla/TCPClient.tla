----------------------------- MODULE TCPClient -----------------------------
(***************************************************************************)
(* ZTransferTCPClient.initiate_transfer (src/client/tcp.py).  An action is *)
(* one iteration of its loop; packet 1 is the CREQ, and DATA starts at 2.  *)
(***************************************************************************)
EXTENDS TCPConnection

CONSTANT TCPFiles              \* the files the client may be called with
ASSUME TCPFilesAssumption == TCPFiles \subseteq Seq(Nat)

VARIABLES
  tcp_file,
  tcp_client_state,
  current_sequence_num,
  byte_position                \* current_byte_position

tcpClientVars == <<tcp_file, tcp_client_state, current_sequence_num, byte_position>>

\* RETURNED: the FIN was sent.  ABORTED: cleared and returned on an error.
\* CRASHED: an exception left initiate_transfer.
TCPClientStates ==
  {"INIT", "WAIT_ACK", "TRANSFER", "FIN", "RETURNED", "ABORTED", "CRASHED"}
TCPClientEnded == tcp_client_state \in {"RETURNED", "ABORTED", "CRASHED"}

TCP_CREQ_SEQ == 1

TCPClientInit ==
  /\ tcp_file \in TCPFiles
  /\ tcp_client_state = "INIT"
  /\ current_sequence_num = TCP_CREQ_SEQ
  /\ byte_position = 0

\* Seeded fault: the number of packets is announced, not that of the last one.
LastSeqUncorrected == NumDataPackets(Len(tcp_file))

TCPLastSeq == NumDataPackets(Len(tcp_file)) + 1

TCPConnReq ==
  [ZTConnReq(tcp_file) EXCEPT !.seq = TCP_CREQ_SEQ, !.last_seq = TCPLastSeq]

\* clear() and return, or an exception that ends the process: both close the
\* socket.
TCPClientEnds(state) ==
  /\ tcp_client_state' = state
  /\ Close("client")
  /\ UNCHANGED <<tcp_file, current_sequence_num, byte_position>>

-----------------------------------------------------------------------------
TCPClientStarts ==
  /\ tcp_client_state = "INIT"
  /\ link = "listening"
  /\ link' = "up"
  /\ to_tcp_server' = Append(to_tcp_server, TCPConnReq)
  /\ tcp_client_state' = "WAIT_ACK"
  /\ current_sequence_num' = current_sequence_num + 1
  /\ UNCHANGED <<tcp_file, byte_position, hung_up, to_tcp_client>>

\* No port of the pool is free, or the CREQ could not be sent.
TCPClientStartFails ==
  /\ TCPFaults
  /\ tcp_client_state = "INIT"
  /\ \/ UNCHANGED link
     \/ link = "listening" /\ link' = "broken"
  /\ TCPClientEnds("ABORTED")
  /\ UNCHANGED <<to_tcp_server, to_tcp_client>>

\* connect() raises, and nothing handles that: nobody listens yet, or the
\* network fails.
TCPClientIsRefused ==
  /\ tcp_client_state = "INIT"
  /\ link = "closed" \/ (link = "listening" /\ TCPFaults)
  /\ TCPClientEnds("CRASHED")
  /\ UNCHANGED <<link, to_tcp_server, to_tcp_client>>

\* Seeded fault: the client does not wait for the ACK.
SendBeforeAck ==
  /\ tcp_client_state = "WAIT_ACK"
  /\ tcp_client_state' = "TRANSFER"
  /\ UNCHANGED <<tcp_file, current_sequence_num, byte_position, linkVars>>

TCPClientGetsAck ==
  /\ tcp_client_state = "WAIT_ACK"
  /\ to_tcp_client # <<>>
  /\ Head(to_tcp_client) = ZTAck(TCP_CREQ_SEQ)
  /\ to_tcp_client' = Tail(to_tcp_client)
  /\ tcp_client_state' = "TRANSFER"
  /\ UNCHANGED <<tcp_file, current_sequence_num, byte_position, link, hung_up,
                 to_tcp_server>>

\* A CRC that fails leaves the packet unbound, and the warning about a packet
\* that is no ACK reads a field packets do not have: both raise.
TCPClientGetsMisfit ==
  /\ tcp_client_state = "WAIT_ACK"
  /\ to_tcp_client # <<>>
  /\ Head(to_tcp_client) # ZTAck(TCP_CREQ_SEQ)
  /\ TCPClientEnds(IF Head(to_tcp_client).ptype \in {"BAD_HEADER", "ACK"}
                   THEN "ABORTED" ELSE "CRASHED")
  /\ to_tcp_client' = Tail(to_tcp_client)
  /\ UNCHANGED <<link, to_tcp_server>>

TCPClientLosesLink ==
  /\ tcp_client_state = "WAIT_ACK"
  /\ LinkIsLost(to_tcp_client)
  /\ TCPClientEnds("CRASHED")
  /\ UNCHANGED <<link, to_tcp_server, to_tcp_client>>

-----------------------------------------------------------------------------
\* Seeded fault: the loop ends when the position reaches the end of the file.
LastPacketTooLate == Len(tcp_file) <= byte_position

\* A file whose size is a multiple of the chunk size ends in an empty packet.
IsLastTransferPacket ==
  Len(tcp_file) - byte_position < ZT_RAW_DATA_BYTES_SIZE

\* Seeded fault: the chunk is chosen by the packet's number as in UDP.
ChunkOfSeq == current_sequence_num

NextChunk == (byte_position \div ZT_RAW_DATA_BYTES_SIZE) + 1

TCPDataPacket ==
  [ZTData(tcp_file, NextChunk) EXCEPT !.seq = current_sequence_num]

TCPClientSendsData ==
  /\ tcp_client_state = "TRANSFER"
  /\ to_tcp_server' = Sent(to_tcp_server, TCPDataPacket, "server")
  /\ byte_position' =
       byte_position + (IF IsLastTransferPacket THEN 0 ELSE ZT_RAW_DATA_BYTES_SIZE)
  /\ tcp_client_state' = IF IsLastTransferPacket THEN "FIN" ELSE "TRANSFER"
  /\ current_sequence_num' = current_sequence_num + 1
  /\ UNCHANGED <<tcp_file, link, hung_up, to_tcp_client>>

TCPClientSendFails ==
  /\ tcp_client_state = "TRANSFER"
  /\ SendMayFail("server")
  /\ TCPClientEnds("ABORTED")
  /\ UNCHANGED <<link, to_tcp_server, to_tcp_client>>

\* Seeded fault: the connection is closed without a FIN packet.
FinishSilently ==
  /\ tcp_client_state = "FIN"
  /\ TCPClientEnds("RETURNED")
  /\ UNCHANGED <<link, to_tcp_server, to_tcp_client>>

TCPClientFinishes ==
  /\ tcp_client_state = "FIN"
  /\ to_tcp_server' = Sent(to_tcp_server, ZTFinish, "server")
  /\ TCPClientEnds("RETURNED")
  /\ UNCHANGED <<link, to_tcp_client>>

\* The sendall() of the FIN is the one that no try surrounds.
TCPClientFinishFails ==
  /\ tcp_client_state = "FIN"
  /\ SendMayFail("server")
  /\ TCPClientEnds("CRASHED")
  /\ UNCHANGED <<link, to_tcp_server, to_tcp_client>>

TCPClientStep ==
  \/ TCPClientStarts
  \/ TCPClientStartFails
  \/ TCPClientIsRefused
  \/ TCPClientGetsAck
  \/ TCPClientGetsMisfit
  \/ TCPClientSendsData
  \/ TCPClientSendFails
  \/ TCPClientFinishes
  \/ TCPClientFinishFails
=============================================================================
