----------------------------- MODULE TCPServer -----------------------------
(***************************************************************************)
(* ZTransferTCPServer.listen_for_transfer (src/server/tcp.py), with the    *)
(* lines of server.py and cli.py that call it and write the file.  An      *)
(* action is one iteration of its loop.  The bytes are appended in the     *)
(* order they arrive; only the packet announced as the last one is cut.    *)
(***************************************************************************)
EXTENDS TCPConnection

VARIABLES
  tcp_server_state,
  tcp_request,                 \* the CREQ, or [ptype |-> "none"]
  recv_bytes_data

tcpServerVars == <<tcp_server_state, tcp_request, recv_bytes_data>>

\* RETURNED, ABORTED: listen_for_transfer is over, by FIN or by an error.
\* SAVED, SAVED_CUT: the caller wrote what had arrived then.  CRASHED: an
\* exception left listen_for_transfer or its caller.
TCPServerStates ==
  {"INIT", "WAIT_CCREQ", "TRANSFER", "FIN", "RETURNED", "ABORTED", "SAVED",
   "SAVED_CUT", "CRASHED"}
TCPServerEnded == tcp_server_state \in {"SAVED", "SAVED_CUT", "CRASHED"}

TCPServerInit ==
  /\ tcp_server_state = "INIT"
  /\ tcp_request = [ptype |-> "none"]
  /\ recv_bytes_data = <<>>

TCPServerEnds(state) ==
  /\ tcp_server_state' = state
  /\ Close("server")
  /\ UNCHANGED <<tcp_request, recv_bytes_data>>

TCPServerListens ==
  /\ tcp_server_state = "INIT"
  /\ link = "closed"
  /\ link' = "listening"
  /\ UNCHANGED <<tcpServerVars, hung_up, to_tcp_server, to_tcp_client>>

\* No free port: the server returns without the profiler its caller reads.
TCPServerStartFails ==
  /\ TCPFaults
  /\ tcp_server_state = "INIT"
  /\ link = "closed"
  /\ TCPServerEnds("CRASHED")
  /\ UNCHANGED <<link, to_tcp_server, to_tcp_client>>

TCPServerAccepts ==
  /\ tcp_server_state = "INIT"
  /\ link \in {"up", "broken"}
  /\ tcp_server_state' = "WAIT_CCREQ"
  /\ UNCHANGED <<tcp_request, recv_bytes_data, linkVars>>

-----------------------------------------------------------------------------
\* A packet is taken from the head of the stream.
ReadsPacket == to_tcp_server' = Tail(to_tcp_server)

TCPServerGetsRequest(pkt) ==
  /\ tcp_server_state = "WAIT_CCREQ"
  /\ pkt.ptype = "CREQ"
  /\ ReadsPacket
  /\ tcp_request' = pkt
  /\ tcp_server_state' = "TRANSFER"
  /\ to_tcp_client' = Sent(to_tcp_client, ZTAck(pkt.seq), "client")
  /\ UNCHANGED <<recv_bytes_data, link, hung_up>>

\* sendall() of the ACK raises, and nothing handles that.
TCPServerAckFails(pkt) ==
  /\ tcp_server_state = "WAIT_CCREQ"
  /\ pkt.ptype = "CREQ"
  /\ SendMayFail("client")
  /\ ReadsPacket
  /\ tcp_request' = pkt
  /\ tcp_server_state' = "CRASHED"
  /\ Close("server")
  /\ UNCHANGED <<recv_bytes_data, link, to_tcp_client>>

\* The one or the other raises: the warning about another type, the packet
\* that a failed CRC leaves unbound, or, after the server returned because of
\* the header, the caller's average over no packets.
TCPServerGetsNoRequest(pkt) ==
  /\ tcp_server_state = "WAIT_CCREQ"
  /\ pkt.ptype # "CREQ"
  /\ ReadsPacket
  /\ TCPServerEnds("CRASHED")
  /\ UNCHANGED <<link, to_tcp_client>>

-----------------------------------------------------------------------------
\* data[:n] in Python, for an n that is not larger than the length.
Slice(data, n) == SubSeq(data, 1, IF n < 0 THEN Len(data) + n ELSE n)

\* Negative unless the size is a multiple of the chunk size: it says how much
\* of the last packet is padding.
LastDataPacketDataSize ==
  tcp_request.data_size - ZT_RAW_DATA_BYTES_SIZE * (tcp_request.last_seq - 1)

IsLastDataPacket(seq) == seq = tcp_request.last_seq

TCPServerGetsData(pkt) ==
  /\ tcp_server_state = "TRANSFER"
  /\ pkt.ptype = "DATA"
  /\ ReadsPacket
  /\ recv_bytes_data' =
       recv_bytes_data \o (IF IsLastDataPacket(pkt.seq)
                           THEN Slice(pkt.file_data, LastDataPacketDataSize)
                           ELSE pkt.file_data)
  /\ UNCHANGED <<tcp_server_state, tcp_request, link, hung_up, to_tcp_client>>

TCPServerGetsFin(pkt) ==
  /\ tcp_server_state = "TRANSFER"
  /\ pkt.ptype = "FIN"
  /\ ReadsPacket
  /\ tcp_server_state' = "FIN"
  /\ UNCHANGED <<tcp_request, recv_bytes_data, link, hung_up, to_tcp_client>>

TCPServerGetsMisfit(pkt) ==
  /\ tcp_server_state = "TRANSFER"
  /\ pkt.ptype \notin {"DATA", "FIN"}
  /\ ReadsPacket
  /\ TCPServerEnds(IF pkt \in Unreadable THEN "ABORTED" ELSE "CRASHED")
  /\ UNCHANGED <<link, to_tcp_client>>

TCPServerLosesLink ==
  /\ tcp_server_state \in {"WAIT_CCREQ", "TRANSFER"}
  /\ LinkIsLost(to_tcp_server)
  /\ TCPServerEnds("CRASHED")
  /\ UNCHANGED <<link, to_tcp_server, to_tcp_client>>

TCPServerCloses ==
  /\ tcp_server_state = "FIN"
  /\ TCPServerEnds("RETURNED")
  /\ UNCHANGED <<link, to_tcp_server, to_tcp_client>>

\* The caller writes what was received, whole or not; the command line logs a
\* checksum that does not match.
TCPFileIsWritten ==
  /\ \/ tcp_server_state = "RETURNED" /\ tcp_server_state' = "SAVED"
     \/ tcp_server_state = "ABORTED" /\ tcp_server_state' = "SAVED_CUT"
  /\ UNCHANGED <<tcp_request, recv_bytes_data, linkVars>>

TCPServerReceives(pkt) ==
  \/ TCPServerGetsRequest(pkt)
  \/ TCPServerAckFails(pkt)
  \/ TCPServerGetsNoRequest(pkt)
  \/ TCPServerGetsData(pkt)
  \/ TCPServerGetsFin(pkt)
  \/ TCPServerGetsMisfit(pkt)

TCPServerStep ==
  \/ TCPServerListens
  \/ TCPServerStartFails
  \/ TCPServerAccepts
  \/ to_tcp_server # <<>> /\ TCPServerReceives(Head(to_tcp_server))
  \/ TCPServerCloses
  \/ TCPFileIsWritten
=============================================================================
