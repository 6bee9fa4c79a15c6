---------------------------- MODULE TCPTransfer ----------------------------
(***************************************************************************)
(* One TCP client and one TCP server of ZTransfer.  The client learns that *)
(* its request arrived and nothing else: it returns while the packets it   *)
(* sent are still in the stream.                                           *)
(***************************************************************************)
EXTENDS TCPClient, TCPServer

tcpVars == <<tcpClientVars, tcpServerVars, linkVars>>

TCPInit == TCPClientInit /\ TCPServerInit /\ LinkInit

TCPClientActs == TCPClientStep /\ UNCHANGED tcpServerVars
TCPServerActs == TCPServerStep /\ UNCHANGED tcpClientVars

TCPNext ==
  \/ TCPClientActs
  \/ TCPServerActs
  \/ TCPClientLosesLink /\ UNCHANGED tcpServerVars
  \/ TCPServerLosesLink /\ UNCHANGED tcpClientVars
  \/ LinkBreaks /\ UNCHANGED <<tcpClientVars, tcpServerVars>>
  \/ MisfitArrives /\ UNCHANGED <<tcpClientVars, tcpServerVars>>

TCPSpec == TCPInit /\ [][TCPNext]_tcpVars

\* A program that can take a step takes it.  Nothing says that an end learns
\* of a link that broke: no timeout is set.
TCPFairness == WF_tcpVars(TCPClientActs) /\ WF_tcpVars(TCPServerActs)
TCPFairSpec == TCPSpec /\ TCPFairness

-----------------------------------------------------------------------------
\* The types of the two programs' variables and of the streams.
TCPTypeOK ==
  /\ tcp_file \in TCPFiles
  /\ tcp_client_state \in TCPClientStates
  /\ current_sequence_num \in Nat
  /\ byte_position \in 0 .. Len(tcp_file)
  /\ tcp_server_state \in TCPServerStates
  /\ tcp_request \in {[ptype |-> "none"], TCPConnReq}
  /\ recv_bytes_data \in Seq(Nat)
  /\ link \in {"closed", "listening", "up", "broken"}
  /\ hung_up \subseteq {"client", "server"}

\* What the server makes of a file that arrives: the file, or, when its size is
\* a multiple of the chunk size, all but its last chunk and a chunk of zeros.
TCPResult(file) ==
  IF Len(file) % ZT_RAW_DATA_BYTES_SIZE # 0
  THEN file
  ELSE SubSeq(file, 1, Len(file) - ZT_RAW_DATA_BYTES_SIZE)
         \o EmptyBuffer(ZT_RAW_DATA_BYTES_SIZE)

\* At any time the server holds a beginning of its result, though the two
\* sides count packets and bytes each in their own way
\* (client/tcp.py:142-166 against server/tcp.py:110-111, 150-154).
ReceivedIsPrefix ==
  /\ Len(recv_bytes_data) <= Len(TCPResult(tcp_file))
  /\ recv_bytes_data = SubSeq(TCPResult(tcp_file), 1, Len(recv_bytes_data))

\* A server that got the FIN has all of its result, whatever broke or arrived
\* damaged before, and no byte more: a file whose size is no multiple of the
\* chunk size is whole.
FinishedIsWhole ==
  tcp_server_state \in {"FIN", "RETURNED", "SAVED"}
    => recv_bytes_data = TCPResult(tcp_file)

\* A side that reached the end of the other one's stream: recv() returns no
\* bytes, and the loop that collects 1000 of them never ends.
TCPServerWaits ==
  tcp_server_state \in {"WAIT_CCREQ", "TRANSFER"} /\ to_tcp_server = <<>>
TCPServerSpins == TCPServerWaits /\ "client" \in hung_up
TCPClientWaits == tcp_client_state = "WAIT_ACK" /\ to_tcp_client = <<>>
TCPClientSpins == TCPClientWaits /\ "server" \in hung_up

\* A client that waits for the ACK waits for a server that has still to read
\* its request, or that closed the connection, or on a link that broke; a
\* server that waits for a packet waits for a client that can still send one.
\* The two never wait for each other (client/tcp.py:103-124,
\* server/tcp.py:81-105).
NoMutualWait ==
  /\ TCPClientWaits =>
       \/ link = "broken" \/ "server" \in hung_up
       \/ tcp_server_state \in {"INIT", "WAIT_CCREQ"} /\ to_tcp_server # <<>>
  /\ TCPServerWaits =>
       \/ link = "broken" \/ "client" \in hung_up
       \/ ~TCPClientEnded /\ ~TCPClientWaits

\* Everything under way to the server is a packet it can use where it stands.
StreamFits ==
  \A i \in DOMAIN to_tcp_server : to_tcp_server[i] \notin MisfitsForServer

\* A client that returned without an error, which nobody ever confirmed to
\* it, leaves a server that reads all it sent, the FIN included, before it
\* sees that the connection is closed, and whose caller then writes the file
\* (which FinishedIsWhole describes).  Only a link that breaks prevents it, if
\* no packet that does not fit arrives (client/tcp.py:171-177,
\* server/tcp.py:155-162).
ReturnedIsReceived ==
  []StreamFits
    => (tcp_client_state = "RETURNED"
          ~> tcp_server_state = "SAVED" \/ link = "broken")

\* Both programs end, or spin on a connection that the other one closed, or
\* wait on a link that broke: neither hangs in any other way, and no fault
\* makes each of them wait for a packet of the other.
EndsOrSpins ==
  tcp_client_state = "WAIT_ACK"
    ~> /\ TCPClientEnded \/ TCPClientSpins \/ (TCPClientWaits /\ link = "broken")
       /\ TCPServerEnded \/ TCPServerSpins \/ (TCPServerWaits /\ link = "broken")

-----------------------------------------------------------------------------
\* The transfer implements the abstract one
TCPSenderOutcome ==
  CASE tcp_client_state = "INIT" -> "idle"
    [] tcp_client_state = "WAIT_ACK" -> "asking"
    [] tcp_client_state \in {"TRANSFER", "FIN"} -> "sending"
    [] tcp_client_state = "RETURNED" -> "returned"
    [] OTHER -> "failed"

TCPReceiverOutcome ==
  CASE tcp_server_state \in {"INIT", "WAIT_CCREQ"} -> "idle"
    [] tcp_server_state = "TRANSFER" -> "receiving"
    [] tcp_server_state \in {"FIN", "RETURNED"} -> "complete"
    [] tcp_server_state = "SAVED" -> "saved"
    [] tcp_server_state = "SAVED_CUT" -> "cut"
    [] OTHER -> "failed"

ST == INSTANCE StreamTransfer WITH
  Nothing <- <<>>,
  content <- TCPResult(tcp_file),
  sender <- TCPSenderOutcome,
  agreed <- tcp_request.ptype # "none",
  receiver <- TCPReceiverOutcome,
  received <- recv_bytes_data,
  saved <- IF tcp_server_state \in {"SAVED", "SAVED_CUT"}
           THEN recv_bytes_data ELSE <<>>

\* The TCP protocol is a transfer of a stream: the bytes arrive in order, the
\* server finishes only after the client returned, and the client sends only
\* what the server agreed to receive (client/tcp.py:80-177 and
\* server/tcp.py:66-168 together).
ImplementsStreamTransfer == ST!Spec

\* A completely received file is the file that was sent ("a reliable file
\* transfer protocol", README.md:3).
TCPSavedIsFile == tcp_server_state = "SAVED" => recv_bytes_data = tcp_file
=============================================================================
