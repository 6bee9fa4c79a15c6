------------------------------ MODULE Session ------------------------------
(***************************************************************************)
(* client.py and server.py: each runs its side of a TCP transfer and then  *)
(* its side of a UDP transfer.  Nothing but the two transfers themselves   *)
(* keeps the programs in step: the UDP client may send while the server    *)
(* still reads the TCP stream, and its port is not bound.                  *)
(***************************************************************************)
EXTENDS UDPTransfer, TCPTransfer

sessionVars == <<vars, tcpVars>>

TCPClientReturned == tcp_client_state \in {"RETURNED", "ABORTED"}

\* Seeded fault: the UDP server is called only after a FIN.
FileWrittenAfterFin == tcp_server_state = "SAVED"

\* Seeded fault: the UDP server is called while the TCP server runs.
FileStillReceived == tcp_server_state \in TCPServerStates \ {"INIT", "CRASHED"}

TCPFileWritten == tcp_server_state \in {"SAVED", "SAVED_CUT"}

\* A step of the UDP transfer: the client is not called before the TCP client
\* returned, with an error or without, the server not before the TCP file was
\* written.
InUDP(Step) ==
  /\ Step
  /\ client_state = "INIT" /\ client_state' # "INIT" => TCPClientReturned
  /\ server_state = "INIT" /\ server_state' # "INIT" => TCPFileWritten
  /\ UNCHANGED tcpVars

InTCP(Step) == Step /\ UNCHANGED vars

SessionInit == Init /\ TCPInit
SessionNext == InTCP(TCPNext) \/ InUDP(Next)
SessionSpec == SessionInit /\ [][SessionNext]_sessionVars

SessionFairness ==
  /\ WF_sessionVars(InTCP(TCPClientActs))
  /\ WF_sessionVars(InTCP(TCPServerActs))
  /\ WF_sessionVars(InUDP(ClientActs))
  /\ WF_sessionVars(InUDP(ServerActs))
SessionFairSpec == SessionSpec /\ SessionFairness

\* As NetworkFairness: what is sent often enough gets through.
SessionNetworkFairness ==
  /\ \A pkt \in ClientPackets : SF_sessionVars(InUDP(DeliverToServer(pkt)))
  /\ \A pkt \in ServerPackets : SF_sessionVars(InUDP(DeliverToClient(pkt)))

-----------------------------------------------------------------------------
\* The TCP server never returns to its caller: it waits in accept(), where no
\* timeout is set, spins on a closed connection, does not learn of a broken
\* one, or ended with an exception.
TCPServerIsStuck ==
  \/ tcp_server_state = "INIT" /\ TCPClientEnded
  \/ TCPServerSpins
  \/ TCPServerWaits /\ link = "broken"
  \/ tcp_server_state = "CRASHED"

\* The first answer the UDP client gets is also the first word on the TCP
\* file: it was written, and it is what was sent unless the transfer was cut
\* short or the size is a multiple of the chunk size (server.py:14-24).
UDPAnswerConfirmsTCP ==
  client_state \in {"RAPID_SEND", "RAPID_RECV", "FIN", "RETURNED"}
    => /\ TCPFileWritten
       /\ tcp_server_state = "SAVED" => FinishedIsWhole

\* A UDP client that repeats its CREQ to a port that is not bound yet does
\* not do so for ever, even after a TCP transfer that failed: the server gets
\* there, unless it never returns from the TCP transfer (client.py:23-32,
\* server.py:15-24).
UDPServerIsCalled ==
  SessionNetworkFairness
    => (client_state = "WAIT_CREQ_ACK"
          ~> client_state # "WAIT_CREQ_ACK" \/ TCPServerIsStuck)

\* After a TCP client that returned without an error the UDP file is saved
\* too, unless the link broke, the TCP server got a packet that does not fit,
\* or the UDP client gives up.
SecondFileIsSaved ==
  SessionNetworkFairness
    => (tcp_client_state = "RETURNED"
          ~> \/ server_state = "SAVED" \/ GaveUp
             \/ tcp_server_state = "CRASHED"
             \/ TCPServerWaits /\ link = "broken")
=============================================================================
