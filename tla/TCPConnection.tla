--------------------------- MODULE TCPConnection ---------------------------
(***************************************************************************)
(* The connection between the TCP client and the TCP server: two streams   *)
(* of packets, each read and written in units of 1000 bytes, that keep the *)
(* order and lose nothing until the link breaks.  An end that closed its   *)
(* socket has hung up: what it sent can still be read, and after that      *)
(* recv() returns no bytes, at once and for ever.                          *)
(***************************************************************************)
EXTENDS Packets

CONSTANT TCPFaults             \* may the link break, or carry packets that do not fit?
ASSUME TCPFaultsAssumption == TCPFaults \in BOOLEAN

VARIABLES
  link,                        \* "closed", "listening", "up" or "broken"
  hung_up,                     \* the ends whose socket was closed
  to_tcp_server,
  to_tcp_client

linkVars == <<link, hung_up, to_tcp_server, to_tcp_client>>

LinkInit ==
  /\ link = "closed"
  /\ hung_up = {}
  /\ to_tcp_server = <<>>
  /\ to_tcp_client = <<>>

\* sendall() to an end that is gone may raise, or leave the packet behind.
SendMayFail(receiver) == link = "broken" \/ receiver \in hung_up

\* Seeded fault: the packet stays in a buffer that is not flushed.
SentUnflushed(stream, pkt, receiver) == stream

Sent(stream, pkt, receiver) ==
  IF SendMayFail(receiver) THEN stream ELSE Append(stream, pkt)

Close(end) == hung_up' = hung_up \cup {end}

\* recv() raises once everything that arrived was read.
LinkIsLost(stream) == link = "broken" /\ stream = <<>>

\* What deserialize_packet rejects (BAD_CRC as damaged, BAD_HEADER as one of
\* another program or version), and packets no one of this repository sends.
Unreadable == {[ptype |-> "BAD_CRC"], [ptype |-> "BAD_HEADER"]}
MisfitsForServer == Unreadable \cup {ZTAck(0)}
MisfitsForClient == Unreadable \cup {ZTAck(0), ZTFinish}

LinkBreaks ==
  /\ TCPFaults
  /\ link = "up"
  /\ link' = "broken"
  /\ \E n \in 0 .. Len(to_tcp_server) : to_tcp_server' = SubSeq(to_tcp_server, 1, n)
  /\ \E n \in 0 .. Len(to_tcp_client) : to_tcp_client' = SubSeq(to_tcp_client, 1, n)
  /\ UNCHANGED hung_up

MisfitArrives ==
  /\ TCPFaults
  /\ \/ /\ to_tcp_server # <<>>
        /\ \E pkt \in MisfitsForServer :
             to_tcp_server' = <<pkt>> \o Tail(to_tcp_server)
        /\ UNCHANGED to_tcp_client
     \/ /\ to_tcp_client # <<>>
        /\ \E pkt \in MisfitsForClient :
             to_tcp_client' = <<pkt>> \o Tail(to_tcp_client)
        /\ UNCHANGED to_tcp_server
  /\ UNCHANGED <<link, hung_up>>
=============================================================================
