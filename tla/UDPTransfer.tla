---------------------------- MODULE UDPTransfer ----------------------------
(***************************************************************************)
(* One UDP client and one UDP server of ZTransfer over a network that may  *)
(* lose, reorder, delay, damage and, when Duplicates is TRUE, duplicate    *)
(* datagrams.                                                              *)
(*                                                                         *)
(* A direction of the network is the set of packets that may still arrive. *)
(* With duplication a set says as much as a bag: a packet that stays after *)
(* it was delivered stands for every copy that was ever sent.              *)
(***************************************************************************)
EXTENDS UDPClient, UDPServer

CONSTANT Duplicates
ASSUME DuplicatesAssumption == Duplicates \in BOOLEAN

vars == <<clientVars, serverVars, toServer, toClient>>

ClientAddr == "client"
ServerPackets == {ZTAck(s) : s \in DataSeqs \cup {CREQ_SEQ}} \cup {ZTFinish}

Init == ClientInit /\ ServerInit

-----------------------------------------------------------------------------
(* The network                                                             *)

LeaveToServer(pkt) ==
  /\ pkt \in toServer
  /\ \/ toServer' = toServer \ {pkt}
     \/ Duplicates /\ UNCHANGED toServer

LeaveToClient(pkt) ==
  /\ pkt \in toClient
  /\ \/ toClient' = toClient \ {pkt}
     \/ Duplicates /\ UNCHANGED toClient

LoseToServer ==
  /\ \E pkt \in toServer : toServer' = toServer \ {pkt}
  /\ UNCHANGED <<clientVars, serverVars, toClient>>

LoseToClient ==
  /\ \E pkt \in toClient : toClient' = toClient \ {pkt}
  /\ UNCHANGED <<clientVars, serverVars, toServer>>

-----------------------------------------------------------------------------
(* The two programs on the network                                         *)

ClientActs == ClientStep /\ UNCHANGED <<serverVars, toClient>>

DeliverToClient(pkt) ==
  /\ LeaveToClient(pkt)
  /\ ClientReceives(pkt)
  /\ UNCHANGED serverVars

DeliverDamagedToClient ==
  /\ \E pkt \in toClient : LeaveToClient(pkt)
  /\ ClientDropsDamaged
  /\ UNCHANGED serverVars

ServerActs == ServerStep /\ UNCHANGED <<clientVars, toServer>>

DeliverToServer(pkt) ==
  /\ LeaveToServer(pkt)
  /\ ServerReceives(pkt, ClientAddr)
  /\ UNCHANGED clientVars

DeliverDamagedToServer ==
  /\ \E pkt \in toServer : LeaveToServer(pkt)
  /\ ServerDropsDamaged
  /\ UNCHANGED clientVars

\* The client is over, and the server is over too or waits without a timer
\* for packets that nobody will send: nothing happens any more.
NothingLeft ==
  /\ ClientEnded /\ timer = "off"
  /\ ServerEnded \/ (server_state \in {"WAIT_CCREQ", "TRANSFER"} /\ toServer = {})

Stopped == NothingLeft /\ UNCHANGED vars

Next ==
  \/ ClientActs
  \/ \E pkt \in toClient : DeliverToClient(pkt)
  \/ DeliverDamagedToClient
  \/ ServerActs
  \/ \E pkt \in toServer : DeliverToServer(pkt)
  \/ DeliverDamagedToServer
  \/ LoseToServer
  \/ LoseToClient
  \/ Stopped

Spec == Init /\ [][Next]_vars

\* The scheduling the code justifies: a program that can take a step takes
\* it, and an armed alarm goes off.  Of the network nothing is assumed.
ProgramFairness ==
  /\ WF_vars(ClientActs)
  /\ WF_vars(ServerActs)

\* A network that does not lose every copy of a packet that is sent again and
\* again, and that sometimes delivers it undamaged.
NetworkFairness ==
  /\ \A pkt \in ClientPackets : SF_vars(DeliverToServer(pkt))
  /\ \A pkt \in ServerPackets : SF_vars(DeliverToClient(pkt))

FairSpec == Spec /\ ProgramFairness

-----------------------------------------------------------------------------
(* Correctness                                                             *)

ClientTypeOK ==
  /\ client_state \in ClientStates
  /\ timer \in {"off", "creq", "rrecv"}
  /\ acked_packet_seqs \subseteq DataSeqs
  /\ session_sent_seqs \subseteq DataSeqs
  /\ session_acked_seqs \subseteq DataSeqs
  /\ acks_got \in BOOLEAN
  /\ server_disconnect_ctr \in 0 .. MAX_RESENDS_BEFORE_TIMEOUT
  /\ failed_packet_count \in 0 .. FailedPacketsBound
  /\ window_size \in Nat \ {0}
  /\ old_drop_factor \in Nat \X (Nat \ {0})
  /\ in_rapid_start \in BOOLEAN
  /\ in_first_rtt \in BOOLEAN
  /\ updated_window_size_in_rtt \in BOOLEAN
  /\ toServer \subseteq ClientPackets

ServerTypeOK ==
  /\ server_state \in ServerStates
  /\ all_data_seqs \subseteq DataSeqs
  /\ request \in {NoRequest, CreqPacket}
  /\ client_addr \in {NoAddr, ClientAddr}
  /\ buffer_bytearray \in Seq(Nat)
  /\ toClient \subseteq ServerPackets

\* The types of the two programs' variables and of the network.
TypeOK == ClientTypeOK /\ ServerTypeOK

\* The packets the server holds.
Stored == IF request = NoRequest THEN {} ELSE DataSeqs \ all_data_seqs

\* Whatever the client counts as delivered is in the server's buffer: an ACK
\* is sent after the store (server/udp.py:182-190), no late, repeated or
\* reordered ACK names a packet that was not stored, and none is un-stored.
AckedIsStored == acked_packet_seqs \subseteq Stored

\* A client that finishes without having given up on the server leaves a
\* server that holds the whole file, whether it saw every ACK or the server's
\* FIN (client/udp.py:318-322, 379-382).
FinishedIsDelivered ==
  /\ client_state \in {"FIN", "RETURNED"}
  /\ server_disconnect_ctr < MAX_RESENDS_BEFORE_TIMEOUT
  => request # NoRequest /\ all_data_seqs = {}

\* The bytes of every stored packet are the bytes of the file, the short last
\* chunk included, however often and in whatever order packets arrive.
StoredIsIntact ==
  \A s \in Stored :
    \A i \in ChunkBytes(Len(File), LastDataSeq(Len(File)), s) :
      buffer_bytearray[i] = File[i]

\* The checksum the server compares at the end (server/udp.py:209-214) always
\* matches: the mismatch that is only logged cannot happen in one session.
ChecksumMatches ==
  server_state \in {"FIN", "RETURNED", "SAVED"}
    => buffer_bytearray = request.checksum

\* What the server's states say about its variables.
ServerOrder ==
  /\ server_state \in {"INIT", "WAIT_CCREQ"} => request = NoRequest
  /\ server_state \in {"TRANSFER", "FIN", "RETURNED", "SAVED"} => request = CreqPacket
  /\ server_state \in {"FIN", "RETURNED", "SAVED"} => all_data_seqs = {}
  /\ request = NoRequest => toClient = {} /\ all_data_seqs = {}
  /\ request = CreqPacket => Len(buffer_bytearray) = Len(File)

\* What the server told the network is true, and stays true.
NetworkTruth ==
  /\ \A s \in DataSeqs : ZTAck(s) \in toClient => s \notin all_data_seqs
  /\ ZTFinish \in toClient => all_data_seqs = {}

\* What the client believes about the server is true.
ClientTruth ==
  /\ client_state \in {"RAPID_SEND", "RAPID_RECV", "FIN", "RETURNED"}
       => request = CreqPacket
  /\ acked_packet_seqs # {} => request = CreqPacket
  /\ acked_packet_seqs \cap all_data_seqs = {}
  /\ server_disconnect_ctr = MAX_RESENDS_BEFORE_TIMEOUT
       => client_state \in {"FIN", "RETURNED"} /\ timer = "off"
  /\ FinishedIsDelivered

\* The inductive invariant from which TypeOK, AckedIsStored and
\* FinishedIsDelivered follow: what both programs know of each other passes
\* through the packets under way, so these have to tell the truth as well
\* (client/udp.py:318-382 against server/udp.py:142-190, 208-220).
IInv == TypeOK /\ ServerOrder /\ NetworkTruth /\ ClientTruth

\* No FIN can reach a client that still waits for the ACK of its CREQ, where
\* it would raise an AttributeError (client/udp.py:201): the server cannot
\* finish a file that is not empty before that ACK arrived.
NoFinDuringHandshake ==
  DataSeqs # {} /\ client_state = "WAIT_CREQ_ACK" => ZTFinish \notin toClient

\* A CREQ that is repeated by the client or by the network never starts the
\* transfer again: the accepted request and what was stored stay
\* (server/udp.py:197-205).
RepeatedCreqIsHarmless ==
  [][request # NoRequest => /\ request' = request
                            /\ all_data_seqs' \subseteq all_data_seqs]_vars

\* However much is lost, damaged, delayed or reordered, a client that has
\* started to send comes to an end: an ACK that resets the count of silent
\* windows confirms one more packet (client/udp.py:318-322, 407-417).
SendingEnds == client_state = "RAPID_SEND" ~> ClientEnded

\* On a network that delivers what is sent often enough, the request of a
\* file that is not empty is answered.
RequestIsAnswered ==
  NetworkFairness
    => (client_state = "WAIT_CREQ_ACK" ~> client_state # "WAIT_CREQ_ACK")

\* On such a network, a client that does not give up makes the server save
\* the file.
FileIsSaved ==
  NetworkFairness
    => (client_state = "WAIT_CREQ_ACK"
          ~> \/ server_state = "SAVED"
             \/ server_disconnect_ctr = MAX_RESENDS_BEFORE_TIMEOUT)

\* What UDPClientOpen shows of the client against any peer is true of it on
\* this network: the server sends nothing but what any peer may send, and no
\* step of the server or of the network touches the client.
AnyPeer == INSTANCE UDPClientOpen WITH WindowBound <- 0
ClientMeetsAnyPeer == AnyPeer!Spec

\* What UDPServerOpen shows of the server among many clients is true of it
\* here: this client, however often it sends again, sends nothing but packets
\* of one file from one address.
ManyClients == INSTANCE UDPServerOpen WITH
  Clients <- {ClientAddr},
  Files <- {File},
  MaxStarts <- 1,
  client_files <- [c \in {ClientAddr} |-> {File}]
ServerMeetsManyClients == ManyClients!Spec

\* "premature finish, updated state to FIN" (client/udp.py:380): a client in
\* FIN finishes, it does not go back to sending.
FinIsFinal == [][client_state = "FIN" => client_state' # "RAPID_SEND"]_vars

\* "corrupt packet / send RSND" (the server's state "transfer" as README.md,
\* "RDT FSMs", draws it in rdt-client.jpg): while DATA packets, and no request,
\* are under way to a server in the middle of a transfer, it drops no damaged
\* one without asking for a packet again (server/udp.py:158-173).
DamagedIsAskedAgain ==
  server_state = "TRANSFER" /\ CreqPacket \notin toServer
    => ~ENABLED (/\ DeliverDamagedToServer
                 /\ \A pkt \in toClient' : pkt.ptype # "RSND")

-----------------------------------------------------------------------------
(* The transfer implements the abstract one                                *)

GaveUp == server_disconnect_ctr >= MAX_RESENDS_BEFORE_TIMEOUT

SenderOutcome ==
  CASE client_state = "RETURNED" /\ ~GaveUp -> "succeeded"
    [] client_state = "RETURNED" /\ GaveUp -> "failed"
    [] client_state \in {"ABORTED", "CRASHED"} -> "failed"
    [] OTHER -> "sending"

ReceiverOutcome ==
  CASE server_state = "SAVED" -> "saved"
    [] server_state = "CRASHED" -> "failed"
    [] server_state \in {"FIN", "RETURNED"} -> "complete"
    [] OTHER -> "receiving"

FT == INSTANCE FileTransfer WITH
  Chunks <- DataSeqs,
  Contents <- File,
  Nothing <- <<>>,
  stored <- Stored,
  confirmed <- acked_packet_seqs,
  sender <- SenderOutcome,
  receiver <- ReceiverOutcome,
  saved <- IF server_state = "SAVED" THEN buffer_bytearray ELSE <<>>

\* The UDP protocol on a bad network is a transfer of a file: a client that
\* returns without having given up succeeded, and what the server writes is
\* the file, each step in the order FileTransfer allows.
ImplementsFileTransfer == FT!Spec
=============================================================================
