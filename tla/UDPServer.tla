----------------------------- MODULE UDPServer -----------------------------
(***************************************************************************)
(* ZTransferUDPServer.listen_for_transfer (src/server/udp.py): the         *)
(* receiver of a file, with the lines of server.py and cli.py that call it *)
(* and write the file.  An action is one iteration of the loop.  A handler *)
(* takes the packet and the address it came from; toClient holds the       *)
(* packets the server has sent and that may still arrive.                  *)
(***************************************************************************)
EXTENDS Packets

CONSTANT ServerSocketErrors          \* may bind() and sendto() fail?

VARIABLES
  server_state,
  all_data_seqs,               \* the packets that are still missing
  request,                     \* the CREQ that was accepted, or NoRequest
  client_addr,
  buffer_bytearray,
  toClient

serverVars == <<server_state, all_data_seqs, request, client_addr, buffer_bytearray>>

NoRequest == [ptype |-> "none"]
NoAddr == "none"

\* RETURNED: listen_for_transfer is over.  SAVED: the caller wrote the file.
\* CRASHED: an exception left listen_for_transfer or its caller.
ServerStates == {"INIT", "WAIT_CCREQ", "TRANSFER", "FIN", "RETURNED", "SAVED",
                 "CRASHED"}
ServerEnded == server_state \in {"SAVED", "CRASHED"}

ServerInit ==
  /\ server_state = "INIT"
  /\ all_data_seqs = {}
  /\ request = NoRequest
  /\ client_addr = NoAddr
  /\ buffer_bytearray = <<>>
  /\ toClient = {}

\* Seeded fault: an error that is logged hides that nothing is ever sent.
LogOnly(pkt) == UNCHANGED toClient

\* sendto() inside a try that only logs: the packet may not leave.
SendOrLog(pkt) ==
  \/ toClient' = toClient \cup {pkt}
  \/ ServerSocketErrors /\ UNCHANGED toClient

-----------------------------------------------------------------------------
ServerBinds ==
  /\ server_state = "INIT"
  /\ server_state' = "WAIT_CCREQ"
  /\ UNCHANGED <<all_data_seqs, request, client_addr, buffer_bytearray, toClient>>

\* No free port: the server returns without the profiler its caller reads.
ServerBindFails ==
  /\ ServerSocketErrors
  /\ server_state = "INIT"
  /\ server_state' = "CRASHED"
  /\ UNCHANGED <<all_data_seqs, request, client_addr, buffer_bytearray, toClient>>

-----------------------------------------------------------------------------
(* Waiting for a connection request                                        *)

\* Seeded fault: a request starts the transfer again.
AnyTimeForCreq == server_state \in {"WAIT_CCREQ", "TRANSFER"}

WaitsForCreq == server_state = "WAIT_CCREQ"

\* Seeded fault: the range of missing packets starts at the CREQ's number.
MissingFromZero(last_seq) == CREQ_SEQ .. last_seq

MissingAtFirst(last_seq) == AllDataSeqs(last_seq)

AcceptCreq(pkt, addr) ==
  /\ WaitsForCreq
  /\ pkt.ptype = "CREQ"
  /\ server_state' = "TRANSFER"
  /\ all_data_seqs' = MissingAtFirst(pkt.last_seq)
  /\ request' = pkt
  /\ client_addr' = addr
  /\ buffer_bytearray' = EmptyBuffer(pkt.data_size)
  /\ SendOrLog(ZTAck(pkt.seq))

IgnoreUntilCreq(pkt) ==
  /\ WaitsForCreq
  /\ pkt.ptype # "CREQ"
  /\ UNCHANGED <<serverVars, toClient>>

-----------------------------------------------------------------------------
(* The transfer                                                            *)

\* Seeded fault: the last packet is taken to be the last one to arrive.
LastIsStored == request.last_seq \notin all_data_seqs

NothingMissing == all_data_seqs = {}

TransferDone ==
  /\ server_state = "TRANSFER"
  /\ NothingMissing
  /\ server_state' = "FIN"
  /\ UNCHANGED <<all_data_seqs, request, client_addr, buffer_bytearray, toClient>>

\* The server waits in recvfrom() for a missing packet.
Transferring ==
  /\ server_state = "TRANSFER"
  /\ all_data_seqs # {}

\* Seeded fault: a packet behind the end of the file is accepted.
InRangeFromOne(seq) == 1 <= seq

InRange(seq) == 1 <= seq /\ seq <= request.last_seq

\* Seeded fault: the packets of every client are stored.
FromAnyone(addr) == TRUE

FromClient(addr) == addr = client_addr

\* A DATA packet is stored before it is acknowledged.
Store(pkt) ==
  /\ pkt.ptype = "DATA"
  /\ InRange(pkt.seq)
  /\ buffer_bytearray' =
       StoreChunk(buffer_bytearray, request.last_seq, pkt.seq, pkt.file_data)
  /\ all_data_seqs' = all_data_seqs \ {pkt.seq}
  /\ UNCHANGED <<request, client_addr>>

TransferData(pkt, addr) ==
  /\ Transferring
  /\ FromClient(addr)
  /\ Store(pkt)
  /\ toClient' = toClient \cup {ZTAck(pkt.seq)}
  /\ UNCHANGED server_state

\* The sendto() of a data ACK is the one that no try surrounds.
TransferDataAckFails(pkt, addr) ==
  /\ ServerSocketErrors
  /\ Transferring
  /\ FromClient(addr)
  /\ Store(pkt)
  /\ server_state' = "CRASHED"
  /\ UNCHANGED toClient

\* Seeded fault: a request that is repeated is answered with what is missing.
TransferCreqResends(pkt, addr) ==
  /\ Transferring
  /\ FromClient(addr)
  /\ pkt.ptype = "CREQ"
  /\ \E s \in all_data_seqs : SendOrLog(ZTResend(s))
  /\ UNCHANGED serverVars

\* The ACK of the request was lost: it is repeated, nothing else.
TransferCreq(pkt, addr) ==
  /\ Transferring
  /\ FromClient(addr)
  /\ pkt.ptype = "CREQ"
  /\ SendOrLog(ZTAck(pkt.seq))
  /\ UNCHANGED serverVars

\* A packet of another client, of another type or with a number out of range.
TransferDrops(pkt, addr) ==
  /\ Transferring
  /\ \/ ~FromClient(addr)
     \/ pkt.ptype \notin {"DATA", "CREQ"}
     \/ pkt.ptype = "DATA" /\ ~InRange(pkt.seq)
  /\ UNCHANGED <<serverVars, toClient>>

-----------------------------------------------------------------------------
(* The end                                                                 *)

\* A checksum that does not match is only logged.
ServerFinishes ==
  /\ server_state = "FIN"
  /\ server_state' = "RETURNED"
  /\ SendOrLog(ZTFinish)
  /\ UNCHANGED <<all_data_seqs, request, client_addr, buffer_bytearray>>

ProfiledPackets == AllDataSeqs(request.last_seq) \ all_data_seqs

\* The caller divides by the number of packets that were profiled, then
\* writes the file.
SaveFile ==
  /\ server_state = "RETURNED"
  /\ Cardinality(ProfiledPackets) # 0
  /\ server_state' = "SAVED"
  /\ UNCHANGED <<all_data_seqs, request, client_addr, buffer_bytearray, toClient>>

SaveFileFails ==
  /\ server_state = "RETURNED"
  /\ Cardinality(ProfiledPackets) = 0
  /\ server_state' = "CRASHED"
  /\ UNCHANGED <<all_data_seqs, request, client_addr, buffer_bytearray, toClient>>

-----------------------------------------------------------------------------
(* What the server does on its own, on a packet, and on a damaged packet   *)

ServerStep ==
  \/ ServerBinds
  \/ ServerBindFails
  \/ TransferDone
  \/ ServerFinishes
  \/ SaveFile
  \/ SaveFileFails

ServerReceives(pkt, addr) ==
  \/ AcceptCreq(pkt, addr)
  \/ IgnoreUntilCreq(pkt)
  \/ TransferData(pkt, addr)
  \/ TransferDataAckFails(pkt, addr)
  \/ TransferCreq(pkt, addr)
  \/ TransferDrops(pkt, addr)

ServerDropsDamaged ==
  /\ server_state \in {"WAIT_CCREQ", "TRANSFER"}
  /\ server_state = "TRANSFER" => all_data_seqs # {}
  /\ UNCHANGED <<serverVars, toClient>>
=============================================================================
