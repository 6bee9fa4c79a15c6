--------------------------- MODULE UDPServerOpen ---------------------------
(***************************************************************************)
(* The UDP server on its own, with several clients that send the packets   *)
(* of their files to it at any time, in any order and any number of times. *)
(* The server serves the first client whose CREQ arrives.  Packets carry   *)
(* no session: when a client was stopped and started again with another    *)
(* file, those of both come from one address.                              *)
(***************************************************************************)
EXTENDS UDPServer

CONSTANTS Clients,             \* the addresses of the clients
          Files,               \* the files they may want to send
          MaxStarts            \* how many of them a client may send
ASSUME FilesAssumption == Files \subseteq Seq(Nat)

VARIABLE client_files          \* the files of each client

vars == <<serverVars, toClient, client_files>>

\* What client c may send, and a packet the server has no use for.
SentBy(c) ==
  {ZTAck(CREQ_SEQ)} \cup
    UNION {{ZTConnReq(f)} \cup {ZTData(f, s) : s \in AllDataSeqs(LastDataSeq(Len(f)))} :
             f \in client_files[c]}

Init ==
  /\ ServerInit
  /\ client_files \in [Clients -> {fs \in SUBSET Files : Cardinality(fs) \in 1 .. MaxStarts}]

\* The network delivers a packet to a client, or loses it.
LeavesNetwork ==
  /\ \E pkt \in toClient : toClient' = toClient \ {pkt}
  /\ UNCHANGED <<serverVars, client_files>>

Ended == ServerEnded /\ UNCHANGED vars

Next ==
  \/ ServerStep /\ UNCHANGED client_files
  \/ \E c \in Clients : \E pkt \in SentBy(c) :
       ServerReceives(pkt, c) /\ UNCHANGED client_files
  \/ ServerDropsDamaged /\ UNCHANGED client_files
  \/ LeavesNetwork
  \/ Ended

Spec == Init /\ [][Next]_vars

-----------------------------------------------------------------------------
Accepted == request # NoRequest
StoredFrom == AllDataSeqs(request.last_seq) \ all_data_seqs

\* The types of the server's variables.
ServerTypeOK ==
  /\ server_state \in ServerStates
  /\ client_addr \in Clients \cup {NoAddr}
  /\ Accepted => /\ all_data_seqs \subseteq AllDataSeqs(request.last_seq)
                 /\ Len(buffer_bytearray) = request.data_size

\* Every stored chunk is one and the same chunk of a file of the client that
\* was accepted, cut to the place it has in the announced file, however the
\* packets of other clients and of a client that was started again interleave:
\* no chunk is shifted, put together from two, or written over another
\* (server/udp.py:119-126, 149-152, 182-187).
OnlyClientsBytes ==
  Accepted =>
    \A s \in StoredFrom : \E f \in client_files[client_addr] :
      /\ s \in AllDataSeqs(LastDataSeq(Len(f)))
      /\ \A i \in ChunkBytes(request.data_size, request.last_seq, s) :
           buffer_bytearray[i] = Padded(f, s)[i - ChunkStart(s)]

\* The server finishes, and sends FIN, only with the file of its client, or
\* with a mixture of the files of a client that was started again, which the
\* checksum only logs (server/udp.py:209-214).
FinishesWithFile ==
  server_state \in {"FIN", "RETURNED", "SAVED"} \/ ZTFinish \in toClient
    => \/ client_files[client_addr] = {buffer_bytearray}
       \/ \E f, g \in client_files[client_addr] : f # g

\* An ACK of a data packet is a promise: it leaves after the packet was stored
\* and the packet is never missing again (server/udp.py:182-190).
AckIsPromise ==
  \A pkt \in toClient :
    pkt.ptype = "ACK" /\ pkt.seq_to_ack # CREQ_SEQ => pkt.seq_to_ack \in StoredFrom

\* Once a client is accepted no CREQ, its own repeated or another client's,
\* changes whom the server serves or what is still missing.
FirstClientIsServed ==
  [][Accepted => /\ request' = request /\ client_addr' = client_addr
                 /\ all_data_seqs' \subseteq all_data_seqs]_vars

\* A completely received file is written, that of an empty file too
\* (server.py:28-29; "a reliable file transfer protocol", README.md:3).
ReceivedFileIsWritten ==
  server_state = "CRASHED" /\ Accepted => all_data_seqs # {}
=============================================================================
