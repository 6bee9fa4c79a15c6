------------------------ MODULE UDPRefinementProofs ------------------------
(***************************************************************************)
(* Proofs that rest on the invariant of UDPTransferProofs: the transfer is *)
(* an abstract one, and no FIN reaches a client that waits for the ACK of  *)
(* its CREQ.                                                               *)
(***************************************************************************)
EXTENDS UDPTransferProofs

-----------------------------------------------------------------------------
(* The handshake                                                           *)

\* A client that waits for the ACK of its CREQ has sent no DATA, so that the
\* server can have stored none.
HandshakeInv ==
  client_state \in {"INIT", "WAIT_CREQ_ACK"}
    => /\ toServer \subseteq {CreqPacket}
       /\ request = CreqPacket => all_data_seqs = DataSeqs

\* The client sends only CREQs until it leaves the handshake, and never
\* returns to it.
LEMMA HandshakeClient ==
  ASSUME HandshakeInv, UNCHANGED serverVars,
         \/ ClientStep
         \/ WaitDamaged
         \/ \E pkt \in toClient : ClientReceives(pkt)
         \/ UNCHANGED clientVars /\ toServer' \subseteq toServer
  PROVE  HandshakeInv'
<1>0. request' = request /\ all_data_seqs' = all_data_seqs
  BY DEF serverVars
<1>1. CASE ClientStarts \/ ClientStartFails \/ CREQTimeout \/ WaitDamaged
           \/ \E pkt \in toClient : WaitOtherAck(pkt)
  <2>1. client_state \in {"INIT", "WAIT_CREQ_ACK"}
    BY <1>1 DEF ClientStarts, ClientStartFails, CREQTimeout, WaitDamaged, WaitOtherAck
  <2>2. RequestConnection \/ RequestFails
    BY <1>1 DEF ClientStarts, ClientStartFails, CREQTimeout, WaitDamaged, WaitOtherAck
  <2>3. toServer' \subseteq toServer \cup {CreqPacket}
    BY <2>2 DEF RequestConnection, RequestFails
  <2> QED
    BY <1>0, <2>1, <2>3 DEF HandshakeInv
<1>2. CASE UNCHANGED clientVars /\ toServer' \subseteq toServer
  BY <1>0, <1>2 DEF HandshakeInv, clientVars
<1>3. CASE \/ RapidSendNothingLeft \/ RapidSendWindow \/ RapidSendFails
           \/ RapidRecvAllAcked \/ RapidRecvWindowAcked \/ RRecvTimeout
           \/ ClientFinishes \/ AlarmAfterReturn
  <2>1. client_state' \notin {"INIT", "WAIT_CREQ_ACK"}
    BY <1>3
    DEF RapidSendNothingLeft, RapidSendWindow, RapidSendFails, Abort,
        RapidRecvAllAcked, RapidRecvWindowAcked, RRecvTimeout, HandleRRecvTimeout,
        StateAfterTimeout, ClientFinishes, AlarmAfterReturn
  <2> QED
    BY <2>1 DEF HandshakeInv
<1>4. ASSUME NEW pkt \in toClient,
             \/ WaitCreqAck(pkt) \/ WaitUnexpected(pkt) \/ RapidRecvOutOfRange(pkt)
             \/ RapidRecvAck(pkt) \/ RapidRecvRsnd(pkt) \/ RapidRecvFin(pkt)
             \/ RapidRecvUnexpected(pkt) \/ RRecvTimeoutInAck(pkt)
      PROVE  HandshakeInv'
  <2>1. client_state' \notin {"INIT", "WAIT_CREQ_ACK"}
    <3>1. CASE WaitCreqAck(pkt) \/ WaitUnexpected(pkt) \/ RapidRecvFin(pkt)
               \/ RapidRecvUnexpected(pkt)
      BY <3>1
      DEF WaitCreqAck, WaitUnexpected, RapidRecvFin, RapidRecvUnexpected
    <3>2. CASE RapidRecvOutOfRange(pkt) \/ RapidRecvAck(pkt) \/ RapidRecvRsnd(pkt)
      <4>1. client_state = "RAPID_RECV" /\ client_state' = client_state
        BY <3>2
        DEF RapidRecvOutOfRange, RapidRecvDiscards, RapidRecvAck, RapidRecvRsnd,
            Receiving, clientVars
      <4> QED
        BY <4>1
    <3>3. CASE RRecvTimeoutInAck(pkt)
      BY <3>3 DEF RRecvTimeoutInAck, HandleRRecvTimeout, StateAfterTimeout
    <3> QED
      BY <1>4, <3>1, <3>2, <3>3
  <2> QED
    BY <2>1 DEF HandshakeInv
<1> QED
  BY <1>1, <1>2, <1>3, <1>4 DEF ClientStep, ClientReceives

\* A server that gets only CREQs stores nothing.
LEMMA HandshakeServer ==
  ASSUME IInv, HandshakeInv, UNCHANGED clientVars, toServer' \subseteq toServer,
         ServerStep \/ \E pkt \in toServer : ServerReceives(pkt, ClientAddr)
  PROVE  HandshakeInv'
<1> SUFFICES ASSUME client_state \in {"INIT", "WAIT_CREQ_ACK"}
             PROVE  /\ toServer' \subseteq {CreqPacket}
                    /\ request' = CreqPacket => all_data_seqs' = DataSeqs
  BY DEF HandshakeInv, clientVars
<1>1. toServer \subseteq {CreqPacket}
  BY DEF HandshakeInv
<1>2. CASE ServerStep
  BY <1>1, <1>2, ServerStepKeeps DEF HandshakeInv, IInv, TypeOK
<1>3. CASE ServerReceives(CreqPacket, ClientAddr)
  <2>1. CASE AcceptCreq(CreqPacket, ClientAddr)
    <3>1. all_data_seqs' = AllDataSeqs(CreqPacket.last_seq)
      BY <2>1 DEF AcceptCreq, MissingAtFirst
    <3>2. all_data_seqs' = DataSeqs
      BY <3>1, RequestFacts DEF DataSeqs
    <3> QED
      BY <1>1, <3>2
  <2>2. CASE ~AcceptCreq(CreqPacket, ClientAddr)
    <3>1. UNCHANGED serverVars
      BY <1>3, <2>2, RequestFacts
      DEF ServerReceives, IgnoreUntilCreq, TransferData, TransferDataAckFails, Store,
          TransferCreq, TransferDrops
    <3> QED
      BY <1>1, <3>1 DEF serverVars, HandshakeInv
  <2> QED
    BY <2>1, <2>2
<1> QED
  BY <1>1, <1>2, <1>3

\* No FIN can reach a client in the handshake of a file that is not empty,
\* however long the ACK of its CREQ is lost.
THEOREM NeverFinDuringHandshake == Spec => []NoFinDuringHandshake
<1>1. Init => HandshakeInv
  BY RequestFacts DEF Init, ClientInit, ServerInit, HandshakeInv
<1>2. IInv /\ HandshakeInv /\ [Next]_vars => HandshakeInv'
  <2> SUFFICES ASSUME IInv, HandshakeInv, [Next]_vars PROVE HandshakeInv'
    OBVIOUS
  <2>1. CASE ClientActs
    BY <2>1, HandshakeClient DEF ClientActs
  <2>2. CASE \E pkt \in toClient : DeliverToClient(pkt)
    BY <2>2, HandshakeClient DEF DeliverToClient
  <2>3. CASE DeliverDamagedToClient
    BY <2>3, HandshakeClient
    DEF DeliverDamagedToClient, ClientDropsDamaged, RapidRecvDiscards
  <2>4. CASE ServerActs
    BY <2>4, HandshakeServer DEF ServerActs
  <2>5. CASE \E pkt \in toServer : DeliverToServer(pkt)
    BY <2>5, HandshakeServer DEF DeliverToServer, LeaveToServer
  <2>6. CASE DeliverDamagedToServer \/ LoseToServer \/ LoseToClient \/ UNCHANGED vars
    <3>1. UNCHANGED <<clientVars, serverVars>> /\ toServer' \subseteq toServer
      BY <2>6 DEF DeliverDamagedToServer, LeaveToServer, ServerDropsDamaged,
                  LoseToServer, LoseToClient, vars
    <3> QED
      BY <3>1, HandshakeClient
  <2> QED
    BY <2>1, <2>2, <2>3, <2>4, <2>5, <2>6 DEF Next, Stopped
<1>3. IInv /\ HandshakeInv => NoFinDuringHandshake
  BY DEF IInv, TypeOK, ServerTypeOK, ServerOrder, NetworkTruth, HandshakeInv,
         NoFinDuringHandshake
<1> QED
  BY <1>1, <1>2, <1>3, InvariantHolds, PTL DEF Spec

-----------------------------------------------------------------------------
(* The refinement                                                          *)

\* What the receiver has written.
Saved == IF server_state = "SAVED" THEN buffer_bytearray ELSE <<>>

\* What a step of the client may look like from outside.
SenderMoves ==
  \/ UNCHANGED <<acked_packet_seqs, SenderOutcome>>
  \/ /\ SenderOutcome = "sending" /\ SenderOutcome' = SenderOutcome
     /\ \E c \in Stored : acked_packet_seqs' = acked_packet_seqs \cup {c}
  \/ /\ SenderOutcome = "sending" /\ SenderOutcome' = "succeeded"
     /\ Stored = DataSeqs /\ UNCHANGED acked_packet_seqs
  \/ /\ SenderOutcome # "failed" /\ SenderOutcome' = "failed"
     /\ UNCHANGED acked_packet_seqs

\* What a step of the server may look like from outside.
ReceiverMoves ==
  \/ UNCHANGED <<Stored, ReceiverOutcome, Saved>>
  \/ /\ ReceiverOutcome = "receiving" /\ ReceiverOutcome' = ReceiverOutcome
     /\ \E c \in DataSeqs : Stored' = Stored \cup {c}
     /\ UNCHANGED Saved
  \/ /\ ReceiverOutcome = "receiving" /\ ReceiverOutcome' = "complete"
     /\ Stored = DataSeqs /\ UNCHANGED <<Stored, Saved>>
  \/ /\ ReceiverOutcome = "receiving" /\ ReceiverOutcome' = "failed"
     /\ \E s \in {Stored} \cup {Stored \cup {c} : c \in DataSeqs} : Stored' = s
     /\ UNCHANGED Saved
  \/ /\ ReceiverOutcome = "complete" /\ ReceiverOutcome' = "saved"
     /\ Saved' = File /\ UNCHANGED Stored
  \/ /\ ReceiverOutcome = "complete" /\ ReceiverOutcome' = "failed"
     /\ DataSeqs = {} /\ UNCHANGED <<Stored, Saved>>

\* The outcomes of both ends by their states.
LEMMA Outcomes ==
  /\ client_state \notin {"RETURNED", "ABORTED", "CRASHED"} => SenderOutcome = "sending"
  /\ client_state = "RETURNED" => SenderOutcome = IF GaveUp THEN "failed" ELSE "succeeded"
  /\ client_state \in {"ABORTED", "CRASHED"} => SenderOutcome = "failed"
  /\ server_state = "SAVED" => ReceiverOutcome = "saved"
  /\ server_state = "CRASHED" => ReceiverOutcome = "failed"
  /\ server_state \in {"FIN", "RETURNED"} => ReceiverOutcome = "complete"
  /\ server_state \in {"INIT", "WAIT_CCREQ", "TRANSFER"} => ReceiverOutcome = "receiving"
  BY DEF SenderOutcome, ReceiverOutcome

\* The same of the next state.
LEMMA NextOutcomes ==
  /\ client_state' \notin {"RETURNED", "ABORTED", "CRASHED"} => SenderOutcome' = "sending"
  /\ client_state' = "RETURNED" => SenderOutcome' = IF GaveUp' THEN "failed" ELSE "succeeded"
  /\ client_state' \in {"ABORTED", "CRASHED"} => SenderOutcome' = "failed"
  /\ server_state' = "SAVED" => ReceiverOutcome' = "saved"
  /\ server_state' = "CRASHED" => ReceiverOutcome' = "failed"
  /\ server_state' \in {"FIN", "RETURNED"} => ReceiverOutcome' = "complete"
  /\ server_state' \in {"INIT", "WAIT_CCREQ", "TRANSFER"} => ReceiverOutcome' = "receiving"
  BY DEF SenderOutcome, ReceiverOutcome

\* Every step of the client is one the abstract sender may take: an ACK names
\* a stored packet, and it returns without having given up only when all of
\* them are stored.
LEMMA SenderSteps ==
  ASSUME IInv,
         \/ ClientStep
         \/ ClientDropsDamaged
         \/ \E pkt \in toClient : ClientReceives(pkt)
  PROVE  SenderMoves
<1> USE Outcomes, NextOutcomes
<1>1. CASE ClientStarts \/ ClientStartFails \/ CREQTimeout \/ WaitDamaged
           \/ \E pkt \in toClient : WaitOtherAck(pkt)
  <2>1. client_state \in {"INIT", "WAIT_CREQ_ACK"}
    BY <1>1 DEF ClientStarts, ClientStartFails, CREQTimeout, WaitDamaged, WaitOtherAck
  <2>2. RequestConnection \/ RequestFails
    BY <1>1 DEF ClientStarts, ClientStartFails, CREQTimeout, WaitDamaged, WaitOtherAck
  <2>3. client_state' \in {"WAIT_CREQ_ACK", "ABORTED"} /\ UNCHANGED acked_packet_seqs
    BY <2>2 DEF RequestConnection, RequestFails, Abort, transferVars, ackVars
  <2> QED
    BY <2>1, <2>3 DEF SenderMoves
<1>2. CASE RapidSendNothingLeft \/ RapidSendWindow \/ RapidSendFails
           \/ RapidRecvAllAcked \/ RapidRecvWindowAcked \/ RRecvTimeout
  <2>1. client_state \in {"RAPID_SEND", "RAPID_RECV", "FIN"}
    BY <1>2
    DEF RapidSendNothingLeft, RapidSendWindow, RapidSendFails, CloseWindow,
        RapidRecvAllAcked, RapidRecvWindowAcked, RRecvTimeout
  <2>2. client_state' \in {"RAPID_SEND", "RAPID_RECV", "FIN", "ABORTED"}
    BY <1>2
    DEF RapidSendNothingLeft, RapidSendWindow, RapidSendFails, Abort,
        RapidRecvAllAcked, RapidRecvWindowAcked, RRecvTimeout, HandleRRecvTimeout,
        StateAfterTimeout
  <2>3. UNCHANGED acked_packet_seqs
    BY <1>2
    DEF RapidSendNothingLeft, RapidSendWindow, RapidSendFails, CloseWindow,
        RapidRecvAllAcked, RapidRecvWindowAcked, RRecvTimeout, transferVars, ackVars
  <2> QED
    BY <2>1, <2>2, <2>3 DEF SenderMoves
<1>3. CASE ClientFinishes
  <2>1. /\ client_state = "FIN" /\ client_state' = "RETURNED"
        /\ UNCHANGED <<acked_packet_seqs, server_disconnect_ctr>>
    BY <1>3 DEF ClientFinishes, transferVars, ackVars
  <2>2. GaveUp' = GaveUp
    BY <2>1 DEF GaveUp
  <2>3. CASE ~GaveUp
    <3>1. server_disconnect_ctr < MAX_RESENDS_BEFORE_TIMEOUT
      BY <2>3, WindowAssumption DEF GaveUp, IInv, TypeOK, ClientTypeOK
    <3>2. request # NoRequest /\ all_data_seqs = {}
      BY <2>1, <3>1 DEF IInv, ClientTruth, FinishedIsDelivered
    <3>3. Stored = DataSeqs
      BY <3>2 DEF Stored
    <3> QED
      BY <2>1, <2>2, <2>3, <3>3 DEF SenderMoves
  <2> QED
    BY <2>1, <2>2, <2>3 DEF SenderMoves
<1>4. CASE AlarmAfterReturn
  <2>1. /\ client_state \in {"RETURNED", "ABORTED"} /\ client_state' = "CRASHED"
        /\ UNCHANGED acked_packet_seqs
    BY <1>4 DEF AlarmAfterReturn, transferVars, ackVars
  <2> QED
    BY <2>1 DEF SenderMoves
<1>5. ASSUME NEW pkt \in toClient,
             \/ WaitCreqAck(pkt) \/ WaitUnexpected(pkt)
             \/ RapidRecvFin(pkt) \/ RapidRecvUnexpected(pkt)
      PROVE  SenderMoves
  <2>1. /\ client_state \in {"WAIT_CREQ_ACK", "RAPID_RECV"}
        /\ client_state' \in {"RAPID_SEND", "FIN", "ABORTED"}
        /\ UNCHANGED acked_packet_seqs
    BY <1>5
    DEF WaitCreqAck, WaitUnexpected, RapidRecvFin, RapidRecvUnexpected, Receiving,
        transferVars, ackVars
  <2> QED
    BY <2>1 DEF SenderMoves
<1>6. CASE RapidRecvDiscards \/ \E pkt \in toClient : RapidRecvOutOfRange(pkt)
  <2>1. /\ client_state = "RAPID_RECV" /\ client_state' = client_state
        /\ UNCHANGED acked_packet_seqs
    BY <1>6
    DEF RapidRecvOutOfRange, RapidRecvDiscards, Receiving, clientVars, transferVars, ackVars
  <2> QED
    BY <2>1 DEF SenderMoves
<1>7. ASSUME NEW pkt \in toClient,
             RapidRecvAck(pkt) \/ RapidRecvRsnd(pkt) \/ RRecvTimeoutInAck(pkt)
      PROVE  SenderMoves
  <2>1. pkt \in ServerPackets /\ request = CreqPacket
    BY DEF IInv, TypeOK, ServerTypeOK, ServerOrder
  <2>2. ~IsDataRsnd(pkt) /\ IsDataAck(pkt)
    BY <1>7, <2>1, ServerAck DEF RapidRecvAck, RapidRecvRsnd, RRecvTimeoutInAck
  <2>3. pkt.seq_to_ack \in Stored
    BY <2>1, <2>2, ServerAck, RequestFacts DEF IInv, NetworkTruth, Stored
  <2>4. acked_packet_seqs' = acked_packet_seqs \cup {pkt.seq_to_ack}
    BY <1>7, <2>2 DEF RapidRecvAck, RapidRecvRsnd, RRecvTimeoutInAck, Confirmed
  <2>5. /\ client_state = "RAPID_RECV"
        /\ client_state' \in {"RAPID_RECV", "RAPID_SEND", "FIN"}
    BY <1>7
    DEF RapidRecvAck, RapidRecvRsnd, RRecvTimeoutInAck, Receiving,
        HandleRRecvTimeout, StateAfterTimeout
  <2> QED
    BY <2>3, <2>4, <2>5 DEF SenderMoves
<1> QED
  BY <1>1, <1>2, <1>3, <1>4, <1>5, <1>6, <1>7
  DEF ClientStep, ClientReceives, ClientDropsDamaged

\* A packet that is stored is one of the file's.
LEMMA StoredMoves ==
  ASSUME IInv, BufferTruth, NEW pkt \in toServer, request = CreqPacket, Store(pkt)
  PROVE  \E c \in DataSeqs : Stored' = Stored \cup {c}
<1>1. /\ pkt.seq \in DataSeqs /\ all_data_seqs' = all_data_seqs \ {pkt.seq}
      /\ request' = request
  BY StoreKeeps
<1>2. Stored' = Stored \cup {pkt.seq}
  BY <1>1, RequestFacts DEF Stored
<1> QED
  BY <1>1, <1>2

\* Every step of the server on its own is one the abstract receiver may take.
LEMMA ReceiverSteps ==
  ASSUME IInv, BufferTruth, ServerStep
  PROVE  ReceiverMoves
<1> USE Outcomes, NextOutcomes
<1>1. UNCHANGED <<all_data_seqs, request, buffer_bytearray>> /\ UNCHANGED Stored
  BY DEF ServerStep, ServerBinds, ServerBindFails, TransferDone, ServerFinishes,
         SaveFile, SaveFileFails, Stored
<1>2. CASE ServerBinds
  BY <1>1, <1>2 DEF ServerBinds, ReceiverMoves, Saved
<1>3. CASE ServerBindFails
  BY <1>1, <1>3 DEF ServerBindFails, ReceiverMoves, Saved
<1>4. CASE TransferDone
  <2>1. server_state = "TRANSFER" /\ server_state' = "FIN" /\ all_data_seqs = {}
    BY <1>4 DEF TransferDone, NothingMissing
  <2>2. Stored = DataSeqs
    BY <2>1, RequestFacts DEF IInv, ServerOrder, Stored
  <2> QED
    BY <1>1, <2>1, <2>2 DEF ReceiverMoves, Saved
<1>5. CASE ServerFinishes
  BY <1>1, <1>5 DEF ServerFinishes, ReceiverMoves, Saved
<1>6. CASE SaveFile
  <2>1. server_state = "RETURNED" /\ server_state' = "SAVED"
    BY <1>6 DEF SaveFile
  <2>2. buffer_bytearray = File
    BY <2>1, CompleteIsFile
  <2> QED
    BY <1>1, <2>1, <2>2 DEF ReceiverMoves, Saved
<1>7. CASE SaveFileFails
  <2>1. /\ request = CreqPacket /\ all_data_seqs = {}
        /\ server_state = "RETURNED" /\ server_state' = "CRASHED"
    BY <1>7 DEF SaveFileFails, IInv, ServerOrder
  <2>2. ProfiledPackets = DataSeqs
    BY <2>1, RequestFacts DEF ProfiledPackets, DataSeqs
  <2>3. DataSeqs = {}
    BY <1>7, <2>2, DataSeqsFacts, FS_EmptySet DEF SaveFileFails
  <2> QED
    BY <1>1, <2>1, <2>3 DEF ReceiverMoves, Saved
<1> QED
  BY <1>2, <1>3, <1>4, <1>5, <1>6, <1>7 DEF ServerStep

\* Every packet makes the server take a step the abstract receiver may take.
LEMMA ReceiverReceives ==
  ASSUME IInv, BufferTruth, NEW pkt \in toServer, ServerReceives(pkt, ClientAddr)
  PROVE  ReceiverMoves
<1> USE Outcomes, NextOutcomes
<1>0. server_state # "TRANSFER" \/ request = CreqPacket
  BY DEF IInv, ServerOrder
<1>1. CASE AcceptCreq(pkt, ClientAddr)
  <2>1. server_state = "WAIT_CCREQ" /\ server_state' = "TRANSFER" /\ pkt.ptype = "CREQ"
    BY <1>1 DEF AcceptCreq, WaitsForCreq
  <2>2. pkt = CreqPacket
    BY <2>1, ClientPacket DEF IInv, TypeOK, ClientTypeOK
  <2>3. request' = CreqPacket /\ all_data_seqs' = AllDataSeqs(CreqPacket.last_seq)
    BY <1>1, <2>2 DEF AcceptCreq, MissingAtFirst
  <2>4. all_data_seqs' = DataSeqs
    BY <2>3, RequestFacts DEF DataSeqs
  <2>5. Stored = {} /\ Stored' = {}
    BY <2>1, <2>3, <2>4, RequestFacts DEF Stored, IInv, ServerOrder
  <2> QED
    BY <2>1, <2>5 DEF ReceiverMoves, Saved
<1>2. CASE IgnoreUntilCreq(pkt) \/ TransferCreq(pkt, ClientAddr)
           \/ TransferDrops(pkt, ClientAddr)
  <2>1. UNCHANGED <<server_state, all_data_seqs, request, buffer_bytearray>>
    BY <1>2 DEF IgnoreUntilCreq, TransferCreq, TransferDrops, serverVars
  <2>2. UNCHANGED <<Stored, ReceiverOutcome, Saved>>
    BY <2>1 DEF Stored, ReceiverOutcome, Saved
  <2> QED
    BY <2>2 DEF ReceiverMoves
<1>3. CASE TransferData(pkt, ClientAddr)
  <2>1. server_state = "TRANSFER" /\ server_state' = "TRANSFER" /\ Store(pkt)
    BY <1>3 DEF TransferData, Transferring
  <2>2. \E c \in DataSeqs : Stored' = Stored \cup {c}
    BY <1>0, <2>1, StoredMoves
  <2> QED
    BY <2>1, <2>2 DEF ReceiverMoves, Saved
<1>4. CASE TransferDataAckFails(pkt, ClientAddr)
  <2>1. server_state = "TRANSFER" /\ server_state' = "CRASHED" /\ Store(pkt)
    BY <1>4 DEF TransferDataAckFails, Transferring
  <2>2. \E c \in DataSeqs : Stored' = Stored \cup {c}
    BY <1>0, <2>1, StoredMoves
  <2> QED
    BY <2>1, <2>2 DEF ReceiverMoves, Saved
<1> QED
  BY <1>1, <1>2, <1>3, <1>4 DEF ServerReceives

\* For every file and every setting of the windows, the UDP protocol on a
\* network that loses, damages, delays, reorders and duplicates is an abstract
\* transfer: it succeeds only when every chunk is stored, what is saved is the
\* file, and a server that was complete fails to save only an empty file, in
\* the division of its caller's report.
THEOREM ImplementsAbstractTransfer == Spec => ImplementsFileTransfer
<1>1. Init => FT!Init
  <2> SUFFICES ASSUME Init PROVE FT!Init
    OBVIOUS
  <2>1. SenderOutcome = "sending" /\ ReceiverOutcome = "receiving"
    BY Outcomes DEF Init, ClientInit, ServerInit
  <2> QED
    BY <2>1 DEF Init, ClientInit, ServerInit, FT!Init, Stored
<1>2. IInv /\ BufferTruth /\ [Next]_vars => [FT!Next]_(FT!vars)
  <2> SUFFICES ASSUME IInv, BufferTruth, [Next]_vars PROVE [FT!Next]_(FT!vars)
    OBVIOUS
  <2>1. ASSUME UNCHANGED serverVars, SenderMoves PROVE [FT!Next]_(FT!vars)
    <3>1. UNCHANGED <<Stored, ReceiverOutcome, Saved>>
      BY <2>1 DEF serverVars, Stored, ReceiverOutcome, Saved
    <3> QED
      BY <2>1, <3>1
      DEF SenderMoves, FT!Next, FT!vars, FT!Confirm, FT!SenderSucceeds, FT!SenderFails, Saved
  <2>2. ASSUME UNCHANGED clientVars, ReceiverMoves PROVE [FT!Next]_(FT!vars)
    <3>1. UNCHANGED <<acked_packet_seqs, SenderOutcome>>
      BY <2>2 DEF clientVars, transferVars, ackVars, SenderOutcome, GaveUp
    <3> QED
      BY <2>2, <3>1
      DEF ReceiverMoves, FT!Next, FT!vars, FT!Store, FT!ReceiverCompletes,
          FT!ReceiverFails, FT!Save, FT!SaveFails, Saved
  <2>3. CASE ClientActs
    BY <2>1, <2>3, SenderSteps DEF ClientActs
  <2>4. CASE \E pkt \in toClient : DeliverToClient(pkt)
    BY <2>1, <2>4, SenderSteps DEF DeliverToClient
  <2>5. CASE DeliverDamagedToClient
    BY <2>1, <2>5, SenderSteps DEF DeliverDamagedToClient
  <2>6. CASE ServerActs
    BY <2>2, <2>6, ReceiverSteps DEF ServerActs
  <2>7. CASE \E pkt \in toServer : DeliverToServer(pkt)
    BY <2>2, <2>7, ReceiverReceives DEF DeliverToServer
  <2>8. CASE DeliverDamagedToServer \/ LoseToServer \/ LoseToClient \/ UNCHANGED vars
    <3>1. UNCHANGED <<clientVars, serverVars>>
      BY <2>8 DEF DeliverDamagedToServer, ServerDropsDamaged, LoseToServer,
                  LoseToClient, vars
    <3>2. ReceiverMoves
      BY <3>1 DEF ReceiverMoves, serverVars, Stored, ReceiverOutcome, Saved
    <3> QED
      BY <2>2, <3>1, <3>2
  <2> QED
    BY <2>3, <2>4, <2>5, <2>6, <2>7, <2>8 DEF Next, Stopped
<1> QED
  BY <1>1, <1>2, InvariantHolds, PTL DEF Spec, ImplementsFileTransfer, FT!Spec

-----------------------------------------------------------------------------
(* The two programs on their own                                           *)

\* The client of UDPClientOpen counts, numbers and packs as this one does.
LEMMA SameClientData ==
  /\ \A S : AnyPeer!Cardinality(S) = Cardinality(S)
  /\ AnyPeer!CreqPacket = CreqPacket
  /\ AnyPeer!DataSeqs = DataSeqs
  /\ AnyPeer!ToSendSeqs = ToSendSeqs
  /\ \A f, s : AnyPeer!ZTData(f, s) = ZTData(f, s)
<1>1. \A S : AnyPeer!Cardinality(S) = Cardinality(S)
  BY DEF Cardinality, AnyPeer!Cardinality
<1>2. AnyPeer!CreqPacket = CreqPacket
  BY DEF CreqPacket, AnyPeer!CreqPacket, ZTConnReq, AnyPeer!ZTConnReq, CREQ_SEQ,
        AnyPeer!CREQ_SEQ, LastDataSeq, AnyPeer!LastDataSeq, NumDataPackets,
        AnyPeer!NumDataPackets, DATA_SEQ_FIRST, AnyPeer!DATA_SEQ_FIRST
<1>3. AnyPeer!DataSeqs = DataSeqs
  BY DEF DataSeqs, AnyPeer!DataSeqs, LastDataSeq, AnyPeer!LastDataSeq, NumDataPackets,
        AnyPeer!NumDataPackets, AllDataSeqs, AnyPeer!AllDataSeqs, DATA_SEQ_FIRST,
        AnyPeer!DATA_SEQ_FIRST
<1>4. AnyPeer!ToSendSeqs = ToSendSeqs
  BY <1>3 DEF ToSendSeqs, AnyPeer!ToSendSeqs
<1>5. \A f, s : AnyPeer!ZTData(f, s) = ZTData(f, s)
  BY DEF ZTData, AnyPeer!ZTData, Padded, AnyPeer!Padded, ChunkStart, AnyPeer!ChunkStart
<1> QED
  BY <1>1, <1>2, <1>3, <1>4, <1>5

\* And it updates, closes and sends its windows alike.
LEMMA SameWindows ==
  /\ \A size : AnyPeer!Windows(size) = Windows(size)
  /\ AnyPeer!CountFailed <=> CountFailed
  /\ \A sa : UpdateWindowSize(sa) => AnyPeer!UpdateWindowSize(sa)
  /\ CloseWindow => AnyPeer!CloseWindow
<1> USE SameClientData
<1>1. \A size : AnyPeer!Windows(size) = Windows(size)
  BY DEF Windows, AnyPeer!Windows, Smaller, AnyPeer!Smaller
<1>2. AnyPeer!CountFailed <=> CountFailed
  BY DEF CountFailed, AnyPeer!CountFailed, Smaller, AnyPeer!Smaller
<1>3. ASSUME NEW sa, UpdateWindowSize(sa) PROVE AnyPeer!UpdateWindowSize(sa)
  BY <1>3
    DEF UpdateWindowSize, AnyPeer!UpdateWindowSize, DropFactor, AnyPeer!DropFactor,
        Improved, AnyPeer!Improved, LessLoss, AnyPeer!LessLoss, WindowDecreased,
        AnyPeer!WindowDecreased, Larger, AnyPeer!Larger, WindowIncreased,
        AnyPeer!WindowIncreased
<1>4. CloseWindow => AnyPeer!CloseWindow
  BY <1>2, <1>3
    DEF CloseWindow, AnyPeer!CloseWindow, WindowUpdateDue, AnyPeer!WindowUpdateDue,
        windowVars, AnyPeer!windowVars
<1> QED
  BY <1>1, <1>2, <1>3, <1>4

\* What this client does when an alarm goes off, that one does.
LEMMA SameTimeout ==
  ASSUME NEW sa, HandleRRecvTimeout(sa)
  PROVE  AnyPeer!HandleRRecvTimeout(sa)
  BY SameWindows
    DEF HandleRRecvTimeout, AnyPeer!HandleRRecvTimeout, DisconnectCtr,
        AnyPeer!DisconnectCtr, StateAfterTimeout, AnyPeer!StateAfterTimeout,
        UpdateIsMarked, AnyPeer!UpdateIsMarked, windowVars, AnyPeer!windowVars

\* What this client does on its own, that one does.
LEMMA SameClientStep == ClientStep => AnyPeer!ClientStep
<1>1. ClientStarts \/ ClientStartFails \/ CREQTimeout
        => AnyPeer!ClientStarts \/ AnyPeer!ClientStartFails \/ AnyPeer!CREQTimeout
  BY SameClientData
    DEF ClientStarts, AnyPeer!ClientStarts, ClientStartFails, AnyPeer!ClientStartFails,
        CREQTimeout, AnyPeer!CREQTimeout, RequestConnection, AnyPeer!RequestConnection,
        RequestFails, AnyPeer!RequestFails, Abort, AnyPeer!Abort, RequestAlarm,
        AnyPeer!RequestAlarm, transferVars, AnyPeer!transferVars, ackVars,
        AnyPeer!ackVars, windowVars, AnyPeer!windowVars
<1>2. RapidSendNothingLeft => AnyPeer!RapidSendNothingLeft
  BY SameClientData, SameWindows
    DEF RapidSendNothingLeft, AnyPeer!RapidSendNothingLeft, ackVars, AnyPeer!ackVars,
        windowVars, AnyPeer!windowVars
<1>3. RapidSendWindow => AnyPeer!RapidSendWindow
  BY SameClientData, SameWindows
    DEF RapidSendWindow, AnyPeer!RapidSendWindow, WindowAlarm, AnyPeer!WindowAlarm
<1>4. RapidSendFails => AnyPeer!RapidSendFails
  BY SameClientData, SameWindows
    DEF RapidSendFails, AnyPeer!RapidSendFails, Abort, AnyPeer!Abort
<1>5. RRecvTimeout => AnyPeer!RRecvTimeout
  BY SameTimeout DEF RRecvTimeout, AnyPeer!RRecvTimeout
<1>6. RapidRecvAllAcked \/ RapidRecvWindowAcked \/ ClientFinishes \/ AlarmAfterReturn
        => \/ AnyPeer!RapidRecvAllAcked \/ AnyPeer!RapidRecvWindowAcked
           \/ AnyPeer!ClientFinishes \/ AnyPeer!AlarmAfterReturn
  BY SameClientData
    DEF RapidRecvAllAcked, AnyPeer!RapidRecvAllAcked, RapidRecvWindowAcked,
        AnyPeer!RapidRecvWindowAcked, ClientFinishes, AnyPeer!ClientFinishes,
        AlarmAfterReturn, AnyPeer!AlarmAfterReturn, transferVars, AnyPeer!transferVars,
        ackVars, AnyPeer!ackVars, windowVars, AnyPeer!windowVars
<1> QED
  BY <1>1, <1>2, <1>3, <1>4, <1>5, <1>6 DEF ClientStep, AnyPeer!ClientStep

\* What this client does on a packet, that one does.
LEMMA SameClientReceives ==
  ASSUME NEW pkt, ClientReceives(pkt)
  PROVE  AnyPeer!ClientReceives(pkt)
<1>1. WaitOtherAck(pkt) \/ WaitCreqAck(pkt) \/ WaitUnexpected(pkt)
        => \/ AnyPeer!WaitOtherAck(pkt) \/ AnyPeer!WaitCreqAck(pkt)
           \/ AnyPeer!WaitUnexpected(pkt)
  BY SameClientData
    DEF WaitOtherAck, AnyPeer!WaitOtherAck, WaitCreqAck, AnyPeer!WaitCreqAck,
        WaitUnexpected, AnyPeer!WaitUnexpected, RequestConnection,
        AnyPeer!RequestConnection, RequestFails, AnyPeer!RequestFails, Abort,
        AnyPeer!Abort, RequestAlarm, AnyPeer!RequestAlarm, CREQ_SEQ, AnyPeer!CREQ_SEQ,
        transferVars, AnyPeer!transferVars, ackVars, AnyPeer!ackVars, windowVars,
        AnyPeer!windowVars
<1>2. ASSUME \/ RapidRecvOutOfRange(pkt) \/ RapidRecvAck(pkt) \/ RapidRecvRsnd(pkt)
             \/ RapidRecvFin(pkt) \/ RapidRecvUnexpected(pkt)
      PROVE  \/ AnyPeer!RapidRecvOutOfRange(pkt) \/ AnyPeer!RapidRecvAck(pkt)
             \/ AnyPeer!RapidRecvRsnd(pkt) \/ AnyPeer!RapidRecvFin(pkt)
             \/ AnyPeer!RapidRecvUnexpected(pkt)
  BY <1>2, SameClientData
    DEF RapidRecvOutOfRange, AnyPeer!RapidRecvOutOfRange, RapidRecvAck,
        AnyPeer!RapidRecvAck, RapidRecvRsnd, AnyPeer!RapidRecvRsnd, RapidRecvFin,
        AnyPeer!RapidRecvFin, RapidRecvUnexpected, AnyPeer!RapidRecvUnexpected,
        RapidRecvDiscards, AnyPeer!RapidRecvDiscards, Receiving, AnyPeer!Receiving,
        KeepsWindow, AnyPeer!KeepsWindow, Confirmed, AnyPeer!Confirmed, OutOfRange,
        AnyPeer!OutOfRange, IsDataAck, AnyPeer!IsDataAck, IsDataRsnd,
        AnyPeer!IsDataRsnd, NamesData, AnyPeer!NamesData, DATA_SEQ_FIRST,
        AnyPeer!DATA_SEQ_FIRST, clientVars, AnyPeer!clientVars, transferVars,
        AnyPeer!transferVars, ackVars, AnyPeer!ackVars, windowVars, AnyPeer!windowVars
<1>3. RRecvTimeoutInAck(pkt) => AnyPeer!RRecvTimeoutInAck(pkt)
  BY SameClientData, SameTimeout
    DEF RRecvTimeoutInAck, AnyPeer!RRecvTimeoutInAck, Receiving, AnyPeer!Receiving,
        Confirmed, AnyPeer!Confirmed, IsDataAck, AnyPeer!IsDataAck, IsDataRsnd,
        AnyPeer!IsDataRsnd, NamesData, AnyPeer!NamesData, DATA_SEQ_FIRST,
        AnyPeer!DATA_SEQ_FIRST
<1> QED
  BY <1>1, <1>2, <1>3 DEF ClientReceives, AnyPeer!ClientReceives

\* What this client does on a damaged packet, that one does.
LEMMA SameClientDrops == ClientDropsDamaged => AnyPeer!ClientDropsDamaged
  BY SameClientData
    DEF ClientDropsDamaged, AnyPeer!ClientDropsDamaged, WaitDamaged,
        AnyPeer!WaitDamaged, RapidRecvDiscards, AnyPeer!RapidRecvDiscards, Receiving,
        AnyPeer!Receiving, RequestConnection, AnyPeer!RequestConnection, RequestFails,
        AnyPeer!RequestFails, Abort, AnyPeer!Abort, RequestAlarm, AnyPeer!RequestAlarm,
        clientVars, AnyPeer!clientVars, transferVars, AnyPeer!transferVars, ackVars,
        AnyPeer!ackVars, windowVars, AnyPeer!windowVars

\* What the server sends, any peer may send.
LEMMA ServerIsAPeer ==
  ASSUME NEW pkt \in ServerPackets
  PROVE  pkt \in AnyPeer!PeerPackets /\ AnyPeer!MaySend(pkt)
  BY SameClientData
  DEF ServerPackets, ZTAck, ZTFinish, CREQ_SEQ, AnyPeer!PeerPackets, AnyPeer!PeerSeqs,
      AnyPeer!ZTAck, AnyPeer!ZTFinish, AnyPeer!CREQ_SEQ, AnyPeer!MaySend

\* The client on this network behaves as it does against any peer: what was
\* proved of UDPClientOpen, for whatever a peer may send, holds of it.
THEOREM ClientMeetsPeer == Spec => ClientMeetsAnyPeer
<1>1. Init => AnyPeer!ClientInit
  BY DEF Init, ClientInit, AnyPeer!ClientInit
<1>2. IInv /\ [Next]_vars => [AnyPeer!Next]_(AnyPeer!clientVars)
  <2> SUFFICES ASSUME IInv, [Next]_vars PROVE [AnyPeer!Next]_(AnyPeer!clientVars)
    OBVIOUS
  <2>1. CASE ClientActs
    BY <2>1, SameClientStep DEF ClientActs, AnyPeer!Next
  <2>2. ASSUME NEW pkt \in toClient, DeliverToClient(pkt)
        PROVE  AnyPeer!Next
    <3>1. pkt \in ServerPackets /\ ClientReceives(pkt)
      BY <2>2 DEF DeliverToClient, IInv, TypeOK, ServerTypeOK
    <3> QED
      BY <3>1, SameClientReceives, ServerIsAPeer DEF AnyPeer!Next
  <2>3. CASE DeliverDamagedToClient
    BY <2>3, SameClientDrops DEF DeliverDamagedToClient, AnyPeer!Next
  <2>4. CASE \/ ServerActs \/ \E pkt \in toServer : DeliverToServer(pkt)
             \/ DeliverDamagedToServer \/ LoseToServer \/ LoseToClient \/ UNCHANGED vars
    <3>1. UNCHANGED clientVars
      BY <2>4 DEF ServerActs, DeliverToServer, DeliverDamagedToServer, LoseToServer,
                  LoseToClient, vars
    <3> QED
      BY <3>1
      DEF clientVars, AnyPeer!clientVars, transferVars, AnyPeer!transferVars, ackVars,
          AnyPeer!ackVars, windowVars, AnyPeer!windowVars
  <2> QED
    BY <2>1, <2>2, <2>3, <2>4 DEF Next, Stopped
<1> QED
  BY <1>1, <1>2, InvariantHolds, PTL DEF Spec, ClientMeetsAnyPeer, AnyPeer!Spec

\* The server of UDPServerOpen stores and answers as this one does.
LEMMA SameServerStep == ServerStep => ManyClients!ServerStep
<1>1. \A S : ManyClients!Cardinality(S) = Cardinality(S)
  BY DEF Cardinality, ManyClients!Cardinality
<1> QED
  BY <1>1
    DEF ServerStep, ManyClients!ServerStep, ServerBinds, ManyClients!ServerBinds,
        ServerBindFails, ManyClients!ServerBindFails, TransferDone,
        ManyClients!TransferDone, NothingMissing, ManyClients!NothingMissing,
        ServerFinishes, ManyClients!ServerFinishes, SendOrLog, ManyClients!SendOrLog,
        ZTFinish, ManyClients!ZTFinish, SaveFile, ManyClients!SaveFile, SaveFileFails,
        ManyClients!SaveFileFails, ProfiledPackets, ManyClients!ProfiledPackets,
        AllDataSeqs, ManyClients!AllDataSeqs, DATA_SEQ_FIRST,
        ManyClients!DATA_SEQ_FIRST

\* What this server does on a packet of its client, that one does.
LEMMA SameServerReceives ==
  ASSUME NEW pkt, NEW addr, ServerReceives(pkt, addr)
  PROVE  ManyClients!ServerReceives(pkt, addr)
<1>1. AcceptCreq(pkt, addr) => ManyClients!AcceptCreq(pkt, addr)
  BY DEF AcceptCreq, ManyClients!AcceptCreq, WaitsForCreq, ManyClients!WaitsForCreq,
        MissingAtFirst, ManyClients!MissingAtFirst, AllDataSeqs,
        ManyClients!AllDataSeqs, DATA_SEQ_FIRST, ManyClients!DATA_SEQ_FIRST,
        EmptyBuffer, ManyClients!EmptyBuffer, SendOrLog, ManyClients!SendOrLog, ZTAck,
        ManyClients!ZTAck
<1>2. Store(pkt) => ManyClients!Store(pkt)
  BY DEF Store, ManyClients!Store, InRange, ManyClients!InRange, StoreChunk,
        ManyClients!StoreChunk, ChunkBytes, ManyClients!ChunkBytes, ChunkStart,
        ManyClients!ChunkStart
<1>3. TransferData(pkt, addr) \/ TransferDataAckFails(pkt, addr)
        => ManyClients!TransferData(pkt, addr) \/ ManyClients!TransferDataAckFails(pkt, addr)
  BY <1>2
    DEF TransferData, ManyClients!TransferData, TransferDataAckFails,
        ManyClients!TransferDataAckFails, Transferring, ManyClients!Transferring,
        FromClient, ManyClients!FromClient, ZTAck, ManyClients!ZTAck
<1>4. IgnoreUntilCreq(pkt) \/ TransferCreq(pkt, addr) \/ TransferDrops(pkt, addr)
        => \/ ManyClients!IgnoreUntilCreq(pkt) \/ ManyClients!TransferCreq(pkt, addr)
           \/ ManyClients!TransferDrops(pkt, addr)
  BY DEF IgnoreUntilCreq, ManyClients!IgnoreUntilCreq, TransferCreq,
        ManyClients!TransferCreq, TransferDrops, ManyClients!TransferDrops,
        WaitsForCreq, ManyClients!WaitsForCreq, Transferring, ManyClients!Transferring,
        FromClient, ManyClients!FromClient, InRange, ManyClients!InRange, SendOrLog,
        ManyClients!SendOrLog, ZTAck, ManyClients!ZTAck, serverVars,
        ManyClients!serverVars
<1> QED
  BY <1>1, <1>3, <1>4 DEF ServerReceives, ManyClients!ServerReceives

\* What the client sends is what a client with this one file may send.
LEMMA ClientIsOneOfMany ==
  ASSUME NEW pkt \in ClientPackets
  PROVE  pkt \in ManyClients!SentBy(ClientAddr)
<1>1. ManyClients!ZTConnReq(File) = CreqPacket
  BY DEF CreqPacket, ZTConnReq, ManyClients!ZTConnReq, CREQ_SEQ,
        ManyClients!CREQ_SEQ, LastDataSeq, ManyClients!LastDataSeq, NumDataPackets,
        ManyClients!NumDataPackets, DATA_SEQ_FIRST, ManyClients!DATA_SEQ_FIRST
<1>2. ManyClients!AllDataSeqs(ManyClients!LastDataSeq(Len(File))) = DataSeqs
  BY DEF DataSeqs, LastDataSeq, ManyClients!LastDataSeq, NumDataPackets,
        ManyClients!NumDataPackets, AllDataSeqs, ManyClients!AllDataSeqs,
        DATA_SEQ_FIRST, ManyClients!DATA_SEQ_FIRST
<1>3. \A s : ManyClients!ZTData(File, s) = ZTData(File, s)
  BY DEF ZTData, ManyClients!ZTData, Padded, ManyClients!Padded, ChunkStart,
        ManyClients!ChunkStart
<1> QED
  BY <1>1, <1>2, <1>3 DEF ClientPackets, ManyClients!SentBy

\* The server on this network behaves as it does among many clients: what was
\* proved of UDPServerOpen holds of it.
THEOREM ServerMeetsClient == Spec => ServerMeetsManyClients
<1>1. Init => ManyClients!Init
  <2>1. Cardinality({File}) = 1
    BY FS_Singleton
  <2>2. \A S : ManyClients!Cardinality(S) = Cardinality(S)
    BY DEF Cardinality, ManyClients!Cardinality
  <2> QED
    BY <2>1, <2>2
    DEF Init, ServerInit, ManyClients!Init, ManyClients!ServerInit, NoRequest,
        ManyClients!NoRequest, NoAddr, ManyClients!NoAddr
<1>2. IInv /\ [Next]_vars => [ManyClients!Next]_(ManyClients!vars)
  <2> SUFFICES ASSUME IInv, [Next]_vars PROVE [ManyClients!Next]_(ManyClients!vars)
    OBVIOUS
  <2>1. CASE ServerActs
    BY <2>1, SameServerStep DEF ServerActs, ManyClients!Next
  <2>2. ASSUME NEW pkt \in toServer, DeliverToServer(pkt)
        PROVE  ManyClients!Next
    <3>1. pkt \in ClientPackets /\ ServerReceives(pkt, ClientAddr)
      BY <2>2 DEF DeliverToServer, IInv, TypeOK, ClientTypeOK
    <3> QED
      BY <3>1, SameServerReceives, ClientIsOneOfMany DEF ManyClients!Next
  <2>3. CASE \/ ClientActs \/ \E pkt \in toClient : DeliverToClient(pkt)
             \/ DeliverDamagedToClient \/ DeliverDamagedToServer
             \/ LoseToServer \/ LoseToClient \/ UNCHANGED vars
    <3>1. /\ UNCHANGED serverVars
          /\ toClient' = toClient \/ \E pkt \in toClient : toClient' = toClient \ {pkt}
      BY <2>3
      DEF ClientActs, DeliverToClient, DeliverDamagedToClient, LeaveToClient,
          DeliverDamagedToServer, ServerDropsDamaged, LoseToServer, LoseToClient, vars
    <3> QED
      BY <3>1
      DEF serverVars, ManyClients!serverVars, ManyClients!vars, ManyClients!LeavesNetwork, ManyClients!Next
  <2> QED
    BY <2>1, <2>2, <2>3 DEF Next, Stopped
<1> QED
  BY <1>1, <1>2, InvariantHolds, PTL DEF Spec, ServerMeetsManyClients, ManyClients!Spec
=============================================================================
