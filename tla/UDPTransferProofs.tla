------------------------- MODULE UDPTransferProofs -------------------------
(***************************************************************************)
(* Proofs about UDPTransfer, for every file, every chunk size, every       *)
(* window parameter and every network: what the client believes about the  *)
(* server is true, because what is under way between them is.              *)
(***************************************************************************)
EXTENDS UDPTransfer, PacketsProofs, FiniteSetTheorems, TLAPS

\* Abbreviations that every proof sees through.
USE DEF RequestAlarm, WindowAlarm, StateAfterTimeout, UpdateIsMarked, Confirmed,
        WaitsForCreq, MissingAtFirst, NothingMissing, FromClient

-----------------------------------------------------------------------------
(* Packets and chunks                                                      *)

\* The sequence numbers of the file's packets are finitely many numbers that
\* start at one.
LEMMA DataSeqsFacts ==
  /\ Len(File) \in Nat
  /\ LastDataSeq(Len(File)) \in Nat
  /\ LastDataSeq(Len(File)) = NumDataPackets(Len(File))
  /\ DataSeqs = 1 .. LastDataSeq(Len(File))
  /\ \A s \in DataSeqs : s \in Nat /\ s # CREQ_SEQ /\ NamesData(s)
  /\ IsFiniteSet(DataSeqs)
<1>1. Len(File) \in Nat
  BY FileAssumption
<1>2. LastDataSeq(Len(File)) \in Nat /\ LastDataSeq(Len(File)) = NumDataPackets(Len(File))
  BY <1>1, PacketsHoldFile DEF LastDataSeq, DATA_SEQ_FIRST
<1>3. DataSeqs = 1 .. LastDataSeq(Len(File))
  BY DEF DataSeqs, AllDataSeqs, DATA_SEQ_FIRST
<1>4. \A s \in DataSeqs : s \in Nat /\ s # CREQ_SEQ /\ NamesData(s)
  BY <1>2, <1>3, FileAssumption, SeqLimitAssumption
  DEF CREQ_SEQ, NamesData, DATA_SEQ_FIRST
<1>5. IsFiniteSet(DataSeqs)
  BY <1>2, <1>3, FS_Interval
<1> QED
  BY <1>1, <1>2, <1>3, <1>4, <1>5

\* The packets of the server can be told apart.
LEMMA ServerPacketsDiffer ==
  /\ \A s, t : ZTAck(s) = ZTAck(t) => s = t
  /\ \A s : ZTAck(s) # ZTFinish
  /\ \A s : ZTAck(s).ptype = "ACK" /\ ZTAck(s).seq_to_ack = s
  /\ ZTFinish.ptype = "FIN"
<1>1. \A s : ZTAck(s).ptype = "ACK" /\ ZTAck(s).seq_to_ack = s
  BY DEF ZTAck
<1>2. ZTFinish.ptype = "FIN"
  BY DEF ZTFinish
<1>3. \A s : ZTAck(s) # ZTFinish
  BY <1>1, <1>2
<1>4. \A s, t : ZTAck(s) = ZTAck(t) => s = t
  BY <1>1
<1> QED
  BY <1>1, <1>2, <1>3, <1>4

\* An ACK of the server that names a data packet names one of the file.
LEMMA ServerAck ==
  ASSUME NEW pkt \in ServerPackets
  PROVE  /\ IsDataAck(pkt) => pkt.seq_to_ack \in DataSeqs /\ pkt = ZTAck(pkt.seq_to_ack)
         /\ ~IsDataRsnd(pkt)
         /\ pkt.ptype = "FIN" => pkt = ZTFinish
<1>1. CASE pkt = ZTFinish
  BY <1>1, ServerPacketsDiffer DEF IsDataAck, IsDataRsnd
<1>2. CASE \E s \in DataSeqs \cup {CREQ_SEQ} : pkt = ZTAck(s)
  <2>1. PICK s \in DataSeqs \cup {CREQ_SEQ} : pkt = ZTAck(s)
    BY <1>2
  <2>2. pkt.ptype = "ACK" /\ pkt.seq_to_ack = s
    BY <2>1, ServerPacketsDiffer
  <2>3. NamesData(s) => s \in DataSeqs
    BY <2>1 DEF NamesData, CREQ_SEQ, DATA_SEQ_FIRST
  <2> QED
    BY <2>1, <2>2, <2>3 DEF IsDataAck, IsDataRsnd
<1> QED
  BY <1>1, <1>2 DEF ServerPackets

\* The accepted request is told apart from none.
LEMMA RequestFacts ==
  /\ CreqPacket # NoRequest
  /\ CreqPacket.ptype = "CREQ"
  /\ CreqPacket.seq = CREQ_SEQ
  /\ CreqPacket.last_seq = LastDataSeq(Len(File))
  /\ CreqPacket.data_size = Len(File)
  BY DEF CreqPacket, ZTConnReq, NoRequest

\* What the client sends is a request for the file or a packet of it.
LEMMA ClientPacket ==
  ASSUME NEW pkt \in ClientPackets
  PROVE  /\ pkt.ptype = "CREQ" => pkt = CreqPacket
         /\ pkt.ptype = "DATA" => pkt.seq \in DataSeqs /\ pkt = ZTData(File, pkt.seq)
<1>1. CASE pkt = CreqPacket
  BY <1>1, RequestFacts
<1>2. CASE \E s \in DataSeqs : pkt = ZTData(File, s)
  BY <1>2 DEF ZTData
<1> QED
  BY <1>1, <1>2 DEF ClientPackets

-----------------------------------------------------------------------------
(* The steps of the client                                                 *)

\* Updating the window keeps its type.
LEMMA WindowTyped ==
  ASSUME ClientTypeOK, session_sent_seqs # {}, NEW sa, UpdateWindowSize(sa)
  PROVE  /\ window_size' \in Nat \ {0}
         /\ old_drop_factor' \in Nat \X (Nat \ {0})
         /\ in_rapid_start' \in BOOLEAN
<1>1. IsFiniteSet(session_sent_seqs)
  BY DataSeqsFacts, FS_Subset DEF ClientTypeOK
<1>2. IsFiniteSet(session_sent_seqs \ sa)
  BY <1>1, FS_Subset
<1>3. /\ Cardinality(session_sent_seqs) \in Nat \ {0}
      /\ Cardinality(session_sent_seqs \ sa) \in Nat
  BY <1>1, <1>2, FS_CardinalityType, FS_EmptySet
<1>4. old_drop_factor' \in Nat \X (Nat \ {0})
  BY <1>3 DEF UpdateWindowSize, DropFactor
<1>5. WindowIncreased \in Nat \ {0}
  <2>1. window_size \in Nat \ {0} /\ WINDOW_SIZE_INC_RAP \in Nat \ {0} /\ WINDOW_SIZE_INC_REG \in Nat
    BY WindowAssumption DEF ClientTypeOK
  <2>2. window_size * WINDOW_SIZE_INC_RAP \in Nat \ {0}
    BY <2>1
  <2> QED
    BY <2>1, <2>2 DEF WindowIncreased
<1>6. WindowDecreased \in Nat \ {0}
  <2> DEFINE n == window_size + WINDOW_SIZE_DEC_REG - 1
  <2>1. n \in Nat /\ WINDOW_SIZE_DEC_REG \in Nat \ {0} /\ WINDOW_SIZE_START \in Nat \ {0}
    BY WindowAssumption DEF ClientTypeOK
  <2>2. n \div WINDOW_SIZE_DEC_REG \in Nat
    BY <2>1, QuotientRemainder
  <2> QED
    BY <2>1, <2>2 DEF WindowDecreased, Larger
<1>7. in_rapid_start' \in BOOLEAN
  BY DEF UpdateWindowSize, ClientTypeOK
<1> QED
  BY <1>4, <1>5, <1>6, <1>7 DEF UpdateWindowSize

\* Counting the lost packets of a window keeps the counter within its bound.
LEMMA FailedTyped ==
  ASSUME ClientTypeOK, CountFailed
  PROVE  failed_packet_count' \in 0 .. FailedPacketsBound
<1>1. IsFiniteSet(session_sent_seqs \ acked_packet_seqs)
  BY DataSeqsFacts, FS_Subset DEF ClientTypeOK
<1>2. Cardinality(session_sent_seqs \ acked_packet_seqs) \in Nat
  BY <1>1, FS_CardinalityType
<1> QED
  BY <1>2, WindowAssumption DEF ClientTypeOK, CountFailed, Smaller

\* A CREQ, and the end of the client on a failed sendto(), type check.
LEMMA RequestTyped ==
  ASSUME ClientTypeOK, RequestConnection \/ RequestFails
  PROVE  ClientTypeOK'
<1>1. toServer' \subseteq ClientPackets
  BY DEF ClientTypeOK, RequestConnection, RequestFails, ClientPackets
<1>2. UNCHANGED transferVars
  BY DEF RequestConnection, RequestFails
<1>3. client_state' \in ClientStates /\ timer' \in {"off", "creq", "rrecv"}
  BY DEF RequestConnection, RequestFails, Abort, ClientStates
<1> QED
  BY <1>1, <1>2, <1>3 DEF ClientTypeOK, transferVars, ackVars, windowVars

\* Closing a window, which sends the next one or fails to, type checks.
LEMMA CloseWindowTyped ==
  ASSUME ClientTypeOK, CloseWindow
  PROVE  /\ acked_packet_seqs' = acked_packet_seqs
         /\ session_acked_seqs' = {}
         /\ server_disconnect_ctr' = server_disconnect_ctr
         /\ failed_packet_count' \in 0 .. FailedPacketsBound
         /\ window_size' \in Nat \ {0}
         /\ old_drop_factor' \in Nat \X (Nat \ {0})
         /\ in_rapid_start' \in BOOLEAN
<1>1. CASE WindowUpdateDue
  <2>1. UpdateWindowSize(session_acked_seqs) /\ session_sent_seqs # {}
    BY <1>1 DEF CloseWindow, WindowUpdateDue
  <2> QED
    BY <2>1, WindowTyped, FailedTyped DEF CloseWindow
<1>2. CASE ~WindowUpdateDue
  BY <1>2, FailedTyped DEF CloseWindow, windowVars, ClientTypeOK
<1> QED
  BY <1>1, <1>2

\* The handler of a window's alarm type checks, and leaves the client in FIN
\* only when it gave up on the server.
LEMMA TimeoutTyped ==
  ASSUME ClientTypeOK, NEW sa, HandleRRecvTimeout(sa),
         server_disconnect_ctr < MAX_RESENDS_BEFORE_TIMEOUT
  PROVE  /\ client_state' \in {"FIN", "RAPID_SEND"}
         /\ timer' = "off"
         /\ server_disconnect_ctr' \in 0 .. MAX_RESENDS_BEFORE_TIMEOUT
         /\ client_state' = "FIN" <=> server_disconnect_ctr' = MAX_RESENDS_BEFORE_TIMEOUT
         /\ window_size' \in Nat \ {0}
         /\ old_drop_factor' \in Nat \X (Nat \ {0})
         /\ in_rapid_start' \in BOOLEAN
         /\ updated_window_size_in_rtt' \in BOOLEAN
         /\ UNCHANGED <<session_sent_seqs, acks_got, failed_packet_count,
                        in_first_rtt, toServer>>
<1>1. DisconnectCtr \in 0 .. MAX_RESENDS_BEFORE_TIMEOUT
  BY WindowAssumption DEF DisconnectCtr, ClientTypeOK
<1>2. CASE /\ DisconnectCtr >= MAX_RESENDS_BEFORE_TIMEOUT
           /\ client_state' = "FIN"
           /\ UNCHANGED <<windowVars, updated_window_size_in_rtt>>
  BY <1>1, <1>2, WindowAssumption DEF HandleRRecvTimeout, windowVars, ClientTypeOK
<1>3. CASE /\ DisconnectCtr < MAX_RESENDS_BEFORE_TIMEOUT
           /\ client_state' = "RAPID_SEND"
           /\ session_sent_seqs # {}
           /\ UpdateWindowSize(sa) /\ updated_window_size_in_rtt' = TRUE
  BY <1>1, <1>3, WindowTyped, WindowAssumption DEF HandleRRecvTimeout
<1>4. CASE /\ DisconnectCtr < MAX_RESENDS_BEFORE_TIMEOUT
           /\ client_state' = "RAPID_SEND"
           /\ UNCHANGED <<windowVars, updated_window_size_in_rtt>>
  BY <1>1, <1>4, WindowAssumption DEF HandleRRecvTimeout, windowVars, ClientTypeOK
<1> QED
  BY <1>2, <1>3, <1>4 DEF HandleRRecvTimeout

\* When every packet is confirmed, none is missing.
LEMMA AllAckedIsDelivered ==
  ASSUME IInv, client_state \in {"RAPID_SEND", "RAPID_RECV"},
         DataSeqs \subseteq acked_packet_seqs
  PROVE  request # NoRequest /\ all_data_seqs = {}
<1>1. request = CreqPacket /\ acked_packet_seqs \cap all_data_seqs = {}
  BY DEF IInv, ClientTruth
<1>2. all_data_seqs \subseteq DataSeqs
  BY DEF IInv, TypeOK, ServerTypeOK
<1> QED
  BY <1>1, <1>2, RequestFacts

\* The client on its own keeps its types, and believes no more than it knows.
LEMMA ClientStepKeeps ==
  ASSUME IInv, ClientStep, UNCHANGED serverVars
  PROVE  ClientTypeOK' /\ ClientTruth'
<1> USE DEF IInv, TypeOK
<1>0. /\ request' = request
      /\ all_data_seqs' = all_data_seqs
  BY DEF serverVars
<1>1. CASE ClientStarts \/ ClientStartFails \/ CREQTimeout
  <2>1. RequestConnection \/ RequestFails
    BY <1>1 DEF ClientStarts, ClientStartFails, CREQTimeout
  <2>2. UNCHANGED transferVars /\ client_state' \in {"WAIT_CREQ_ACK", "ABORTED"}
    BY <2>1 DEF RequestConnection, RequestFails, Abort
  <2>3. client_state \in {"INIT", "WAIT_CREQ_ACK"}
    BY <1>1 DEF ClientStarts, ClientStartFails, CREQTimeout
  <2>4. ClientTruth'
    BY <1>0, <2>2, <2>3
    DEF ClientTruth, FinishedIsDelivered, transferVars, ackVars
  <2> QED
    BY <2>1, <2>4, RequestTyped
<1>2. CASE RapidSendNothingLeft
  <2>1. ClientTypeOK'
    BY <1>2, FailedTyped
    DEF RapidSendNothingLeft, ClientTypeOK, ClientStates, ackVars, windowVars
  <2>2. request # NoRequest /\ all_data_seqs = {}
    BY <1>2, AllAckedIsDelivered DEF RapidSendNothingLeft, ToSendSeqs
  <2>3. ClientTruth'
    BY <1>0, <1>2, <2>2
    DEF RapidSendNothingLeft, ClientTruth, FinishedIsDelivered, ackVars
  <2> QED
    BY <2>1, <2>3
<1>3. CASE RapidSendWindow
  <2>1. session_sent_seqs' \subseteq DataSeqs
    BY <1>3 DEF RapidSendWindow, Windows, ToSendSeqs
  <2>2. toServer' \subseteq ClientPackets
    BY <1>3, <2>1 DEF RapidSendWindow, ClientTypeOK, ClientPackets
  <2>3. ClientTypeOK'
    BY <1>3, <2>1, <2>2, CloseWindowTyped
    DEF RapidSendWindow, ClientTypeOK, ClientStates
  <2>4. ClientTruth'
    BY <1>0, <1>3, CloseWindowTyped
    DEF RapidSendWindow, CloseWindow, ClientTruth, FinishedIsDelivered
  <2> QED
    BY <2>3, <2>4
<1>4. CASE RapidSendFails
  <2>1. session_sent_seqs' \subseteq DataSeqs
    BY <1>4 DEF RapidSendFails, Windows, ToSendSeqs
  <2>2. toServer' \subseteq ClientPackets
    BY <1>4, <2>1 DEF RapidSendFails, ClientTypeOK, ClientPackets
  <2>3. ClientTypeOK'
    BY <1>4, <2>1, <2>2, CloseWindowTyped
    DEF RapidSendFails, Abort, ClientTypeOK, ClientStates
  <2>4. ClientTruth'
    BY <1>0, <1>4, CloseWindowTyped
    DEF RapidSendFails, CloseWindow, Abort, ClientTruth, FinishedIsDelivered
  <2> QED
    BY <2>3, <2>4
<1>5. CASE RapidRecvAllAcked \/ RapidRecvWindowAcked
  <2>1. ClientTypeOK'
    BY <1>5
    DEF RapidRecvAllAcked, RapidRecvWindowAcked, ClientTypeOK, ClientStates,
        transferVars, ackVars, windowVars
  <2>2. ClientTruth'
    <3>1. CASE RapidRecvAllAcked
      <4>1. request # NoRequest /\ all_data_seqs = {}
        BY <3>1, AllAckedIsDelivered DEF RapidRecvAllAcked
      <4> QED
        BY <1>0, <3>1, <4>1
        DEF RapidRecvAllAcked, ClientTruth, FinishedIsDelivered, transferVars, ackVars
    <3>2. CASE RapidRecvWindowAcked
      BY <1>0, <3>2
      DEF RapidRecvWindowAcked, ClientTruth, FinishedIsDelivered, transferVars, ackVars
    <3> QED
      BY <1>5, <3>1, <3>2
  <2> QED
    BY <2>1, <2>2
<1>6. CASE RRecvTimeout
  <2>1. server_disconnect_ctr < MAX_RESENDS_BEFORE_TIMEOUT
    BY <1>6, WindowAssumption DEF RRecvTimeout, ClientTruth, ClientTypeOK
  <2>2. HandleRRecvTimeout(session_acked_seqs)
    BY <1>6 DEF RRecvTimeout
  <2>3. ClientTypeOK'
    BY <1>6, <2>1, <2>2, TimeoutTyped DEF RRecvTimeout, ClientTypeOK, ClientStates
  <2>4. ClientTruth'
    BY <1>0, <1>6, <2>1, <2>2, TimeoutTyped, WindowAssumption
    DEF RRecvTimeout, ClientTruth, FinishedIsDelivered
  <2> QED
    BY <2>3, <2>4
<1>7. CASE ClientFinishes \/ AlarmAfterReturn
  <2>1. ClientTypeOK'
    BY <1>7
    DEF ClientFinishes, AlarmAfterReturn, ClientTypeOK, ClientStates,
        transferVars, ackVars, windowVars
  <2>2. ClientTruth'
    BY <1>0, <1>7
    DEF ClientFinishes, AlarmAfterReturn, ClientTruth, FinishedIsDelivered,
        transferVars, ackVars
  <2> QED
    BY <2>1, <2>2
<1> QED
  BY <1>1, <1>2, <1>3, <1>4, <1>5, <1>6, <1>7 DEF ClientStep

\* What a packet of the server makes of the client.
LEMMA ClientReceivesKeeps ==
  ASSUME IInv, NEW pkt \in toClient, ClientReceives(pkt), UNCHANGED serverVars
  PROVE  ClientTypeOK' /\ ClientTruth'
<1> USE DEF IInv, TypeOK
<1>0. /\ request' = request
      /\ all_data_seqs' = all_data_seqs
  BY DEF serverVars
<1>1. pkt \in ServerPackets /\ request = CreqPacket
  BY DEF ServerTypeOK, ServerOrder
<1>2. /\ IsDataAck(pkt) => pkt.seq_to_ack \in DataSeqs \ all_data_seqs
      /\ ~IsDataRsnd(pkt)
      /\ pkt.ptype = "FIN" => all_data_seqs = {}
  BY <1>1, ServerAck DEF NetworkTruth
<1>3. CASE WaitOtherAck(pkt)
  <2>1. RequestConnection \/ RequestFails
    BY <1>3 DEF WaitOtherAck
  <2>2. UNCHANGED transferVars /\ client_state' \in {"WAIT_CREQ_ACK", "ABORTED"}
    BY <2>1 DEF RequestConnection, RequestFails, Abort
  <2>3. ClientTruth'
    BY <1>0, <1>3, <2>2
    DEF WaitOtherAck, ClientTruth, FinishedIsDelivered, transferVars, ackVars
  <2> QED
    BY <2>1, <2>3, RequestTyped
<1>4. CASE WaitCreqAck(pkt) \/ WaitUnexpected(pkt)
  <2>1. ClientTypeOK'
    BY <1>4
    DEF WaitCreqAck, WaitUnexpected, ClientTypeOK, ClientStates,
        transferVars, ackVars, windowVars
  <2>2. ClientTruth'
    BY <1>0, <1>1, <1>4
    DEF WaitCreqAck, WaitUnexpected, ClientTruth, FinishedIsDelivered,
        transferVars, ackVars
  <2> QED
    BY <2>1, <2>2
<1>5. CASE RapidRecvOutOfRange(pkt)
  <2>1. UNCHANGED <<clientVars, toServer>>
    BY <1>5 DEF RapidRecvOutOfRange, RapidRecvDiscards
  <2> QED
    BY <1>0, <2>1
    DEF ClientTypeOK, ClientTruth, FinishedIsDelivered, clientVars,
        transferVars, ackVars, windowVars
<1>6. CASE RapidRecvAck(pkt) \/ RapidRecvRsnd(pkt)
  <2>1. RapidRecvAck(pkt) /\ pkt.seq_to_ack \in DataSeqs \ all_data_seqs
    BY <1>2, <1>6 DEF RapidRecvAck, RapidRecvRsnd
  <2>2. ClientTypeOK'
    BY <2>1 DEF RapidRecvAck, Receiving, KeepsWindow, ClientTypeOK, windowVars
  <2>3. ClientTruth'
    BY <1>0, <1>1, <2>1
    DEF RapidRecvAck, Receiving, KeepsWindow, ClientTruth, FinishedIsDelivered
  <2> QED
    BY <2>2, <2>3
<1>7. CASE RapidRecvFin(pkt)
  <2>1. ClientTypeOK'
    BY <1>7
    DEF RapidRecvFin, KeepsWindow, ClientTypeOK, ClientStates, ackVars, windowVars
  <2>2. all_data_seqs = {} /\ server_disconnect_ctr < MAX_RESENDS_BEFORE_TIMEOUT
    BY <1>2, <1>7, WindowAssumption
    DEF RapidRecvFin, Receiving, ClientTruth, ClientTypeOK
  <2>3. ClientTruth'
    BY <1>0, <1>1, <1>7, <2>2, RequestFacts
    DEF RapidRecvFin, KeepsWindow, ClientTruth, FinishedIsDelivered, ackVars
  <2> QED
    BY <2>1, <2>3
<1>8. CASE RapidRecvUnexpected(pkt)
  <2>1. ClientTypeOK'
    BY <1>8
    DEF RapidRecvUnexpected, KeepsWindow, ClientTypeOK, ClientStates, ackVars,
        windowVars
  <2>2. ClientTruth'
    BY <1>0, <1>8
    DEF RapidRecvUnexpected, Receiving, KeepsWindow, ClientTruth,
        FinishedIsDelivered, ackVars
  <2> QED
    BY <2>1, <2>2
<1>9. CASE RRecvTimeoutInAck(pkt)
  <2>1. /\ pkt.seq_to_ack \in DataSeqs \ all_data_seqs
        /\ acked_packet_seqs' = acked_packet_seqs \cup {pkt.seq_to_ack}
        /\ session_acked_seqs' \in {session_acked_seqs,
                                    session_acked_seqs \cup {pkt.seq_to_ack}}
    BY <1>2, <1>9 DEF RRecvTimeoutInAck
  <2>2. client_state = "RAPID_RECV"
    BY <1>9 DEF RRecvTimeoutInAck, Receiving
  <2>3. server_disconnect_ctr < MAX_RESENDS_BEFORE_TIMEOUT
    BY <2>2, WindowAssumption DEF ClientTruth, ClientTypeOK
  <2> DEFINE sa == session_acked_seqs'
  <2>4. HandleRRecvTimeout(sa)
    BY <1>9 DEF RRecvTimeoutInAck
  <2>5. /\ client_state' \in {"FIN", "RAPID_SEND"}
        /\ timer' = "off"
        /\ server_disconnect_ctr' \in 0 .. MAX_RESENDS_BEFORE_TIMEOUT
        /\ client_state' = "FIN"
             <=> server_disconnect_ctr' = MAX_RESENDS_BEFORE_TIMEOUT
        /\ window_size' \in Nat \ {0}
        /\ old_drop_factor' \in Nat \X (Nat \ {0})
        /\ in_rapid_start' \in BOOLEAN
        /\ updated_window_size_in_rtt' \in BOOLEAN
        /\ UNCHANGED <<session_sent_seqs, acks_got, failed_packet_count,
                       in_first_rtt, toServer>>
    <3> HIDE DEF sa
    <3> QED
      BY <2>3, <2>4, TimeoutTyped
  <2>6. ClientTypeOK'
    BY <2>1, <2>5 DEF ClientTypeOK, ClientStates
  <2>7. ClientTruth'
    BY <1>0, <1>1, <2>1, <2>5, WindowAssumption
    DEF ClientTruth, FinishedIsDelivered
  <2> QED
    BY <2>6, <2>7
<1> QED
  BY <1>3, <1>4, <1>5, <1>6, <1>7, <1>8, <1>9 DEF ClientReceives

-----------------------------------------------------------------------------
(* The buffer of the server                                                *)

\* Storing a packet of the file writes the bytes of its chunk, which are
\* those of the file, and no other (server/udp.py:182-185).
LEMMA StoreChunkWrites ==
  ASSUME NEW buffer \in Seq(Nat), Len(buffer) = Len(File), NEW s \in DataSeqs,
         NEW last, last = LastDataSeq(Len(File)),
         NEW stored, stored = StoreChunk(buffer, last, s, Padded(File, s))
  PROVE  /\ stored \in Seq(Nat)
         /\ Len(stored) = Len(File)
         /\ \A i \in 1 .. Len(File) :
              stored[i] = IF i \in ChunkBytes(Len(File), last, s) THEN File[i] ELSE buffer[i]
<1>1. last \in Nat /\ s \in 1 .. last /\ last = LastDataSeq(Len(buffer))
  BY DataSeqsFacts
<1>2. Padded(File, s) \in [1 .. ZT_RAW_DATA_BYTES_SIZE -> Nat]
  BY <1>1, PaddedFacts, FileAssumption
<1>3. /\ stored \in Seq(Nat)
      /\ Len(stored) = Len(buffer)
      /\ \A i \in 1 .. Len(buffer) :
           stored[i] = IF i \in ChunkBytes(Len(buffer), last, s)
                       THEN Padded(File, s)[i - ChunkStart(s)] ELSE buffer[i]
  <2>1. s \in 1 .. LastDataSeq(Len(buffer)) /\ buffer \in Seq(Nat)
    BY <1>1
  <2>2. stored = StoreChunk(buffer, LastDataSeq(Len(buffer)), s, Padded(File, s))
    BY <1>1
  <2>3. \A result :
          result = StoreChunk(buffer, LastDataSeq(Len(buffer)), s, Padded(File, s))
            => /\ result \in Seq(Nat)
               /\ Len(result) = Len(buffer)
               /\ \A i \in 1 .. Len(buffer) :
                    result[i] = IF i \in ChunkBytes(Len(buffer), LastDataSeq(Len(buffer)), s)
                                THEN Padded(File, s)[i - ChunkStart(s)] ELSE buffer[i]
    BY <1>2, <2>1, StoreWritesChunk
  <2> QED
    BY <1>1, <2>2, <2>3
<1>4. ASSUME NEW i \in ChunkBytes(Len(File), last, s)
      PROVE  Padded(File, s)[i - ChunkStart(s)] = File[i]
  <2> DEFINE n == Len(File)
  <2>1. n \in Nat /\ s \in 1 .. LastDataSeq(n) /\ i \in ChunkBytes(n, LastDataSeq(n), s)
    BY <1>1, <1>4, DataSeqsFacts
  <2>2. i \in 1 .. n /\ i - ChunkStart(s) \in 1 .. ZT_RAW_DATA_BYTES_SIZE
    <3> HIDE DEF n
    <3> QED
      BY <2>1, ChunkIsBounded
  <2>3. s \in Nat \ {0} /\ File \in Seq(Nat)
    BY <1>1, FileAssumption
  <2> QED
    BY <2>2, <2>3, PaddedFacts
<1> QED
  BY <1>3, <1>4

\* Every byte of the file belongs to the chunk of one of its packets.
LEMMA ChunksCoverFile ==
  ASSUME NEW i \in 1 .. Len(File)
  PROVE  \E s \in DataSeqs : i \in ChunkBytes(Len(File), LastDataSeq(Len(File)), s)
  BY ChunksCoverBytes, DataSeqsFacts

\* What the buffer holds of the file, stated of every packet not missing.
BufferTruth ==
  request = CreqPacket =>
    \A s \in DataSeqs \ all_data_seqs :
      \A i \in ChunkBytes(Len(File), LastDataSeq(Len(File)), s) :
        buffer_bytearray[i] = File[i]

\* A packet that is stored is no longer missing; all else the server knows
\* stays.
LEMMA StoreKeeps ==
  ASSUME IInv, NEW pkt \in toServer, request = CreqPacket, Store(pkt)
  PROVE  /\ pkt.seq \in DataSeqs
         /\ all_data_seqs' = all_data_seqs \ {pkt.seq}
         /\ request' = request /\ client_addr' = client_addr
         /\ buffer_bytearray' \in Seq(Nat)
         /\ Len(buffer_bytearray') = Len(File)
         /\ BufferTruth => BufferTruth'
<1> DEFINE last == LastDataSeq(Len(File))
<1>1. pkt \in ClientPackets /\ pkt.ptype = "DATA"
  BY DEF Store, IInv, TypeOK, ClientTypeOK
<1>2. pkt.seq \in DataSeqs /\ pkt = ZTData(File, pkt.seq)
  BY <1>1, ClientPacket
<1>3. pkt.file_data = Padded(File, pkt.seq)
  BY <1>2 DEF ZTData
<1>4. /\ all_data_seqs' = all_data_seqs \ {pkt.seq}
      /\ request' = request /\ client_addr' = client_addr
      /\ buffer_bytearray' =
           StoreChunk(buffer_bytearray, last, pkt.seq, Padded(File, pkt.seq))
  BY <1>3, RequestFacts DEF Store
<1>5. buffer_bytearray \in Seq(Nat) /\ Len(buffer_bytearray) = Len(File)
  BY DEF IInv, TypeOK, ServerTypeOK, ServerOrder
<1>6. /\ buffer_bytearray' \in Seq(Nat)
      /\ Len(buffer_bytearray') = Len(File)
      /\ \A i \in 1 .. Len(File) :
           buffer_bytearray'[i] = IF i \in ChunkBytes(Len(File), last, pkt.seq)
                                  THEN File[i] ELSE buffer_bytearray[i]
  BY <1>2, <1>4, <1>5, StoreChunkWrites
<1>7. ASSUME BufferTruth PROVE BufferTruth'
  <2> SUFFICES ASSUME NEW s \in DataSeqs \ all_data_seqs',
                      NEW i \in ChunkBytes(Len(File), last, s)
               PROVE  buffer_bytearray'[i] = File[i]
    BY DEF BufferTruth
  <2>1. i \in 1 .. Len(File)
    BY DEF ChunkBytes
  <2>2. CASE s = pkt.seq
    BY <1>6, <2>1, <2>2
  <2>3. CASE s # pkt.seq
    <3>1. buffer_bytearray[i] = File[i]
      BY <1>4, <1>7, <2>3 DEF BufferTruth
    <3> QED
      BY <1>6, <2>1, <3>1
  <2> QED
    BY <2>2, <2>3
<1> QED
  BY <1>2, <1>4, <1>6, <1>7

-----------------------------------------------------------------------------
(* The steps of the server                                                 *)

\* A packet the server sends, or fails to send, is one of its packets.
LEMMA SendTyped ==
  ASSUME ServerTypeOK, SendOrLog(ZTAck(CREQ_SEQ)) \/ SendOrLog(ZTFinish)
  PROVE  toClient' \subseteq ServerPackets
  BY DEF ServerTypeOK, SendOrLog, ServerPackets

\* The server on its own keeps what it says true.
LEMMA ServerStepKeeps ==
  ASSUME IInv, ServerStep
  PROVE  /\ ServerTypeOK' /\ ServerOrder' /\ NetworkTruth'
         /\ request' = request /\ all_data_seqs' = all_data_seqs
         /\ BufferTruth => BufferTruth'
<1> USE DEF IInv, TypeOK
<1>1. UNCHANGED <<all_data_seqs, request, client_addr, buffer_bytearray>>
  BY DEF ServerStep, ServerBinds, ServerBindFails, TransferDone, ServerFinishes,
         SaveFile, SaveFileFails
<1>2. BufferTruth => BufferTruth'
  BY <1>1 DEF BufferTruth
<1>3. CASE ServerFinishes
  <2>1. all_data_seqs = {} /\ request = CreqPacket
    BY <1>3 DEF ServerFinishes, ServerOrder
  <2>2. toClient' \subseteq ServerPackets
    BY <1>3, SendTyped DEF ServerFinishes
  <2>3. ServerTypeOK'
    BY <1>1, <1>3, <2>2 DEF ServerFinishes, ServerTypeOK, ServerStates
  <2>4. ServerOrder'
    BY <1>1, <1>3, <2>1, RequestFacts DEF ServerFinishes, ServerOrder
  <2>5. NetworkTruth'
    BY <1>1, <2>1 DEF NetworkTruth
  <2> QED
    BY <1>1, <1>2, <2>3, <2>4, <2>5
<1>4. CASE ~ServerFinishes
  <2>1. toClient' = toClient
    BY <1>4 DEF ServerStep, ServerBinds, ServerBindFails, TransferDone,
                SaveFile, SaveFileFails
  <2>2. ServerTypeOK'
    BY <1>1, <1>4, <2>1
    DEF ServerStep, ServerBinds, ServerBindFails, TransferDone, SaveFile,
        SaveFileFails, ServerTypeOK, ServerStates
  <2>3. ServerOrder'
    BY <1>1, <1>4, <2>1
    DEF ServerStep, ServerBinds, ServerBindFails, TransferDone, SaveFile,
        SaveFileFails, ServerOrder
  <2>4. NetworkTruth'
    BY <1>1, <2>1 DEF NetworkTruth
  <2> QED
    BY <1>1, <1>2, <2>2, <2>3, <2>4
<1> QED
  BY <1>3, <1>4

\* What a packet of the client makes of the server: nothing that was not
\* missing is missing after it, unless the request was new.
LEMMA ServerReceivesKeeps ==
  ASSUME IInv, NEW pkt \in toServer, ServerReceives(pkt, ClientAddr)
  PROVE  /\ ServerTypeOK' /\ ServerOrder' /\ NetworkTruth'
         /\ request = CreqPacket
              => request' = CreqPacket /\ all_data_seqs' \subseteq all_data_seqs
         /\ BufferTruth => BufferTruth'
<1> USE DEF IInv, TypeOK
<1>0. pkt \in ClientPackets
  BY DEF ClientTypeOK
<1>1. CASE AcceptCreq(pkt, ClientAddr)
  <2>1. pkt = CreqPacket /\ request = NoRequest /\ toClient = {}
    BY <1>0, <1>1, ClientPacket DEF AcceptCreq, ServerOrder
  <2>2. /\ request' = CreqPacket
        /\ all_data_seqs' = DataSeqs
        /\ buffer_bytearray' = EmptyBuffer(Len(File))
        /\ server_state' = "TRANSFER" /\ client_addr' = ClientAddr
        /\ toClient' \subseteq {ZTAck(CREQ_SEQ)}
    BY <1>1, <2>1, RequestFacts DEF AcceptCreq, SendOrLog, DataSeqs
  <2>3. EmptyBuffer(Len(File)) \in Seq(Nat) /\ Len(EmptyBuffer(Len(File))) = Len(File)
    BY DataSeqsFacts DEF EmptyBuffer
  <2>4. ServerTypeOK'
    BY <2>2, <2>3 DEF ServerTypeOK, ServerStates, ServerPackets
  <2>5. ServerOrder'
    BY <2>2, <2>3, RequestFacts DEF ServerOrder
  <2>6. NetworkTruth'
    BY <2>2, DataSeqsFacts, ServerPacketsDiffer DEF NetworkTruth
  <2>7. BufferTruth'
    BY <2>2 DEF BufferTruth
  <2> QED
    BY <2>1, <2>4, <2>5, <2>6, <2>7, RequestFacts
<1>2. CASE IgnoreUntilCreq(pkt) \/ TransferDrops(pkt, ClientAddr)
  <2>1. UNCHANGED <<serverVars, toClient>>
    BY <1>2 DEF IgnoreUntilCreq, TransferDrops
  <2> QED
    BY <2>1 DEF serverVars, ServerTypeOK, ServerOrder, NetworkTruth, BufferTruth
<1>3. CASE TransferCreq(pkt, ClientAddr)
  <2>1. pkt = CreqPacket /\ UNCHANGED serverVars /\ request = CreqPacket
    BY <1>0, <1>3, ClientPacket DEF TransferCreq, Transferring, ServerOrder
  <2>2. SendOrLog(ZTAck(CREQ_SEQ))
    BY <1>3, <2>1, RequestFacts DEF TransferCreq
  <2>3. toClient' \subseteq ServerPackets /\ toClient' \subseteq toClient \cup {ZTAck(CREQ_SEQ)}
    BY <2>2, SendTyped DEF SendOrLog
  <2>4. ServerTypeOK'
    BY <2>1, <2>3 DEF serverVars, ServerTypeOK
  <2>5. ServerOrder'
    BY <2>1, RequestFacts DEF serverVars, ServerOrder
  <2>6. NetworkTruth'
    BY <2>1, <2>3, DataSeqsFacts, ServerPacketsDiffer DEF serverVars, NetworkTruth
  <2> QED
    BY <2>1, <2>4, <2>5, <2>6 DEF serverVars, BufferTruth
<1>4. CASE TransferData(pkt, ClientAddr) \/ TransferDataAckFails(pkt, ClientAddr)
  <2>1. /\ Store(pkt) /\ request = CreqPacket
        /\ server_state = "TRANSFER" /\ server_state' \in {"TRANSFER", "CRASHED"}
        /\ toClient' \subseteq toClient \cup {ZTAck(pkt.seq)}
    BY <1>4 DEF TransferData, TransferDataAckFails, Transferring, ServerOrder
  <2>2. /\ pkt.seq \in DataSeqs
        /\ all_data_seqs' = all_data_seqs \ {pkt.seq}
        /\ request' = CreqPacket /\ client_addr' = client_addr
        /\ buffer_bytearray' \in Seq(Nat)
        /\ Len(buffer_bytearray') = Len(File)
        /\ BufferTruth => BufferTruth'
    BY <2>1, StoreKeeps
  <2>3. ServerTypeOK'
    BY <2>1, <2>2 DEF ServerTypeOK, ServerStates, ServerPackets
  <2>4. ServerOrder'
    BY <2>1, <2>2, RequestFacts DEF ServerOrder
  <2>5. NetworkTruth'
    BY <2>1, <2>2, ServerPacketsDiffer DEF NetworkTruth
  <2> QED
    BY <2>2, <2>3, <2>4, <2>5
<1> QED
  BY <1>1, <1>2, <1>3, <1>4 DEF ServerReceives

-----------------------------------------------------------------------------
(* The steps of the whole                                                  *)

\* A step that takes packets from the client's channel at most leaves the
\* server's word true.
LEMMA ServerUntouched ==
  ASSUME IInv, UNCHANGED serverVars, toClient' \subseteq toClient
  PROVE  /\ ServerTypeOK' /\ ServerOrder' /\ NetworkTruth'
         /\ BufferTruth => BufferTruth'
  BY DEF IInv, TypeOK, ServerTypeOK, ServerOrder, NetworkTruth, BufferTruth, serverVars

\* A step of the server that forgets no packet leaves the client's belief true.
LEMMA ClientUntouched ==
  ASSUME IInv, UNCHANGED clientVars, toServer' \subseteq toServer,
         request = CreqPacket
           => request' = CreqPacket /\ all_data_seqs' \subseteq all_data_seqs
  PROVE  ClientTypeOK' /\ ClientTruth'
<1> USE DEF IInv, TypeOK
<1>1. /\ UNCHANGED <<client_state, timer, acked_packet_seqs, server_disconnect_ctr>>
      /\ ClientTypeOK'
  BY DEF ClientTypeOK, clientVars, transferVars, ackVars, windowVars
<1>2. CASE request = CreqPacket
  <2>1. request' = CreqPacket /\ all_data_seqs' \subseteq all_data_seqs
    BY <1>2
  <2>2. FinishedIsDelivered'
    BY <1>1, <2>1, RequestFacts DEF ClientTruth, FinishedIsDelivered
  <2> QED
    BY <1>1, <2>1, <2>2 DEF ClientTruth
<1>3. CASE request # CreqPacket
  <2>1. /\ client_state \notin {"RAPID_SEND", "RAPID_RECV", "FIN", "RETURNED"}
        /\ acked_packet_seqs = {}
    BY <1>3 DEF ClientTruth
  <2> QED
    BY <1>1, <2>1 DEF ClientTruth, FinishedIsDelivered
<1> QED
  BY <1>2, <1>3

\* The invariant holds at the start.
LEMMA InvariantInit == Init => IInv /\ BufferTruth
<1> SUFFICES ASSUME Init PROVE IInv /\ BufferTruth
  OBVIOUS
<1> USE DEF Init, ClientInit, ServerInit
<1>1. ClientTypeOK
  <2>1. /\ server_disconnect_ctr \in 0 .. MAX_RESENDS_BEFORE_TIMEOUT
        /\ failed_packet_count \in 0 .. FailedPacketsBound
        /\ window_size \in Nat \ {0}
    BY WindowAssumption
  <2>2. old_drop_factor \in Nat \X (Nat \ {0})
    OBVIOUS
  <2> QED
    BY <2>1, <2>2 DEF ClientTypeOK, ClientStates
<1>2. ServerTypeOK
  BY DEF ServerTypeOK, ServerStates
<1>3. ServerOrder /\ NetworkTruth /\ BufferTruth
  BY RequestFacts DEF ServerOrder, NetworkTruth, BufferTruth
<1>4. ClientTruth
  BY WindowAssumption DEF ClientTruth, FinishedIsDelivered
<1> QED
  BY <1>1, <1>2, <1>3, <1>4 DEF IInv, TypeOK

\* Every step of the client, the server and the network keeps the invariant.
LEMMA InvariantStep ==
  ASSUME IInv, [Next]_vars
  PROVE  IInv' /\ (BufferTruth => BufferTruth')
<1>1. CASE ClientActs
  <2>1. ClientStep /\ UNCHANGED serverVars /\ toClient' = toClient
    BY <1>1 DEF ClientActs
  <2> QED
    BY <2>1, ClientStepKeeps, ServerUntouched DEF IInv, TypeOK
<1>2. CASE \E pkt \in toClient : DeliverToClient(pkt)
  <2>1. PICK pkt \in toClient : DeliverToClient(pkt)
    BY <1>2
  <2>2. ClientReceives(pkt) /\ UNCHANGED serverVars /\ toClient' \subseteq toClient
    BY <2>1 DEF DeliverToClient, LeaveToClient
  <2> QED
    BY <2>2, ClientReceivesKeeps, ServerUntouched DEF IInv, TypeOK
<1>3. CASE DeliverDamagedToClient
  <2>1. /\ ClientDropsDamaged /\ UNCHANGED serverVars
        /\ toClient' \subseteq toClient
    BY <1>3 DEF DeliverDamagedToClient, LeaveToClient
  <2>2. ClientTypeOK' /\ ClientTruth'
    <3>1. CASE WaitDamaged
      <4>1. RequestConnection \/ RequestFails
        BY <3>1 DEF WaitDamaged
      <4>2. /\ UNCHANGED transferVars
            /\ client_state = "WAIT_CREQ_ACK"
            /\ client_state' \in {"WAIT_CREQ_ACK", "ABORTED"}
        BY <3>1, <4>1 DEF WaitDamaged, RequestConnection, RequestFails, Abort
      <4>3. ClientTruth'
        BY <2>1, <4>2
        DEF IInv, ClientTruth, FinishedIsDelivered, transferVars, ackVars, serverVars
      <4> QED
        BY <4>1, <4>3, RequestTyped DEF IInv, TypeOK
    <3>2. CASE RapidRecvDiscards
      BY <2>1, <3>2, ClientUntouched DEF RapidRecvDiscards, serverVars
    <3> QED
      BY <2>1, <3>1, <3>2 DEF ClientDropsDamaged
  <2> QED
    BY <2>1, <2>2, ServerUntouched DEF IInv, TypeOK
<1>4. CASE ServerActs
  <2>1. ServerStep /\ UNCHANGED clientVars /\ toServer' = toServer
    BY <1>4 DEF ServerActs
  <2>2. /\ ServerTypeOK' /\ ServerOrder' /\ NetworkTruth'
        /\ request' = request /\ all_data_seqs' = all_data_seqs
        /\ BufferTruth => BufferTruth'
    BY <2>1, ServerStepKeeps
  <2> QED
    BY <2>1, <2>2, ClientUntouched DEF IInv, TypeOK
<1>5. CASE \E pkt \in toServer : DeliverToServer(pkt)
  <2>1. PICK pkt \in toServer : DeliverToServer(pkt)
    BY <1>5
  <2>2. /\ ServerReceives(pkt, ClientAddr) /\ UNCHANGED clientVars
        /\ toServer' \subseteq toServer
    BY <2>1 DEF DeliverToServer, LeaveToServer
  <2>3. /\ ServerTypeOK' /\ ServerOrder' /\ NetworkTruth'
        /\ request = CreqPacket
             => request' = CreqPacket /\ all_data_seqs' \subseteq all_data_seqs
        /\ BufferTruth => BufferTruth'
    BY <2>2, ServerReceivesKeeps
  <2> QED
    BY <2>2, <2>3, ClientUntouched DEF IInv, TypeOK
<1>6. CASE DeliverDamagedToServer \/ LoseToServer \/ LoseToClient \/ UNCHANGED vars
  <2>1. /\ UNCHANGED <<clientVars, serverVars>>
        /\ toServer' \subseteq toServer /\ toClient' \subseteq toClient
    BY <1>6
    DEF DeliverDamagedToServer, LeaveToServer, ServerDropsDamaged, LoseToServer,
        LoseToClient, vars
  <2>2. request' = request /\ all_data_seqs' = all_data_seqs
    BY <2>1 DEF serverVars
  <2> QED
    BY <2>1, <2>2, ServerUntouched, ClientUntouched DEF IInv, TypeOK
<1>7. CASE Stopped
  BY <1>6, <1>7 DEF Stopped
<1> QED
  BY <1>1, <1>2, <1>3, <1>4, <1>5, <1>6, <1>7 DEF Next

-----------------------------------------------------------------------------
(* The theorems                                                            *)

\* The inductive invariant holds in every run.
THEOREM InvariantHolds == Spec => [](IInv /\ BufferTruth)
<1>1. Init => IInv /\ BufferTruth
  BY InvariantInit
<1>2. (IInv /\ BufferTruth) /\ [Next]_vars => (IInv /\ BufferTruth)'
  BY InvariantStep
<1> QED
  BY <1>1, <1>2, PTL DEF Spec

\* Every variable of both programs, and every packet under way, keeps its
\* type for every file and every setting of the window.
THEOREM TypeCorrect == Spec => []TypeOK
<1>1. IInv => TypeOK
  BY DEF IInv
<1> QED
  BY <1>1, InvariantHolds, PTL

\* Whatever the client counts as delivered is in the server's buffer.
THEOREM AckedIsAlwaysStored == Spec => []AckedIsStored
<1>1. IInv => AckedIsStored
  <2> SUFFICES ASSUME IInv, NEW s \in acked_packet_seqs PROVE s \in Stored
    BY DEF AckedIsStored
  <2>1. request = CreqPacket /\ s \in DataSeqs /\ s \notin all_data_seqs
    BY DEF IInv, TypeOK, ClientTypeOK, ClientTruth
  <2> QED
    BY <2>1, RequestFacts DEF Stored
<1> QED
  BY <1>1, InvariantHolds, PTL

\* A client that finishes without having given up leaves a server that holds
\* the whole file.
THEOREM FinishedIsAlwaysDelivered == Spec => []FinishedIsDelivered
<1>1. IInv => FinishedIsDelivered
  BY DEF IInv, ClientTruth
<1> QED
  BY <1>1, InvariantHolds, PTL

\* The bytes of every stored packet are those of the file.
THEOREM StoredIsAlwaysIntact == Spec => []StoredIsIntact
<1>1. IInv /\ BufferTruth => StoredIsIntact
  BY DEF IInv, TypeOK, ServerTypeOK, BufferTruth, StoredIsIntact, Stored
<1> QED
  BY <1>1, InvariantHolds, PTL

\* The buffer of a server with nothing missing is the file, its short last
\* chunk included, for every size of file and of chunk.
LEMMA CompleteIsFile ==
  ASSUME IInv, BufferTruth, server_state \in {"FIN", "RETURNED", "SAVED"}
  PROVE  buffer_bytearray = File /\ request = CreqPacket
<1>1. request = CreqPacket /\ all_data_seqs = {}
  BY DEF IInv, ServerOrder
<1>2. buffer_bytearray \in Seq(Nat) /\ Len(buffer_bytearray) = Len(File)
  BY <1>1 DEF IInv, TypeOK, ServerTypeOK, ServerOrder
<1>3. ASSUME NEW i \in 1 .. Len(File) PROVE buffer_bytearray[i] = File[i]
  <2>1. PICK s \in DataSeqs : i \in ChunkBytes(Len(File), LastDataSeq(Len(File)), s)
    BY ChunksCoverFile
  <2> QED
    BY <1>1, <2>1 DEF BufferTruth
<1> QED
  BY <1>1, <1>2, <1>3, FileAssumption

\* The checksum matches whenever the server compares it.
THEOREM ChecksumAlwaysMatches == Spec => []ChecksumMatches
<1>1. IInv /\ BufferTruth => ChecksumMatches
  BY CompleteIsFile DEF ChecksumMatches, CreqPacket, ZTConnReq
<1> QED
  BY <1>1, InvariantHolds, PTL

\* No step of either program or of the network starts an accepted transfer
\* again, however often its CREQ is repeated.
THEOREM RepeatedCreqIsAlwaysHarmless == Spec => RepeatedCreqIsHarmless
<1>1. ASSUME IInv, [Next]_vars, request # NoRequest
      PROVE  request' = request /\ all_data_seqs' \subseteq all_data_seqs
  <2>1. CASE ServerActs
    BY <1>1, <2>1, ServerStepKeeps DEF ServerActs, IInv, TypeOK
  <2>2. CASE \E pkt \in toServer : DeliverToServer(pkt)
    <3>1. PICK pkt \in toServer : DeliverToServer(pkt)
      BY <2>2
    <3>2. request = CreqPacket
      BY <1>1 DEF IInv, TypeOK, ServerTypeOK
    <3> QED
      BY <1>1, <3>1, <3>2, ServerReceivesKeeps
      DEF DeliverToServer, LeaveToServer, IInv, TypeOK
  <2>3. CASE UNCHANGED serverVars
    BY <2>3 DEF serverVars
  <2>4. ServerActs \/ (\E pkt \in toServer : DeliverToServer(pkt)) \/ UNCHANGED serverVars
    BY <1>1
    DEF Next, ClientActs, DeliverToClient, DeliverDamagedToClient,
        DeliverDamagedToServer, ServerDropsDamaged, LoseToServer, LoseToClient,
        Stopped, vars, serverVars
  <2> QED
    BY <2>1, <2>2, <2>3, <2>4
<1>2. IInv /\ [Next]_vars
        => [request # NoRequest => /\ request' = request
                                   /\ all_data_seqs' \subseteq all_data_seqs]_vars
  BY <1>1
<1> QED
  BY <1>2, InvariantHolds, PTL DEF Spec, RepeatedCreqIsHarmless

\* With a server that asks for no packet again the client never forgets that a
\* packet was confirmed.
LEMMA AckedAlwaysOnlyGrows == Spec => [][acked_packet_seqs \subseteq acked_packet_seqs']_vars
<1>1. ASSUME IInv, [Next]_vars
      PROVE  acked_packet_seqs \subseteq acked_packet_seqs'
  <2>1. CASE ClientActs
    BY <2>1
    DEF ClientActs, ClientStep, ClientStarts, ClientStartFails, RequestConnection,
        RequestFails, CREQTimeout, RapidSendNothingLeft, RapidSendWindow,
        RapidSendFails, CloseWindow, RapidRecvAllAcked, RapidRecvWindowAcked,
        RRecvTimeout, ClientFinishes, AlarmAfterReturn, transferVars, ackVars
  <2>2. CASE \E pkt \in toClient : DeliverToClient(pkt)
    <3>1. PICK pkt \in toClient : DeliverToClient(pkt)
      BY <2>2
    <3>2. pkt.ptype # "RSND"
      BY <1>1 DEF IInv, TypeOK, ServerTypeOK, ServerPackets, ZTAck, ZTFinish
    <3> QED
      BY <3>1, <3>2
      DEF DeliverToClient, ClientReceives, WaitOtherAck, WaitCreqAck, WaitUnexpected,
          RequestConnection, RequestFails, RapidRecvOutOfRange, RapidRecvDiscards,
          RapidRecvAck, RapidRecvRsnd, RapidRecvFin, RapidRecvUnexpected,
          RRecvTimeoutInAck, IsDataRsnd, clientVars, transferVars, ackVars
  <2>3. CASE DeliverDamagedToClient
    BY <2>3
    DEF DeliverDamagedToClient, ClientDropsDamaged, WaitDamaged, RapidRecvDiscards,
        RequestConnection, RequestFails, clientVars, transferVars, ackVars
  <2>4. CASE UNCHANGED clientVars
    BY <2>4 DEF clientVars, transferVars, ackVars
  <2>5. \/ ClientActs \/ (\E pkt \in toClient : DeliverToClient(pkt))
        \/ DeliverDamagedToClient \/ UNCHANGED clientVars
    BY <1>1
    DEF Next, ServerActs, DeliverToServer, DeliverDamagedToServer, LoseToServer,
        LoseToClient, Stopped, vars
  <2> QED
    BY <2>1, <2>2, <2>3, <2>4, <2>5
<1>2. IInv /\ [Next]_vars => [acked_packet_seqs \subseteq acked_packet_seqs']_vars
  BY <1>1
<1> QED
  BY <1>2, InvariantHolds, PTL DEF Spec
=============================================================================
