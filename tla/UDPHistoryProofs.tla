------------------------- MODULE UDPHistoryProofs --------------------------
(***************************************************************************)
(* Proofs about UDPTransferHistory: the books the client keeps of its      *)
(* windows, for every file and every setting of the window.                *)
(***************************************************************************)
EXTENDS UDPTransferHistory, UDPTransferProofs

USE DEF RequestAlarm, WindowAlarm, StateAfterTimeout, UpdateIsMarked

\* A history only watches: its transfer is one of UDPTransfer.
LEMMA HistoryIsTransfer == HSpec => Spec
<1>1. HInit => Init
  BY DEF HInit
<1>2. [HNext]_allVars => [Next]_vars
  BY DEF HNext, allVars
<1> QED
  BY <1>1, <1>2, PTL DEF HSpec, Spec

\* A step of the transfer is one of the client, or leaves it alone.
LEMMA ClientMoves ==
  ASSUME [Next]_vars
  PROVE  \/ ClientStep
         \/ \E pkt \in toClient : ClientReceives(pkt)
         \/ WaitDamaged
         \/ UNCHANGED clientVars
  BY DEF Next, ClientActs, DeliverToClient, DeliverDamagedToClient, ClientDropsDamaged,
         RapidRecvDiscards, ServerActs, DeliverToServer, DeliverDamagedToServer,
         LoseToServer, LoseToClient, Stopped, vars

\* A window that is sent contains a packet, and only packets that are left.
LEMMA WindowsHavePackets ==
  ASSUME ToSendSeqs # {}, NEW size \in Nat \ {0}, NEW w \in Windows(size)
  PROVE  w # {} /\ w \subseteq ToSendSeqs
<1>1. IsFiniteSet(ToSendSeqs)
  BY DataSeqsFacts, FS_Subset DEF ToSendSeqs
<1>2. Cardinality(ToSendSeqs) \in Nat \ {0}
  BY <1>1, FS_CardinalityType, FS_EmptySet
<1>3. Cardinality(w) \in Nat \ {0}
  BY <1>2 DEF Windows, Smaller
<1> QED
  BY <1>3, FS_EmptySet DEF Windows

-----------------------------------------------------------------------------
(* The updates of the window                                               *)

\* The client has not left the loop by an error or by its end.
Running ==
  client_state \in {"INIT", "WAIT_CREQ_ACK", "RAPID_SEND", "RAPID_RECV", "FIN"}

\* While the client runs, its two flags say whether the update for the window
\* that was sent last is still due.
UpdateInv ==
  /\ unadjusted \in {0, 1}
  /\ Running => unadjusted = IF in_first_rtt \/ updated_window_size_in_rtt THEN 0 ELSE 1
  /\ Running /\ ~in_first_rtt => session_sent_seqs # {}
  /\ timer = "rrecv" => ~in_first_rtt /\ ~updated_window_size_in_rtt
  /\ client_state = "RAPID_RECV" => timer = "rrecv"
  /\ client_state \in {"INIT", "WAIT_CREQ_ACK"} => timer # "rrecv"

\* What a step adds to the updates that are due.
UpdatesCounted ==
  unadjusted' = unadjusted + (IF WindowIsSent THEN 1 ELSE 0)
                           - (IF WindowIsSent /\ WindowUpdateDue THEN 1 ELSE 0)
                           - (IF TimeoutUpdates THEN 1 ELSE 0)

\* A step that sends no window and handles no alarm keeps the invariant.
LEMMA OthersKeepUpdates ==
  ASSUME UpdateInv, UpdatesCounted,
         UNCHANGED <<session_sent_seqs, in_first_rtt, updated_window_size_in_rtt>>,
         Running' => Running,
         timer' \in {"off", "creq", timer},
         client_state' = "RAPID_RECV" => client_state = "RAPID_RECV" /\ timer' = timer,
         client_state' \in {"INIT", "WAIT_CREQ_ACK"} => client_state \in {"INIT", "WAIT_CREQ_ACK"},
         client_state' = "RAPID_SEND" /\ timer = "rrecv" => timer' = timer
  PROVE  UpdateInv'
<1>1. ~WindowIsSent /\ ~TimeoutUpdates
  BY DEF WindowIsSent, TimeoutUpdates
<1>2. unadjusted' = unadjusted
  BY <1>1 DEF UpdatesCounted, UpdateInv
<1> QED
  BY <1>2 DEF UpdateInv

\* The alarm either makes the update that is due, or ends the client.
LEMMA TimeoutKeepsUpdates ==
  ASSUME UpdateInv, UpdatesCounted, NEW sa, HandleRRecvTimeout(sa),
         timer = "rrecv", Running, client_state' # "RAPID_RECV"
  PROVE  UpdateInv'
<1>1. /\ timer' = "off"
      /\ ~in_first_rtt /\ ~updated_window_size_in_rtt /\ unadjusted = 1
      /\ session_sent_seqs # {}
      /\ UNCHANGED <<session_sent_seqs, in_first_rtt>>
  BY DEF UpdateInv, HandleRRecvTimeout
<1>2. ~WindowIsSent
  BY DEF WindowIsSent
<1>3. CASE client_state' = "FIN" /\ UNCHANGED updated_window_size_in_rtt
  <2>1. unadjusted' = 1
    BY <1>1, <1>2, <1>3 DEF UpdatesCounted, TimeoutUpdates
  <2> QED
    BY <1>1, <1>3, <2>1 DEF UpdateInv, Running
<1>4. CASE client_state' = "RAPID_SEND" /\ updated_window_size_in_rtt' = TRUE
  <2>1. unadjusted' = 0
    BY <1>1, <1>2, <1>4 DEF UpdatesCounted, TimeoutUpdates
  <2> QED
    BY <1>1, <1>4, <2>1 DEF UpdateInv, Running
<1> QED
  BY <1>1, <1>3, <1>4 DEF HandleRRecvTimeout

\* Sending a window makes the update for the one before, unless the alarm did.
LEMMA WindowKeepsUpdates ==
  ASSUME IInv, UpdateInv, UpdatesCounted, RapidSendWindow
  PROVE  UpdateInv'
<1>1. /\ client_state = "RAPID_SEND" /\ client_state' = "RAPID_RECV"
      /\ timer' = "rrecv" /\ in_first_rtt' = FALSE /\ updated_window_size_in_rtt' = FALSE
  BY DEF RapidSendWindow, CloseWindow
<1>2. session_sent_seqs' # {}
  <2>1. window_size' \in Nat \ {0}
    BY CloseWindowTyped DEF RapidSendWindow, IInv, TypeOK
  <2> QED
    BY <2>1, WindowsHavePackets DEF RapidSendWindow, CloseWindow
<1>3. WindowIsSent /\ ~TimeoutUpdates
  BY <1>1 DEF WindowIsSent, TimeoutUpdates
<1>4. WindowUpdateDue <=> unadjusted = 1
  BY <1>1 DEF WindowUpdateDue, UpdateInv, Running, IInv, TypeOK, ClientTypeOK
<1>5. unadjusted' = 1
  BY <1>3, <1>4 DEF UpdatesCounted, UpdateInv
<1> QED
  BY <1>1, <1>2, <1>5 DEF UpdateInv

\* Every step keeps the invariant of the updates.
LEMMA UpdateInvStep ==
  ASSUME IInv, UpdateInv, UpdatesCounted, [Next]_vars
  PROVE  UpdateInv'
<1>1. CASE UNCHANGED clientVars
  BY <1>1, OthersKeepUpdates DEF clientVars, transferVars, Running
<1>2. CASE \/ ClientStarts \/ ClientStartFails \/ CREQTimeout \/ WaitDamaged
           \/ \E pkt \in toClient : WaitOtherAck(pkt)
  <2>1. /\ client_state \in {"INIT", "WAIT_CREQ_ACK"}
        /\ client_state' \in {"WAIT_CREQ_ACK", "ABORTED"} /\ timer' \in {"off", "creq"}
        /\ UNCHANGED transferVars
    BY <1>2
    DEF ClientStarts, ClientStartFails, CREQTimeout, WaitDamaged, WaitOtherAck,
        RequestConnection, RequestFails, Abort
  <2> QED
    BY <2>1, OthersKeepUpdates DEF transferVars, Running
<1>3. CASE RapidSendWindow
  BY <1>3, WindowKeepsUpdates
<1>4. CASE RapidSendFails
  <2>1. client_state' = "ABORTED" /\ timer' = "off"
    BY <1>4 DEF RapidSendFails, Abort
  <2>2. unadjusted' = unadjusted
    BY <2>1 DEF UpdatesCounted, WindowIsSent, TimeoutUpdates, UpdateInv
  <2> QED
    BY <2>1, <2>2 DEF UpdateInv, Running
<1>5. CASE \/ RapidSendNothingLeft \/ RapidRecvAllAcked \/ RapidRecvWindowAcked
           \/ ClientFinishes \/ AlarmAfterReturn
  <2>1. /\ Running' => Running
        /\ UNCHANGED <<session_sent_seqs, in_first_rtt, updated_window_size_in_rtt>>
        /\ timer' \in {"off", timer}
        /\ client_state' \in {"RAPID_SEND", "FIN", "RETURNED", "CRASHED"}
        /\ client_state' = "RAPID_SEND" => timer' = timer
    BY <1>5
    DEF RapidSendNothingLeft, RapidRecvAllAcked, RapidRecvWindowAcked,
        ClientFinishes, AlarmAfterReturn, transferVars, Running
  <2> QED
    BY <2>1, OthersKeepUpdates
<1>6. CASE RRecvTimeout
  BY <1>6, TimeoutKeepsUpdates DEF RRecvTimeout, HandleRRecvTimeout, Running
<1>7. ASSUME NEW pkt \in toClient, RRecvTimeoutInAck(pkt)
      PROVE  UpdateInv'
  BY <1>7, TimeoutKeepsUpdates
  DEF RRecvTimeoutInAck, HandleRRecvTimeout, Receiving, Running
<1>8. ASSUME NEW pkt \in toClient,
             \/ WaitCreqAck(pkt) \/ WaitUnexpected(pkt) \/ RapidRecvOutOfRange(pkt)
             \/ RapidRecvAck(pkt) \/ RapidRecvRsnd(pkt) \/ RapidRecvFin(pkt)
             \/ RapidRecvUnexpected(pkt)
      PROVE  UpdateInv'
  <2>1. /\ Running
        /\ UNCHANGED <<session_sent_seqs, in_first_rtt, updated_window_size_in_rtt>>
        /\ timer' \in {"off", timer}
        /\ client_state' = "RAPID_RECV" => client_state = "RAPID_RECV" /\ timer' = timer
    BY <1>8
    DEF WaitCreqAck, WaitUnexpected, RapidRecvOutOfRange, RapidRecvDiscards,
        RapidRecvAck, RapidRecvRsnd, RapidRecvFin, RapidRecvUnexpected, KeepsWindow,
        Receiving, clientVars, transferVars, Running
  <2>2. /\ client_state' = "RAPID_SEND" => client_state = "WAIT_CREQ_ACK"
        /\ client_state' \in {"RAPID_SEND", "RAPID_RECV", "FIN", "ABORTED"}
    BY <1>8
    DEF WaitCreqAck, WaitUnexpected, RapidRecvOutOfRange, RapidRecvDiscards,
        RapidRecvAck, RapidRecvRsnd, RapidRecvFin, RapidRecvUnexpected,
        Receiving, clientVars
  <2> QED
    BY <2>1, <2>2, OthersKeepUpdates DEF UpdateInv
<1> QED
  BY <1>1, <1>2, <1>3, <1>4, <1>5, <1>6, <1>7, <1>8, ClientMoves DEF ClientStep, ClientReceives

\* The invariant of the updates holds in every behaviour.
LEMMA UpdateInvHolds == HSpec => []UpdateInv
<1>1. HInit => UpdateInv
  BY DEF HInit, Init, ClientInit, UpdateInv
<1>2. IInv /\ UpdateInv /\ [HNext]_allVars => UpdateInv'
  <2>1. CASE UNCHANGED allVars
    BY <2>1 DEF allVars, historyVars, vars, clientVars, transferVars, UpdateInv, Running
  <2>2. CASE HNext
    BY <2>2, UpdateInvStep DEF HNext, UpdatesCounted
  <2> QED
    BY <2>1, <2>2
<1> QED
  BY <1>1, <1>2, HistoryIsTransfer, InvariantHolds, PTL DEF HSpec

\* The window size is updated exactly once for every window that was sent,
\* whichever of the three places of the code does it.
THEOREM WindowIsUpdatedOnce == HSpec => []UpdatedOncePerWindow
<1>1. UpdateInv => UpdatedOncePerWindow
  BY DEF UpdateInv, UpdatedOncePerWindow, Running
<1> QED
  BY <1>1, UpdateInvHolds, PTL

-----------------------------------------------------------------------------
(* The silence of the server                                               *)

Connecting == client_state \in {"INIT", "WAIT_CREQ_ACK"}

\* server_disconnect_ctr is late by at most one window, the one whose alarm is
\* armed, and is below its limit wherever another window may still follow.
SilenceInv ==
  /\ silent_windows \in Nat /\ GivesUpInTime
  /\ acks_got => silent_windows = 0
  /\ Connecting => silent_windows = 0 /\ ~acks_got
  /\ client_state = "RAPID_SEND" => silent_windows <= server_disconnect_ctr
  /\ timer = "rrecv" => silent_windows <= server_disconnect_ctr + 1
  /\ Connecting \/ client_state \in {"RAPID_SEND", "RAPID_RECV"} \/ timer = "rrecv"
       => server_disconnect_ctr < MAX_RESENDS_BEFORE_TIMEOUT
  /\ client_state = "RAPID_RECV" /\ ~acks_got
       => session_sent_seqs \cap acked_packet_seqs = {}

\* What a step adds to the windows without an answer.
SilenceCounted ==
  silent_windows' = IF AckIsHandled THEN 0
                    ELSE silent_windows + (IF WindowIsSent THEN 1 ELSE 0)

\* A step that sends no window and handles no ACK and no alarm.
LEMMA OthersKeepSilence ==
  ASSUME SilenceInv, SilenceCounted,
         UNCHANGED <<session_sent_seqs, server_disconnect_ctr, acks_got>>,
         timer' \in {"off", "creq", timer},
         Connecting' => Connecting,
         client_state' = "RAPID_SEND"
           => Connecting \/ client_state = "RAPID_SEND" \/ acks_got,
         client_state' = "RAPID_RECV"
           => client_state = "RAPID_RECV" /\ acked_packet_seqs' = acked_packet_seqs,
         client_state' \in {"RAPID_SEND", "RAPID_RECV"}
           => Connecting \/ client_state \in {"RAPID_SEND", "RAPID_RECV"},
         server_disconnect_ctr \in Nat
  PROVE  SilenceInv'
<1>1. silent_windows' = silent_windows
  BY DEF SilenceCounted, SilenceInv, WindowIsSent, AckIsHandled
<1> QED
  BY <1>1 DEF SilenceInv, GivesUpInTime, Connecting

\* An ACK ends the silence.
LEMMA AckKeepsSilence ==
  ASSUME SilenceInv, SilenceCounted, acks_got' = TRUE,
         client_state = "RAPID_RECV", client_state' = "RAPID_RECV",
         UNCHANGED <<timer, server_disconnect_ctr>>,
         server_disconnect_ctr \in Nat
  PROVE  SilenceInv'
<1>1. silent_windows' = 0
  BY DEF SilenceCounted, AckIsHandled
<1> QED
  BY <1>1, WindowAssumption DEF SilenceInv, GivesUpInTime, Connecting

\* The alarm catches up with the silence, and ends the client at the limit.
LEMMA TimeoutKeepsSilence ==
  ASSUME SilenceInv, SilenceCounted, NEW sa, HandleRRecvTimeout(sa),
         timer = "rrecv", ~Connecting, server_disconnect_ctr \in Nat
  PROVE  SilenceInv'
<1>1. /\ timer' = "off" /\ acks_got' = acks_got
      /\ client_state' \in {"FIN", "RAPID_SEND"}
      /\ server_disconnect_ctr' = DisconnectCtr
      /\ client_state' = "RAPID_SEND" => DisconnectCtr < MAX_RESENDS_BEFORE_TIMEOUT
  BY DEF HandleRRecvTimeout
<1>2. silent_windows' = silent_windows
  BY <1>1 DEF SilenceCounted, SilenceInv, WindowIsSent, AckIsHandled
<1>3. silent_windows <= DisconnectCtr
  BY DEF SilenceInv, DisconnectCtr
<1> QED
  BY <1>1, <1>2, <1>3 DEF SilenceInv, GivesUpInTime, Connecting

\* A window lengthens the silence by one, and contains nothing confirmed.
LEMMA WindowKeepsSilence ==
  ASSUME SilenceInv, SilenceCounted, RapidSendWindow, server_disconnect_ctr \in Nat
  PROVE  SilenceInv'
<1>1. /\ client_state = "RAPID_SEND" /\ client_state' = "RAPID_RECV"
      /\ timer' = "rrecv" /\ acks_got' = FALSE
      /\ UNCHANGED <<server_disconnect_ctr, acked_packet_seqs>>
  BY DEF RapidSendWindow, CloseWindow
<1>2. session_sent_seqs' \cap acked_packet_seqs' = {}
  BY <1>1 DEF RapidSendWindow, Windows, ToSendSeqs
<1>3. silent_windows' = silent_windows + 1
  BY <1>1 DEF SilenceCounted, WindowIsSent, AckIsHandled
<1> QED
  BY <1>1, <1>2, <1>3, WindowAssumption DEF SilenceInv, GivesUpInTime, Connecting

\* Every step keeps the invariant of the silence.
LEMMA SilenceInvStep ==
  ASSUME IInv, UpdateInv, SilenceInv, SilenceCounted, [Next]_vars
  PROVE  SilenceInv'
<1>0. server_disconnect_ctr \in Nat
  BY DEF IInv, TypeOK, ClientTypeOK
<1>1. CASE UNCHANGED clientVars
  BY <1>0, <1>1, OthersKeepSilence DEF clientVars, transferVars, ackVars, Connecting
<1>2. CASE \/ ClientStarts \/ ClientStartFails \/ CREQTimeout \/ WaitDamaged
           \/ \E pkt \in toClient : WaitOtherAck(pkt) \/ WaitCreqAck(pkt)
  <2>1. /\ Connecting /\ client_state' \in {"WAIT_CREQ_ACK", "RAPID_SEND", "ABORTED"}
        /\ timer' \in {"off", "creq"} /\ UNCHANGED transferVars
    BY <1>2
    DEF ClientStarts, ClientStartFails, CREQTimeout, WaitDamaged, WaitOtherAck,
        WaitCreqAck, RequestConnection, RequestFails, Abort, Connecting
  <2> QED
    BY <1>0, <2>1, OthersKeepSilence DEF transferVars, ackVars
<1>3. CASE RapidSendWindow
  BY <1>0, <1>3, WindowKeepsSilence
<1>4. CASE RapidSendFails
  <2>1. /\ client_state = "RAPID_SEND" /\ client_state' = "ABORTED"
        /\ timer' = "off" /\ acks_got' = acks_got
    BY <1>4 DEF RapidSendFails, CloseWindow, Abort
  <2>2. silent_windows' = silent_windows
    BY <2>1 DEF SilenceCounted, SilenceInv, WindowIsSent, AckIsHandled
  <2> QED
    BY <2>1, <2>2 DEF SilenceInv, GivesUpInTime, Connecting
<1>5. CASE RapidRecvWindowAcked
  <2>1. session_sent_seqs # {} /\ session_sent_seqs \subseteq acked_packet_seqs
    BY <1>5 DEF RapidRecvWindowAcked, UpdateInv, Running
  <2>2. client_state = "RAPID_RECV" /\ acks_got
    BY <1>5, <2>1 DEF RapidRecvWindowAcked, SilenceInv
  <2>3. client_state' = "RAPID_SEND" /\ UNCHANGED <<timer, transferVars>>
    BY <1>5 DEF RapidRecvWindowAcked
  <2> QED
    BY <1>0, <2>2, <2>3, OthersKeepSilence DEF transferVars, ackVars, Connecting
<1>6. CASE \/ RapidSendNothingLeft \/ RapidRecvAllAcked \/ ClientFinishes \/ AlarmAfterReturn
  <2>1. /\ UNCHANGED <<session_sent_seqs, server_disconnect_ctr, acks_got>>
        /\ timer' \in {"off", timer}
        /\ client_state' \in {"FIN", "RETURNED", "CRASHED"}
    BY <1>6
    DEF RapidSendNothingLeft, RapidRecvAllAcked, ClientFinishes, AlarmAfterReturn,
        transferVars, ackVars
  <2> QED
    BY <1>0, <2>1, OthersKeepSilence DEF Connecting
<1>7. CASE RRecvTimeout
  BY <1>0, <1>7, TimeoutKeepsSilence DEF RRecvTimeout, Connecting
<1>8. ASSUME NEW pkt \in toClient, RRecvTimeoutInAck(pkt)
      PROVE  SilenceInv'
  BY <1>0, <1>8, TimeoutKeepsSilence DEF RRecvTimeoutInAck, Receiving, Connecting
<1>9. ASSUME NEW pkt \in toClient, RapidRecvAck(pkt) \/ RapidRecvRsnd(pkt)
      PROVE  SilenceInv'
  BY <1>0, <1>9, AckKeepsSilence
  DEF RapidRecvAck, RapidRecvRsnd, Receiving, KeepsWindow
<1>10. ASSUME NEW pkt \in toClient,
              \/ WaitUnexpected(pkt) \/ RapidRecvOutOfRange(pkt)
              \/ RapidRecvFin(pkt) \/ RapidRecvUnexpected(pkt)
       PROVE  SilenceInv'
  <2>1. /\ UNCHANGED <<session_sent_seqs, server_disconnect_ctr, ackVars, timer>>
        /\ client_state' \in {client_state, "FIN", "ABORTED"}
    BY <1>10
    DEF WaitUnexpected, RapidRecvOutOfRange, RapidRecvDiscards, RapidRecvFin,
        RapidRecvUnexpected, KeepsWindow, clientVars, transferVars
  <2> QED
    BY <1>0, <2>1, OthersKeepSilence DEF ackVars, Connecting
<1> QED
  BY <1>1, <1>2, <1>3, <1>4, <1>5, <1>6, <1>7, <1>8, <1>9, <1>10, ClientMoves
  DEF ClientStep, ClientReceives

\* The client never sends more windows in a row without handling an answer
\* than the configuration allows.
THEOREM AlwaysGivesUpInTime == HSpec => []GivesUpInTime
<1>1. HInit => SilenceInv
  BY WindowAssumption DEF HInit, Init, ClientInit, SilenceInv, GivesUpInTime, Connecting
<1>2. IInv /\ UpdateInv /\ SilenceInv /\ [HNext]_allVars => SilenceInv'
  <2>1. CASE UNCHANGED allVars
    BY <2>1
    DEF allVars, historyVars, vars, clientVars, transferVars, ackVars, SilenceInv,
        GivesUpInTime, Connecting
  <2>2. CASE HNext
    BY <2>2, SilenceInvStep DEF HNext, SilenceCounted
  <2> QED
    BY <2>1, <2>2
<1>3. SilenceInv => GivesUpInTime
  BY DEF SilenceInv
<1> QED
  BY <1>1, <1>2, <1>3, UpdateInvHolds, HistoryIsTransfer, InvariantHolds, PTL DEF HSpec

-----------------------------------------------------------------------------
(* The count of retransmissions                                            *)

\* The packets that were sent, are not confirmed and are not in the window
\* that is out: each was counted when its last window was closed, and may be
\* sent again on that account.
OnAccount == (ever_sent \ acked_packet_seqs) \ session_sent_seqs

CountInv ==
  /\ ever_sent \subseteq DataSeqs
  /\ session_sent_seqs \subseteq ever_sent
  /\ retransmitted \in Nat
  /\ failed_packet_count < FailedPacketsBound
       => retransmitted + Cardinality(OnAccount) <= failed_packet_count

\* What a step adds to the history of the packets.
PacketsCounted ==
  /\ ever_sent' = ever_sent \cup session_sent_seqs'
  /\ retransmitted' =
       retransmitted + (IF WindowIsSent THEN Cardinality(session_sent_seqs' \cap ever_sent)
                                        ELSE 0)

\* A set of packets is cut in two by another set.
LEMMA CutInTwo ==
  ASSUME NEW S \in SUBSET DataSeqs, NEW T
  PROVE  /\ Cardinality(S \ T) \in Nat /\ Cardinality(S \cap T) \in Nat
         /\ Cardinality(S) = Cardinality(S \ T) + Cardinality(S \cap T)
<1>1. /\ IsFiniteSet(S) /\ IsFiniteSet(S \ T) /\ IsFiniteSet(S \cap T)
  BY DataSeqsFacts, FS_Subset
<1>2. Cardinality((S \ T) \cup (S \cap T))
        = Cardinality(S \ T) + Cardinality(S \cap T) - Cardinality((S \ T) \cap (S \cap T))
  BY <1>1, FS_Union
<1>3. (S \ T) \cup (S \cap T) = S /\ (S \ T) \cap (S \cap T) = {}
  OBVIOUS
<1>4. Cardinality(S \ T) \in Nat /\ Cardinality(S \cap T) \in Nat
  BY <1>1, FS_CardinalityType
<1>5. /\ Cardinality((S \ T) \cup (S \cap T)) = Cardinality(S)
      /\ Cardinality((S \ T) \cap (S \cap T)) = 0
  BY <1>3, FS_EmptySet, Zenon
<1> QED
  BY <1>2, <1>4, <1>5

\* Without another window, a confirmation only takes packets off the account.
LEMMA OthersKeepCount ==
  ASSUME IInv, CountInv, PacketsCounted, ~WindowIsSent,
         UNCHANGED <<session_sent_seqs, failed_packet_count>>,
         acked_packet_seqs \subseteq acked_packet_seqs'
  PROVE  CountInv'
<1>1. ever_sent' = ever_sent /\ retransmitted' = retransmitted
  BY DEF CountInv, PacketsCounted
<1>2. OnAccount' \subseteq OnAccount /\ OnAccount \subseteq DataSeqs
  BY <1>1 DEF OnAccount, CountInv
<1>3. IsFiniteSet(OnAccount)
  BY <1>2, DataSeqsFacts, FS_Subset
<1>4. /\ Cardinality(OnAccount') <= Cardinality(OnAccount)
      /\ Cardinality(OnAccount') \in Nat /\ Cardinality(OnAccount) \in Nat
  BY <1>2, <1>3, FS_Subset, FS_CardinalityType
<1>5. ASSUME failed_packet_count < FailedPacketsBound
      PROVE  retransmitted + Cardinality(OnAccount') <= failed_packet_count
  BY <1>4, <1>5 DEF CountInv, IInv, TypeOK, ClientTypeOK
<1> QED
  BY <1>1, <1>5 DEF CountInv

\* Closing a window puts its packets that are not confirmed on the account
\* and counts them, and the next window takes from it what it sends again.
LEMMA WindowKeepsCount ==
  ASSUME IInv, CountInv, PacketsCounted, CountFailed,
         acked_packet_seqs' = acked_packet_seqs,
         session_sent_seqs' \subseteq ToSendSeqs
  PROVE  CountInv'
<1> DEFINE unacked == ever_sent \ acked_packet_seqs
           again == session_sent_seqs' \cap ever_sent
           lost == session_sent_seqs \ acked_packet_seqs
<1>1. /\ failed_packet_count \in Nat /\ FailedPacketsBound \in Nat
      /\ retransmitted \in Nat
      /\ ever_sent \subseteq DataSeqs /\ session_sent_seqs \subseteq ever_sent
  BY WindowAssumption DEF IInv, TypeOK, ClientTypeOK, CountInv
<1>2. ever_sent' \subseteq DataSeqs /\ session_sent_seqs' \subseteq ever_sent'
  BY <1>1 DEF PacketsCounted, ToSendSeqs
<1>3. /\ OnAccount = unacked \ session_sent_seqs
      /\ lost = unacked \cap session_sent_seqs
      /\ again = unacked \cap session_sent_seqs'
      /\ OnAccount' = unacked \ session_sent_seqs'
  BY <1>1 DEF OnAccount, PacketsCounted, ToSendSeqs
<1>4. /\ Cardinality(OnAccount) \in Nat /\ Cardinality(lost) \in Nat
      /\ Cardinality(again) \in Nat /\ Cardinality(OnAccount') \in Nat
      /\ Cardinality(OnAccount') + Cardinality(again)
           = Cardinality(OnAccount) + Cardinality(lost)
  <2>1. unacked \in SUBSET DataSeqs
    BY <1>1
  <2>2. /\ Cardinality(OnAccount) \in Nat /\ Cardinality(lost) \in Nat
        /\ Cardinality(unacked) = Cardinality(OnAccount) + Cardinality(lost)
    <3> HIDE DEF unacked, lost
    <3> QED
      BY <1>3, <2>1, CutInTwo
  <2>3. /\ Cardinality(OnAccount') \in Nat /\ Cardinality(again) \in Nat
        /\ Cardinality(unacked) = Cardinality(OnAccount') + Cardinality(again)
    <3> HIDE DEF unacked, again
    <3> QED
      BY <1>3, <2>1, CutInTwo
  <2> QED
    BY <2>2, <2>3
<1>5. retransmitted' \in Nat /\ retransmitted' <= retransmitted + Cardinality(again)
  BY <1>1, <1>4 DEF PacketsCounted
<1>6. failed_packet_count'
        = Smaller(FailedPacketsBound, failed_packet_count + Cardinality(lost))
  BY DEF CountFailed
<1>7. ASSUME failed_packet_count' < FailedPacketsBound
      PROVE  retransmitted' + Cardinality(OnAccount') <= failed_packet_count'
  <2> HIDE DEF lost, again
  <2>1. /\ failed_packet_count' = failed_packet_count + Cardinality(lost)
        /\ failed_packet_count < FailedPacketsBound
    BY <1>1, <1>4, <1>6, <1>7 DEF Smaller
  <2>2. retransmitted + Cardinality(OnAccount) <= failed_packet_count
    BY <2>1 DEF CountInv
  <2> QED
    BY <1>1, <1>4, <1>5, <2>1, <2>2
<1> QED
  BY <1>2, <1>5, <1>7 DEF CountInv

\* When no packet is left the last window was confirmed as a whole.
LEMMA NothingLeftKeepsCount ==
  ASSUME IInv, CountInv, PacketsCounted, RapidSendNothingLeft
  PROVE  CountInv'
<1>1. /\ ~WindowIsSent /\ session_sent_seqs' = session_sent_seqs
      /\ acked_packet_seqs' = acked_packet_seqs
  BY DEF RapidSendNothingLeft, WindowIsSent, ackVars
<1>2. session_sent_seqs \ acked_packet_seqs = {}
  BY DEF RapidSendNothingLeft, ToSendSeqs, IInv, TypeOK, ClientTypeOK
<1>3. Cardinality(session_sent_seqs \ acked_packet_seqs) = 0
  BY <1>2, FS_EmptySet
<1>4. failed_packet_count' = failed_packet_count
  BY <1>3, WindowAssumption
  DEF RapidSendNothingLeft, CountFailed, Smaller, IInv, TypeOK, ClientTypeOK
<1> QED
  BY <1>1, <1>4, OthersKeepCount

\* Every step in which no confirmation is forgotten keeps the invariant.
LEMMA CountInvStep ==
  ASSUME IInv, CountInv, PacketsCounted, [Next]_vars,
         acked_packet_seqs \subseteq acked_packet_seqs'
  PROVE  CountInv'
<1>1. CASE RapidSendNothingLeft
  BY <1>1, NothingLeftKeepsCount
<1>2. CASE RapidSendWindow
  <2>1. /\ CountFailed /\ acked_packet_seqs' = acked_packet_seqs
        /\ window_size' \in Nat \ {0}
    BY <1>2, CloseWindowTyped DEF RapidSendWindow, CloseWindow, IInv, TypeOK
  <2>2. session_sent_seqs' \subseteq ToSendSeqs
    BY <1>2 DEF RapidSendWindow, Windows
  <2> QED
    BY <2>1, <2>2, WindowKeepsCount
<1>3. CASE RapidSendFails
  <2>1. CountFailed /\ acked_packet_seqs' = acked_packet_seqs
    BY <1>3 DEF RapidSendFails, CloseWindow
  <2>2. session_sent_seqs' \subseteq ToSendSeqs
    BY <1>3 DEF RapidSendFails, Windows
  <2> QED
    BY <2>1, <2>2, WindowKeepsCount
<1>4. CASE UNCHANGED clientVars
  BY <1>4, OthersKeepCount DEF WindowIsSent, clientVars, transferVars
<1>5. CASE \/ ClientStarts \/ ClientStartFails \/ CREQTimeout \/ WaitDamaged
           \/ RapidRecvAllAcked \/ RapidRecvWindowAcked \/ RRecvTimeout
           \/ ClientFinishes \/ AlarmAfterReturn
  <2>1. /\ ~WindowIsSent
        /\ UNCHANGED <<session_sent_seqs, failed_packet_count>>
    BY <1>5
    DEF ClientStarts, ClientStartFails, CREQTimeout, WaitDamaged, RequestConnection,
        RequestFails, Abort, RapidRecvAllAcked, RapidRecvWindowAcked, RRecvTimeout,
        HandleRRecvTimeout, ClientFinishes, AlarmAfterReturn, WindowIsSent, transferVars
  <2> QED
    BY <2>1, OthersKeepCount
<1>6. ASSUME NEW pkt \in toClient, ClientReceives(pkt)
      PROVE  CountInv'
  <2>1. /\ ~WindowIsSent
        /\ UNCHANGED <<session_sent_seqs, failed_packet_count>>
    BY <1>6
    DEF ClientReceives, WaitOtherAck, WaitCreqAck, WaitUnexpected, RequestConnection,
        RequestFails, RapidRecvOutOfRange, RapidRecvDiscards, RapidRecvAck,
        RapidRecvRsnd, RapidRecvFin, RapidRecvUnexpected, RRecvTimeoutInAck,
        HandleRRecvTimeout, KeepsWindow, Receiving, WindowIsSent, clientVars, transferVars
  <2> QED
    BY <2>1, OthersKeepCount
<1> QED
  BY <1>1, <1>2, <1>3, <1>4, <1>5, <1>6, ClientMoves DEF ClientStep

\* No packet is sent again on account of a loss that was not counted: the
\* printed number is never too small.
THEOREM RetransmissionsAreAlwaysCounted == HSpec => []RetransmissionsAreCounted
<1>1. HInit => CountInv
  <2> SUFFICES ASSUME HInit PROVE CountInv
    OBVIOUS
  <2>1. ever_sent = {} /\ session_sent_seqs = {} /\ retransmitted = 0 /\ failed_packet_count = 0
    BY DEF HInit, Init, ClientInit
  <2>2. OnAccount = {}
    BY <2>1 DEF OnAccount
  <2>3. Cardinality(OnAccount) = 0
    BY <2>2, FS_EmptySet
  <2> QED
    BY <2>1, <2>3 DEF CountInv
<1>2. IInv /\ CountInv /\ [HNext]_allVars
        /\ [acked_packet_seqs \subseteq acked_packet_seqs']_vars => CountInv'
  <2> SUFFICES ASSUME IInv, CountInv, [HNext]_allVars,
                      [acked_packet_seqs \subseteq acked_packet_seqs']_vars
               PROVE  CountInv'
    OBVIOUS
  <2>1. CASE UNCHANGED allVars
    BY <2>1 DEF allVars, historyVars, vars, clientVars, transferVars, ackVars, CountInv, OnAccount
  <2>2. CASE HNext
    <3>1. acked_packet_seqs \subseteq acked_packet_seqs'
      BY DEF vars, clientVars, transferVars, ackVars
    <3> QED
      BY <2>2, <3>1, CountInvStep DEF HNext, PacketsCounted
  <2> QED
    BY <2>1, <2>2
<1>3. IInv /\ CountInv => RetransmissionsAreCounted
  <2> SUFFICES ASSUME IInv, CountInv, failed_packet_count < FailedPacketsBound
               PROVE  retransmitted <= failed_packet_count
    BY DEF RetransmissionsAreCounted
  <2>1. Cardinality(OnAccount) \in Nat
    BY CutInTwo DEF OnAccount, CountInv
  <2>2. failed_packet_count \in Nat /\ retransmitted \in Nat
    BY DEF IInv, TypeOK, ClientTypeOK, CountInv
  <2> QED
    BY <2>1, <2>2 DEF CountInv
<1> QED
  BY <1>1, <1>2, <1>3, HistoryIsTransfer, InvariantHolds, AckedAlwaysOnlyGrows, PTL
  DEF HSpec
=============================================================================
