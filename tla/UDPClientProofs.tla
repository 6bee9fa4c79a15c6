-------------------------- MODULE UDPClientProofs --------------------------
(***************************************************************************)
(* Proofs about UDPClientOpen: what the client keeps whatever its peer     *)
(* sends, for every file and every setting of the window.                  *)
(***************************************************************************)
EXTENDS UDPClientOpen, PacketsProofs, FiniteSetTheorems, TLAPS

USE DEF RequestAlarm, WindowAlarm, StateAfterTimeout, UpdateIsMarked, Confirmed

\* The two sets of confirmed packets agree on the window.
SetsAgree ==
  session_sent_seqs \cap session_acked_seqs = session_sent_seqs \cap acked_packet_seqs

\* The loss of a window may still be computed: its alarm is armed, or the next
\* window will do it.
LossIsDue ==
  \/ client_state \in {"INIT", "WAIT_CREQ_ACK", "RAPID_RECV"}
  \/ timer = "rrecv"
  \/ client_state = "RAPID_SEND" /\ WindowUpdateDue

LossInv ==
  /\ session_sent_seqs \subseteq DataSeqs
  /\ LossIsDue => SetsAgree

\* A window that is not empty is sent with an alarm, and until its loss was
\* computed, which an alarm in the middle of an ACK does at once, its losses are
\* those of the set that decides what is sent again.
WindowInv ==
  /\ window_size \in Nat \ {0}
  /\ NeverWaitsUntimed
  /\ AlarmHasWindow
  /\ LossInv

\* Every way to compute the next window's size yields at least one packet.
LEMMA UpdatedWindowIsPositive ==
  ASSUME window_size \in Nat \ {0}, NEW sa, UpdateWindowSize(sa)
  PROVE  window_size' \in Nat \ {0}
<1>1. WindowIncreased \in Nat \ {0}
  <2>1. window_size * WINDOW_SIZE_INC_RAP \in Nat \ {0}
    BY WindowAssumption
  <2> QED
    BY <2>1, WindowAssumption DEF WindowIncreased
<1>2. WindowDecreased \in Nat \ {0}
  <2> DEFINE n == window_size + WINDOW_SIZE_DEC_REG - 1
  <2>1. n \in Nat /\ WINDOW_SIZE_DEC_REG \in Nat \ {0} /\ WINDOW_SIZE_START \in Nat \ {0}
    BY WindowAssumption
  <2>2. n \div WINDOW_SIZE_DEC_REG \in Nat
    BY <2>1, QuotientRemainder
  <2> QED
    BY <2>1, <2>2 DEF WindowDecreased, Larger
<1> QED
  BY <1>1, <1>2 DEF UpdateWindowSize

\* A file has finitely many packets.
LEMMA DataSeqsAreFinite == IsFiniteSet(DataSeqs)
<1>1. LastDataSeq(Len(File)) \in Nat
  BY PacketsHoldFile, FileAssumption DEF LastDataSeq, DATA_SEQ_FIRST
<1> QED
  BY <1>1, FS_Interval DEF DataSeqs, AllDataSeqs, DATA_SEQ_FIRST

\* A window of at least one packet out of those that are left is not empty.
LEMMA WindowsAreNotEmpty ==
  ASSUME ToSendSeqs # {}, NEW size \in Nat \ {0}, NEW w \in Windows(size)
  PROVE  w # {} /\ w \subseteq ToSendSeqs
<1>1. IsFiniteSet(ToSendSeqs)
  BY DataSeqsAreFinite, FS_Subset DEF ToSendSeqs
<1>2. Cardinality(ToSendSeqs) \in Nat \ {0}
  BY <1>1, FS_CardinalityType, FS_EmptySet
<1>3. Cardinality(w) \in Nat \ {0}
  BY <1>2 DEF Windows, Smaller
<1> QED
  BY <1>3, FS_EmptySet DEF Windows

-----------------------------------------------------------------------------
(* The steps of the client                                                 *)

\* A request arms its own alarm, or ends the client with none.
LEMMA RequestKeeps ==
  ASSUME WindowInv, client_state \in {"INIT", "WAIT_CREQ_ACK"},
         RequestConnection \/ RequestFails
  PROVE  WindowInv'
<1>1. UNCHANGED transferVars
  BY DEF RequestConnection, RequestFails
<1>2. \/ client_state' = "WAIT_CREQ_ACK" /\ timer' = "creq"
      \/ client_state' = "ABORTED" /\ timer' = "off"
  BY DEF RequestConnection, RequestFails, Abort
<1>3. SetsAgree
  BY DEF WindowInv, LossInv, LossIsDue
<1> QED
  BY <1>1, <1>2, <1>3
  DEF WindowInv, NeverWaitsUntimed, AlarmHasWindow, LossInv, LossIsDue, SetsAgree,
      transferVars, ackVars, windowVars

\* A new window starts with no ACKs of its own, and none of its packets was
\* confirmed before.
LEMMA CloseWindowKeeps ==
  ASSUME WindowInv, CloseWindow
  PROVE  /\ window_size' \in Nat \ {0}
         /\ ToSendSeqs # {}
         /\ session_acked_seqs' = {}
         /\ acked_packet_seqs' = acked_packet_seqs
<1>1. CASE WindowUpdateDue
  BY <1>1, UpdatedWindowIsPositive DEF CloseWindow, WindowInv
<1>2. CASE ~WindowUpdateDue
  BY <1>2 DEF CloseWindow, WindowInv, windowVars
<1> QED
  BY <1>1, <1>2 DEF CloseWindow

\* The handler of the alarm leaves no alarm behind, and no loss to be computed.
LEMMA TimeoutKeeps ==
  ASSUME WindowInv, timer = "rrecv", NEW sa, HandleRRecvTimeout(sa)
  PROVE  WindowInv'
<1>1. timer' = "off" /\ client_state' \in {"FIN", "RAPID_SEND"}
  BY DEF HandleRRecvTimeout
<1>2. window_size' \in Nat \ {0}
  <2>1. CASE UpdateWindowSize(sa)
    BY <2>1, UpdatedWindowIsPositive DEF WindowInv
  <2>2. CASE UNCHANGED windowVars
    BY <2>2 DEF WindowInv, windowVars
  <2> QED
    BY <2>1, <2>2 DEF HandleRRecvTimeout
<1>3. session_sent_seqs' = session_sent_seqs /\ session_sent_seqs # {}
  BY DEF HandleRRecvTimeout, WindowInv, AlarmHasWindow
<1>4. ~LossIsDue'
  <2>1. client_state' = "RAPID_SEND" => updated_window_size_in_rtt' = TRUE
    BY <1>3 DEF HandleRRecvTimeout
  <2> QED
    BY <1>1, <2>1 DEF LossIsDue, WindowUpdateDue
<1> QED
  BY <1>1, <1>2, <1>3, <1>4 DEF WindowInv, NeverWaitsUntimed, AlarmHasWindow, LossInv

\* What the client does on its own.
LEMMA ClientStepKeepsWindow ==
  ASSUME WindowInv, ClientStep
  PROVE  WindowInv'
<1>1. CASE ClientStarts \/ ClientStartFails \/ CREQTimeout
  BY <1>1, RequestKeeps DEF ClientStarts, ClientStartFails, CREQTimeout
<1>2. CASE RapidSendWindow
  <2>1. /\ window_size' \in Nat \ {0} /\ ToSendSeqs # {}
        /\ session_acked_seqs' = {}
        /\ acked_packet_seqs' = acked_packet_seqs
    BY <1>2, CloseWindowKeeps DEF RapidSendWindow
  <2>2. session_sent_seqs' # {} /\ session_sent_seqs' \subseteq ToSendSeqs
    BY <1>2, <2>1, WindowsAreNotEmpty DEF RapidSendWindow
  <2>3. session_sent_seqs' \cap acked_packet_seqs = {}
    BY <2>2 DEF ToSendSeqs
  <2>4. session_sent_seqs' \subseteq DataSeqs
    BY <2>2 DEF ToSendSeqs
  <2> QED
    BY <1>2, <2>1, <2>2, <2>3, <2>4
    DEF RapidSendWindow, WindowInv, NeverWaitsUntimed, AlarmHasWindow, LossInv, SetsAgree
<1>3. CASE RapidSendFails
  <2>1. window_size' \in Nat \ {0}
    BY <1>3, CloseWindowKeeps DEF RapidSendFails
  <2>2. session_sent_seqs' \subseteq DataSeqs
    BY <1>3 DEF RapidSendFails, Windows, ToSendSeqs
  <2> QED
    BY <1>3, <2>1, <2>2
    DEF RapidSendFails, Abort, WindowInv, NeverWaitsUntimed, AlarmHasWindow, LossInv,
        LossIsDue
<1>4. CASE RRecvTimeout
  BY <1>4, TimeoutKeeps DEF RRecvTimeout
<1>5. CASE RapidSendNothingLeft \/ RapidRecvAllAcked \/ ClientFinishes \/ AlarmAfterReturn
  <2>1. /\ client_state' \in {"FIN", "RETURNED", "CRASHED"}
        /\ timer' \in {"off", timer}
        /\ UNCHANGED <<acked_packet_seqs, session_acked_seqs, session_sent_seqs, window_size>>
    BY <1>5
    DEF RapidSendNothingLeft, RapidRecvAllAcked, ClientFinishes, AlarmAfterReturn,
        transferVars, ackVars, windowVars
  <2> QED
    BY <2>1
    DEF WindowInv, NeverWaitsUntimed, AlarmHasWindow, LossInv, LossIsDue, SetsAgree
<1>6. CASE RapidRecvWindowAcked
  BY <1>6
  DEF RapidRecvWindowAcked, transferVars, ackVars, windowVars, WindowInv,
      NeverWaitsUntimed, AlarmHasWindow, LossInv, LossIsDue, SetsAgree
<1> QED
  BY <1>1, <1>2, <1>3, <1>4, <1>5, <1>6 DEF ClientStep

\* What the client does on any packet at all.
LEMMA ClientReceivesKeepsWindow ==
  ASSUME WindowInv, NEW pkt, ClientReceives(pkt)
  PROVE  WindowInv'
<1> USE DEF WindowInv, NeverWaitsUntimed, AlarmHasWindow, LossInv, LossIsDue, SetsAgree
<1>1. CASE WaitOtherAck(pkt)
  BY <1>1, RequestKeeps DEF WaitOtherAck
<1>2. CASE WaitCreqAck(pkt) \/ WaitUnexpected(pkt)
  <2>1. /\ client_state' \in {"RAPID_SEND", "ABORTED"}
        /\ timer' \in {"off", timer} /\ timer # "rrecv"
        /\ UNCHANGED transferVars
        /\ SetsAgree
    BY <1>2 DEF WaitCreqAck, WaitUnexpected
  <2> QED
    BY <2>1 DEF transferVars, ackVars, windowVars
<1>3. CASE RapidRecvOutOfRange(pkt)
  BY <1>3
  DEF RapidRecvOutOfRange, RapidRecvDiscards, Receiving, clientVars, transferVars,
      ackVars, windowVars
<1>4. CASE RapidRecvAck(pkt) \/ RapidRecvRsnd(pkt)
  <2>1. /\ UNCHANGED <<client_state, timer, session_sent_seqs, window_size>>
        /\ client_state = "RAPID_RECV"
    BY <1>4 DEF RapidRecvAck, RapidRecvRsnd, Receiving, KeepsWindow, windowVars
  <2>2. session_sent_seqs \cap session_acked_seqs' = session_sent_seqs \cap acked_packet_seqs'
    BY <1>4, <2>1 DEF RapidRecvAck, RapidRecvRsnd
  <2> QED
    BY <2>1, <2>2
<1>5. CASE RapidRecvFin(pkt) \/ RapidRecvUnexpected(pkt)
  BY <1>5 DEF RapidRecvFin, RapidRecvUnexpected, KeepsWindow, ackVars, windowVars
<1>6. CASE RRecvTimeoutInAck(pkt)
  BY <1>6, TimeoutKeeps DEF RRecvTimeoutInAck
<1> QED
  BY <1>1, <1>2, <1>3, <1>4, <1>5, <1>6 DEF ClientReceives

\* Every step of the client, with any peer, keeps the invariant.
LEMMA WindowInvStep ==
  ASSUME WindowInv, [Next]_clientVars
  PROVE  WindowInv'
<1>1. CASE ClientStep
  BY <1>1, ClientStepKeepsWindow
<1>2. CASE \E pkt \in PeerPackets : MaySend(pkt) /\ ClientReceives(pkt)
  BY <1>2, ClientReceivesKeepsWindow
<1>3. CASE WaitDamaged
  BY <1>3, RequestKeeps DEF WaitDamaged
<1>4. CASE UNCHANGED clientVars
  BY <1>4
  DEF clientVars, transferVars, ackVars, windowVars, WindowInv, NeverWaitsUntimed,
      AlarmHasWindow, LossInv, LossIsDue, SetsAgree, WindowUpdateDue
<1>5. CASE WaitForeign \/ RapidRecvDiscards \/ Ended
  BY <1>4, <1>5 DEF WaitForeign, RapidRecvDiscards, Ended, vars
<1> QED
  BY <1>1, <1>2, <1>3, <1>4, <1>5 DEF Next, ClientDropsDamaged, ClientDropsForeign

-----------------------------------------------------------------------------
(* The theorems                                                            *)

\* The invariant holds in every run.
LEMMA WindowInvHolds == Spec => []WindowInv
<1>1. ClientInit => WindowInv
  BY WindowAssumption
  DEF ClientInit, WindowInv, NeverWaitsUntimed, AlarmHasWindow, LossInv, SetsAgree
<1>2. WindowInv /\ [Next]_clientVars => WindowInv'
  BY WindowInvStep
<1> QED
  BY <1>1, <1>2, PTL DEF Spec

\* Whatever the peer does, the client waits for a packet only with an alarm
\* armed, on every path that stops the alarm and arms it again.
THEOREM ClientNeverWaitsUntimed == Spec => []NeverWaitsUntimed
<1>1. WindowInv => NeverWaitsUntimed
  BY DEF WindowInv
<1> QED
  BY <1>1, WindowInvHolds, PTL

\* The alarm of a window goes off only with a window out: no way to compute a
\* window's size, however often it is divided, yields an empty one.
THEOREM AlarmAlwaysHasWindow == Spec => []AlarmHasWindow
<1>1. WindowInv => AlarmHasWindow
  BY DEF WindowInv
<1> QED
  BY <1>1, WindowInvHolds, PTL

\* Two sets that differ by one element.
LEMMA OneApart ==
  ASSUME NEW A, NEW B, NEW e, IsFiniteSet(A),
         A = B \/ A = B \cup {e} \/ A = B \ {e}
  PROVE  Cardinality(A) \in Cardinality(B) - 1 .. Cardinality(B) + 1
<1>1. IsFiniteSet(B)
  <2>1. B \subseteq A \cup {e}
    OBVIOUS
  <2>2. IsFiniteSet(A \cup {e})
    BY FS_AddElement
  <2> QED
    BY <2>1, <2>2, FS_Subset
<1>2. Cardinality(A) \in Nat /\ Cardinality(B) \in Nat
  BY <1>1, FS_CardinalityType
<1>3. CASE A = B
  BY <1>2, <1>3
<1>4. CASE A = B \cup {e}
  <2>1. Cardinality(A) = IF e \in B THEN Cardinality(B) ELSE Cardinality(B) + 1
    BY <1>1, <1>4, FS_AddElement
  <2> QED
    BY <1>2, <2>1
<1>5. CASE A = B \ {e}
  <2>1. Cardinality(A) = IF e \in B THEN Cardinality(B) - 1 ELSE Cardinality(B)
    BY <1>1, <1>5, FS_RemoveElement
  <2> QED
    BY <1>2, <2>1
<1> QED
  BY <1>3, <1>4, <1>5

\* What the handler of the alarm computes when the client goes on.
LEMMA TimeoutComputesLoss ==
  ASSUME AlarmHasWindow, timer = "rrecv", NEW sa, HandleRRecvTimeout(sa),
         client_state' = "RAPID_SEND"
  PROVE  old_drop_factor' = DropFactor(sa)
BY DEF AlarmHasWindow, HandleRRecvTimeout, UpdateWindowSize

\* A step that computes a loss is the start of the next window or an alarm,
\* between two iterations or in the middle of one.
LEMMA LossIsComputedBy ==
  ASSUME WindowInv, [Next]_clientVars, LossIsComputed
  PROVE  \/ CloseWindow /\ WindowUpdateDue
         \/ RRecvTimeout /\ client_state' = "RAPID_SEND"
         \/ /\ client_state' = "RAPID_SEND"
            /\ \E pkt \in PeerPackets : RRecvTimeoutInAck(pkt)
<1> SUFFICES ASSUME timer = "rrecv", timer' = "off", client_state' = "RAPID_SEND"
             PROVE  RRecvTimeout \/ \E pkt \in PeerPackets : RRecvTimeoutInAck(pkt)
  BY DEF LossIsComputed
<1>1. client_state # "WAIT_CREQ_ACK"
  BY DEF WindowInv, NeverWaitsUntimed
<1>2. CASE ClientStep
  BY <1>2
  DEF ClientStep, ClientStarts, ClientStartFails, CREQTimeout, RequestConnection,
      RequestFails, Abort, RapidSendNothingLeft, RapidSendWindow, RapidSendFails,
      RapidRecvAllAcked, RapidRecvWindowAcked, ClientFinishes, AlarmAfterReturn
<1>3. CASE \E pkt \in PeerPackets : MaySend(pkt) /\ ClientReceives(pkt)
  <2>1. PICK pkt \in PeerPackets : ClientReceives(pkt)
    BY <1>3
  <2>2. RRecvTimeoutInAck(pkt)
    BY <1>1, <2>1
    DEF ClientReceives, WaitOtherAck, WaitCreqAck, WaitUnexpected, RapidRecvOutOfRange,
        RapidRecvDiscards, RapidRecvAck, RapidRecvRsnd, RapidRecvFin,
        RapidRecvUnexpected, clientVars
  <2> QED
    BY <2>2
<1>4. CASE UNCHANGED clientVars
  BY <1>4 DEF clientVars
<1>5. CASE WaitDamaged \/ WaitForeign \/ RapidRecvDiscards \/ Ended
  BY <1>1, <1>5 DEF WaitDamaged, WaitForeign, RapidRecvDiscards, Ended, clientVars, vars
<1> QED
  BY <1>2, <1>3, <1>4, <1>5 DEF Next, ClientDropsDamaged, ClientDropsForeign

\* What is off by one packet at most, and exact if nothing is confirmed.
LEMMA OneApartIsEnough ==
  ASSUME session_sent_seqs \subseteq DataSeqs, NEW sa, NEW e,
         old_drop_factor' = DropFactor(sa),
         LET A == session_sent_seqs \ sa
             B == session_sent_seqs \ acked_packet_seqs'
         IN  /\ A = B \/ A = B \cup {e} \/ A = B \ {e}
             /\ acked_packet_seqs' = acked_packet_seqs => A = B
  PROVE  LossIsOffByOneAtMost
<1> DEFINE A == session_sent_seqs \ sa
           B == session_sent_seqs \ acked_packet_seqs'
<1>1. IsFiniteSet(A)
  BY DataSeqsAreFinite, FS_Subset
<1>2. Cardinality(A) \in Cardinality(B) - 1 .. Cardinality(B) + 1
  <2>1. A = B \/ A = B \cup {e} \/ A = B \ {e}
    OBVIOUS
  <2> HIDE DEF A, B
  <2> QED
    BY <1>1, <2>1, OneApart
<1>3. acked_packet_seqs' = acked_packet_seqs => Cardinality(A) = Cardinality(B)
  OBVIOUS
<1>4. old_drop_factor' = <<Cardinality(A), Cardinality(session_sent_seqs)>>
  BY DEF DropFactor
<1> QED
  BY <1>2, <1>3, <1>4 DEF LossIsOffByOneAtMost

\* Each of them is off by the packet of the interrupted ACK or RSND at most.
LEMMA LossStep ==
  ASSUME WindowInv, [Next]_clientVars, LossIsComputed
  PROVE  LossIsOffByOneAtMost
<1>1. session_sent_seqs \subseteq DataSeqs /\ AlarmHasWindow
  BY DEF WindowInv, LossInv
<1>2. CASE CloseWindow /\ WindowUpdateDue
  <2>1. old_drop_factor' = DropFactor(session_acked_seqs)
    BY <1>2 DEF CloseWindow, UpdateWindowSize
  <2>2. session_sent_seqs \ session_acked_seqs = session_sent_seqs \ acked_packet_seqs'
    BY <1>2 DEF CloseWindow, WindowInv, LossInv, LossIsDue, SetsAgree
  <2> QED
    BY <1>1, <2>1, <2>2, OneApartIsEnough
<1>3. CASE RRecvTimeout /\ client_state' = "RAPID_SEND"
  <2>1. old_drop_factor' = DropFactor(session_acked_seqs)
    BY <1>1, <1>3, TimeoutComputesLoss DEF RRecvTimeout
  <2>2. session_sent_seqs \ session_acked_seqs = session_sent_seqs \ acked_packet_seqs'
    BY <1>3 DEF RRecvTimeout, WindowInv, LossInv, LossIsDue, SetsAgree
  <2> QED
    BY <1>1, <2>1, <2>2, OneApartIsEnough
<1>4. CASE client_state' = "RAPID_SEND" /\ \E pkt \in PeerPackets : RRecvTimeoutInAck(pkt)
  <2>1. PICK pkt \in PeerPackets : RRecvTimeoutInAck(pkt)
    BY <1>4
  <2>2. old_drop_factor' = DropFactor(session_acked_seqs')
    BY <1>1, <1>4, <2>1, TimeoutComputesLoss DEF RRecvTimeoutInAck
  <2>3. SetsAgree
    BY <2>1 DEF RRecvTimeoutInAck, WindowInv, LossInv, LossIsDue
  <2> DEFINE A == session_sent_seqs \ session_acked_seqs'
             B == session_sent_seqs \ acked_packet_seqs'
  <2>4. \E e : /\ A = B \/ A = B \cup {e} \/ A = B \ {e}
               /\ acked_packet_seqs' = acked_packet_seqs => A = B
    <3>1. CASE IsDataAck(pkt)
      <4>1. /\ acked_packet_seqs' = acked_packet_seqs \cup {pkt.seq_to_ack}
            /\ session_acked_seqs' \in {session_acked_seqs,
                                        session_acked_seqs \cup {pkt.seq_to_ack}}
        BY <2>1, <3>1 DEF RRecvTimeoutInAck, IsDataAck, IsDataRsnd
      <4>2. A = B \/ A = B \cup {pkt.seq_to_ack}
        BY <2>3, <4>1 DEF SetsAgree
      <4>3. acked_packet_seqs' = acked_packet_seqs => A = B
        BY <2>3, <4>1 DEF SetsAgree
      <4> QED
        BY <4>2, <4>3
    <3>2. CASE IsDataRsnd(pkt)
      <4>1. /\ acked_packet_seqs' = acked_packet_seqs \ {pkt.seq_to_rsnd}
            /\ session_acked_seqs' \in {session_acked_seqs,
                                        session_acked_seqs \ {pkt.seq_to_rsnd}}
        BY <2>1, <3>2 DEF RRecvTimeoutInAck, IsDataAck, IsDataRsnd
      <4>2. A = B \/ A = B \ {pkt.seq_to_rsnd}
        BY <2>3, <4>1 DEF SetsAgree
      <4>3. acked_packet_seqs' = acked_packet_seqs => A = B
        BY <2>3, <4>1 DEF SetsAgree
      <4> QED
        BY <4>2, <4>3
    <3> QED
      BY <2>1, <3>1, <3>2 DEF RRecvTimeoutInAck
  <2> QED
    BY <1>1, <2>2, <2>4, OneApartIsEnough
<1> QED
  BY <1>2, <1>3, <1>4, LossIsComputedBy

\* Whatever the peer does and wherever the alarm falls, the computed loss of a
\* window is off by one packet at most, and only in the step that interrupts the
\* handling of that packet's ACK or RSND.
THEOREM LossAlwaysWithinOnePacket == Spec => LossWithinOnePacket
<1>1. WindowInv /\ [Next]_clientVars => [LossIsComputed => LossIsOffByOneAtMost]_clientVars
  BY LossStep
<1> QED
  BY <1>1, WindowInvHolds, PTL DEF Spec, LossWithinOnePacket
=============================================================================
