----------------------------- MODULE UDPClient -----------------------------
(***************************************************************************)
(* ZTransferUDPClient.initiate_transfer (src/client/udp.py): the sender of *)
(* a file.  An action is one iteration of the state machine's loop, with   *)
(* the exception handler that ends it.  A handler of a received packet     *)
(* takes the packet as its parameter; the modules that use this one say    *)
(* where it comes from.  toServer holds the packets the client has sent    *)
(* and that may still arrive.                                              *)
(*                                                                         *)
(* SIGALRM raises its exception between any two bytecodes of the loop, so  *)
(* a timeout is enabled wherever the alarm is armed, also half way through *)
(* the handling of an ACK.                                                 *)
(***************************************************************************)
EXTENDS Packets

CONSTANTS
  File,                        \* the bytes of the file, a sequence
  MAX_RESENDS_BEFORE_TIMEOUT,
  WINDOW_SIZE_START,
  WINDOW_SIZE_INC_RAP,
  WINDOW_SIZE_INC_REG,
  WINDOW_SIZE_DEC_REG,
  FailedPacketsBound,          \* failed_packet_count is not counted above it
  ClientSocketErrors                 \* may bind() and sendto() fail?

ASSUME FileAssumption ==
  File \in Seq(Nat) /\ LastDataSeq(Len(File)) < SEQ_LIMIT
ASSUME WindowAssumption ==
  /\ MAX_RESENDS_BEFORE_TIMEOUT \in Nat \ {0}
  /\ WINDOW_SIZE_START \in Nat \ {0}
  /\ WINDOW_SIZE_INC_RAP \in Nat \ {0}
  /\ WINDOW_SIZE_INC_REG \in Nat
  /\ WINDOW_SIZE_DEC_REG \in Nat \ {0}
  /\ FailedPacketsBound \in Nat
  /\ ClientSocketErrors \in BOOLEAN

VARIABLES
  client_state,
  timer,                       \* the alarm: "off", "creq" or "rrecv"
  acked_packet_seqs,
  session_sent_seqs,           \* the current window
  session_acked_seqs,
  acks_got,                    \* _acks_got_up_to_timeout > 0
  server_disconnect_ctr,
  failed_packet_count,
  window_size,                 \* the ceiling of the float
  old_drop_factor,             \* <<lost, sent>> stands for 100 * lost / sent
  in_rapid_start,
  in_first_rtt,
  updated_window_size_in_rtt,
  toServer

windowVars == <<window_size, old_drop_factor, in_rapid_start>>
ackVars == <<acked_packet_seqs, session_acked_seqs, acks_got>>
transferVars ==
  <<ackVars, session_sent_seqs, server_disconnect_ctr, failed_packet_count,
    windowVars, in_first_rtt, updated_window_size_in_rtt>>
clientVars == <<client_state, timer, transferVars>>

DataSeqs == AllDataSeqs(LastDataSeq(Len(File)))

\* Seeded fault: the request announces one packet more than will be sent.
CreqAnnouncesMore == [ZTConnReq(File) EXCEPT !.last_seq = @ + 1]

CreqPacket == ZTConnReq(File)
ClientPackets == {CreqPacket} \cup {ZTData(File, s) : s \in DataSeqs}

\* RETURNED: through FIN.  ABORTED: cleared and returned on an error.
\* CRASHED: an exception left initiate_transfer or its caller.
ClientStates == {"INIT", "WAIT_CREQ_ACK", "RAPID_SEND", "RAPID_RECV", "FIN",
                 "RETURNED", "ABORTED", "CRASHED"}
ClientEnded == client_state \in {"RETURNED", "ABORTED", "CRASHED"}

Larger(a, b)  == IF a >= b THEN a ELSE b
Smaller(a, b) == IF a <= b THEN a ELSE b

ClientInit ==
  /\ client_state = "INIT"
  /\ timer = "off"
  /\ acked_packet_seqs = {}
  /\ session_sent_seqs = {}
  /\ session_acked_seqs = {}
  /\ acks_got = FALSE
  /\ server_disconnect_ctr = 0
  /\ failed_packet_count = 0
  /\ window_size = WINDOW_SIZE_START
  /\ old_drop_factor = <<1, 1>>
  /\ in_rapid_start = TRUE
  /\ in_first_rtt = TRUE
  /\ updated_window_size_in_rtt = FALSE
  /\ toServer = {}

-----------------------------------------------------------------------------
(* Connection request                                                      *)

\* Seeded fault: the alarm was stopped and is not armed again.
NoAlarm == "off"

RequestAlarm == "creq"
WindowAlarm == "rrecv"

\* Send a CREQ, arm the alarm for its ACK and wait for it.
RequestConnection ==
  /\ toServer' = toServer \cup {CreqPacket}
  /\ timer' = RequestAlarm
  /\ client_state' = "WAIT_CREQ_ACK"
  /\ UNCHANGED transferVars

\* sendto() raised: clear() and return, the alarm being off by then.
Abort ==
  /\ ClientSocketErrors
  /\ client_state' = "ABORTED"
  /\ timer' = "off"

RequestFails == Abort /\ UNCHANGED <<transferVars, toServer>>

ClientStarts ==
  /\ client_state = "INIT"
  /\ RequestConnection

\* No port of the pool is free, or the CREQ cannot be sent.
ClientStartFails ==
  /\ client_state = "INIT"
  /\ RequestFails

WaitForeign ==
  /\ client_state = "WAIT_CREQ_ACK"
  /\ UNCHANGED <<clientVars, toServer>>

\* A damaged packet is answered with another CREQ.
WaitDamaged ==
  /\ client_state = "WAIT_CREQ_ACK"
  /\ RequestConnection \/ RequestFails

WaitOtherAck(pkt) ==
  /\ client_state = "WAIT_CREQ_ACK"
  /\ pkt.ptype = "ACK" /\ pkt.seq_to_ack # CREQ_SEQ
  /\ RequestConnection \/ RequestFails

WaitCreqAck(pkt) ==
  /\ client_state = "WAIT_CREQ_ACK"
  /\ pkt.ptype = "ACK" /\ pkt.seq_to_ack = CREQ_SEQ
  /\ client_state' = "RAPID_SEND"
  /\ timer' = "off"
  /\ UNCHANGED <<transferVars, toServer>>

\* The warning about the packet reads a field packets do not have: the
\* AttributeError ends the transfer, and the alarm stays armed.
WaitUnexpected(pkt) ==
  /\ client_state = "WAIT_CREQ_ACK"
  /\ pkt.ptype # "ACK"
  /\ client_state' = "ABORTED"
  /\ UNCHANGED <<timer, transferVars, toServer>>

CREQTimeout ==
  /\ client_state = "WAIT_CREQ_ACK"
  /\ timer = "creq"
  /\ RequestConnection \/ RequestFails

-----------------------------------------------------------------------------
(* The congestion window                                                   *)

\* The share of the window that was lost, the ACKs being those in sa.
DropFactor(sa) ==
  <<Cardinality(session_sent_seqs \ sa), Cardinality(session_sent_seqs)>>

LessLoss(d, e) == d[1] * e[2] < e[1] * d[2]

Improved(sa) == DropFactor(sa)[1] = 0 \/ LessLoss(DropFactor(sa), old_drop_factor)

WindowIncreased ==
  IF in_rapid_start THEN window_size * WINDOW_SIZE_INC_RAP
                    ELSE window_size + WINDOW_SIZE_INC_REG

\* Seeded fault: an integer division, with no smallest window.
WindowDecreasedToZero == window_size \div WINDOW_SIZE_DEC_REG

\* Rounded up: the loop sends while fewer than window_size are sent.
WindowDecreased ==
  Larger(WINDOW_SIZE_START,
         (window_size + WINDOW_SIZE_DEC_REG - 1) \div WINDOW_SIZE_DEC_REG)

UpdateWindowSize(sa) ==
  /\ window_size' = IF Improved(sa) THEN WindowIncreased ELSE WindowDecreased
  /\ in_rapid_start' = (in_rapid_start /\ Improved(sa))
  /\ old_drop_factor' = DropFactor(sa)

WindowUpdateDue ==
  /\ ~updated_window_size_in_rtt
  /\ ~in_first_rtt
  /\ session_sent_seqs # {}

-----------------------------------------------------------------------------
(* Sending a window                                                        *)

ToSendSeqs == DataSeqs \ acked_packet_seqs

\* The order of a Python set is not specified: any window of the right size.
Windows(size) ==
  {w \in SUBSET ToSendSeqs :
     Cardinality(w) = Smaller(size, Cardinality(ToSendSeqs))}

\* Seeded fault: a window with losses counts as one packet.
CountFailedWindows ==
  failed_packet_count' =
    Smaller(FailedPacketsBound,
            failed_packet_count
              + (IF session_sent_seqs \subseteq acked_packet_seqs THEN 0 ELSE 1))

CountFailed ==
  failed_packet_count' =
    Smaller(FailedPacketsBound,
            failed_packet_count + Cardinality(session_sent_seqs \ acked_packet_seqs))

RapidSendNothingLeft ==
  /\ client_state = "RAPID_SEND"
  /\ ToSendSeqs = {}
  /\ client_state' = "FIN"
  /\ timer' = "off"
  /\ CountFailed
  /\ UNCHANGED <<ackVars, session_sent_seqs, server_disconnect_ctr, windowVars,
                 in_first_rtt, updated_window_size_in_rtt, toServer>>

\* What every window starts with: the books of the last one are closed.
CloseWindow ==
  /\ client_state = "RAPID_SEND"
  /\ ToSendSeqs # {}
  /\ CountFailed
  /\ IF WindowUpdateDue THEN UpdateWindowSize(session_acked_seqs)
                        ELSE UNCHANGED windowVars
  /\ session_acked_seqs' = {}
  /\ UNCHANGED <<acked_packet_seqs, server_disconnect_ctr>>

\* The flag is cleared by the first statement that follows in RAPID_RECV.
RapidSendWindow ==
  /\ CloseWindow
  /\ session_sent_seqs' \in Windows(window_size')
  /\ toServer' = toServer \cup {ZTData(File, s) : s \in session_sent_seqs'}
  /\ timer' = WindowAlarm
  /\ in_first_rtt' = FALSE
  /\ updated_window_size_in_rtt' = FALSE
  /\ acks_got' = FALSE
  /\ client_state' = "RAPID_RECV"

\* sendto() raises when only some packets of the window are sent.
RapidSendFails ==
  /\ CloseWindow
  /\ Abort
  /\ \E w \in Windows(window_size') :
       session_sent_seqs' \in (SUBSET w) \ {w}
  /\ toServer' = toServer \cup {ZTData(File, s) : s \in session_sent_seqs'}
  /\ UNCHANGED <<in_first_rtt, updated_window_size_in_rtt, acks_got>>

-----------------------------------------------------------------------------
(* Receiving the ACKs of a window                                          *)

RapidRecvAllAcked ==
  /\ client_state = "RAPID_RECV"
  /\ acked_packet_seqs = DataSeqs
  /\ client_state' = "FIN"
  /\ timer' = "off"
  /\ UNCHANGED <<transferVars, toServer>>

\* The alarm is still armed when the next window is about to be sent.
RapidRecvWindowAcked ==
  /\ client_state = "RAPID_RECV"
  /\ acked_packet_seqs # DataSeqs
  /\ session_sent_seqs \subseteq acked_packet_seqs
  /\ client_state' = "RAPID_SEND"
  /\ UNCHANGED <<timer, transferVars, toServer>>

\* The client waits in recvfrom() for packets of this window.
Receiving ==
  /\ client_state = "RAPID_RECV"
  /\ acked_packet_seqs # DataSeqs
  /\ ~(session_sent_seqs \subseteq acked_packet_seqs)

\* What no received packet changes.
KeepsWindow ==
  UNCHANGED <<session_sent_seqs, server_disconnect_ctr, failed_packet_count,
              windowVars, in_first_rtt, updated_window_size_in_rtt, toServer>>

\* A packet of another host, a damaged one, or one that names no data packet.
RapidRecvDiscards == Receiving /\ UNCHANGED <<clientVars, toServer>>

IsDataAck(pkt)  == pkt.ptype = "ACK" /\ NamesData(pkt.seq_to_ack)
IsDataRsnd(pkt) == pkt.ptype = "RSND" /\ NamesData(pkt.seq_to_rsnd)
OutOfRange(pkt) ==
  \/ pkt.ptype = "ACK" /\ ~NamesData(pkt.seq_to_ack)
  \/ pkt.ptype = "RSND" /\ ~NamesData(pkt.seq_to_rsnd)

RapidRecvOutOfRange(pkt) == OutOfRange(pkt) /\ RapidRecvDiscards

\* Seeded fault: an ACK is taken to confirm all packets before it, too.
ConfirmedUpTo(pkt) == acked_packet_seqs \cup AllDataSeqs(pkt.seq_to_ack)

Confirmed(pkt) == acked_packet_seqs \cup {pkt.seq_to_ack}

RapidRecvAck(pkt) ==
  /\ Receiving
  /\ IsDataAck(pkt)
  /\ acked_packet_seqs' = Confirmed(pkt)
  /\ session_acked_seqs' = session_acked_seqs \cup {pkt.seq_to_ack}
  /\ acks_got' = TRUE
  /\ KeepsWindow /\ UNCHANGED <<client_state, timer>>

RapidRecvRsnd(pkt) ==
  /\ Receiving
  /\ IsDataRsnd(pkt)
  /\ acked_packet_seqs' = acked_packet_seqs \ {pkt.seq_to_rsnd}
  /\ session_acked_seqs' = session_acked_seqs \ {pkt.seq_to_rsnd}
  /\ acks_got' = TRUE
  /\ KeepsWindow /\ UNCHANGED <<client_state, timer>>

\* The alarm is left armed.
RapidRecvFin(pkt) ==
  /\ Receiving
  /\ pkt.ptype = "FIN"
  /\ client_state' = "FIN"
  /\ KeepsWindow /\ UNCHANGED <<timer, ackVars>>

\* As in WaitUnexpected.
RapidRecvUnexpected(pkt) ==
  /\ Receiving
  /\ pkt.ptype \notin {"ACK", "RSND", "FIN"}
  /\ client_state' = "ABORTED"
  /\ KeepsWindow /\ UNCHANGED <<timer, ackVars>>

-----------------------------------------------------------------------------
(* The alarm of a window                                                   *)

\* Seeded fault: silent windows do not add up.
DisconnectCtrForgets == IF acks_got THEN 0 ELSE 1

DisconnectCtr == IF acks_got THEN 0 ELSE server_disconnect_ctr + 1

\* Seeded fault: a window that times out starts the handshake again.
HandshakeAfterTimeout == "WAIT_CREQ_ACK"

StateAfterTimeout == "RAPID_SEND"

\* Seeded fault: the second update of the window is not prevented.
UpdateNotMarked == UNCHANGED updated_window_size_in_rtt

UpdateIsMarked == updated_window_size_in_rtt' = TRUE

\* The handler of RRecvTimeout, the ACKs of the window being those in sa.
HandleRRecvTimeout(sa) ==
  /\ timer' = "off"
  /\ server_disconnect_ctr' = DisconnectCtr
  /\ \/ /\ DisconnectCtr >= MAX_RESENDS_BEFORE_TIMEOUT
        /\ client_state' = "FIN"
        /\ UNCHANGED <<windowVars, updated_window_size_in_rtt>>
     \/ /\ DisconnectCtr < MAX_RESENDS_BEFORE_TIMEOUT
        /\ client_state' = StateAfterTimeout
        /\ IF session_sent_seqs # {}
           THEN UpdateWindowSize(sa) /\ UpdateIsMarked
           ELSE UNCHANGED <<windowVars, updated_window_size_in_rtt>>
  /\ UNCHANGED <<session_sent_seqs, acks_got, failed_packet_count,
                 in_first_rtt, toServer>>

\* The alarm is armed in RAPID_RECV, in RAPID_SEND when the window was acked,
\* and in FIN when a FIN was received.
RRecvTimeout ==
  /\ client_state \in {"RAPID_RECV", "RAPID_SEND", "FIN"}
  /\ timer = "rrecv"
  /\ HandleRRecvTimeout(session_acked_seqs)
  /\ UNCHANGED <<acked_packet_seqs, session_acked_seqs>>

\* The alarm interrupts the handling of an ACK or a RSND: acked_packet_seqs
\* is updated, session_acked_seqs perhaps, and the packet is not counted.
RRecvTimeoutInAck(pkt) ==
  /\ Receiving
  /\ timer = "rrecv"
  /\ \/ /\ IsDataAck(pkt)
        /\ acked_packet_seqs' = Confirmed(pkt)
        /\ session_acked_seqs' \in {session_acked_seqs,
                                    session_acked_seqs \cup {pkt.seq_to_ack}}
     \/ /\ IsDataRsnd(pkt)
        /\ acked_packet_seqs' = acked_packet_seqs \ {pkt.seq_to_rsnd}
        /\ session_acked_seqs' \in {session_acked_seqs,
                                    session_acked_seqs \ {pkt.seq_to_rsnd}}
  /\ HandleRRecvTimeout(session_acked_seqs')

-----------------------------------------------------------------------------
(* The end                                                                 *)

ClientFinishes ==
  /\ client_state = "FIN"
  /\ client_state' = "RETURNED"
  /\ UNCHANGED <<timer, transferVars, toServer>>

\* The alarm that was left armed goes off in the caller, which handles nothing.
AlarmAfterReturn ==
  /\ client_state \in {"RETURNED", "ABORTED"}
  /\ timer # "off"
  /\ client_state' = "CRASHED"
  /\ timer' = "off"
  /\ UNCHANGED <<transferVars, toServer>>

-----------------------------------------------------------------------------
(* What the client does on its own, on a packet, and on a damaged packet   *)

ClientStep ==
  \/ ClientStarts
  \/ ClientStartFails
  \/ CREQTimeout
  \/ RapidSendNothingLeft
  \/ RapidSendWindow
  \/ RapidSendFails
  \/ RapidRecvAllAcked
  \/ RapidRecvWindowAcked
  \/ RRecvTimeout
  \/ ClientFinishes
  \/ AlarmAfterReturn

ClientReceives(pkt) ==
  \/ WaitOtherAck(pkt)
  \/ WaitCreqAck(pkt)
  \/ WaitUnexpected(pkt)
  \/ RapidRecvOutOfRange(pkt)
  \/ RapidRecvAck(pkt)
  \/ RapidRecvRsnd(pkt)
  \/ RapidRecvFin(pkt)
  \/ RapidRecvUnexpected(pkt)
  \/ RRecvTimeoutInAck(pkt)

ClientDropsDamaged == WaitDamaged \/ RapidRecvDiscards
ClientDropsForeign == WaitForeign \/ RapidRecvDiscards

-----------------------------------------------------------------------------
(* Correctness, whatever the server sends                                  *)

\* The client never waits in recvfrom() without an alarm that ends the wait,
\* across every path that stops and restarts it (client/udp.py:163-235, 303).
NeverWaitsUntimed ==
  /\ client_state = "WAIT_CREQ_ACK" => timer = "creq"
  /\ client_state = "RAPID_RECV" => timer = "rrecv"

\* "This must not be" (client/udp.py:419): the alarm of a window never goes off
\* with no window out.
AlarmHasWindow == timer = "rrecv" => session_sent_seqs # {}

\* The steps that compute the loss of a window: the next window is about to be
\* sent (client/udp.py:253-271), or the alarm went off (client/udp.py:420-438).
LossIsComputed ==
  \/ CloseWindow /\ WindowUpdateDue
  \/ timer = "rrecv" /\ timer' = "off" /\ client_state' = "RAPID_SEND"

\* The packets of the window that will be sent again, against the computed loss.
LossIsOffByOneAtMost ==
  LET lost == Cardinality(session_sent_seqs \ acked_packet_seqs')
  IN  /\ old_drop_factor'[2] = Cardinality(session_sent_seqs)
      /\ old_drop_factor'[1] \in lost - 1 .. lost + 1
      /\ acked_packet_seqs' = acked_packet_seqs => old_drop_factor'[1] = lost

\* The loss is computed from another set than the one that decides what is
\* sent again.  It is off by one packet at most, the one whose ACK or RSND the
\* alarm interrupted between the two updates (client/udp.py:363-364, 372-373),
\* and exact whenever the step itself confirms or un-confirms nothing.
LossWithinOnePacket == [][LossIsComputed => LossIsOffByOneAtMost]_clientVars
=============================================================================
