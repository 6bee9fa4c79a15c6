------------------------ MODULE UDPTransferHistory -------------------------
(***************************************************************************)
(* UDPTransfer with history variables about the windows the client sent.   *)
(* They never restrict a step.  SmallIntOrder does: it keeps the windows   *)
(* that CPython sends when it iterates a set of small integers, which is   *)
(* in ascending order, so that a counterexample is a run of the program.   *)
(***************************************************************************)
EXTENDS UDPTransfer

CONSTANT SmallIntOrder
ASSUME HistoryAssumption == SmallIntOrder \in BOOLEAN

VARIABLES
  ever_sent,                   \* the packets sent at least once
  retransmitted,               \* packets sent again
  silent_windows,              \* windows since an ACK or RSND was last handled
  unadjusted                   \* windows sent - updates of the window size

historyVars == <<ever_sent, retransmitted, silent_windows, unadjusted>>
allVars == <<vars, historyVars>>

HInit ==
  /\ Init
  /\ ever_sent = {}
  /\ retransmitted = 0
  /\ silent_windows = 0
  /\ unadjusted = 0

WindowIsSent == client_state = "RAPID_SEND" /\ client_state' = "RAPID_RECV"
LowestFirst ==
  \A s \in session_sent_seqs', t \in ToSendSeqs \ session_sent_seqs' : s < t
TimeoutUpdates == client_state' = "RAPID_SEND" /\ timer = "rrecv" /\ timer' = "off"
AckIsHandled == acks_got' /\ client_state = "RAPID_RECV"

HNext ==
  /\ Next
  /\ SmallIntOrder /\ WindowIsSent => LowestFirst
  /\ ever_sent' = ever_sent \cup session_sent_seqs'
  /\ retransmitted' =
       retransmitted + (IF WindowIsSent THEN Cardinality(session_sent_seqs' \cap ever_sent)
                                        ELSE 0)
  /\ silent_windows' = IF AckIsHandled THEN 0
                       ELSE silent_windows + (IF WindowIsSent THEN 1 ELSE 0)
  /\ unadjusted' = unadjusted + (IF WindowIsSent THEN 1 ELSE 0)
                              - (IF WindowIsSent /\ WindowUpdateDue THEN 1 ELSE 0)
                              - (IF TimeoutUpdates THEN 1 ELSE 0)

HSpec == HInit /\ [][HNext]_allVars

-----------------------------------------------------------------------------
\* The window size is updated exactly once for every window that was sent,
\* though three places of the code do it or decide whether to
\* (client/udp.py:253-271, 316, 420-438).
UpdatedOncePerWindow ==
  /\ unadjusted \in {0, 1}
  /\ client_state = "RAPID_RECV" => unadjusted = 1

\* No packet is sent again that failed_packet_count did not count first: the
\* number the client prints (cli.py:71) is never too small, as far as it is
\* counted.
RetransmissionsAreCounted ==
  failed_packet_count < FailedPacketsBound => retransmitted <= failed_packet_count

\* The client never sends more windows in a row without handling an answer than
\* the configuration allows, though the counter that ends it is kept by the
\* alarm's handler alone, an alarm may interrupt the handling of an ACK, and a
\* FIN leaves the alarm armed (client/udp.py:403-418).
GivesUpInTime == silent_windows <= MAX_RESENDS_BEFORE_TIMEOUT

\* "Re-transferred Packets" (cli.py:71): the number is that of the packets
\* that were sent again.
CountsRetransmissions ==
  client_state = "RETURNED" => failed_packet_count = retransmitted

\* "Resent the same window for N times" (client/udp.py:416): the client gives
\* up on the server only after that many windows without an answer.
GivesUpOnSilence ==
  client_state = "FIN" /\ server_disconnect_ctr >= MAX_RESENDS_BEFORE_TIMEOUT
    => silent_windows >= MAX_RESENDS_BEFORE_TIMEOUT
=============================================================================
