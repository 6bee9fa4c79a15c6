--------------------------- MODULE UDPClientOpen ---------------------------
(***************************************************************************)
(* The UDP client on its own against any peer: one that acknowledges what  *)
(* it never got, asks to resend what it has, finishes early, or sends      *)
(* packets of types and numbers the server of this repository never sends. *)
(* What the client promises here does not rest on its server.              *)
(***************************************************************************)
EXTENDS UDPClient

CONSTANT WindowBound           \* no RSND is sent to a client whose window is larger
ASSUME WindowBoundAssumption == WindowBound \in Nat

vars == <<clientVars, toServer>>

\* Sequence numbers of the file's packets, one too far, and one out of range.
PeerSeqs == DataSeqs \cup {CREQ_SEQ, LastDataSeq(Len(File)) + 1, SEQ_LIMIT}
PeerPackets ==
  {ZTAck(s) : s \in PeerSeqs} \cup {ZTResend(s) : s \in PeerSeqs}
    \cup {ZTFinish, CreqPacket}

\* A peer that keeps asking to resend lets the window grow without end.
MaySend(pkt) == pkt.ptype = "RSND" => window_size <= WindowBound

Ended == ClientEnded /\ timer = "off" /\ UNCHANGED vars

Next ==
  \/ ClientStep
  \/ \E pkt \in PeerPackets : MaySend(pkt) /\ ClientReceives(pkt)
  \/ ClientDropsDamaged
  \/ ClientDropsForeign
  \/ Ended

\* What becomes of the packets it sent is up to the network.
Spec == ClientInit /\ [][Next]_clientVars
=============================================================================
