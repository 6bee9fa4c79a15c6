----------------------- MODULE MCUDPTransferHistory ------------------------
(***************************************************************************)
(* Instances of UDPTransferHistory for TLC.                                *)
(***************************************************************************)
EXTENDS UDPTransferHistory

\* Two full chunks of two bytes and a short last one.
ThreeChunks == <<11, 12, 13, 14, 15>>
=============================================================================
