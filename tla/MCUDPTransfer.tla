--------------------------- MODULE MCUDPTransfer ---------------------------
(***************************************************************************)
(* Instances of UDPTransfer for TLC.                                       *)
(***************************************************************************)
EXTENDS UDPTransfer

\* One full chunk and a short one.
TwoChunks == <<11, 12, 13>>
=============================================================================
