--------------------------- MODULE MCTCPTransfer ---------------------------
(***************************************************************************)
(* Instances of TCPTransfer for TLC.                                       *)
(***************************************************************************)
EXTENDS TCPTransfer

\* Two full chunks, and nothing after them.
FullChunks == {<<11, 12, 13, 14>>}
=============================================================================
