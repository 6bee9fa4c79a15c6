-------------------------- MODULE MCUDPClientOpen --------------------------
(***************************************************************************)
(* Instances of UDPClientOpen for TLC.                                     *)
(***************************************************************************)
EXTENDS UDPClientOpen

\* Two full chunks of two bytes and a short last one.
ThreeChunks == <<11, 12, 13, 14, 15>>
=============================================================================
