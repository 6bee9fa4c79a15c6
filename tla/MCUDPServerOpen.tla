-------------------------- MODULE MCUDPServerOpen --------------------------
(***************************************************************************)
(* Instances of UDPServerOpen for TLC.                                     *)
(***************************************************************************)
EXTENDS UDPServerOpen

\* Empty, shorter than a chunk, full chunks only, and with a short last one.
AllSizes == {<<>>, <<21>>, <<11, 12>>, <<21, 22, 23>>, <<11, 12, 13, 14>>,
             <<21, 22, 23, 24, 25>>, <<11, 12, 13, 14, 15, 16>>}
EmptyFiles == {<<>>}
=============================================================================
