----------------------------- MODULE MCSession -----------------------------
(***************************************************************************)
(* Instances of Session for TLC.                                           *)
(***************************************************************************)
EXTENDS Session

\* One short chunk.
OneChunk == <<21>>
\* Empty, one full chunk, and a full chunk with a short last one.
ThreeSizes == {<<>>, <<11, 12>>, <<11, 12, 13>>}
=============================================================================
