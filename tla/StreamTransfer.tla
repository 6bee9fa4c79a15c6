--------------------------- MODULE StreamTransfer ---------------------------
(***************************************************************************)
(* What a transfer over a connection promises, with no word on packets and *)
(* sockets: the receiver gets the content in order, it is complete only    *)
(* when it has all of it and the sender has returned, and the sender is    *)
(* told of the request's arrival and of nothing after it.                  *)
(***************************************************************************)
EXTENDS Naturals, Sequences

CONSTANT Nothing               \* what is saved before anything is saved

VARIABLES
  content,                     \* what the receiver is to have in the end
  sender,                      \* "idle", "asking", "sending", "returned" or "failed"
  agreed,                      \* has the request arrived?
  receiver,                    \* "idle", "receiving", "complete", "saved",
                               \* "failed", or "cut": failed, and saved nevertheless
  received,
  saved

vars == <<content, sender, agreed, receiver, received, saved>>

Init ==
  /\ content \in Seq(Nat)
  /\ sender = "idle"
  /\ agreed = FALSE
  /\ receiver = "idle"
  /\ received = <<>>
  /\ saved = Nothing

SenderMoves(from, to) ==
  /\ sender \in from
  /\ sender' = to
  /\ UNCHANGED <<content, agreed, receiver, received, saved>>

SenderAsks == SenderMoves({"idle"}, "asking")
SenderLearns == agreed /\ SenderMoves({"asking"}, "sending")
SenderReturns == SenderMoves({"sending"}, "returned")
SenderFails == SenderMoves({"idle", "asking", "sending"}, "failed")

ReceiverMoves(from, to) ==
  /\ receiver = from
  /\ receiver' = to
  /\ UNCHANGED <<content, sender>>

\* The receiver may fail on the request itself.
ReceiverAgrees ==
  /\ sender # "idle"
  /\ agreed' = TRUE
  /\ ReceiverMoves("idle", "receiving") \/ ReceiverMoves("idle", "failed")
  /\ UNCHANGED <<received, saved>>

Deliver ==
  /\ ReceiverMoves("receiving", "receiving")
  /\ \E n \in Len(received) + 1 .. Len(content) : received' = SubSeq(content, 1, n)
  /\ UNCHANGED <<agreed, saved>>

ReceiverCompletes ==
  /\ sender = "returned"
  /\ received = content
  /\ ReceiverMoves("receiving", "complete")
  /\ UNCHANGED <<agreed, received, saved>>

ReceiverFails ==
  /\ ReceiverMoves("idle", "failed") \/ ReceiverMoves("receiving", "failed")
  /\ UNCHANGED <<agreed, received, saved>>

Save ==
  /\ ReceiverMoves("complete", "saved")
  /\ saved' = content
  /\ UNCHANGED <<agreed, received>>

SaveCut ==
  /\ ReceiverMoves("failed", "cut")
  /\ saved' = received
  /\ UNCHANGED <<agreed, received>>

Next ==
  \/ SenderAsks
  \/ SenderLearns
  \/ SenderReturns
  \/ SenderFails
  \/ ReceiverAgrees
  \/ Deliver
  \/ ReceiverCompletes
  \/ ReceiverFails
  \/ Save
  \/ SaveCut

Spec == Init /\ [][Next]_vars
=============================================================================
