---------------------------- MODULE FileTransfer ----------------------------
(***************************************************************************)
(* What a transfer of one file promises, with no word on packets, timers   *)
(* or windows: the receiver collects the chunks of the file, the sender    *)
(* learns of chunks that were collected, the sender succeeds only when all *)
(* of them were, and what the receiver saves is the file.                  *)
(***************************************************************************)
CONSTANTS Chunks,              \* the chunks of the file
          Contents,            \* what the file holds
          Nothing              \* what the receiver has saved before it saves

VARIABLES
  stored,                      \* the chunks the receiver holds
  confirmed,                   \* the chunks the sender knows to be held
  sender,                      \* "sending", "succeeded" or "failed"
  receiver,                    \* "receiving", "complete", "saved" or "failed"
  saved                        \* the contents of the file that was written

vars == <<stored, confirmed, sender, receiver, saved>>

Init ==
  /\ stored = {}
  /\ confirmed = {}
  /\ sender = "sending"
  /\ receiver = "receiving"
  /\ saved = Nothing

Store ==
  /\ receiver = "receiving"
  /\ \E c \in Chunks : stored' = stored \cup {c}
  /\ UNCHANGED <<confirmed, sender, receiver, saved>>

Confirm ==
  /\ sender = "sending"
  /\ \E c \in stored : confirmed' = confirmed \cup {c}
  /\ UNCHANGED <<stored, sender, receiver, saved>>

SenderSucceeds ==
  /\ sender = "sending"
  /\ stored = Chunks
  /\ sender' = "succeeded"
  /\ UNCHANGED <<stored, confirmed, receiver, saved>>

\* The sender may fail at any time, after it succeeded too.
SenderFails ==
  /\ sender # "failed"
  /\ sender' = "failed"
  /\ UNCHANGED <<stored, confirmed, receiver, saved>>

ReceiverCompletes ==
  /\ receiver = "receiving"
  /\ stored = Chunks
  /\ receiver' = "complete"
  /\ UNCHANGED <<stored, confirmed, sender, saved>>

\* The receiver may fail while chunks arrive, with the last one too.
ReceiverFails ==
  /\ receiver = "receiving"
  /\ \E s \in {stored} \cup {stored \cup {c} : c \in Chunks} : stored' = s
  /\ receiver' = "failed"
  /\ UNCHANGED <<confirmed, sender, saved>>

Save ==
  /\ receiver = "complete"
  /\ receiver' = "saved"
  /\ saved' = Contents
  /\ UNCHANGED <<stored, confirmed, sender>>

\* A file without chunks may be complete and still not be saved.
SaveFails ==
  /\ receiver = "complete"
  /\ Chunks = {}
  /\ receiver' = "failed"
  /\ UNCHANGED <<stored, confirmed, sender, saved>>

Next ==
  \/ Store
  \/ Confirm
  \/ SenderSucceeds
  \/ SenderFails
  \/ ReceiverCompletes
  \/ ReceiverFails
  \/ Save
  \/ SaveFails

Spec == Init /\ [][Next]_vars
=============================================================================
