-------------------------- MODULE UDPServerProofs --------------------------
(***************************************************************************)
(* Proofs about UDPServerOpen: what the server keeps for any number of     *)
(* clients, started any number of times with files of any size.            *)
(***************************************************************************)
EXTENDS UDPServerOpen, PacketsProofs, TLAPS

USE DEF WaitsForCreq, MissingAtFirst, NothingMissing, FromClient

-----------------------------------------------------------------------------
(* The invariant                                                           *)

\* What the server's states say about its variables.
StateTruth ==
  /\ client_files \in [Clients -> SUBSET Files]
  /\ server_state \in {"INIT", "WAIT_CCREQ"} => ~Accepted
  /\ server_state \in {"TRANSFER", "FIN", "RETURNED", "SAVED"} => Accepted
  /\ server_state \in {"FIN", "RETURNED", "SAVED"} => all_data_seqs = {}
  /\ Accepted => /\ client_addr \in Clients
                 /\ \E f \in client_files[client_addr] : request = ZTConnReq(f)
                 /\ buffer_bytearray \in Seq(Nat)

\* What the server told the network is true.
SentTruth ==
  \A pkt \in toClient :
    /\ Accepted
    /\ \/ pkt = ZTFinish /\ all_data_seqs = {}
       \/ pkt = ZTAck(CREQ_SEQ)
       \/ \E s \in StoredFrom : pkt = ZTAck(s)

ServerInv == ServerTypeOK /\ StateTruth /\ SentTruth /\ OnlyClientsBytes

\* A file is told from another by nothing but its request.
LEMMA RequestFields ==
  ASSUME NEW f \in Seq(Nat)
  PROVE  /\ ZTConnReq(f) # NoRequest
         /\ ZTConnReq(f).ptype = "CREQ"
         /\ ZTConnReq(f).seq = CREQ_SEQ
         /\ ZTConnReq(f).data_size = Len(f)
         /\ ZTConnReq(f).last_seq = LastDataSeq(Len(f))
         /\ Len(f) \in Nat
  BY DEF ZTConnReq, NoRequest

\* The accepted request is that of a file of a client.
LEMMA AcceptedFile ==
  ASSUME ServerInv, Accepted
  PROVE  \E f \in Seq(Nat) :
           /\ f \in client_files[client_addr]
           /\ request = ZTConnReq(f)
           /\ request.data_size = Len(f)
           /\ request.last_seq = LastDataSeq(Len(f))
           /\ Len(buffer_bytearray) = Len(f)
           /\ AllDataSeqs(request.last_seq) = 1 .. LastDataSeq(Len(f))
<1>1. client_addr \in Clients /\ client_files \in [Clients -> SUBSET Files]
  BY DEF ServerInv, StateTruth
<1>2. PICK f \in client_files[client_addr] : request = ZTConnReq(f)
  BY DEF ServerInv, StateTruth
<1>3. f \in Seq(Nat)
  BY <1>1, <1>2, FilesAssumption
<1> QED
  BY <1>2, <1>3, RequestFields, LastIsNumber DEF ServerInv, ServerTypeOK

\* What a client sends is a request for one of its files, a chunk of one, or
\* an ACK.
LEMMA SentPacket ==
  ASSUME ServerInv, NEW c \in Clients, NEW pkt \in SentBy(c)
  PROVE  /\ pkt.ptype = "CREQ" =>
              \E f \in Seq(Nat) : f \in client_files[c] /\ pkt = ZTConnReq(f)
         /\ pkt.ptype = "DATA" =>
              \E f \in Seq(Nat) :
                /\ f \in client_files[c]
                /\ pkt.seq \in AllDataSeqs(LastDataSeq(Len(f)))
                /\ pkt.file_data = Padded(f, pkt.seq)
<1>1. \A f \in client_files[c] : f \in Seq(Nat)
  BY FilesAssumption DEF ServerInv, StateTruth
<1>2. CASE pkt = ZTAck(CREQ_SEQ)
  BY <1>2 DEF ZTAck
<1>3. CASE \E f \in client_files[c] : pkt = ZTConnReq(f)
  BY <1>1, <1>3 DEF ZTConnReq
<1>4. CASE \E f \in client_files[c] : \E s \in AllDataSeqs(LastDataSeq(Len(f))) :
             pkt = ZTData(f, s)
  <2>1. PICK f \in client_files[c] :
          \E s \in AllDataSeqs(LastDataSeq(Len(f))) : pkt = ZTData(f, s)
    BY <1>4
  <2>2. PICK s \in AllDataSeqs(LastDataSeq(Len(f))) : pkt = ZTData(f, s)
    BY <2>1
  <2>3. pkt.ptype = "DATA" /\ pkt.seq = s /\ pkt.file_data = Padded(f, s)
    BY <2>2 DEF ZTData
  <2> QED
    BY <1>1, <2>1, <2>2, <2>3
<1> QED
  BY <1>2, <1>3, <1>4 DEF SentBy

-----------------------------------------------------------------------------
(* The steps of the server                                                 *)

\* A chunk that is stored is the client's, in its place, and every other one
\* stays what it was (server/udp.py:182-187).
LEMMA StoreKeepsChunks ==
  ASSUME ServerInv, Accepted, NEW pkt \in SentBy(client_addr), Store(pkt),
         UNCHANGED client_files
  PROVE  /\ UNCHANGED <<request, client_addr>>
         /\ pkt.seq \in StoredFrom'
         /\ StoredFrom \subseteq StoredFrom'
         /\ all_data_seqs' \subseteq all_data_seqs
         /\ Len(buffer_bytearray') = Len(buffer_bytearray)
         /\ buffer_bytearray' \in Seq(Nat)
         /\ OnlyClientsBytes'
<1> DEFINE n == Len(buffer_bytearray)
           last == LastDataSeq(n)
           s == pkt.seq
<1>1. client_addr \in Clients /\ buffer_bytearray \in Seq(Nat) /\ n \in Nat
  BY DEF ServerInv, StateTruth
<1>2. /\ request.data_size = n /\ request.last_seq = last
      /\ AllDataSeqs(request.last_seq) = 1 .. last
  BY AcceptedFile
<1>3. /\ UNCHANGED <<request, client_addr>>
      /\ all_data_seqs' = all_data_seqs \ {s}
      /\ buffer_bytearray' = StoreChunk(buffer_bytearray, last, s, pkt.file_data)
      /\ pkt.ptype = "DATA" /\ 1 <= s /\ s <= last
  BY <1>2 DEF Store, InRange
<1>4. PICK f \in Seq(Nat) : /\ f \in client_files[client_addr]
                            /\ s \in AllDataSeqs(LastDataSeq(Len(f)))
                            /\ pkt.file_data = Padded(f, s)
  BY <1>1, <1>3, SentPacket
<1>5. s \in 1 .. last
  BY <1>3, <1>4, LastIsNumber
<1>6. Padded(f, s) \in [1 .. ZT_RAW_DATA_BYTES_SIZE -> Nat]
  BY <1>5, PaddedFacts
<1>7. /\ buffer_bytearray' \in Seq(Nat)
      /\ Len(buffer_bytearray') = n
      /\ \A i \in 1 .. n :
           buffer_bytearray'[i] = IF i \in ChunkBytes(n, last, s)
                                  THEN Padded(f, s)[i - ChunkStart(s)]
                                  ELSE buffer_bytearray[i]
  <2> DEFINE result == buffer_bytearray'
  <2>1. result = StoreChunk(buffer_bytearray, last, s, Padded(f, s))
    BY <1>3, <1>4
  <2> HIDE DEF result
  <2>2. /\ result \in Seq(Nat)
        /\ Len(result) = n
        /\ \A i \in 1 .. n :
             result[i] = IF i \in ChunkBytes(n, last, s)
                         THEN Padded(f, s)[i - ChunkStart(s)]
                         ELSE buffer_bytearray[i]
    BY <1>1, <1>5, <1>6, <2>1, StoreWritesChunk
  <2> QED
    BY <2>2 DEF result
<1>8. StoredFrom' = StoredFrom \cup {s}
  BY <1>2, <1>3, <1>5 DEF StoredFrom
<1>9. OnlyClientsBytes'
  <2> SUFFICES ASSUME NEW t \in StoredFrom'
               PROVE  \E g \in client_files[client_addr] :
                        /\ t \in AllDataSeqs(LastDataSeq(Len(g)))
                        /\ \A i \in ChunkBytes(n, last, t) :
                             buffer_bytearray'[i] = Padded(g, t)[i - ChunkStart(t)]
    BY <1>2, <1>3 DEF OnlyClientsBytes
  <2>1. CASE t = s
    <3>1. \A i \in ChunkBytes(n, last, s) :
            i \in 1 .. n /\ buffer_bytearray'[i] = Padded(f, s)[i - ChunkStart(s)]
      BY <1>7 DEF ChunkBytes
    <3> QED
      BY <1>4, <2>1, <3>1
  <2>2. CASE t # s
    <3>1. t \in StoredFrom /\ t \in 1 .. last
      BY <1>2, <1>8, <2>2 DEF StoredFrom
    <3>2. PICK g \in client_files[client_addr] :
            /\ t \in AllDataSeqs(LastDataSeq(Len(g)))
            /\ \A i \in ChunkBytes(n, last, t) :
                 buffer_bytearray[i] = Padded(g, t)[i - ChunkStart(t)]
      BY <1>2, <3>1 DEF ServerInv, OnlyClientsBytes
    <3>3. ASSUME NEW i \in ChunkBytes(n, last, t)
          PROVE  buffer_bytearray'[i] = buffer_bytearray[i]
      <4>1. i \notin ChunkBytes(n, last, s)
        BY <1>1, <1>5, <2>2, <3>1, ChunksAreDisjoint
      <4>2. i \in 1 .. n
        BY DEF ChunkBytes
      <4> QED
        BY <1>7, <4>1, <4>2
    <3> QED
      BY <3>2, <3>3
  <2> QED
    BY <2>1, <2>2
<1> QED
  BY <1>3, <1>7, <1>8, <1>9

\* What the server does on its own.
LEMMA ServerStepKeepsInv ==
  ASSUME ServerInv, ServerStep, UNCHANGED client_files
  PROVE  ServerInv' /\ UNCHANGED <<request, client_addr, all_data_seqs>>
<1> USE DEF ServerInv
<1>1. UNCHANGED <<all_data_seqs, request, client_addr, buffer_bytearray>>
  BY DEF ServerStep, ServerBinds, ServerBindFails, TransferDone, ServerFinishes,
         SaveFile, SaveFileFails
<1>2. OnlyClientsBytes' /\ Accepted' = Accepted /\ StoredFrom' = StoredFrom
  BY <1>1 DEF OnlyClientsBytes, Accepted, StoredFrom
<1>3. ServerTypeOK' /\ StateTruth'
  <2>1. server_state' \in ServerStates
    BY DEF ServerStep, ServerBinds, ServerBindFails, TransferDone, ServerFinishes,
           SaveFile, SaveFileFails, ServerStates
  <2>2. ServerTypeOK'
    BY <1>1, <1>2, <2>1 DEF ServerTypeOK
  <2>3. /\ server_state' \in {"INIT", "WAIT_CCREQ"} => ~Accepted
        /\ server_state' \in {"TRANSFER", "FIN", "RETURNED", "SAVED"} => Accepted
        /\ server_state' \in {"FIN", "RETURNED", "SAVED"} => all_data_seqs = {}
    BY DEF ServerStep, ServerBinds, ServerBindFails, TransferDone, ServerFinishes,
           SaveFile, SaveFileFails, StateTruth
  <2> QED
    BY <1>1, <1>2, <2>2, <2>3 DEF StateTruth
<1>4. SentTruth'
  <2>1. CASE ServerFinishes
    <3>1. Accepted /\ all_data_seqs = {} /\ toClient' \subseteq toClient \cup {ZTFinish}
      BY <2>1 DEF ServerFinishes, SendOrLog, StateTruth
    <3> QED
      BY <1>1, <1>2, <3>1 DEF SentTruth
  <2>2. CASE ~ServerFinishes
    <3>1. toClient' = toClient
      BY <2>2 DEF ServerStep, ServerBinds, ServerBindFails, TransferDone,
                  SaveFile, SaveFileFails
    <3> QED
      BY <1>1, <1>2, <3>1 DEF SentTruth
  <2> QED
    BY <2>1, <2>2
<1> QED
  BY <1>1, <1>2, <1>3, <1>4

\* The first request is accepted with nothing stored and nothing sent before.
LEMMA AcceptKeepsInv ==
  ASSUME ServerInv, NEW c \in Clients, NEW pkt \in SentBy(c), AcceptCreq(pkt, c),
         UNCHANGED client_files
  PROVE  ServerInv' /\ ~Accepted
<1>1. ~Accepted /\ toClient = {}
  BY DEF AcceptCreq, ServerInv, StateTruth, SentTruth
<1>2. PICK f \in Seq(Nat) : f \in client_files[c] /\ pkt = ZTConnReq(f)
  BY SentPacket DEF AcceptCreq
<1>3. /\ server_state' = "TRANSFER"
      /\ all_data_seqs' = AllDataSeqs(LastDataSeq(Len(f)))
      /\ request' = ZTConnReq(f)
      /\ client_addr' = c
      /\ buffer_bytearray' = EmptyBuffer(Len(f))
      /\ toClient' \subseteq {ZTAck(CREQ_SEQ)}
  BY <1>1, <1>2, RequestFields DEF AcceptCreq, SendOrLog
<1>4. EmptyBuffer(Len(f)) \in Seq(Nat) /\ Len(EmptyBuffer(Len(f))) = Len(f)
  BY <1>2, RequestFields DEF EmptyBuffer
<1>5. Accepted' /\ StoredFrom' = {}
  BY <1>2, <1>3, RequestFields DEF Accepted, StoredFrom
<1>6. ServerTypeOK'
  BY <1>2, <1>3, <1>4, <1>5, RequestFields DEF ServerTypeOK, ServerStates
<1>7. StateTruth'
  BY <1>2, <1>3, <1>4, <1>5 DEF ServerInv, StateTruth
<1>8. SentTruth' /\ OnlyClientsBytes'
  BY <1>3, <1>5 DEF SentTruth, OnlyClientsBytes
<1> QED
  BY <1>1, <1>6, <1>7, <1>8 DEF ServerInv

\* What the server does on a packet, whoever sent it.
LEMMA ServerReceivesKeepsInv ==
  ASSUME ServerInv, NEW c \in Clients, NEW pkt \in SentBy(c), ServerReceives(pkt, c),
         UNCHANGED client_files
  PROVE  /\ ServerInv'
         /\ Accepted => /\ UNCHANGED <<request, client_addr>>
                        /\ all_data_seqs' \subseteq all_data_seqs
<1>1. CASE AcceptCreq(pkt, c)
  BY <1>1, AcceptKeepsInv
<1>2. CASE IgnoreUntilCreq(pkt) \/ TransferDrops(pkt, c)
  <2>1. UNCHANGED <<serverVars, toClient>>
    BY <1>2 DEF IgnoreUntilCreq, TransferDrops
  <2> QED
    BY <2>1 DEF serverVars, ServerInv, ServerTypeOK, StateTruth, SentTruth,
                OnlyClientsBytes, Accepted, StoredFrom
<1>3. CASE TransferCreq(pkt, c)
  <2>1. UNCHANGED serverVars /\ Accepted /\ pkt.ptype = "CREQ"
    BY <1>3 DEF TransferCreq, Transferring, ServerInv, StateTruth
  <2>2. pkt.seq = CREQ_SEQ
    BY <2>1, SentPacket, RequestFields
  <2>3. toClient' \subseteq toClient \cup {ZTAck(CREQ_SEQ)}
    BY <1>3, <2>2 DEF TransferCreq, SendOrLog
  <2>4. ServerTypeOK' /\ StateTruth' /\ OnlyClientsBytes'
    BY <2>1 DEF serverVars, ServerInv, ServerTypeOK, StateTruth, OnlyClientsBytes,
                Accepted, StoredFrom
  <2>5. SentTruth'
    BY <2>1, <2>3 DEF serverVars, ServerInv, SentTruth, Accepted, StoredFrom
  <2> QED
    BY <2>1, <2>4, <2>5 DEF serverVars, ServerInv
<1>4. CASE TransferData(pkt, c) \/ TransferDataAckFails(pkt, c)
  <2>1. /\ c = client_addr /\ Store(pkt) /\ Accepted /\ server_state = "TRANSFER"
        /\ server_state' \in {"TRANSFER", "CRASHED"}
        /\ toClient' \subseteq toClient \cup {ZTAck(pkt.seq)}
    BY <1>4 DEF TransferData, TransferDataAckFails, Transferring, ServerInv, StateTruth
  <2>2. /\ UNCHANGED <<request, client_addr>>
        /\ pkt.seq \in StoredFrom'
        /\ StoredFrom \subseteq StoredFrom'
        /\ all_data_seqs' \subseteq all_data_seqs
        /\ Len(buffer_bytearray') = Len(buffer_bytearray)
        /\ buffer_bytearray' \in Seq(Nat)
        /\ OnlyClientsBytes'
    BY <2>1, StoreKeepsChunks
  <2>3. Accepted'
    BY <2>1, <2>2 DEF Accepted
  <2>4. ServerTypeOK'
    BY <2>1, <2>2, <2>3 DEF ServerInv, ServerTypeOK, ServerStates
  <2>5. StateTruth'
    BY <2>1, <2>2, <2>3 DEF ServerInv, StateTruth
  <2>6. SentTruth'
    BY <2>1, <2>2, <2>3 DEF ServerInv, SentTruth
  <2> QED
    BY <2>2, <2>4, <2>5, <2>6 DEF ServerInv
<1> QED
  BY <1>1, <1>2, <1>3, <1>4 DEF ServerReceives

\* Every step keeps the invariant, and an accepted transfer what it is.
LEMMA ServerInvStep ==
  ASSUME ServerInv, [Next]_vars
  PROVE  /\ ServerInv'
         /\ Accepted => /\ UNCHANGED <<request, client_addr>>
                        /\ all_data_seqs' \subseteq all_data_seqs
<1>1. CASE ServerStep /\ UNCHANGED client_files
  BY <1>1, ServerStepKeepsInv
<1>2. CASE \E c \in Clients : \E pkt \in SentBy(c) :
             ServerReceives(pkt, c) /\ UNCHANGED client_files
  BY <1>2, ServerReceivesKeepsInv
<1>3. CASE UNCHANGED vars \/ LeavesNetwork
  <2>1. toClient' \subseteq toClient /\ UNCHANGED <<serverVars, client_files>>
    BY <1>3 DEF vars, LeavesNetwork
  <2> QED
    BY <2>1 DEF serverVars, ServerInv, ServerTypeOK, StateTruth, SentTruth,
                OnlyClientsBytes, Accepted, StoredFrom, SentBy
<1>4. CASE (ServerDropsDamaged /\ UNCHANGED client_files) \/ Ended
  BY <1>3, <1>4 DEF ServerDropsDamaged, Ended, vars
<1> QED
  BY <1>1, <1>2, <1>3, <1>4 DEF Next

\* The invariant holds in every run.
LEMMA ServerInvHolds == Spec => []ServerInv
<1>1. Init => ServerInv
  <2> SUFFICES ASSUME Init PROVE ServerInv
    OBVIOUS
  <2>1. client_files \in [Clients -> SUBSET Files]
    BY DEF Init
  <2> QED
    BY <2>1 DEF Init, ServerInit, ServerInv, ServerTypeOK, ServerStates, StateTruth,
                SentTruth, OnlyClientsBytes, Accepted
<1>2. ServerInv /\ [Next]_vars => ServerInv'
  BY ServerInvStep
<1> QED
  BY <1>1, <1>2, PTL DEF Spec

-----------------------------------------------------------------------------
(* The theorems                                                            *)

\* The server's variables keep their types.
THEOREM ServerTypeCorrect == Spec => []ServerTypeOK
<1>1. ServerInv => ServerTypeOK
  BY DEF ServerInv
<1> QED
  BY <1>1, ServerInvHolds, PTL

\* Every stored chunk is one chunk of a file of the accepted client, in its
\* place, for any number of clients and files of any size: chunks of other
\* packets are never written over.
THEOREM StoredIsAlwaysClients == Spec => []OnlyClientsBytes
<1>1. ServerInv => OnlyClientsBytes
  BY DEF ServerInv
<1> QED
  BY <1>1, ServerInvHolds, PTL

\* An ACK leaves only after its packet was stored, and stays true.
THEOREM AckIsAlwaysPromise == Spec => []AckIsPromise
<1>1. ServerInv => AckIsPromise
  <2> SUFFICES ASSUME ServerInv, NEW pkt \in toClient, pkt.ptype = "ACK",
                      pkt.seq_to_ack # CREQ_SEQ
               PROVE  pkt.seq_to_ack \in StoredFrom
    BY DEF AckIsPromise
  <2>1. pkt # ZTFinish /\ pkt # ZTAck(CREQ_SEQ)
    BY DEF ZTFinish, ZTAck
  <2>2. PICK s \in StoredFrom : pkt = ZTAck(s)
    BY <2>1 DEF ServerInv, SentTruth
  <2> QED
    BY <2>2 DEF ZTAck
<1> QED
  BY <1>1, ServerInvHolds, PTL

\* A server that is done holds the file of its client, byte for byte, unless
\* the client was started again with another one.
THEOREM FinishedHasFile == Spec => []FinishesWithFile
<1>1. ServerInv => FinishesWithFile
  <2> SUFFICES ASSUME ServerInv,
                      server_state \in {"FIN", "RETURNED", "SAVED"} \/ ZTFinish \in toClient,
                      \A f, g \in client_files[client_addr] : f = g
               PROVE  client_files[client_addr] = {buffer_bytearray}
    BY DEF FinishesWithFile
  <2>1. Accepted /\ all_data_seqs = {}
    <3>1. \A s : ZTAck(s) # ZTFinish
      BY DEF ZTAck, ZTFinish
    <3> QED
      BY <3>1 DEF ServerInv, StateTruth, SentTruth
  <2>2. PICK f \in Seq(Nat) :
          /\ f \in client_files[client_addr]
          /\ request.data_size = Len(f)
          /\ request.last_seq = LastDataSeq(Len(f))
          /\ Len(buffer_bytearray) = Len(f)
          /\ AllDataSeqs(request.last_seq) = 1 .. LastDataSeq(Len(f))
    BY <2>1, AcceptedFile
  <2>3. buffer_bytearray \in Seq(Nat)
    BY <2>1 DEF ServerInv, StateTruth
  <2>4. ASSUME NEW i \in 1 .. Len(f) PROVE buffer_bytearray[i] = f[i]
    <3>1. Len(f) \in Nat
      BY <2>2
    <3>2. PICK s \in 1 .. LastDataSeq(Len(f)) :
            i \in ChunkBytes(Len(f), LastDataSeq(Len(f)), s)
      BY <3>1, ChunksCoverBytes
    <3>3. s \in StoredFrom
      BY <2>1, <2>2 DEF StoredFrom
    <3>4. PICK g \in client_files[client_addr] :
            \A j \in ChunkBytes(Len(f), LastDataSeq(Len(f)), s) :
              buffer_bytearray[j] = Padded(g, s)[j - ChunkStart(s)]
      BY <2>1, <2>2, <3>3 DEF ServerInv, OnlyClientsBytes
    <3>5. g = f /\ buffer_bytearray[i] = Padded(f, s)[i - ChunkStart(s)]
      BY <2>2, <3>2, <3>4
    <3>6. i - ChunkStart(s) \in 1 .. ZT_RAW_DATA_BYTES_SIZE
      BY <3>1, <3>2, ChunkIsBounded
    <3>7. s \in Nat \ {0}
      BY <3>1, LastIsNumber
    <3> QED
      BY <3>5, <3>6, <3>7, PaddedFacts
  <2>5. buffer_bytearray = f
    BY <2>2, <2>3, <2>4
  <2> QED
    BY <2>2, <2>5
<1> QED
  BY <1>1, ServerInvHolds, PTL

\* No packet of anyone changes whom the server serves.
THEOREM FirstClientIsAlwaysServed == Spec => FirstClientIsServed
<1>1. ServerInv /\ [Next]_vars
        => [Accepted => /\ request' = request /\ client_addr' = client_addr
                        /\ all_data_seqs' \subseteq all_data_seqs]_vars
  BY ServerInvStep
<1> QED
  BY <1>1, ServerInvHolds, PTL DEF Spec, FirstClientIsServed
=============================================================================
