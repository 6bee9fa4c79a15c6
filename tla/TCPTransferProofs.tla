------------------------- MODULE TCPTransferProofs -------------------------
(***************************************************************************)
(* Proofs about TCPTransfer, for every file, every size of the chunks and  *)
(* every moment at which the link breaks or a packet that does not fit     *)
(* arrives.                                                                *)
(***************************************************************************)
EXTENDS TCPTransfer, PacketsProofs

-----------------------------------------------------------------------------
(* The stream of a file                                                    *)

\* The chunks of a file that are full, and the bytes that remain.
Full(f) == Len(f) \div ZT_RAW_DATA_BYTES_SIZE
Rest(f) == Len(f) % ZT_RAW_DATA_BYTES_SIZE

\* The packets of a stream are the request, the DATA packets, one more of them
\* than full chunks, and the FIN.
LastItem(f) == Full(f) + 2

\* The number the request announces as that of the last packet.
LastSeq(f) == NumDataPackets(Len(f)) + 1

Request(f) ==
  [ptype |-> "CREQ", seq |-> 1, data_size |-> Len(f), last_seq |-> LastSeq(f),
   checksum |-> f]

DataItem(f, j) == [ptype |-> "DATA", seq |-> j, file_data |-> Padded(f, j - 1)]

Item(f, j) ==
  IF j = 1 THEN Request(f) ELSE IF j <= LastItem(f) THEN DataItem(f, j) ELSE ZTFinish

\* What may be in the stream to the server.
ItemsOf(f) == MisfitsForServer \cup {Item(f, j) : j \in Nat \ {0}}

\* d is a beginning of the sequence s.
Begins(d, s) ==
  /\ d \in Seq(Nat)
  /\ Len(d) <= Len(s)
  /\ \A i \in 1 .. Len(d) : d[i] = s[i]

\* How many bytes the server holds after the first r items of the stream:
\* every chunk in full, but for the one it takes for the last, which it cuts.
ReadLen(f, r) ==
  IF r < LastSeq(f) THEN (r - 1) * ZT_RAW_DATA_BYTES_SIZE
  ELSE IF r < LastItem(f)
       THEN IF Full(f) = 0 THEN 0 ELSE Len(f) - ZT_RAW_DATA_BYTES_SIZE
       ELSE Len(TCPResult(f))

\* What the server holds after the first r items.
HasRead(f, r, d) == Begins(d, TCPResult(f)) /\ Len(d) = ReadLen(f, r)

\* The sizes of a file, its chunks and its stream.
LEMMA Sizes ==
  ASSUME NEW f \in Seq(Nat)
  PROVE  /\ ZT_RAW_DATA_BYTES_SIZE \in Nat \ {0}
         /\ Full(f) \in Nat
         /\ Rest(f) \in 0 .. ZT_RAW_DATA_BYTES_SIZE - 1
         /\ Len(f) \in Nat
         /\ Len(f) = Full(f) * ZT_RAW_DATA_BYTES_SIZE + Rest(f)
         /\ LastItem(f) = Full(f) + 2
         /\ LastSeq(f) = IF Rest(f) = 0 THEN Full(f) + 1 ELSE Full(f) + 2
         /\ Full(f) = 0 => Len(f) = Rest(f)
         /\ Full(f) # 0 => Len(f) >= ZT_RAW_DATA_BYTES_SIZE + Rest(f)
<1>1. Len(f) \in Nat /\ ZT_RAW_DATA_BYTES_SIZE \in Nat \ {0}
  BY ChunkSizeAssumption
<1>2. /\ Full(f) \in Nat
      /\ Rest(f) \in 0 .. ZT_RAW_DATA_BYTES_SIZE - 1
      /\ Len(f) = ZT_RAW_DATA_BYTES_SIZE * Full(f) + Rest(f)
  BY <1>1, QuotientRemainder DEF Full, Rest
<1>3. LastSeq(f) = Full(f) + (IF Rest(f) > 0 THEN 1 ELSE 0) + 1
  BY DEF LastSeq, NumDataPackets, Full, Rest
<1>4. Full(f) = 0 => Len(f) = Rest(f)
  BY <1>1, <1>2
<1>5. ASSUME Full(f) # 0
      PROVE  Len(f) >= ZT_RAW_DATA_BYTES_SIZE + Rest(f)
  <2>1. PICK n \in Nat : Full(f) = n + 1
    <3>1. Full(f) - 1 \in Nat /\ Full(f) = (Full(f) - 1) + 1
      BY <1>2, <1>5
    <3> QED
      BY <3>1
  <2>2. PICK c \in Nat : c = ZT_RAW_DATA_BYTES_SIZE
    BY <1>1
  <2>3. c * (n + 1) = c * n + c /\ c * n \in Nat
    BY <2>1, <2>2
  <2>4. PICK m \in Nat : m = c * n
    BY <2>3
  <2>5. Len(f) = (m + c) + Rest(f)
    BY <1>2, <2>1, <2>2, <2>3, <2>4
  <2>6. Rest(f) \in Int
    BY <1>1, <1>2
  <2> QED
    BY <2>2, <2>4, <2>5, <2>6
<1> QED
  BY <1>1, <1>2, <1>3, <1>4, <1>5 DEF LastItem

\* Two sequences joined.
LEMMA Joined ==
  ASSUME NEW a \in Seq(Nat), NEW b \in Seq(Nat)
  PROVE  /\ a \o b \in Seq(Nat)
         /\ Len(a \o b) = Len(a) + Len(b)
         /\ \A i \in 1 .. Len(a) + Len(b) :
              (a \o b)[i] = IF i <= Len(a) THEN a[i] ELSE b[i - Len(a)]
  OBVIOUS

\* The result is the file, or all but its last chunk and zeros.
LEMMA ResultFacts ==
  ASSUME NEW f \in Seq(Nat)
  PROVE  /\ TCPResult(f) \in Seq(Nat)
         /\ Rest(f) # 0 => TCPResult(f) = f
         /\ Rest(f) = 0 =>
              /\ Len(TCPResult(f)) = IF Full(f) = 0 THEN ZT_RAW_DATA_BYTES_SIZE ELSE Len(f)
              /\ \A i \in 1 .. Len(TCPResult(f)) :
                   TCPResult(f)[i] =
                     IF i <= Len(f) - ZT_RAW_DATA_BYTES_SIZE THEN f[i] ELSE 0
<1> DEFINE c == ZT_RAW_DATA_BYTES_SIZE
           k == Len(f) - c
           head == SubSeq(f, 1, k)
           tail == EmptyBuffer(c)
           res == head \o tail
<1>1. /\ c \in Nat \ {0} /\ Full(f) \in Nat /\ Len(f) \in Nat
      /\ Full(f) = 0 => Len(f) = Rest(f)
      /\ Full(f) # 0 => Len(f) >= c + Rest(f)
  BY Sizes
<1>2. CASE Rest(f) # 0
  BY <1>2 DEF TCPResult, Rest
<1>3. CASE Rest(f) = 0
  <2>1. TCPResult(f) = res
    BY <1>3 DEF TCPResult, Rest
  <2>2. /\ tail \in Seq(Nat) /\ Len(tail) = c
        /\ \A i \in 1 .. c : tail[i] = 0
    <3>1. c \in Nat
      BY <1>1
    <3> HIDE DEF c
    <3> QED
      BY <3>1 DEF EmptyBuffer
  <2> HIDE DEF c, tail
  <2>3. CASE Full(f) = 0
    <3>1. Len(f) = 0 /\ k \in Int /\ k < 0
      BY <1>1, <1>3, <2>3
    <3>2. head = <<>>
      BY <3>1 DEF k
    <3> HIDE DEF head
    <3>3. res \in Seq(Nat) /\ Len(res) = c /\ \A i \in 1 .. c : res[i] = 0
      <4>1. head \in Seq(Nat) /\ Len(head) = 0
        BY <3>2
      <4> QED
        BY <1>1, <2>2, <4>1, Joined
    <3>4. \A i \in 1 .. c : ~(i <= k)
      BY <1>1, <3>1
    <3> HIDE DEF res, k
    <3> QED
      BY <1>3, <2>1, <2>3, <3>3, <3>4 DEF k, c
  <2>4. CASE Full(f) # 0
    <3>1. k \in 0 .. Len(f) /\ k + c = Len(f)
      BY <1>1, <1>3, <2>4
    <3> HIDE DEF k
    <3>2. /\ head \in Seq(Nat) /\ Len(head) = k
          /\ \A i \in 1 .. k : head[i] = f[i]
      BY <1>1, <3>1
    <3> HIDE DEF head
    <3>3. /\ res \in Seq(Nat) /\ Len(res) = Len(f)
          /\ \A i \in 1 .. Len(f) : res[i] = IF i <= k THEN head[i] ELSE tail[i - k]
      BY <1>1, <2>2, <3>1, <3>2, Joined
    <3>4. \A i \in 1 .. Len(f) : res[i] = IF i <= k THEN f[i] ELSE 0
      <4> SUFFICES ASSUME NEW i \in 1 .. Len(f)
                   PROVE  res[i] = IF i <= k THEN f[i] ELSE 0
        OBVIOUS
      <4>1. CASE i <= k
        BY <3>1, <3>2, <3>3, <4>1
      <4>2. CASE ~(i <= k)
        <5>1. i - k \in 1 .. c
          BY <1>1, <3>1, <4>2
        <5> QED
          BY <2>2, <3>1, <3>3, <4>2, <5>1
      <4> QED
        BY <4>1, <4>2
    <3> HIDE DEF res
    <3>5. \A i \in 1 .. Len(res) : res[i] = IF i <= Len(f) - c THEN f[i] ELSE 0
      BY <3>3, <3>4 DEF k
    <3> QED
      BY <1>3, <2>1, <2>4, <3>3, <3>5 DEF c
  <2> QED
    BY <2>3, <2>4
<1> QED
  BY <1>2, <1>3

\* The lengths of what the server has read, one item after the other.
LEMMA ReadLengths ==
  ASSUME NEW f \in Seq(Nat), NEW r \in Nat \ {0}, r < LastItem(f)
  PROVE  /\ ReadLen(f, r + 1) =
              ReadLen(f, r) + (IF r + 1 = LastSeq(f) THEN Rest(f) ELSE ZT_RAW_DATA_BYTES_SIZE)
         /\ ReadLen(f, r + 1) <= Len(TCPResult(f))
         /\ ReadLen(f, r) \in Nat
         /\ r < LastSeq(f) => ReadLen(f, r) = ChunkStart(r)
         /\ r + 1 < LastSeq(f) =>
              /\ ReadLen(f, r + 1) <= Len(f)
              /\ Rest(f) = 0 => ReadLen(f, r + 1) <= Len(f) - ZT_RAW_DATA_BYTES_SIZE
<1> DEFINE c == ZT_RAW_DATA_BYTES_SIZE
           full == Full(f)
           len == Len(TCPResult(f))
           place == (r - 1) * c
           next == r * c
           whole == full * c
<1>1. /\ c \in Nat \ {0} /\ full \in Nat /\ Rest(f) \in 0 .. c - 1
      /\ Len(f) \in Nat /\ Len(f) = whole + Rest(f)
      /\ LastItem(f) = full + 2
      /\ LastSeq(f) = IF Rest(f) = 0 THEN full + 1 ELSE full + 2
      /\ full # 0 => Len(f) >= c + Rest(f)
  BY Sizes
<1>2. len = IF Rest(f) = 0 /\ full = 0 THEN c ELSE Len(f)
  <2>1. full = 0 /\ Rest(f) = 0 => Len(f) = 0
    BY Sizes
  <2> QED
    BY <1>1, <2>1, ResultFacts
<1>3. ChunkStart(r) = place
  BY DEF ChunkStart
<1>4. ReadLen(f, r) = IF r < LastSeq(f) THEN place
                      ELSE IF full = 0 THEN 0 ELSE Len(f) - c
  BY DEF ReadLen
<1>5. ReadLen(f, r + 1) =
        IF r + 1 < LastSeq(f) THEN next
        ELSE IF r + 1 < LastItem(f) THEN (IF full = 0 THEN 0 ELSE Len(f) - c) ELSE len
  <2>1. (r + 1) - 1 = r
    OBVIOUS
  <2> QED
    BY <2>1 DEF ReadLen
<1>6. /\ place \in Nat /\ whole \in Nat /\ next = place + c
      /\ r <= full => next <= whole
      /\ r <= full - 1 => next <= whole - c
      /\ r = full => next = whole
      /\ r - 1 = full => place = whole
  <2>1. c \in Nat /\ full \in Nat
    BY <1>1
  <2> HIDE DEF c, full
  <2>2. place \in Nat /\ whole \in Nat /\ next = place + c
    BY <2>1
  <2>3. r <= full => next <= whole
    BY <2>1
  <2>4. ASSUME r <= full - 1 PROVE next <= whole - c
    <3>1. r * c <= (full - 1) * c
      BY <2>1, <2>4
    <3>2. (full - 1) * c = full * c - c
      BY <2>1
    <3> QED
      BY <2>1, <3>1, <3>2
  <2> QED
    BY <2>2, <2>3, <2>4
<1> HIDE DEF c, full, len, place, next, whole
<1>7. CASE r + 1 < LastSeq(f)
  <2>1. ReadLen(f, r) = place /\ ReadLen(f, r + 1) = next
    BY <1>1, <1>4, <1>5, <1>7
  <2>2. r <= full /\ (Rest(f) = 0 => full # 0 /\ r <= full - 1)
    BY <1>1, <1>7
  <2>3. next <= Len(f) /\ (Rest(f) = 0 => next <= Len(f) - c)
    BY <1>1, <1>6, <2>2
  <2>4. next <= len
    BY <1>2, <2>2, <2>3
  <2> QED
    BY <1>1, <1>3, <1>6, <1>7, <2>1, <2>3, <2>4 DEF c, len
<1>8. CASE r + 1 = LastSeq(f)
  BY <1>1, <1>2, <1>3, <1>4, <1>5, <1>6, <1>8 DEF c, len
<1>9. CASE r + 1 > LastSeq(f)
  BY <1>1, <1>2, <1>3, <1>4, <1>5, <1>6, <1>9 DEF c, len
<1> QED
  BY <1>1, <1>7, <1>8, <1>9

\* The data of a DATA packet are the bytes of the file that follow its start,
\* and zeros beyond its end.
LEMMA ChunkData ==
  ASSUME NEW f \in Seq(Nat), NEW r \in Nat \ {0}
  PROVE  /\ Padded(f, r) \in Seq(Nat)
         /\ Len(Padded(f, r)) = ZT_RAW_DATA_BYTES_SIZE
         /\ \A i \in 1 .. ZT_RAW_DATA_BYTES_SIZE :
              Padded(f, r)[i] =
                IF ChunkStart(r) + i <= Len(f) THEN f[ChunkStart(r) + i] ELSE 0
<1>1. Padded(f, r) \in [1 .. ZT_RAW_DATA_BYTES_SIZE -> Nat]
  BY PaddedFacts
<1>2. ZT_RAW_DATA_BYTES_SIZE \in Nat
  BY ChunkSizeAssumption
<1>3. Padded(f, r) \in Seq(Nat) /\ Len(Padded(f, r)) = ZT_RAW_DATA_BYTES_SIZE
  BY <1>1, <1>2
<1> QED
  BY <1>3 DEF Padded

\* A beginning that is continued by what follows in the sequence is one.
LEMMA Continued ==
  ASSUME NEW s \in Seq(Nat), NEW d, NEW e \in Seq(Nat), Begins(d, s),
         Len(d) + Len(e) <= Len(s),
         \A i \in 1 .. Len(e) : e[i] = s[Len(d) + i]
  PROVE  /\ Begins(d \o e, s)
         /\ Len(d \o e) = Len(d) + Len(e)
<1>1. /\ d \in Seq(Nat) /\ Len(d) \in Nat /\ Len(e) \in Nat
      /\ \A i \in 1 .. Len(d) : d[i] = s[i]
  BY DEF Begins
<1>2. /\ d \o e \in Seq(Nat)
      /\ Len(d \o e) = Len(d) + Len(e)
      /\ \A i \in 1 .. Len(d) + Len(e) :
           (d \o e)[i] = IF i <= Len(d) THEN d[i] ELSE e[i - Len(d)]
  BY <1>1, Joined
<1>3. ASSUME NEW i \in 1 .. Len(d) + Len(e)
      PROVE  (d \o e)[i] = s[i]
  <2>1. CASE i <= Len(d)
    BY <1>1, <1>2, <2>1
  <2>2. CASE i > Len(d)
    <3>1. i - Len(d) \in 1 .. Len(e) /\ Len(d) + (i - Len(d)) = i
      BY <1>1, <2>2
    <3>2. e[i - Len(d)] = s[Len(d) + (i - Len(d))]
      BY <3>1
    <3> QED
      BY <1>1, <1>2, <2>2, <3>1, <3>2
  <2> QED
    BY <1>1, <2>1, <2>2
<1> QED
  BY <1>2, <1>3 DEF Begins

\* A beginning is the sequence up to its length.
LEMMA BeginsIsSubSeq ==
  ASSUME NEW s \in Seq(Nat), NEW d, Begins(d, s)
  PROVE  d = SubSeq(s, 1, Len(d))
<1>1. d \in Seq(Nat) /\ Len(d) \in 0 .. Len(s) /\ \A i \in 1 .. Len(d) : d[i] = s[i]
  BY DEF Begins
<1>2. /\ SubSeq(s, 1, Len(d)) \in Seq(Nat) /\ Len(SubSeq(s, 1, Len(d))) = Len(d)
      /\ \A i \in 1 .. Len(d) : SubSeq(s, 1, Len(d))[i] = s[i]
  BY <1>1
<1> QED
  BY <1>1, <1>2

\* Python's slice keeps the bytes it does not cut.
LEMMA Sliced ==
  ASSUME NEW e \in Seq(Nat), NEW k \in Int, -Len(e) <= k, k <= Len(e)
  PROVE  /\ Slice(e, k) \in Seq(Nat)
         /\ Len(Slice(e, k)) = IF k < 0 THEN Len(e) + k ELSE k
         /\ \A i \in 1 .. Len(Slice(e, k)) : Slice(e, k)[i] = e[i]
<1> DEFINE l == IF k < 0 THEN Len(e) + k ELSE k
<1>1. l \in 0 .. Len(e)
  OBVIOUS
<1>2. Slice(e, k) = SubSeq(e, 1, l)
  BY DEF Slice
<1> HIDE DEF l
<1>3. /\ SubSeq(e, 1, l) \in Seq(Nat) /\ Len(SubSeq(e, 1, l)) = l
      /\ \A i \in 1 .. l : SubSeq(e, 1, l)[i] = e[i]
  BY <1>1
<1> QED
  BY <1>2, <1>3 DEF l

\* Where the chunk after the first r items starts, and how it is cut.
LEMMA Places ==
  ASSUME NEW f \in Seq(Nat), NEW r \in Nat \ {0}, r < LastItem(f)
  PROVE  /\ ChunkStart(r) \in Nat
         /\ ChunkStart(r) = (r - 1) * ZT_RAW_DATA_BYTES_SIZE
         /\ r * ZT_RAW_DATA_BYTES_SIZE = ChunkStart(r) + ZT_RAW_DATA_BYTES_SIZE
         /\ r + 1 = LastSeq(f)
              => /\ ChunkStart(r)
                      = Len(f) - (IF Rest(f) = 0 THEN ZT_RAW_DATA_BYTES_SIZE ELSE Rest(f))
                 /\ Len(f) - ZT_RAW_DATA_BYTES_SIZE * (LastSeq(f) - 1)
                      = IF Rest(f) = 0 THEN 0 ELSE Rest(f) - ZT_RAW_DATA_BYTES_SIZE
         /\ r + 1 > LastSeq(f) => Rest(f) = 0
<1> DEFINE c == ZT_RAW_DATA_BYTES_SIZE
<1>1. /\ c \in Nat \ {0} /\ Full(f) \in Nat /\ Rest(f) \in 0 .. c - 1
      /\ Len(f) \in Nat /\ Len(f) = Full(f) * c + Rest(f)
      /\ LastItem(f) = Full(f) + 2
      /\ LastSeq(f) = IF Rest(f) = 0 THEN Full(f) + 1 ELSE Full(f) + 2
  BY Sizes
<1>2. /\ ChunkStart(r) = (r - 1) * c /\ ChunkStart(r) \in Nat
      /\ r * c = ChunkStart(r) + c /\ c * r = r * c
  BY <1>1 DEF ChunkStart
<1>3. ASSUME r + 1 = LastSeq(f)
      PROVE  /\ ChunkStart(r) = Len(f) - (IF Rest(f) = 0 THEN c ELSE Rest(f))
             /\ Len(f) - c * (LastSeq(f) - 1) = IF Rest(f) = 0 THEN 0 ELSE Rest(f) - c
  <2>1. LastSeq(f) - 1 = r
    BY <1>1, <1>3
  <2>2. c * (LastSeq(f) - 1) = ChunkStart(r) + c
    BY <1>2, <2>1
  <2>3. ChunkStart(r) = Len(f) - (IF Rest(f) = 0 THEN c ELSE Rest(f))
    <3>1. CASE Rest(f) = 0
      <4>1. r = Full(f)
        BY <1>1, <1>3, <3>1
      <4>2. r * c = Len(f)
        BY <1>1, <3>1, <4>1
      <4> QED
        BY <1>1, <1>2, <3>1, <4>2
    <3>2. CASE Rest(f) # 0
      <4>1. r - 1 = Full(f)
        BY <1>1, <1>3, <3>2
      <4>2. (r - 1) * c + Rest(f) = Len(f)
        BY <1>1, <4>1
      <4> QED
        BY <1>1, <1>2, <3>2, <4>2
    <3> QED
      BY <3>1, <3>2
  <2>4. Len(f) - c * (LastSeq(f) - 1) = Len(f) - (ChunkStart(r) + c)
    BY <2>2
  <2>5. c \in Nat /\ ChunkStart(r) \in Nat /\ Len(f) \in Nat /\ Rest(f) \in Nat
    BY <1>1, <1>2
  <2> HIDE DEF c
  <2> QED
    BY <2>3, <2>4, <2>5
<1>4. r + 1 > LastSeq(f) => Rest(f) = 0
  BY <1>1
<1> QED
  BY <1>2, <1>3, <1>4

\* Reading the next DATA packet keeps what the server holds a beginning of its
\* result: the chunk is put where it belongs, though its place is counted in
\* the bytes that arrived and the cut in the packets that were announced.
LEMMA ReadsChunk ==
  ASSUME NEW f \in Seq(Nat), NEW d, NEW r \in Nat \ {0}, r < LastItem(f),
         HasRead(f, r, d),
         NEW size,
         r + 1 = LastSeq(f)
           => size = IF Rest(f) = 0 THEN 0 ELSE Rest(f) - ZT_RAW_DATA_BYTES_SIZE,
         NEW e, e = IF r + 1 = LastSeq(f) THEN Slice(Padded(f, r), size) ELSE Padded(f, r)
  PROVE  /\ HasRead(f, r + 1, d \o e)
         /\ e \in Seq(Nat) /\ Len(d \o e) = Len(d) + Len(e)
<1> DEFINE c == ZT_RAW_DATA_BYTES_SIZE
           a == ChunkStart(r)
           p == Padded(f, r)
           res == TCPResult(f)
<1>0. /\ c \in Nat \ {0} /\ Full(f) \in Nat /\ Rest(f) \in 0 .. c - 1
      /\ Len(f) \in Nat /\ LastItem(f) = Full(f) + 2
      /\ LastSeq(f) = IF Rest(f) = 0 THEN Full(f) + 1 ELSE Full(f) + 2
  BY Sizes
<1>1. /\ LastSeq(f) \in Nat /\ Rest(f) \in Nat /\ c \in Nat
      /\ r \in Nat
  BY <1>0
<1>2. /\ a \in Nat /\ a = (r - 1) * c /\ r * c = a + c
      /\ r + 1 = LastSeq(f)
           => a = Len(f) - (IF Rest(f) = 0 THEN c ELSE Rest(f))
      /\ r + 1 > LastSeq(f) => Rest(f) = 0
  BY Places
<1>3. /\ p \in Seq(Nat) /\ Len(p) = c
      /\ \A i \in 1 .. c : p[i] = IF a + i <= Len(f) THEN f[a + i] ELSE 0
  BY ChunkData
<1>4. /\ d \in Seq(Nat) /\ Len(d) = ReadLen(f, r) /\ Begins(d, res)
  BY DEF HasRead, Begins
<1>5. /\ res \in Seq(Nat)
      /\ Rest(f) # 0 => res = f
      /\ Rest(f) = 0 => \A i \in 1 .. Len(res) : res[i] = IF i <= Len(f) - c THEN f[i] ELSE 0
  BY ResultFacts
<1>6. /\ ReadLen(f, r + 1) =
           ReadLen(f, r) + (IF r + 1 = LastSeq(f) THEN Rest(f) ELSE c)
      /\ ReadLen(f, r + 1) <= Len(res)
      /\ ReadLen(f, r) \in Nat
      /\ r < LastSeq(f) => ReadLen(f, r) = a
      /\ r + 1 < LastSeq(f) => /\ ReadLen(f, r + 1) <= Len(f)
                               /\ Rest(f) = 0 => ReadLen(f, r + 1) <= Len(f) - c
  BY ReadLengths
<1>7. r >= LastSeq(f) => /\ ReadLen(f, r) = IF Full(f) = 0 THEN 0 ELSE Len(f) - c
                         /\ Rest(f) = 0 /\ a = Len(f)
  <2>1. r >= LastSeq(f) => Rest(f) = 0 /\ r = Full(f) + 1
    BY <1>0
  <2>2. ASSUME r >= LastSeq(f) PROVE a = Len(f)
    <3>1. r - 1 = Full(f)
      BY <1>0, <2>1, <2>2
    <3>2. Len(f) = Full(f) * c + Rest(f)
      BY Sizes
    <3>3. Full(f) * c = a
      BY <1>2, <3>1
    <3> QED
      BY <1>0, <1>1, <1>2, <2>1, <2>2, <3>2, <3>3
  <2>3. r >= LastSeq(f) => ~(r < LastSeq(f)) /\ r < LastItem(f)
    BY <1>1
  <2> QED
    BY <2>1, <2>2, <2>3 DEF ReadLen
<1> HIDE DEF c, a, p, res
<1>8. /\ e \in Seq(Nat)
      /\ Len(e) = IF r + 1 = LastSeq(f) THEN Rest(f) ELSE c
      /\ \A i \in 1 .. Len(e) : e[i] = p[i]
  <2>1. CASE r + 1 = LastSeq(f)
    <3>1. /\ size = IF Rest(f) = 0 THEN 0 ELSE Rest(f) - c
          /\ c \in Nat /\ Rest(f) \in Nat /\ Rest(f) < c /\ Len(p) = c
      BY <1>0, <1>3, <2>1 DEF c
    <3>5. size \in Int /\ -Len(p) <= size /\ size <= Len(p)
      BY <3>1
    <3>2. e = Slice(p, size)
      BY <2>1 DEF p
    <3>3. /\ Slice(p, size) \in Seq(Nat)
          /\ Len(Slice(p, size)) = IF size < 0 THEN Len(p) + size ELSE size
          /\ \A i \in 1 .. Len(Slice(p, size)) : Slice(p, size)[i] = p[i]
      BY <1>3, <3>5, Sliced
    <3>4. (IF size < 0 THEN Len(p) + size ELSE size) = Rest(f)
      <4>1. CASE Rest(f) = 0
        BY <3>1, <4>1
      <4>2. CASE Rest(f) # 0
        BY <3>1, <4>2
      <4> QED
        BY <4>1, <4>2
    <3> QED
      BY <2>1, <3>2, <3>3, <3>4
  <2>2. CASE r + 1 # LastSeq(f)
    BY <1>3, <2>2 DEF p
  <2> QED
    BY <2>1, <2>2
<1>9. /\ Len(d) \in Nat /\ Len(e) \in Nat /\ Len(res) \in Nat /\ Len(e) <= c
      /\ Len(d) + Len(e) = ReadLen(f, r + 1)
      /\ Len(d) + Len(e) <= Len(res)
  <2>1. Len(d) + Len(e) = ReadLen(f, r + 1)
    BY <1>4, <1>6, <1>8
  <2>2. Len(e) <= c
    <3>1. CASE r + 1 = LastSeq(f)
      BY <1>0, <1>8, <3>1
    <3>2. CASE r + 1 # LastSeq(f)
      BY <1>1, <1>8, <3>2
    <3> QED
      BY <3>1, <3>2
  <2> QED
    BY <1>4, <1>5, <1>6, <1>8, <2>1, <2>2
<1>10. \A i \in 1 .. Len(e) : e[i] = res[Len(d) + i]
  <2> SUFFICES ASSUME NEW i \in 1 .. Len(e) PROVE e[i] = res[Len(d) + i]
    OBVIOUS
  <2>0. i \in Nat /\ i >= 1 /\ i <= Len(e) /\ i <= c /\ i \in 1 .. c
    BY <1>1, <1>9
  <2>1. e[i] = IF a + i <= Len(f) THEN f[a + i] ELSE 0
    BY <1>3, <1>8, <2>0
  <2>2. Len(d) + i \in 1 .. Len(res)
    BY <1>9, <2>0
  <2>3. CASE r < LastSeq(f)
    <3>1. Len(d) = a
      BY <1>4, <1>6, <2>3
    <3>2. a + i <= Len(f) /\ (Rest(f) = 0 => a + i <= Len(f) - c)
      <4>1. CASE r + 1 < LastSeq(f)
        <5>1. /\ a + Len(e) <= Len(f)
              /\ Rest(f) = 0 => a + Len(e) <= Len(f) - c
          BY <1>6, <1>9, <3>1, <4>1
        <5>2. /\ a \in Nat /\ c \in Nat /\ Len(f) \in Nat /\ Len(e) \in Nat
              /\ i \in Nat /\ i <= Len(e)
          BY <1>0, <1>9, <2>0, <3>1
        <5> QED
          BY <5>1, <5>2
      <4>2. CASE r + 1 = LastSeq(f)
        <5>1. Len(e) = Rest(f)
          BY <1>8, <4>2
        <5>2. Rest(f) # 0
          BY <2>0, <5>1
        <5>3. a = Len(f) - Rest(f)
          BY <1>2, <4>2, <5>2
        <5> QED
          BY <1>0, <1>1, <2>0, <5>1, <5>2, <5>3
      <4> QED
        BY <1>1, <2>3, <4>1, <4>2
    <3>3. Rest(f) = 0 => res[a + i] = f[a + i]
      BY <1>5, <2>2, <3>1, <3>2
    <3> QED
      BY <1>5, <2>1, <3>1, <3>2, <3>3
  <2>4. CASE r >= LastSeq(f)
    <3>1. ~(a + i <= Len(f))
      BY <1>0, <1>2, <1>7, <2>0, <2>4
    <3>2. ~(Len(d) + i <= Len(f) - c)
      <4>1. Len(d) = IF Full(f) = 0 THEN 0 ELSE Len(f) - c
        BY <1>4, <1>7, <2>4
      <4>2. Full(f) = 0 => Len(f) = 0
        BY <1>7, <2>4, Sizes
      <4>3. c \in Nat /\ Len(f) \in Nat /\ c > 0
        BY <1>0
      <4>4. CASE Full(f) = 0
        BY <2>0, <4>1, <4>2, <4>3, <4>4
      <4>5. CASE Full(f) # 0
        BY <2>0, <4>1, <4>3, <4>5
      <4> QED
        BY <4>4, <4>5
    <3> QED
      BY <1>5, <1>7, <2>1, <2>2, <2>4, <3>1, <3>2
  <2> QED
    BY <1>1, <2>3, <2>4
<1>11. Begins(d \o e, res) /\ Len(d \o e) = Len(d) + Len(e)
  BY <1>4, <1>5, <1>8, <1>9, <1>10, Continued
<1> QED
  BY <1>8, <1>9, <1>11 DEF HasRead, res

-----------------------------------------------------------------------------
(* The stream under way                                                    *)

\* The stream q holds what follows the first r items, or misfits in its place.
Fits(f, r, q) ==
  \A i \in 1 .. Len(q) : q[i] \in MisfitsForServer \cup {Item(f, r + i)}

\* An item is known by its type.
LEMMA ItemFacts ==
  ASSUME NEW f \in Seq(Nat), NEW j \in Nat \ {0}
  PROVE  /\ Item(f, j) \in ItemsOf(f)
         /\ Item(f, j).ptype = "CREQ" => j = 1 /\ Item(f, j) = Request(f)
         /\ Item(f, j).ptype = "DATA" => j \in 2 .. LastItem(f) /\ Item(f, j) = DataItem(f, j)
         /\ Item(f, j).ptype = "FIN" => j > LastItem(f)
<1>1. LastItem(f) \in Nat
  BY Sizes
<1>2. /\ Request(f).ptype = "CREQ" /\ DataItem(f, j).ptype = "DATA" /\ ZTFinish.ptype = "FIN"
  BY DEF Request, DataItem, ZTFinish
<1> QED
  BY <1>1, <1>2 DEF Item, ItemsOf

\* A misfit is none of the packets a TCP client sends.
LEMMA MisfitFacts ==
  ASSUME NEW pkt \in MisfitsForServer
  PROVE  pkt.ptype \notin {"CREQ", "DATA", "FIN"}
  BY DEF MisfitsForServer, Unreadable, ZTAck

LEMMA Appended ==
  ASSUME NEW f \in Seq(Nat), NEW q \in Seq(ItemsOf(f)), NEW r \in Nat, NEW j \in Nat \ {0},
         NEW t, t = Append(q, Item(f, j))
  PROVE  /\ t \in Seq(ItemsOf(f))
         /\ Len(t) = Len(q) + 1
         /\ Fits(f, r, q) /\ r + Len(q) + 1 = j => Fits(f, r, t)
<1>1. Item(f, j) \in ItemsOf(f)
  BY ItemFacts
<1>2. t \in Seq(ItemsOf(f)) /\ Len(t) = Len(q) + 1 /\ Len(q) \in Nat
  BY <1>1
<1>3. ASSUME Fits(f, r, q), r + Len(q) + 1 = j, NEW i \in 1 .. Len(t)
      PROVE  t[i] \in MisfitsForServer \cup {Item(f, r + i)}
  <2>1. CASE i <= Len(q)
    <3>1. t[i] = q[i] /\ i \in 1 .. Len(q)
      BY <1>2, <2>1
    <3> QED
      BY <1>3, <3>1 DEF Fits
  <2>2. CASE i = Len(q) + 1
    <3>1. t[i] = Item(f, j) /\ r + i = j
      BY <1>2, <1>3, <2>2
    <3> QED
      BY <3>1
  <2> QED
    BY <1>2, <2>1, <2>2
<1> QED
  BY <1>2, <1>3 DEF Fits

LEMMA Taken ==
  ASSUME NEW f \in Seq(Nat), NEW q \in Seq(ItemsOf(f)), q # <<>>, NEW r \in Nat
  PROVE  /\ Tail(q) \in Seq(ItemsOf(f))
         /\ Len(Tail(q)) = Len(q) - 1
         /\ Fits(f, r, q) => /\ Fits(f, r + 1, Tail(q))
                             /\ Head(q) \in MisfitsForServer \cup {Item(f, r + 1)}
<1>1. /\ Tail(q) \in Seq(ItemsOf(f)) /\ Len(q) \in Nat \ {0}
      /\ Len(Tail(q)) = Len(q) - 1
      /\ Head(q) = q[1]
      /\ \A i \in 1 .. Len(q) - 1 : Tail(q)[i] = q[i + 1]
  OBVIOUS
<1>2. ASSUME Fits(f, r, q), NEW i \in 1 .. Len(q) - 1
      PROVE  Tail(q)[i] \in MisfitsForServer \cup {Item(f, (r + 1) + i)}
  <2>1. i + 1 \in 1 .. Len(q) /\ r + (i + 1) = (r + 1) + i
    BY <1>1
  <2>2. q[i + 1] \in MisfitsForServer \cup {Item(f, r + (i + 1))}
    BY <1>2, <2>1 DEF Fits
  <2> QED
    BY <1>1, <2>1, <2>2
<1>3. ASSUME Fits(f, r, q) PROVE q[1] \in MisfitsForServer \cup {Item(f, r + 1)}
  BY <1>1, <1>3 DEF Fits
<1> QED
  BY <1>1, <1>2, <1>3 DEF Fits

LEMMA CutShort ==
  ASSUME NEW f \in Seq(Nat), NEW q \in Seq(ItemsOf(f)), NEW r \in Nat,
         NEW n \in 0 .. Len(q), NEW t, t = SubSeq(q, 1, n)
  PROVE  /\ t \in Seq(ItemsOf(f))
         /\ Fits(f, r, q) => Fits(f, r, t)
<1>1. t \in Seq(ItemsOf(f)) /\ Len(t) = n /\ \A i \in 1 .. n : t[i] = q[i]
  OBVIOUS
<1>2. \A i \in 1 .. n : i \in 1 .. Len(q)
  OBVIOUS
<1> QED
  BY <1>1, <1>2 DEF Fits

LEMMA Replaced ==
  ASSUME NEW f \in Seq(Nat), NEW q \in Seq(ItemsOf(f)), q # <<>>, NEW r \in Nat,
         NEW pkt \in MisfitsForServer, NEW t, t = <<pkt>> \o Tail(q)
  PROVE  /\ t \in Seq(ItemsOf(f))
         /\ Len(t) = Len(q)
         /\ Fits(f, r, q) => Fits(f, r, t)
<1>1. pkt \in ItemsOf(f)
  BY DEF ItemsOf
<1>2. /\ t \in Seq(ItemsOf(f)) /\ Len(q) \in Nat /\ Len(t) = Len(q)
      /\ t[1] = pkt
      /\ \A i \in 2 .. Len(q) : t[i] = q[i]
  BY <1>1
<1> QED
  BY <1>2 DEF Fits

-----------------------------------------------------------------------------
(* The invariant                                                           *)

TCPSending == tcp_client_state \in {"INIT", "WAIT_ACK", "TRANSFER", "FIN"}
TCPReading == tcp_server_state \in {"INIT", "WAIT_CCREQ", "TRANSFER"}

\* The client's position in the file follows its packet number.
ClientHolds ==
  /\ tcp_file \in TCPFiles
  /\ tcp_client_state \in TCPClientStates
  /\ current_sequence_num \in Nat \ {0}
  /\ byte_position \in 0 .. Len(tcp_file)
  /\ tcp_client_state = "INIT" => current_sequence_num = 1
  /\ tcp_client_state = "WAIT_ACK" => current_sequence_num = 2
  /\ tcp_client_state \in {"INIT", "WAIT_ACK"} => byte_position = 0
  /\ tcp_client_state = "TRANSFER" =>
       /\ current_sequence_num \in 2 .. LastItem(tcp_file)
       /\ byte_position = (current_sequence_num - 2) * ZT_RAW_DATA_BYTES_SIZE
  /\ tcp_client_state = "FIN" => current_sequence_num = LastItem(tcp_file) + 1

\* The server has read r items.
ServerHolds(r) ==
  /\ tcp_server_state \in TCPServerStates
  /\ tcp_request \in {[ptype |-> "none"], Request(tcp_file)}
  /\ Begins(recv_bytes_data, TCPResult(tcp_file))
  /\ tcp_server_state \in {"INIT", "WAIT_CCREQ"} => r = 0 /\ recv_bytes_data = <<>>
  /\ tcp_server_state = "TRANSFER" =>
       /\ r \in 1 .. LastItem(tcp_file)
       /\ HasRead(tcp_file, r, recv_bytes_data)
       /\ tcp_request = Request(tcp_file)
  /\ tcp_server_state \in {"FIN", "RETURNED", "SAVED"} =>
       HasRead(tcp_file, LastItem(tcp_file), recv_bytes_data)

\* The stream goes on where the server is, and up to where the client is
\* unless the link broke.
StreamHolds(r) ==
  /\ link \in {"closed", "listening", "up", "broken"}
  /\ hung_up \subseteq {"client", "server"}
  /\ TCPReading \/ tcp_server_state = "FIN" => "server" \notin hung_up
  /\ to_tcp_server \in Seq(ItemsOf(tcp_file))
  /\ TCPReading =>
       /\ Fits(tcp_file, r, to_tcp_server)
       /\ TCPSending /\ link # "broken"
            => r + Len(to_tcp_server) = current_sequence_num - 1

TCPInv(r) == ClientHolds /\ ServerHolds(r) /\ StreamHolds(r)

\* What the client sends next is the next item of the stream.
LEMMA NextItem ==
  ASSUME ClientHolds
  PROVE  /\ tcp_file \in Seq(Nat)
         /\ TCPConnReq = Item(tcp_file, 1)
         /\ tcp_client_state = "TRANSFER" =>
              /\ TCPDataPacket = Item(tcp_file, current_sequence_num)
              /\ IsLastTransferPacket <=> current_sequence_num = LastItem(tcp_file)
              /\ ~IsLastTransferPacket
                   => /\ byte_position + ZT_RAW_DATA_BYTES_SIZE <= Len(tcp_file)
                      /\ byte_position + ZT_RAW_DATA_BYTES_SIZE
                           = (current_sequence_num - 1) * ZT_RAW_DATA_BYTES_SIZE
<1> DEFINE c == ZT_RAW_DATA_BYTES_SIZE
           s == current_sequence_num
<1>1. tcp_file \in Seq(Nat)
  BY TCPFilesAssumption DEF ClientHolds
<1>2. /\ c \in Nat \ {0} /\ Full(tcp_file) \in Nat /\ Rest(tcp_file) \in 0 .. c - 1
      /\ Len(tcp_file) \in Nat /\ Len(tcp_file) = Full(tcp_file) * c + Rest(tcp_file)
      /\ LastItem(tcp_file) = Full(tcp_file) + 2
  BY <1>1, Sizes
<1>3. TCPConnReq = Item(tcp_file, 1)
  <2>1. TCPConnReq = [ptype |-> "CREQ", seq |-> 1, data_size |-> Len(tcp_file),
                      last_seq |-> TCPLastSeq, checksum |-> tcp_file]
    <3> DEFINE numbered == [ZTConnReq(tcp_file) EXCEPT !.seq = 1]
    <3>1. numbered = [ptype |-> "CREQ", seq |-> 1, data_size |-> Len(tcp_file),
                      last_seq |-> LastDataSeq(Len(tcp_file)), checksum |-> tcp_file]
      BY DEF ZTConnReq
    <3>2. TCPConnReq = [numbered EXCEPT !.last_seq = TCPLastSeq]
      BY Zenon DEF TCPConnReq, TCP_CREQ_SEQ
    <3> QED
      BY <3>1, <3>2
  <2> QED
    BY <2>1 DEF TCPLastSeq, Item, Request, LastSeq
<1>4. ASSUME tcp_client_state = "TRANSFER"
      PROVE  /\ TCPDataPacket = Item(tcp_file, s)
             /\ IsLastTransferPacket <=> s = LastItem(tcp_file)
             /\ ~IsLastTransferPacket
                  => byte_position + c <= Len(tcp_file) /\ byte_position + c = (s - 1) * c
  <2>1. s \in 2 .. LastItem(tcp_file) /\ byte_position = (s - 2) * c
    BY <1>4 DEF ClientHolds
  <2>2. s - 2 \in 0 .. Full(tcp_file) /\ (s - 1) * c = (s - 2) * c + c
    BY <1>2, <2>1
  <2>3. NextChunk = s - 1
    <3>1. ((s - 2) * c) \div c = s - 2
      BY <1>2, <2>2
    <3> QED
      BY <2>1, <2>2, <3>1 DEF NextChunk
  <2>4. TCPDataPacket = Item(tcp_file, s)
    <3>1. TCPDataPacket = [ptype |-> "DATA", seq |-> s, file_data |-> Padded(tcp_file, s - 1)]
      BY <2>3 DEF TCPDataPacket, ZTData
    <3> QED
      BY <3>1, <2>1 DEF Item, DataItem
  <2>5. CASE s = LastItem(tcp_file)
    <3>1. byte_position = Full(tcp_file) * c
      BY <1>2, <2>1, <2>5
    <3>2. IsLastTransferPacket
      BY <1>2, <3>1 DEF IsLastTransferPacket
    <3> QED
      BY <2>4, <2>5, <3>2
  <2>6. CASE s # LastItem(tcp_file)
    <3>1. s - 1 <= Full(tcp_file)
      BY <1>2, <2>1, <2>6
    <3>2. (s - 1) * c <= Full(tcp_file) * c
      BY <1>2, <2>1, <3>1
    <3>3. byte_position + c = (s - 1) * c /\ byte_position + c <= Len(tcp_file)
      BY <1>2, <2>1, <2>2, <3>2
    <3>4. ~IsLastTransferPacket
      BY <1>2, <3>3 DEF IsLastTransferPacket, ClientHolds
    <3> QED
      BY <2>4, <2>6, <3>3, <3>4
  <2> QED
    BY <2>5, <2>6
<1> QED
  BY <1>1, <1>3, <1>4

-----------------------------------------------------------------------------
(* The steps                                                               *)

LEMMA ServerSame ==
  ASSUME NEW r \in Nat, ServerHolds(r), UNCHANGED <<tcpServerVars, tcp_file>>
  PROVE  ServerHolds(r)'
  BY DEF ServerHolds, tcpServerVars

\* An item that the client sends, or tries to, goes on with the stream.
LEMMA SendsItem ==
  ASSUME NEW r \in Nat, TCPInv(r), TCPSending,
         NEW pkt, pkt = Item(tcp_file, current_sequence_num),
         \/ to_tcp_server' = Sent(to_tcp_server, pkt, "server")
         \/ to_tcp_server' = Append(to_tcp_server, pkt) /\ link # "broken"
  PROVE  /\ to_tcp_server' \in Seq(ItemsOf(tcp_file))
         /\ TCPReading =>
              /\ Fits(tcp_file, r, to_tcp_server')
              /\ link # "broken" => r + Len(to_tcp_server') = current_sequence_num
<1> DEFINE s == current_sequence_num
<1>1. tcp_file \in Seq(Nat) /\ to_tcp_server \in Seq(ItemsOf(tcp_file)) /\ s \in Nat \ {0}
  BY NextItem DEF TCPInv, ClientHolds, StreamHolds
<1>2. TCPReading =>
        /\ "server" \notin hung_up
        /\ Fits(tcp_file, r, to_tcp_server)
        /\ link # "broken" => r + Len(to_tcp_server) = s - 1
  BY DEF TCPInv, StreamHolds
<1>3. \/ to_tcp_server' = Append(to_tcp_server, pkt) /\ link # "broken"
      \/ to_tcp_server' = to_tcp_server /\ SendMayFail("server")
  BY DEF Sent, SendMayFail
<1>4. CASE to_tcp_server' = Append(to_tcp_server, pkt) /\ link # "broken"
  <2>1. /\ to_tcp_server' \in Seq(ItemsOf(tcp_file))
        /\ Len(to_tcp_server') = Len(to_tcp_server) + 1
        /\ Fits(tcp_file, r, to_tcp_server) /\ r + Len(to_tcp_server) + 1 = s
             => Fits(tcp_file, r, to_tcp_server')
    BY <1>1, <1>4, Appended
  <2> QED
    BY <1>1, <1>2, <1>4, <2>1
<1>5. CASE to_tcp_server' = to_tcp_server /\ SendMayFail("server")
  BY <1>1, <1>2, <1>5 DEF SendMayFail
<1> QED
  BY <1>3, <1>4, <1>5

\* A client that is over sends nothing any more.
LEMMA ClientEnds ==
  ASSUME NEW r \in Nat, TCPInv(r), UNCHANGED tcpServerVars,
         NEW state \in {"RETURNED", "ABORTED", "CRASHED"}, TCPClientEnds(state),
         link' \in {link, "broken"},
         to_tcp_server' = to_tcp_server
           \/ (to_tcp_server' \in Seq(ItemsOf(tcp_file))
                 /\ (TCPReading => Fits(tcp_file, r, to_tcp_server')))
  PROVE  TCPInv(r)'
<1>1. /\ UNCHANGED <<tcp_file, current_sequence_num, byte_position>>
      /\ tcp_client_state' = state
      /\ hung_up' = hung_up \cup {"client"}
  BY DEF TCPClientEnds, Close
<1>2. ClientHolds'
  BY <1>1 DEF TCPInv, ClientHolds, TCPClientStates
<1>3. ServerHolds(r)'
  BY <1>1, ServerSame DEF TCPInv
<1>4. StreamHolds(r)'
  <2>1. TCPReading' = TCPReading /\ tcp_server_state' = tcp_server_state /\ ~TCPSending'
    BY <1>1 DEF TCPReading, TCPSending, tcpServerVars
  <2>2. /\ to_tcp_server' \in Seq(ItemsOf(tcp_file))
        /\ TCPReading => Fits(tcp_file, r, to_tcp_server')
    BY DEF TCPInv, StreamHolds
  <2>3. /\ link' \in {"closed", "listening", "up", "broken"}
        /\ hung_up' \subseteq {"client", "server"}
        /\ TCPReading \/ tcp_server_state = "FIN" => "server" \notin hung_up'
    BY <1>1 DEF TCPInv, StreamHolds
  <2> QED
    BY <1>1, <2>1, <2>2, <2>3 DEF StreamHolds
<1> QED
  BY <1>2, <1>3, <1>4 DEF TCPInv

\* Every step of the client keeps the stream in order.
LEMMA ClientKeeps ==
  ASSUME NEW r \in Nat, TCPInv(r), UNCHANGED tcpServerVars,
         TCPClientStep \/ TCPClientLosesLink
  PROVE  TCPInv(r)'
<1>0. tcp_file \in Seq(Nat) /\ LastItem(tcp_file) \in Nat /\ LastItem(tcp_file) >= 2
  BY NextItem, Sizes DEF TCPInv
<1>1. TCPReading' = TCPReading /\ tcp_server_state' = tcp_server_state
  BY DEF TCPReading, tcpServerVars
<1>2. CASE \/ TCPClientStartFails \/ TCPClientIsRefused \/ TCPClientGetsMisfit
           \/ TCPClientLosesLink \/ TCPClientSendFails \/ TCPClientFinishFails
  <2>1. \E state \in {"RETURNED", "ABORTED", "CRASHED"} : TCPClientEnds(state)
    BY <1>2
    DEF TCPClientStartFails, TCPClientIsRefused, TCPClientGetsMisfit,
        TCPClientLosesLink, TCPClientSendFails, TCPClientFinishFails
  <2>2. link' \in {link, "broken"} /\ to_tcp_server' = to_tcp_server
    BY <1>2
    DEF TCPClientStartFails, TCPClientIsRefused, TCPClientGetsMisfit,
        TCPClientLosesLink, TCPClientSendFails, TCPClientFinishFails
  <2> QED
    BY <2>1, <2>2, ClientEnds
<1>3. CASE TCPClientFinishes
  <2>1. /\ tcp_client_state = "FIN" /\ TCPClientEnds("RETURNED") /\ link' = link
        /\ to_tcp_server' = Sent(to_tcp_server, ZTFinish, "server")
    BY <1>3 DEF TCPClientFinishes
  <2>2. ZTFinish = Item(tcp_file, current_sequence_num)
    BY <1>0, <2>1 DEF TCPInv, ClientHolds, Item
  <2>3. /\ to_tcp_server' \in Seq(ItemsOf(tcp_file))
        /\ TCPReading => Fits(tcp_file, r, to_tcp_server')
    BY <2>1, <2>2, SendsItem DEF TCPSending, TCPClientEnds
  <2> QED
    BY <2>1, <2>3, ClientEnds
<1>4. CASE TCPClientStarts
  <2>1. /\ tcp_client_state = "INIT" /\ tcp_client_state' = "WAIT_ACK"
        /\ link = "listening" /\ link' = "up"
        /\ to_tcp_server' = Append(to_tcp_server, TCPConnReq)
        /\ current_sequence_num' = current_sequence_num + 1
        /\ UNCHANGED <<tcp_file, byte_position, hung_up>>
    BY <1>4 DEF TCPClientStarts
  <2>2. /\ current_sequence_num = 1
        /\ TCPConnReq = Item(tcp_file, current_sequence_num)
    BY <2>1, NextItem DEF TCPInv, ClientHolds
  <2>3. ClientHolds'
    BY <2>1, <2>2 DEF TCPInv, ClientHolds, TCPClientStates
  <2>4. ServerHolds(r)'
    BY <2>1, ServerSame DEF TCPInv
  <2>5. StreamHolds(r)'
    <3>1. /\ to_tcp_server' \in Seq(ItemsOf(tcp_file))
          /\ TCPReading =>
               /\ Fits(tcp_file, r, to_tcp_server')
               /\ r + Len(to_tcp_server') = 1
      BY <2>1, <2>2, SendsItem DEF TCPSending
    <3> QED
      BY <1>1, <2>1, <2>2, <3>1 DEF TCPInv, StreamHolds
  <2> QED
    BY <2>3, <2>4, <2>5 DEF TCPInv
<1>5. CASE TCPClientGetsAck
  <2>1. /\ tcp_client_state = "WAIT_ACK" /\ tcp_client_state' = "TRANSFER"
        /\ UNCHANGED <<tcp_file, current_sequence_num, byte_position, link, hung_up,
                       to_tcp_server>>
    BY <1>5 DEF TCPClientGetsAck
  <2>2. ClientHolds'
    <3>1. current_sequence_num = 2 /\ byte_position = 0 /\ (2 - 2) * ZT_RAW_DATA_BYTES_SIZE = 0
      BY <2>1, ChunkSizeAssumption DEF TCPInv, ClientHolds
    <3> QED
      BY <1>0, <2>1, <3>1 DEF TCPInv, ClientHolds, TCPClientStates
  <2>3. ServerHolds(r)'
    BY <2>1, ServerSame DEF TCPInv
  <2>4. StreamHolds(r)'
    BY <1>1, <2>1 DEF TCPInv, StreamHolds, TCPSending
  <2> QED
    BY <2>2, <2>3, <2>4 DEF TCPInv
<1>6. CASE TCPClientSendsData
  <2>1. /\ tcp_client_state = "TRANSFER"
        /\ to_tcp_server' = Sent(to_tcp_server, TCPDataPacket, "server")
        /\ byte_position' =
             byte_position + (IF IsLastTransferPacket THEN 0 ELSE ZT_RAW_DATA_BYTES_SIZE)
        /\ tcp_client_state' = IF IsLastTransferPacket THEN "FIN" ELSE "TRANSFER"
        /\ current_sequence_num' = current_sequence_num + 1
        /\ UNCHANGED <<tcp_file, link, hung_up>>
    BY <1>6 DEF TCPClientSendsData
  <2>2. /\ TCPDataPacket = Item(tcp_file, current_sequence_num)
        /\ IsLastTransferPacket <=> current_sequence_num = LastItem(tcp_file)
        /\ ~IsLastTransferPacket
             => /\ byte_position + ZT_RAW_DATA_BYTES_SIZE <= Len(tcp_file)
                /\ byte_position + ZT_RAW_DATA_BYTES_SIZE
                     = (current_sequence_num - 1) * ZT_RAW_DATA_BYTES_SIZE
    BY <2>1, NextItem DEF TCPInv
  <2>3. ClientHolds'
    <3>1. current_sequence_num \in 2 .. LastItem(tcp_file) /\ byte_position \in 0 .. Len(tcp_file)
      BY <2>1 DEF TCPInv, ClientHolds
    <3>2. CASE IsLastTransferPacket
      BY <1>0, <2>1, <2>2, <3>1, <3>2, ChunkSizeAssumption
      DEF TCPInv, ClientHolds, TCPClientStates
    <3>3. CASE ~IsLastTransferPacket
      <4>1. /\ tcp_client_state' = "TRANSFER"
            /\ current_sequence_num' \in 2 .. LastItem(tcp_file)
            /\ current_sequence_num' - 2 = current_sequence_num - 1
        BY <1>0, <2>1, <2>2, <3>1, <3>3
      <4>2. byte_position' \in 0 .. Len(tcp_file)
        BY <1>0, <2>1, <2>2, <3>1, <3>3, ChunkSizeAssumption
      <4>3. byte_position' = (current_sequence_num' - 2) * ZT_RAW_DATA_BYTES_SIZE
        BY <2>1, <2>2, <3>3, <4>1
      <4> QED
        BY <2>1, <4>1, <4>2, <4>3 DEF TCPInv, ClientHolds, TCPClientStates
    <3> QED
      BY <3>2, <3>3
  <2>4. ServerHolds(r)'
    BY <2>1, ServerSame DEF TCPInv
  <2>5. StreamHolds(r)'
    <3>1. /\ to_tcp_server' \in Seq(ItemsOf(tcp_file))
          /\ TCPReading =>
               /\ Fits(tcp_file, r, to_tcp_server')
               /\ link # "broken" => r + Len(to_tcp_server') = current_sequence_num
      BY <2>1, <2>2, SendsItem DEF TCPSending
    <3>2. current_sequence_num' - 1 = current_sequence_num
      BY <2>1 DEF TCPInv, ClientHolds
    <3> QED
      BY <1>1, <2>1, <3>1, <3>2 DEF TCPInv, StreamHolds
  <2> QED
    BY <2>3, <2>4, <2>5 DEF TCPInv
<1> QED
  BY <1>2, <1>3, <1>4, <1>5, <1>6 DEF TCPClientStep

LEMMA ClientSame ==
  ASSUME ClientHolds, UNCHANGED tcpClientVars
  PROVE  ClientHolds' /\ TCPSending' = TCPSending /\ tcp_file' = tcp_file
         /\ current_sequence_num' = current_sequence_num
  BY DEF ClientHolds, TCPSending, tcpClientVars

\* A server that is over, or has got the FIN, reads nothing any more.
LEMMA ServerEnds ==
  ASSUME NEW r \in Nat, TCPInv(r), UNCHANGED tcpClientVars,
         tcp_server_state' \in TCPServerStates, ~TCPReading',
         tcp_server_state' = "FIN" => "server" \notin hung_up',
         tcp_server_state' \in {"FIN", "RETURNED", "SAVED"} =>
           HasRead(tcp_file, LastItem(tcp_file), recv_bytes_data),
         UNCHANGED <<link, recv_bytes_data>>,
         tcp_request' \in {tcp_request, Request(tcp_file)},
         hung_up' \in {hung_up, hung_up \cup {"server"}},
         to_tcp_server' \in Seq(ItemsOf(tcp_file))
  PROVE  TCPInv(r)'
<1>1. ClientHolds' /\ tcp_file' = tcp_file
  BY ClientSame DEF TCPInv
<1>2. ServerHolds(r)'
  BY <1>1 DEF TCPInv, ServerHolds, TCPReading
<1>3. StreamHolds(r)'
  BY <1>1 DEF TCPInv, StreamHolds
<1> QED
  BY <1>1, <1>2, <1>3 DEF TCPInv

\* What the server does on its own.
LEMMA ServerAlone ==
  ASSUME NEW r \in Nat, TCPInv(r), UNCHANGED tcpClientVars,
         \/ TCPServerListens \/ TCPServerStartFails \/ TCPServerAccepts
         \/ TCPServerCloses \/ TCPFileIsWritten \/ TCPServerLosesLink
  PROVE  TCPInv(r)'
<1>0. to_tcp_server \in Seq(ItemsOf(tcp_file))
  BY DEF TCPInv, StreamHolds
<1>1. CASE TCPServerListens
  <2>1. /\ link = "closed" /\ link' = "listening"
        /\ UNCHANGED <<tcpServerVars, hung_up, to_tcp_server>>
    BY <1>1 DEF TCPServerListens
  <2>2. /\ ClientHolds' /\ TCPSending' = TCPSending /\ tcp_file' = tcp_file
        /\ current_sequence_num' = current_sequence_num
    BY ClientSame DEF TCPInv
  <2>3. ServerHolds(r)'
    BY <2>1, <2>2, ServerSame DEF TCPInv
  <2>4. StreamHolds(r)'
    BY <2>1, <2>2 DEF TCPInv, StreamHolds, TCPReading, tcpServerVars
  <2> QED
    BY <2>2, <2>3, <2>4 DEF TCPInv
<1>2. CASE TCPServerAccepts
  <2>1. /\ tcp_server_state = "INIT" /\ tcp_server_state' = "WAIT_CCREQ"
        /\ UNCHANGED <<tcp_request, recv_bytes_data, link, hung_up, to_tcp_server>>
    BY <1>2 DEF TCPServerAccepts, linkVars
  <2>2. /\ ClientHolds' /\ TCPSending' = TCPSending /\ tcp_file' = tcp_file
        /\ current_sequence_num' = current_sequence_num
    BY ClientSame DEF TCPInv
  <2>3. ServerHolds(r)'
    BY <2>1, <2>2 DEF TCPInv, ServerHolds, TCPServerStates
  <2>4. StreamHolds(r)'
    BY <2>1, <2>2 DEF TCPInv, StreamHolds, TCPReading
  <2> QED
    BY <2>2, <2>3, <2>4 DEF TCPInv
<1>3. CASE TCPServerStartFails \/ TCPServerCloses \/ TCPServerLosesLink
  <2>1. /\ tcp_server_state' \in {"RETURNED", "CRASHED"}
        /\ UNCHANGED <<link, recv_bytes_data, tcp_request, to_tcp_server>>
        /\ hung_up' = hung_up \cup {"server"}
    BY <1>3 DEF TCPServerStartFails, TCPServerCloses, TCPServerLosesLink, TCPServerEnds, Close
  <2>2. tcp_server_state' = "RETURNED" => tcp_server_state = "FIN"
    BY <1>3 DEF TCPServerStartFails, TCPServerCloses, TCPServerLosesLink, TCPServerEnds
  <2>3. tcp_server_state' = "RETURNED"
          => HasRead(tcp_file, LastItem(tcp_file), recv_bytes_data)
    BY <2>2 DEF TCPInv, ServerHolds
  <2>4. tcp_server_state' \in TCPServerStates /\ ~TCPReading'
    BY <2>1 DEF TCPServerStates, TCPReading
  <2> QED
    BY <1>0, <2>1, <2>3, <2>4, ServerEnds
<1>4. CASE TCPFileIsWritten
  <2>1. /\ \/ tcp_server_state = "RETURNED" /\ tcp_server_state' = "SAVED"
           \/ tcp_server_state = "ABORTED" /\ tcp_server_state' = "SAVED_CUT"
        /\ UNCHANGED <<link, recv_bytes_data, tcp_request, to_tcp_server, hung_up>>
    BY <1>4 DEF TCPFileIsWritten, linkVars
  <2>2. tcp_server_state' = "SAVED"
          => HasRead(tcp_file, LastItem(tcp_file), recv_bytes_data)
    BY <2>1 DEF TCPInv, ServerHolds
  <2>3. tcp_server_state' \in TCPServerStates /\ ~TCPReading'
    BY <2>1 DEF TCPServerStates, TCPReading
  <2> QED
    BY <1>0, <2>1, <2>2, <2>3, ServerEnds
<1> QED
  BY <1>1, <1>2, <1>3, <1>4

\* The packet at the head of the stream is the next item, or a misfit.
LEMMA HeadFacts ==
  ASSUME NEW r \in Nat, TCPInv(r), TCPReading, to_tcp_server # <<>>,
         NEW pkt, pkt = Head(to_tcp_server)
  PROVE  /\ pkt.ptype = "CREQ" => r = 0 /\ pkt = Request(tcp_file)
         /\ pkt.ptype = "DATA" => /\ r + 1 \in 2 .. LastItem(tcp_file)
                                  /\ pkt = DataItem(tcp_file, r + 1)
         /\ pkt.ptype = "FIN" => r + 1 > LastItem(tcp_file)
<1> DEFINE f == tcp_file
<1>1. f \in Seq(Nat) /\ to_tcp_server \in Seq(ItemsOf(f)) /\ Fits(f, r, to_tcp_server)
  BY NextItem DEF TCPInv, StreamHolds
<1>2. pkt \in MisfitsForServer \cup {Item(f, r + 1)}
  BY <1>1, Taken
<1>3. r + 1 \in Nat \ {0} /\ LastItem(f) \in Nat
  BY <1>1, Sizes
<1>4. /\ Item(f, r + 1).ptype = "CREQ" => r + 1 = 1 /\ Item(f, r + 1) = Request(f)
      /\ Item(f, r + 1).ptype = "DATA" => r + 1 \in 2 .. LastItem(f) /\ Item(f, r + 1) = DataItem(f, r + 1)
      /\ Item(f, r + 1).ptype = "FIN" => r + 1 > LastItem(f)
  BY <1>1, <1>3, ItemFacts
<1>5. \A p \in MisfitsForServer : p.ptype \notin {"CREQ", "DATA", "FIN"}
  BY MisfitFacts
<1> QED
  BY <1>2, <1>4, <1>5

\* Reading a DATA packet appends what belongs there.
LEMMA ReadsData ==
  ASSUME NEW r \in Nat, TCPInv(r), to_tcp_server # <<>>,
         TCPServerGetsData(Head(to_tcp_server))
  PROVE  /\ r + 1 \in 2 .. LastItem(tcp_file)
         /\ HasRead(tcp_file, r + 1, recv_bytes_data')
         /\ Len(recv_bytes_data) <= Len(recv_bytes_data')
<1> DEFINE f == tcp_file
           pkt == Head(to_tcp_server)
<1>1. /\ tcp_server_state = "TRANSFER" /\ TCPReading /\ pkt.ptype = "DATA"
      /\ recv_bytes_data' =
           recv_bytes_data \o (IF IsLastDataPacket(pkt.seq)
                               THEN Slice(pkt.file_data, LastDataPacketDataSize)
                               ELSE pkt.file_data)
  BY DEF TCPServerGetsData, TCPReading
<1>2. r + 1 \in 2 .. LastItem(f) /\ pkt = DataItem(f, r + 1)
  BY <1>1, HeadFacts
<1>3. f \in Seq(Nat) /\ LastItem(f) \in Nat
  BY NextItem, Sizes DEF TCPInv
<1> HIDE DEF f, pkt
<1>4. pkt.seq = r + 1 /\ pkt.file_data = Padded(f, r)
  BY <1>2 DEF DataItem
<1>5. tcp_request = Request(f) /\ HasRead(f, r, recv_bytes_data)
  BY <1>1 DEF TCPInv, ServerHolds, f
<1>6. tcp_request.last_seq = LastSeq(f) /\ tcp_request.data_size = Len(f)
  BY <1>5 DEF Request
<1>7. PICK size : size = Len(f) - ZT_RAW_DATA_BYTES_SIZE * (LastSeq(f) - 1)
  OBVIOUS
<1>8. PICK e : e = IF r + 1 = LastSeq(f) THEN Slice(Padded(f, r), size) ELSE Padded(f, r)
  OBVIOUS
<1>9. recv_bytes_data' = recv_bytes_data \o e
  BY <1>1, <1>4, <1>6, <1>7, <1>8 DEF IsLastDataPacket, LastDataPacketDataSize
<1>10. r \in Nat \ {0} /\ r < LastItem(f)
  BY <1>2, <1>3
<1>11. r + 1 = LastSeq(f)
         => size = IF Rest(f) = 0 THEN 0 ELSE Rest(f) - ZT_RAW_DATA_BYTES_SIZE
  BY <1>3, <1>7, <1>10, Places
<1>12. /\ HasRead(f, r + 1, recv_bytes_data \o e)
       /\ e \in Seq(Nat) /\ Len(recv_bytes_data \o e) = Len(recv_bytes_data) + Len(e)
  BY <1>3, <1>5, <1>8, <1>10, <1>11, ReadsChunk
<1>13. Len(recv_bytes_data) \in Nat /\ Len(e) \in Nat
  BY <1>5, <1>12 DEF HasRead, Begins
<1> QED
  BY <1>2, <1>9, <1>12, <1>13 DEF f

\* What the server does with the packet it reads.
LEMMA ServerReads ==
  ASSUME NEW r \in Nat, TCPInv(r), UNCHANGED tcpClientVars,
         to_tcp_server # <<>>, TCPServerReceives(Head(to_tcp_server))
  PROVE  TCPInv(r)' \/ TCPInv(r + 1)'
<1> DEFINE f == tcp_file
           pkt == Head(to_tcp_server)
<1>0. /\ tcp_server_state \in {"WAIT_CCREQ", "TRANSFER"} /\ TCPReading
      /\ to_tcp_server' = Tail(to_tcp_server)
      /\ link' = link
  BY DEF TCPServerReceives, TCPServerGetsRequest, TCPServerAckFails,
         TCPServerGetsNoRequest, TCPServerGetsData, TCPServerGetsFin,
         TCPServerGetsMisfit, ReadsPacket, TCPReading
<1>1. /\ f \in Seq(Nat) /\ to_tcp_server \in Seq(ItemsOf(f)) /\ Fits(f, r, to_tcp_server)
      /\ "server" \notin hung_up
  BY <1>0, NextItem DEF TCPInv, StreamHolds
<1>2. /\ to_tcp_server' \in Seq(ItemsOf(f))
      /\ Len(to_tcp_server') = Len(to_tcp_server) - 1
      /\ Fits(f, r + 1, to_tcp_server')
      /\ pkt \in MisfitsForServer \cup {Item(f, r + 1)}
  BY <1>0, <1>1, Taken
<1>3. /\ ClientHolds' /\ TCPSending' = TCPSending /\ f' = f
      /\ current_sequence_num' = current_sequence_num
  BY ClientSame DEF TCPInv
<1>4. r + 1 \in Nat \ {0} /\ LastItem(f) \in Nat /\ LastItem(f) >= 2
  BY <1>1, Sizes
<1>5. /\ pkt.ptype = "CREQ" => r = 0 /\ pkt = Request(f)
      /\ pkt.ptype = "FIN" => r + 1 > LastItem(f)
  BY <1>0, HeadFacts
<1> HIDE DEF f, pkt
<1>6. ASSUME tcp_server_state' \in {"WAIT_CCREQ", "TRANSFER"}, hung_up' = hung_up
      PROVE  StreamHolds(r + 1)'
  <2>1. TCPReading'
    BY <1>6 DEF TCPReading
  <2>2. TCPSending /\ link # "broken"
          => (r + 1) + Len(to_tcp_server') = current_sequence_num - 1
    BY <1>0, <1>1, <1>2 DEF TCPInv, StreamHolds
  <2> QED
    BY <1>0, <1>1, <1>2, <1>3, <1>6, <2>1, <2>2 DEF TCPInv, StreamHolds, f
<1>7. CASE TCPServerGetsRequest(pkt)
  <2>1. /\ tcp_server_state = "WAIT_CCREQ" /\ tcp_server_state' = "TRANSFER"
        /\ tcp_request' = Request(f) /\ r = 0
        /\ recv_bytes_data' = recv_bytes_data /\ hung_up' = hung_up
    BY <1>5, <1>7 DEF TCPServerGetsRequest
  <2>2. recv_bytes_data = <<>>
    BY <2>1 DEF TCPInv, ServerHolds
  <2>3. HasRead(f, 1, <<>>)
    <3>1. ReadLen(f, 1) = 0
      <4>1. (1 - 1) * ZT_RAW_DATA_BYTES_SIZE = 0
        BY ChunkSizeAssumption
      <4>2. ~(1 < LastSeq(f)) => Full(f) = 0 /\ 1 < LastItem(f)
        <5>1. /\ Full(f) \in Nat /\ LastItem(f) = Full(f) + 2
              /\ LastSeq(f) = IF Rest(f) = 0 THEN Full(f) + 1 ELSE Full(f) + 2
          BY <1>1, Sizes
        <5> QED
          BY <5>1
      <4> QED
        BY <4>1, <4>2 DEF ReadLen
    <3> QED
      BY <1>1, <3>1, ResultFacts DEF HasRead, Begins
  <2>4. ServerHolds(r + 1)'
    BY <1>3, <1>4, <2>1, <2>2, <2>3 DEF TCPInv, ServerHolds, TCPServerStates, f
  <2> QED
    BY <1>3, <1>6, <2>1, <2>4 DEF TCPInv
<1>8. CASE TCPServerGetsData(pkt)
  <2>1. /\ tcp_server_state = "TRANSFER"
        /\ UNCHANGED <<tcp_server_state, tcp_request, hung_up>>
    BY <1>8 DEF TCPServerGetsData
  <2>2. r + 1 \in 2 .. LastItem(f) /\ HasRead(f, r + 1, recv_bytes_data')
    BY <1>8, ReadsData DEF f, pkt
  <2>3. tcp_request = Request(f)
    BY <2>1 DEF TCPInv, ServerHolds, f
  <2>4. ServerHolds(r + 1)'
    <3>1. Begins(recv_bytes_data', TCPResult(f))
      BY <2>2 DEF HasRead
    <3> QED
      BY <1>3, <1>4, <2>1, <2>2, <2>3, <3>1 DEF TCPInv, ServerHolds, f
  <2> QED
    BY <1>3, <1>6, <2>1, <2>4 DEF TCPInv
<1>9. CASE \/ TCPServerAckFails(pkt) \/ TCPServerGetsNoRequest(pkt)
           \/ TCPServerGetsMisfit(pkt)
  <2>1. /\ tcp_server_state' \in {"ABORTED", "CRASHED"}
        /\ recv_bytes_data' = recv_bytes_data
        /\ hung_up' = hung_up \cup {"server"}
        /\ tcp_request' \in {tcp_request, Request(f)}
    BY <1>5, <1>9
    DEF TCPServerAckFails, TCPServerGetsNoRequest, TCPServerGetsMisfit, TCPServerEnds, Close
  <2>2. tcp_server_state' \in TCPServerStates /\ ~TCPReading'
    BY <2>1 DEF TCPServerStates, TCPReading
  <2> QED
    BY <1>0, <1>2, <2>1, <2>2, ServerEnds DEF f
<1>10. CASE TCPServerGetsFin(pkt)
  <2>1. /\ tcp_server_state = "TRANSFER" /\ tcp_server_state' = "FIN"
        /\ UNCHANGED <<tcp_request, recv_bytes_data, hung_up>>
        /\ r + 1 > LastItem(f)
    BY <1>5, <1>10 DEF TCPServerGetsFin
  <2>2. r = LastItem(f) /\ HasRead(f, r, recv_bytes_data)
    BY <1>4, <2>1 DEF TCPInv, ServerHolds, f
  <2>3. tcp_server_state' \in TCPServerStates /\ ~TCPReading'
    BY <2>1 DEF TCPServerStates, TCPReading
  <2> QED
    BY <1>0, <1>1, <1>2, <2>1, <2>2, <2>3, ServerEnds DEF f
<1> QED
  BY <1>7, <1>8, <1>9, <1>10 DEF TCPServerReceives, pkt

\* A link that breaks, or carries a misfit, keeps what is under way in order.
LEMMA LinkKeeps ==
  ASSUME NEW r \in Nat, TCPInv(r), UNCHANGED <<tcpClientVars, tcpServerVars>>,
         LinkBreaks \/ MisfitArrives
  PROVE  TCPInv(r)'
<1>1. /\ tcp_file \in Seq(Nat) /\ to_tcp_server \in Seq(ItemsOf(tcp_file))
      /\ TCPReading => Fits(tcp_file, r, to_tcp_server)
  BY NextItem DEF TCPInv, StreamHolds
<1>2. /\ ClientHolds' /\ TCPSending' = TCPSending /\ tcp_file' = tcp_file
      /\ current_sequence_num' = current_sequence_num
  BY ClientSame DEF TCPInv
<1>3. ServerHolds(r)'
  BY <1>2, ServerSame DEF TCPInv
<1>4. TCPReading' = TCPReading /\ tcp_server_state' = tcp_server_state
  BY DEF TCPReading, tcpServerVars
<1>5. CASE LinkBreaks
  <2>1. PICK n \in 0 .. Len(to_tcp_server) : to_tcp_server' = SubSeq(to_tcp_server, 1, n)
    BY <1>5 DEF LinkBreaks
  <2>2. /\ to_tcp_server' \in Seq(ItemsOf(tcp_file))
        /\ Fits(tcp_file, r, to_tcp_server) => Fits(tcp_file, r, to_tcp_server')
    BY <1>1, <2>1, CutShort
  <2>3. link' = "broken" /\ hung_up' = hung_up
    BY <1>5 DEF LinkBreaks
  <2>4. StreamHolds(r)'
    BY <1>1, <1>2, <1>4, <2>2, <2>3 DEF TCPInv, StreamHolds
  <2> QED
    BY <1>2, <1>3, <2>4 DEF TCPInv
<1>6. CASE MisfitArrives
  <2>1. UNCHANGED <<link, hung_up>>
    BY <1>6 DEF MisfitArrives
  <2>2. CASE to_tcp_server' = to_tcp_server
    <3>1. StreamHolds(r)'
      BY <1>2, <1>4, <2>1, <2>2 DEF TCPInv, StreamHolds
    <3> QED
      BY <1>2, <1>3, <3>1 DEF TCPInv
  <2>3. CASE to_tcp_server' # to_tcp_server
    <3>1. /\ to_tcp_server # <<>>
          /\ \E pkt \in MisfitsForServer : to_tcp_server' = <<pkt>> \o Tail(to_tcp_server)
      BY <1>6, <2>3 DEF MisfitArrives
    <3>2. PICK pkt \in MisfitsForServer : to_tcp_server' = <<pkt>> \o Tail(to_tcp_server)
      BY <3>1
    <3>3. /\ to_tcp_server' \in Seq(ItemsOf(tcp_file))
          /\ Len(to_tcp_server') = Len(to_tcp_server)
          /\ Fits(tcp_file, r, to_tcp_server) => Fits(tcp_file, r, to_tcp_server')
      BY <1>1, <3>1, <3>2, Replaced
    <3>4. StreamHolds(r)'
      BY <1>1, <1>2, <1>4, <2>1, <3>3 DEF TCPInv, StreamHolds
    <3> QED
      BY <1>2, <1>3, <3>4 DEF TCPInv
  <2> QED
    BY <2>2, <2>3
<1> QED
  BY <1>5, <1>6

-----------------------------------------------------------------------------
(* The theorems                                                            *)

TCPIInv == \E r \in Nat : TCPInv(r)

LEMMA TCPInvariantInit == TCPInit => TCPIInv
<1> SUFFICES ASSUME TCPInit PROVE TCPInv(0)
  BY DEF TCPIInv
<1> USE DEF TCPInit, TCPClientInit, TCPServerInit, LinkInit
<1>1. tcp_file \in Seq(Nat) /\ Len(tcp_file) \in Nat
  BY TCPFilesAssumption
<1>2. ClientHolds
  BY <1>1 DEF ClientHolds, TCPClientStates, TCP_CREQ_SEQ
<1>3. ServerHolds(0)
  BY <1>1, ResultFacts DEF ServerHolds, TCPServerStates, Begins
<1>4. StreamHolds(0)
  BY DEF StreamHolds, Fits, TCP_CREQ_SEQ
<1> QED
  BY <1>2, <1>3, <1>4 DEF TCPInv

LEMMA TCPInvariantStep == TCPIInv /\ [TCPNext]_tcpVars => TCPIInv'
<1> SUFFICES ASSUME NEW r \in Nat, TCPInv(r), [TCPNext]_tcpVars
             PROVE  TCPInv(r)' \/ TCPInv(r + 1)'
  BY DEF TCPIInv
<1>1. CASE TCPClientActs \/ (TCPClientLosesLink /\ UNCHANGED tcpServerVars)
  BY <1>1, ClientKeeps DEF TCPClientActs
<1>2. CASE TCPServerActs \/ (TCPServerLosesLink /\ UNCHANGED tcpClientVars)
  BY <1>2, ServerAlone, ServerReads DEF TCPServerActs, TCPServerStep
<1>3. CASE LinkBreaks /\ UNCHANGED <<tcpClientVars, tcpServerVars>>
  BY <1>3, LinkKeeps
<1>4. CASE MisfitArrives /\ UNCHANGED <<tcpClientVars, tcpServerVars>>
  BY <1>4, LinkKeeps
<1>5. CASE UNCHANGED tcpVars
  <2>1. ClientHolds' /\ tcp_file' = tcp_file
    BY <1>5, ClientSame DEF TCPInv, tcpVars
  <2>2. ServerHolds(r)'
    BY <1>5, <2>1, ServerSame DEF TCPInv, tcpVars
  <2>3. StreamHolds(r)'
    BY <1>5 DEF TCPInv, StreamHolds, TCPReading, TCPSending, tcpVars, linkVars,
                tcpClientVars, tcpServerVars
  <2> QED
    BY <2>1, <2>2, <2>3 DEF TCPInv
<1> QED
  BY <1>1, <1>2, <1>3, <1>4, <1>5 DEF TCPNext

\* At some place in the stream, what the server has read is the beginning of
\* the file up to there, and what is under way goes on from there.
THEOREM TCPInvariantHolds == TCPSpec => []TCPIInv
  BY TCPInvariantInit, TCPInvariantStep, PTL DEF TCPSpec

\* Every variable of both TCP programs keeps its type.
THEOREM TCPTypeCorrect == TCPSpec => []TCPTypeOK
<1>1. TCPIInv => TCPTypeOK
  <2> SUFFICES ASSUME NEW r \in Nat, TCPInv(r) PROVE TCPTypeOK
    BY DEF TCPIInv
  <2>1. TCPConnReq = Request(tcp_file)
    BY NextItem DEF TCPInv, Item
  <2> QED
    BY <2>1 DEF TCPInv, ClientHolds, ServerHolds, StreamHolds, TCPTypeOK, Begins
<1> QED
  BY <1>1, TCPInvariantHolds, PTL

\* The TCP server holds a beginning of its result at any time, for every file
\* and wherever the link breaks.
THEOREM ReceivedIsAlwaysPrefix == TCPSpec => []ReceivedIsPrefix
<1>1. TCPIInv => ReceivedIsPrefix
  <2> SUFFICES ASSUME NEW r \in Nat, TCPInv(r) PROVE ReceivedIsPrefix
    BY DEF TCPIInv
  <2>1. TCPResult(tcp_file) \in Seq(Nat)
    BY NextItem, ResultFacts DEF TCPInv
  <2>2. Begins(recv_bytes_data, TCPResult(tcp_file))
    BY DEF TCPInv, ServerHolds
  <2>3. recv_bytes_data = SubSeq(TCPResult(tcp_file), 1, Len(recv_bytes_data))
    BY <2>1, <2>2, BeginsIsSubSeq
  <2> QED
    BY <2>2, <2>3 DEF ReceivedIsPrefix, Begins
<1> QED
  BY <1>1, TCPInvariantHolds, PTL

\* What has been read to the end is the result.
LEMMA ReadAll ==
  ASSUME NEW f \in Seq(Nat), NEW d, HasRead(f, LastItem(f), d)
  PROVE  d = TCPResult(f)
<1> DEFINE res == TCPResult(f)
<1>1. res \in Seq(Nat)
  BY ResultFacts
<1>2. ~(LastItem(f) < LastSeq(f)) /\ ~(LastItem(f) < LastItem(f))
  BY Sizes
<1>3. Begins(d, res) /\ Len(d) = Len(res)
  BY <1>2 DEF HasRead, ReadLen
<1> HIDE DEF res
<1>4. d = SubSeq(res, 1, Len(res))
  BY <1>1, <1>3, BeginsIsSubSeq
<1>5. SubSeq(res, 1, Len(res)) = res
  BY <1>1
<1> QED
  BY <1>4, <1>5 DEF res

\* A server that got the FIN has its result and no byte more, for every file:
\* the file itself if its size is no multiple of the chunk size, and otherwise
\* a chunk of zeros in the place of the last one.
THEOREM FinishedIsAlwaysWhole == TCPSpec => []FinishedIsWhole
<1>1. TCPIInv => FinishedIsWhole
  BY NextItem, ReadAll DEF TCPIInv, TCPInv, ServerHolds, FinishedIsWhole
<1> QED
  BY <1>1, TCPInvariantHolds, PTL

-----------------------------------------------------------------------------
(* What each side knows of the other                                       *)

\* What may be in the stream to the client, and, before the client returned,
\* in the one to the server.
Answers == MisfitsForClient \cup {ZTAck(TCP_CREQ_SEQ)}
BeforeFin(f) == {pkt \in ItemsOf(f) : pkt.ptype # "FIN"}

TCPServing == tcp_server_state \in {"INIT", "WAIT_CCREQ", "TRANSFER", "FIN"}

\* What the client gets the server wrote after it had the request, and as long
\* as the client waits for it, it is there; a FIN tells that the client
\* returned; and each side closes its socket when it ends and not before.
OrderInv ==
  /\ to_tcp_client \in Seq(Answers)
  /\ to_tcp_client # <<>> => tcp_request.ptype # "none"
  /\ \/ tcp_client_state = "RETURNED"
     \/ to_tcp_server \in Seq(BeforeFin(tcp_file))
  /\ tcp_client_state = "INIT" => link \in {"closed", "listening"}
  /\ link = "listening" => tcp_server_state = "INIT"
  /\ ("client" \in hung_up) <=> TCPClientEnded
  /\ ("server" \in hung_up) <=> ~TCPServing
  /\ tcp_client_state = "WAIT_ACK" /\ tcp_server_state \in {"TRANSFER", "FIN"}
       => link = "broken" \/ to_tcp_client # <<>>

LEMMA OrderClient ==
  ASSUME ClientHolds, OrderInv, UNCHANGED tcpServerVars,
         TCPClientStep \/ TCPClientLosesLink
  PROVE  OrderInv'
<1>0. /\ UNCHANGED <<tcp_server_state, tcp_request>>
      /\ TCPServing' = TCPServing /\ tcp_file' = tcp_file
  BY DEF tcpServerVars, TCPServing, TCPClientStep, TCPClientStarts, TCPClientStartFails,
         TCPClientIsRefused, TCPClientGetsAck, TCPClientGetsMisfit, TCPClientLosesLink,
         TCPClientSendsData, TCPClientSendFails, TCPClientFinishes, TCPClientFinishFails,
         TCPClientEnds
<1>1. to_tcp_client' \in Seq(Answers) /\ (to_tcp_client = <<>> => to_tcp_client' = <<>>)
  <2>1. \/ to_tcp_client' = to_tcp_client
        \/ to_tcp_client # <<>> /\ to_tcp_client' = Tail(to_tcp_client)
    BY DEF TCPClientStep, TCPClientStarts, TCPClientStartFails,
           TCPClientIsRefused, TCPClientGetsAck, TCPClientGetsMisfit, TCPClientLosesLink,
           TCPClientSendsData, TCPClientSendFails, TCPClientFinishes, TCPClientFinishFails
  <2>2. to_tcp_client \in Seq(Answers)
    BY DEF OrderInv
  <2> QED
    BY <2>1, <2>2
<1>2. CASE \/ TCPClientStartFails \/ TCPClientIsRefused \/ TCPClientGetsMisfit
           \/ TCPClientLosesLink \/ TCPClientSendFails \/ TCPClientFinishFails
           \/ TCPClientFinishes
  <2>1. /\ tcp_client_state' \in {"RETURNED", "ABORTED", "CRASHED"}
        /\ hung_up' = hung_up \cup {"client"}
        /\ link' \in {link, "broken"}
        /\ tcp_client_state' # "RETURNED" =>
             to_tcp_server' = to_tcp_server /\ tcp_client_state # "RETURNED"
    BY <1>2
    DEF TCPClientStartFails, TCPClientIsRefused, TCPClientGetsMisfit,
        TCPClientLosesLink, TCPClientSendFails, TCPClientFinishFails, TCPClientFinishes,
        TCPClientEnds, Close
  <2> QED
    BY <1>0, <1>1, <2>1 DEF OrderInv, TCPClientEnded
<1>3. CASE TCPClientStarts
  <2>1. /\ tcp_client_state = "INIT" /\ tcp_client_state' = "WAIT_ACK"
        /\ link = "listening" /\ link' = "up" /\ hung_up' = hung_up
        /\ to_tcp_server' = Append(to_tcp_server, TCPConnReq)
    BY <1>3 DEF TCPClientStarts
  <2>2. TCPConnReq \in BeforeFin(tcp_file)
    <3>1. tcp_file \in Seq(Nat) /\ TCPConnReq = Item(tcp_file, 1)
      BY NextItem
    <3>2. Item(tcp_file, 1).ptype = "CREQ"
      BY DEF Item, Request
    <3> QED
      BY <3>1, <3>2, ItemFacts DEF BeforeFin
  <2>3. to_tcp_server' \in Seq(BeforeFin(tcp_file)')
    BY <1>0, <2>1, <2>2 DEF OrderInv, BeforeFin, ItemsOf
  <2> QED
    BY <1>0, <1>1, <2>1, <2>3 DEF OrderInv, TCPClientEnded
<1>4. CASE TCPClientGetsAck
  <2>1. /\ tcp_client_state = "WAIT_ACK" /\ tcp_client_state' = "TRANSFER"
        /\ UNCHANGED <<link, hung_up, to_tcp_server>>
    BY <1>4 DEF TCPClientGetsAck
  <2> QED
    BY <1>0, <1>1, <2>1 DEF OrderInv, TCPClientEnded
<1>5. CASE TCPClientSendsData
  <2>1. /\ tcp_client_state = "TRANSFER" /\ tcp_client_state' \in {"TRANSFER", "FIN"}
        /\ UNCHANGED <<link, hung_up>>
        /\ to_tcp_server' \in {to_tcp_server, Append(to_tcp_server, TCPDataPacket)}
    BY <1>5 DEF TCPClientSendsData, Sent
  <2>2. TCPDataPacket \in BeforeFin(tcp_file)
    <3>1. /\ tcp_file \in Seq(Nat) /\ current_sequence_num \in 2 .. LastItem(tcp_file)
          /\ TCPDataPacket = Item(tcp_file, current_sequence_num)
      BY <2>1, NextItem DEF ClientHolds
    <3>2. LastItem(tcp_file) \in Nat
      BY <3>1, Sizes
    <3>3. Item(tcp_file, current_sequence_num).ptype = "DATA"
      BY <3>1, <3>2 DEF Item, DataItem
    <3> QED
      BY <3>1, <3>2, <3>3, ItemFacts DEF BeforeFin
  <2>3. to_tcp_server' \in Seq(BeforeFin(tcp_file))
    BY <2>1, <2>2 DEF OrderInv
  <2> QED
    BY <1>0, <1>1, <2>1, <2>3 DEF OrderInv, TCPClientEnded
<1> QED
  BY <1>2, <1>3, <1>4, <1>5 DEF TCPClientStep

\* What a stream becomes is a stream of the same packets.
LEMMA StreamMoves ==
  ASSUME NEW S, NEW q \in Seq(S)
  PROVE  /\ q # <<>> => Tail(q) \in Seq(S)
         /\ \A x \in S : /\ Append(q, x) \in Seq(S)
                         /\ Append(q, x) # <<>>
                         /\ q # <<>> => /\ <<x>> \o Tail(q) \in Seq(S)
                                        /\ <<x>> \o Tail(q) # <<>>
<1>1. q # <<>> => Tail(q) \in Seq(S)
  OBVIOUS
<1>2. ASSUME NEW x \in S, q # <<>>
      PROVE  <<x>> \o Tail(q) \in Seq(S) /\ <<x>> \o Tail(q) # <<>>
  <2>1. <<x>> \in Seq(S) /\ Len(<<x>>) = 1
    OBVIOUS
  <2>2. Tail(q) \in Seq(S)
    BY <1>1, <1>2
  <2>3. <<x>> \o Tail(q) \in Seq(S) /\ Len(<<x>> \o Tail(q)) = 1 + Len(Tail(q))
    BY <2>1, <2>2
  <2> QED
    BY <2>2, <2>3
<1>3. ASSUME NEW x \in S
      PROVE  Append(q, x) \in Seq(S) /\ Append(q, x) # <<>>
  <2>1. Append(q, x) \in Seq(S) /\ Len(Append(q, x)) = Len(q) + 1 /\ Len(q) \in Nat
    OBVIOUS
  <2>2. Len(<<>>) = 0
    OBVIOUS
  <2> QED
    BY <2>1, <2>2
<1> QED
  BY <1>1, <1>2, <1>3

LEMMA OrderServer ==
  ASSUME tcp_file \in Seq(Nat), to_tcp_server \in Seq(ItemsOf(tcp_file)), OrderInv,
         UNCHANGED tcpClientVars, TCPServerStep \/ TCPServerLosesLink
  PROVE  OrderInv'
<1>0. UNCHANGED <<tcp_client_state, tcp_file>> /\ TCPClientEnded' = TCPClientEnded
  BY DEF tcpClientVars, TCPClientEnded
<1>1. to_tcp_server' \in {to_tcp_server, Tail(to_tcp_server)}
      /\ (to_tcp_server = <<>> => to_tcp_server' = to_tcp_server)
  BY DEF TCPServerStep, TCPServerListens, TCPServerStartFails, TCPServerAccepts,
         TCPServerReceives, TCPServerGetsRequest, TCPServerAckFails,
         TCPServerGetsNoRequest, TCPServerGetsData, TCPServerGetsFin,
         TCPServerGetsMisfit, ReadsPacket, TCPServerCloses, TCPFileIsWritten,
         TCPServerLosesLink, linkVars
<1>2. \/ tcp_client_state' = "RETURNED"
      \/ to_tcp_server' \in Seq(BeforeFin(tcp_file))
  BY <1>0, <1>1, StreamMoves DEF OrderInv
<1>3. CASE TCPServerListens \/ TCPServerAccepts
  <2>1. /\ UNCHANGED <<tcp_request, to_tcp_client, hung_up>>
        /\ tcp_server_state = "INIT" /\ tcp_server_state' \in {"INIT", "WAIT_CCREQ"}
        /\ \/ link = "closed" /\ link' = "listening" /\ tcp_server_state' = "INIT"
           \/ link \in {"up", "broken"} /\ link' = link
    BY <1>3 DEF TCPServerListens, TCPServerAccepts, tcpServerVars, linkVars
  <2> QED
    BY <1>0, <1>2, <2>1 DEF OrderInv, TCPServing
<1>4. ASSUME NEW pkt \in ItemsOf(tcp_file), TCPServerGetsRequest(pkt)
      PROVE  OrderInv'
  <2>1. /\ tcp_server_state = "WAIT_CCREQ" /\ tcp_server_state' = "TRANSFER"
        /\ tcp_request' = pkt /\ pkt.ptype = "CREQ" /\ UNCHANGED <<link, hung_up>>
        /\ to_tcp_client' = Sent(to_tcp_client, ZTAck(pkt.seq), "client")
    BY <1>4 DEF TCPServerGetsRequest
  <2>2. pkt.seq = TCP_CREQ_SEQ
    <3>1. pkt \notin MisfitsForServer
      BY <2>1, MisfitFacts
    <3>2. pkt = Request(tcp_file)
      BY <2>1, <3>1, ItemFacts DEF ItemsOf
    <3> QED
      BY <3>2 DEF Request, TCP_CREQ_SEQ
  <2>3. to_tcp_client' \in {to_tcp_client, Append(to_tcp_client, ZTAck(TCP_CREQ_SEQ))}
    BY <2>1, <2>2 DEF Sent
  <2>4. to_tcp_client' \in Seq(Answers)
    <3>1. ZTAck(TCP_CREQ_SEQ) \in Answers
      BY DEF Answers
    <3> QED
      BY <2>3, <3>1, StreamMoves DEF OrderInv
  <2>5. link = "broken" \/ "client" \in hung_up \/ to_tcp_client' # <<>>
    BY <2>1, <2>3 DEF OrderInv, Sent, SendMayFail
  <2> QED
    BY <1>0, <1>2, <2>1, <2>4, <2>5 DEF OrderInv, TCPServing, TCPClientEnded
<1>5. ASSUME NEW pkt, TCPServerGetsData(pkt) \/ TCPServerGetsFin(pkt)
      PROVE  OrderInv'
  <2>1. /\ tcp_server_state = "TRANSFER" /\ tcp_server_state' \in {"TRANSFER", "FIN"}
        /\ UNCHANGED <<tcp_request, link, hung_up, to_tcp_client>>
    BY <1>5 DEF TCPServerGetsData, TCPServerGetsFin
  <2> QED
    BY <1>0, <1>2, <2>1 DEF OrderInv, TCPServing
<1>6. ASSUME NEW pkt,
             \/ TCPServerAckFails(pkt) \/ TCPServerGetsNoRequest(pkt)
             \/ TCPServerGetsMisfit(pkt)
             \/ TCPServerStartFails \/ TCPServerCloses \/ TCPServerLosesLink
      PROVE  OrderInv'
  <2>1. /\ tcp_server_state' \in {"RETURNED", "ABORTED", "CRASHED"}
        /\ hung_up' = hung_up \cup {"server"}
        /\ tcp_request' = tcp_request \/ tcp_request'.ptype = "CREQ"
        /\ UNCHANGED <<link, to_tcp_client>>
        /\ link = "listening" => tcp_server_state # "INIT"
    BY <1>6
    DEF TCPServerAckFails, TCPServerGetsNoRequest, TCPServerGetsMisfit,
        TCPServerStartFails, TCPServerCloses, TCPServerLosesLink, TCPServerEnds, Close
  <2> QED
    BY <1>0, <1>2, <2>1 DEF OrderInv, TCPServing
<1>7. CASE TCPFileIsWritten
  <2>1. /\ tcp_server_state \in {"RETURNED", "ABORTED"}
        /\ tcp_server_state' \in {"SAVED", "SAVED_CUT"}
        /\ UNCHANGED <<tcp_request, link, hung_up, to_tcp_client>>
    BY <1>7 DEF TCPFileIsWritten, linkVars
  <2> QED
    BY <1>0, <1>2, <2>1 DEF OrderInv, TCPServing
<1>8. to_tcp_server # <<>> => Head(to_tcp_server) \in ItemsOf(tcp_file)
  OBVIOUS
<1> QED
  BY <1>3, <1>4, <1>5, <1>6, <1>7, <1>8 DEF TCPServerStep, TCPServerReceives

LEMMA OrderLink ==
  ASSUME to_tcp_server \in Seq(ItemsOf(tcp_file)), OrderInv,
         UNCHANGED <<tcpClientVars, tcpServerVars>>, LinkBreaks \/ MisfitArrives
  PROVE  OrderInv'
<1>0. /\ UNCHANGED <<tcp_client_state, tcp_file, tcp_server_state, tcp_request, hung_up>>
      /\ TCPClientEnded' = TCPClientEnded /\ TCPServing' = TCPServing
  BY DEF LinkBreaks, MisfitArrives, tcpClientVars, tcpServerVars, TCPClientEnded, TCPServing
<1>1. to_tcp_client \in Seq(Answers)
  BY DEF OrderInv
<1>2. CASE LinkBreaks
  <2>1. PICK n \in 0 .. Len(to_tcp_server) : to_tcp_server' = SubSeq(to_tcp_server, 1, n)
    BY <1>2 DEF LinkBreaks
  <2>2. PICK m \in 0 .. Len(to_tcp_client) : to_tcp_client' = SubSeq(to_tcp_client, 1, m)
    BY <1>2 DEF LinkBreaks
  <2>3. \A S : to_tcp_server \in Seq(S) => to_tcp_server' \in Seq(S)
    BY <2>1
  <2>4. to_tcp_client' \in Seq(Answers) /\ (to_tcp_client = <<>> => to_tcp_client' = <<>>)
    BY <1>1, <2>2
  <2>5. link = "up" /\ link' = "broken"
    BY <1>2 DEF LinkBreaks
  <2> QED
    BY <1>0, <2>3, <2>4, <2>5 DEF OrderInv
<1>3. CASE MisfitArrives
  <2>1. \/ to_tcp_server' = to_tcp_server
        \/ \E pkt \in MisfitsForServer : to_tcp_server' = <<pkt>> \o Tail(to_tcp_server)
             /\ to_tcp_server # <<>>
    BY <1>3 DEF MisfitArrives
  <2>2. \/ to_tcp_client' = to_tcp_client
        \/ \E pkt \in MisfitsForClient : to_tcp_client' = <<pkt>> \o Tail(to_tcp_client)
             /\ to_tcp_client # <<>>
    BY <1>3 DEF MisfitArrives
  <2>3. to_tcp_server \in Seq(BeforeFin(tcp_file)) => to_tcp_server' \in Seq(BeforeFin(tcp_file))
    <3>1. MisfitsForServer \subseteq BeforeFin(tcp_file)
      BY MisfitFacts DEF BeforeFin, ItemsOf
    <3> QED
      BY <2>1, <3>1, StreamMoves
  <2>4. to_tcp_client' \in Seq(Answers) /\ (to_tcp_client = <<>> <=> to_tcp_client' = <<>>)
    <3>1. MisfitsForClient \subseteq Answers
      BY DEF Answers
    <3> QED
      BY <1>1, <2>2, <3>1, StreamMoves
  <2>5. link' = link
    BY <1>3 DEF MisfitArrives
  <2> QED
    BY <1>0, <2>3, <2>4, <2>5 DEF OrderInv
<1> QED
  BY <1>2, <1>3

\* What each side knows of the other stays true.
LEMMA OrderHolds == TCPSpec => []OrderInv
<1>1. TCPInit => OrderInv
  BY DEF TCPInit, TCPClientInit, TCPServerInit, LinkInit, OrderInv, TCPClientEnded,
         TCPServing
<1>2. TCPIInv /\ OrderInv /\ [TCPNext]_tcpVars => OrderInv'
  <2> SUFFICES ASSUME NEW r \in Nat, TCPInv(r), OrderInv, [TCPNext]_tcpVars
               PROVE  OrderInv'
    BY DEF TCPIInv
  <2>1. ClientHolds /\ tcp_file \in Seq(Nat) /\ to_tcp_server \in Seq(ItemsOf(tcp_file))
    BY NextItem DEF TCPInv, StreamHolds
  <2>2. CASE TCPClientActs \/ (TCPClientLosesLink /\ UNCHANGED tcpServerVars)
    BY <2>1, <2>2, OrderClient DEF TCPClientActs
  <2>3. CASE TCPServerActs \/ (TCPServerLosesLink /\ UNCHANGED tcpClientVars)
    BY <2>1, <2>3, OrderServer DEF TCPServerActs
  <2>4. CASE (LinkBreaks \/ MisfitArrives) /\ UNCHANGED <<tcpClientVars, tcpServerVars>>
    BY <2>1, <2>4, OrderLink
  <2>5. CASE UNCHANGED tcpVars
    BY <2>5 DEF OrderInv, TCPClientEnded, TCPServing, tcpVars, tcpClientVars,
                tcpServerVars, linkVars
  <2> QED
    BY <2>2, <2>3, <2>4, <2>5 DEF TCPNext
<1> QED
  BY <1>1, <1>2, TCPInvariantHolds, PTL DEF TCPSpec

\* Client and server never wait for each other, wherever the link breaks and
\* whatever arrives damaged: on a link that holds, the one or the other has a
\* packet to read or a step to take, or waits for a side that hung up.
THEOREM NeverMutualWait == TCPSpec => []NoMutualWait
<1>1. TCPIInv /\ OrderInv => NoMutualWait
  <2> SUFFICES ASSUME NEW r \in Nat, TCPInv(r), OrderInv
               PROVE  NoMutualWait
    BY DEF TCPIInv
  <2>1. to_tcp_server \in Seq(ItemsOf(tcp_file))
    BY DEF TCPInv, StreamHolds
  <2>2. ASSUME TCPClientWaits, link # "broken", "server" \notin hung_up
        PROVE  tcp_server_state \in {"INIT", "WAIT_CCREQ"} /\ to_tcp_server # <<>>
    <3>1. tcp_client_state = "WAIT_ACK" /\ current_sequence_num = 2
      BY <2>2 DEF TCPClientWaits, TCPInv, ClientHolds
    <3>2. tcp_server_state \in {"INIT", "WAIT_CCREQ"}
      BY <2>2, <3>1 DEF OrderInv, TCPClientWaits, TCPServing
    <3>3. r = 0 /\ r + Len(to_tcp_server) = 1
      BY <2>2, <3>1, <3>2 DEF TCPInv, ServerHolds, StreamHolds, TCPReading, TCPSending
    <3> QED
      BY <2>1, <3>2, <3>3
  <2>3. ASSUME TCPServerWaits, link # "broken", "client" \notin hung_up
        PROVE  ~TCPClientEnded /\ ~TCPClientWaits
    <3>1. "server" \notin hung_up /\ to_tcp_server = <<>>
      BY <2>3 DEF OrderInv, TCPServerWaits, TCPServing
    <3> QED
      BY <2>2, <2>3, <3>1 DEF OrderInv
  <2> QED
    BY <2>2, <2>3 DEF NoMutualWait
<1> QED
  BY <1>1, TCPInvariantHolds, OrderHolds, PTL

-----------------------------------------------------------------------------
(* The refinement                                                          *)

TCPAgreed == tcp_request.ptype # "none"

TCPSaved ==
  IF tcp_server_state \in {"SAVED", "SAVED_CUT"} THEN recv_bytes_data ELSE <<>>

\* What a step of the client may look like from outside.
TCPSenderMoves ==
  \/ TCPSenderOutcome' = TCPSenderOutcome
  \/ TCPSenderOutcome = "idle" /\ TCPSenderOutcome' = "asking"
  \/ TCPAgreed /\ TCPSenderOutcome = "asking" /\ TCPSenderOutcome' = "sending"
  \/ TCPSenderOutcome = "sending" /\ TCPSenderOutcome' = "returned"
  \/ /\ TCPSenderOutcome \in {"idle", "asking", "sending"}
     /\ TCPSenderOutcome' = "failed"

\* What a step of the server may look like from outside.
TCPReceiverMoves ==
  \/ UNCHANGED <<tcp_request, TCPReceiverOutcome, recv_bytes_data, TCPSaved>>
  \/ /\ TCPSenderOutcome # "idle" /\ TCPAgreed'
     /\ TCPReceiverOutcome = "idle" /\ TCPReceiverOutcome' \in {"receiving", "failed"}
     /\ UNCHANGED <<recv_bytes_data, TCPSaved>>
  \/ /\ TCPReceiverOutcome = "receiving" /\ TCPReceiverOutcome' = "receiving"
     /\ \E n \in Len(recv_bytes_data) + 1 .. Len(TCPResult(tcp_file)) :
          recv_bytes_data' = SubSeq(TCPResult(tcp_file), 1, n)
     /\ UNCHANGED <<tcp_request, TCPSaved>>
  \/ /\ TCPSenderOutcome = "returned" /\ recv_bytes_data = TCPResult(tcp_file)
     /\ TCPReceiverOutcome = "receiving" /\ TCPReceiverOutcome' = "complete"
     /\ UNCHANGED <<tcp_request, recv_bytes_data, TCPSaved>>
  \/ /\ TCPReceiverOutcome \in {"idle", "receiving"} /\ TCPReceiverOutcome' = "failed"
     /\ UNCHANGED <<tcp_request, recv_bytes_data, TCPSaved>>
  \/ /\ TCPReceiverOutcome = "complete" /\ TCPReceiverOutcome' = "saved"
     /\ TCPSaved' = TCPResult(tcp_file)
     /\ UNCHANGED <<tcp_request, recv_bytes_data>>
  \/ /\ TCPReceiverOutcome = "failed" /\ TCPReceiverOutcome' = "cut"
     /\ TCPSaved' = recv_bytes_data
     /\ UNCHANGED <<tcp_request, recv_bytes_data>>

\* The outcomes of both ends by their states.
LEMMA TCPOutcomes ==
  /\ tcp_client_state = "INIT" => TCPSenderOutcome = "idle"
  /\ tcp_client_state = "WAIT_ACK" => TCPSenderOutcome = "asking"
  /\ tcp_client_state \in {"TRANSFER", "FIN"} => TCPSenderOutcome = "sending"
  /\ tcp_client_state = "RETURNED" => TCPSenderOutcome = "returned"
  /\ tcp_client_state \in {"ABORTED", "CRASHED"} => TCPSenderOutcome = "failed"
  /\ tcp_server_state \in {"INIT", "WAIT_CCREQ"} => TCPReceiverOutcome = "idle"
  /\ tcp_server_state = "TRANSFER" => TCPReceiverOutcome = "receiving"
  /\ tcp_server_state \in {"FIN", "RETURNED"} => TCPReceiverOutcome = "complete"
  /\ tcp_server_state = "SAVED" => TCPReceiverOutcome = "saved"
  /\ tcp_server_state = "SAVED_CUT" => TCPReceiverOutcome = "cut"
  /\ tcp_server_state \in {"ABORTED", "CRASHED"} => TCPReceiverOutcome = "failed"
  BY DEF TCPSenderOutcome, TCPReceiverOutcome

\* The same of the next state.
LEMMA NextTCPOutcomes ==
  /\ tcp_client_state' = "WAIT_ACK" => TCPSenderOutcome' = "asking"
  /\ tcp_client_state' \in {"TRANSFER", "FIN"} => TCPSenderOutcome' = "sending"
  /\ tcp_client_state' = "RETURNED" => TCPSenderOutcome' = "returned"
  /\ tcp_client_state' \in {"ABORTED", "CRASHED"} => TCPSenderOutcome' = "failed"
  /\ tcp_server_state' \in {"INIT", "WAIT_CCREQ"} => TCPReceiverOutcome' = "idle"
  /\ tcp_server_state' = "TRANSFER" => TCPReceiverOutcome' = "receiving"
  /\ tcp_server_state' \in {"FIN", "RETURNED"} => TCPReceiverOutcome' = "complete"
  /\ tcp_server_state' = "SAVED" => TCPReceiverOutcome' = "saved"
  /\ tcp_server_state' = "SAVED_CUT" => TCPReceiverOutcome' = "cut"
  /\ tcp_server_state' \in {"ABORTED", "CRASHED"} => TCPReceiverOutcome' = "failed"
  BY DEF TCPSenderOutcome, TCPReceiverOutcome

\* Every step of the client is one the abstract sender may take.
LEMMA TCPSenderSteps ==
  ASSUME OrderInv, TCPClientStep \/ TCPClientLosesLink
  PROVE  TCPSenderMoves
<1> USE TCPOutcomes, NextTCPOutcomes DEF TCPSenderMoves
<1>1. CASE TCPClientStarts
  BY <1>1 DEF TCPClientStarts
<1>2. CASE TCPClientGetsAck
  BY <1>2 DEF TCPClientGetsAck, OrderInv, TCPAgreed
<1>3. CASE TCPClientSendsData
  BY <1>3 DEF TCPClientSendsData
<1>4. CASE TCPClientFinishes
  BY <1>4 DEF TCPClientFinishes, TCPClientEnds
<1>5. CASE \/ TCPClientStartFails \/ TCPClientIsRefused \/ TCPClientGetsMisfit
           \/ TCPClientLosesLink \/ TCPClientSendFails \/ TCPClientFinishFails
  <2>1. /\ tcp_client_state \in {"INIT", "WAIT_ACK", "TRANSFER", "FIN"}
        /\ tcp_client_state' \in {"ABORTED", "CRASHED"}
    BY <1>5
    DEF TCPClientStartFails, TCPClientIsRefused, TCPClientGetsMisfit,
        TCPClientLosesLink, TCPClientSendFails, TCPClientFinishFails, TCPClientEnds
  <2> QED
    BY <2>1
<1> QED
  BY <1>1, <1>2, <1>3, <1>4, <1>5 DEF TCPClientStep

\* Every step of the server on its own is one the abstract receiver may take.
LEMMA TCPReceiverSteps ==
  ASSUME FinishedIsWhole,
         \/ TCPServerListens \/ TCPServerStartFails \/ TCPServerAccepts
         \/ TCPServerCloses \/ TCPFileIsWritten \/ TCPServerLosesLink
  PROVE  TCPReceiverMoves
<1> USE TCPOutcomes, NextTCPOutcomes DEF TCPReceiverMoves
<1>1. CASE TCPServerListens
  <2>1. UNCHANGED <<tcp_server_state, tcp_request, recv_bytes_data>>
    BY <1>1 DEF TCPServerListens, tcpServerVars
  <2> QED
    BY <2>1 DEF TCPReceiverOutcome, TCPSaved
<1>2. CASE TCPServerAccepts
  BY <1>2 DEF TCPServerAccepts, TCPSaved
<1>3. CASE TCPServerStartFails \/ TCPServerLosesLink
  <2>1. /\ tcp_server_state \in {"INIT", "WAIT_CCREQ", "TRANSFER"}
        /\ tcp_server_state' = "CRASHED"
        /\ UNCHANGED <<tcp_request, recv_bytes_data>>
    BY <1>3 DEF TCPServerStartFails, TCPServerLosesLink, TCPServerEnds
  <2> QED
    BY <2>1 DEF TCPSaved
<1>4. CASE TCPServerCloses
  BY <1>4 DEF TCPServerCloses, TCPServerEnds, TCPSaved
<1>5. CASE TCPFileIsWritten
  <2>1. UNCHANGED <<tcp_request, recv_bytes_data>>
    BY <1>5 DEF TCPFileIsWritten
  <2>2. CASE tcp_server_state = "RETURNED" /\ tcp_server_state' = "SAVED"
    BY <2>1, <2>2 DEF TCPSaved, FinishedIsWhole
  <2>3. CASE tcp_server_state = "ABORTED" /\ tcp_server_state' = "SAVED_CUT"
    BY <2>1, <2>3 DEF TCPSaved
  <2> QED
    BY <1>5, <2>2, <2>3 DEF TCPFileIsWritten
<1> QED
  BY <1>1, <1>2, <1>3, <1>4, <1>5

\* Every packet makes the server take a step the abstract receiver may take:
\* the client asked before a request arrives, the bytes of a DATA packet follow
\* what is there, and the client returned before a FIN arrives.
LEMMA TCPReceiverReads ==
  ASSUME NEW r \in Nat, TCPInv(r), OrderInv, UNCHANGED tcpClientVars,
         to_tcp_server # <<>>, TCPServerReceives(Head(to_tcp_server))
  PROVE  TCPReceiverMoves
<1> DEFINE pkt == Head(to_tcp_server)
           res == TCPResult(tcp_file)
<1>1. /\ tcp_file \in Seq(Nat) /\ tcp_file' = tcp_file
      /\ to_tcp_server \in Seq(ItemsOf(tcp_file)) /\ TCPReading
  BY NextItem
  DEF TCPInv, StreamHolds, tcpClientVars, TCPServerReceives, TCPServerGetsRequest,
      TCPServerAckFails, TCPServerGetsNoRequest, TCPServerGetsData, TCPServerGetsFin,
      TCPServerGetsMisfit, TCPReading
<1>2. CASE TCPServerGetsRequest(pkt) \/ TCPServerAckFails(pkt)
  <2>1. /\ tcp_server_state = "WAIT_CCREQ" /\ pkt.ptype = "CREQ" /\ tcp_request' = pkt
        /\ tcp_server_state' \in {"TRANSFER", "CRASHED"}
        /\ recv_bytes_data' = recv_bytes_data
    BY <1>2 DEF TCPServerGetsRequest, TCPServerAckFails
  <2>2. tcp_client_state # "INIT"
    <3> SUFFICES ASSUME tcp_client_state = "INIT" PROVE FALSE
      OBVIOUS
    <3>1. link # "broken" /\ current_sequence_num = 1
      BY DEF OrderInv, TCPInv, ClientHolds
    <3>2. r + Len(to_tcp_server) = 0
      BY <1>1, <3>1 DEF TCPInv, StreamHolds, TCPSending
    <3> QED
      BY <1>1, <3>2
  <2>3. TCPSenderOutcome # "idle"
    BY <2>2, TCPOutcomes DEF TCPInv, ClientHolds, TCPClientStates
  <2> QED
    BY <2>1, <2>3, TCPOutcomes, NextTCPOutcomes
    DEF TCPReceiverMoves, TCPAgreed, TCPSaved
<1>3. CASE TCPServerGetsData(pkt)
  <2>1. /\ tcp_server_state = "TRANSFER" /\ tcp_server_state' = "TRANSFER"
        /\ tcp_request' = tcp_request
    BY <1>3 DEF TCPServerGetsData
  <2>2. TCPSaved' = TCPSaved
    BY <2>1 DEF TCPSaved
  <2>3. res \in Seq(Nat)
    BY <1>1, ResultFacts
  <2>4. /\ Begins(recv_bytes_data', res) /\ Begins(recv_bytes_data, res)
        /\ Len(recv_bytes_data) <= Len(recv_bytes_data')
    BY <1>3, ReadsData DEF HasRead, TCPInv, ServerHolds
  <2> HIDE DEF res
  <2>5. /\ recv_bytes_data' = SubSeq(res, 1, Len(recv_bytes_data'))
        /\ recv_bytes_data = SubSeq(res, 1, Len(recv_bytes_data))
    BY <2>3, <2>4, BeginsIsSubSeq
  <2>6. /\ Len(recv_bytes_data) \in Nat /\ Len(recv_bytes_data') \in Nat
        /\ Len(res) \in Nat /\ Len(recv_bytes_data') <= Len(res)
    BY <2>3, <2>4 DEF Begins
  <2>7. CASE Len(recv_bytes_data') = Len(recv_bytes_data)
    <3>1. recv_bytes_data' = recv_bytes_data
      BY <2>5, <2>7
    <3> QED
      BY <2>1, <2>2, <3>1, TCPOutcomes, NextTCPOutcomes DEF TCPReceiverMoves
  <2>8. CASE Len(recv_bytes_data') # Len(recv_bytes_data)
    <3>1. Len(recv_bytes_data') \in Len(recv_bytes_data) + 1 .. Len(res)
      BY <2>4, <2>6, <2>8
    <3> QED
      BY <2>1, <2>2, <2>5, <3>1, TCPOutcomes, NextTCPOutcomes DEF TCPReceiverMoves, res
  <2> QED
    BY <2>7, <2>8
<1>4. CASE TCPServerGetsFin(pkt)
  <2>1. /\ tcp_server_state = "TRANSFER" /\ tcp_server_state' = "FIN" /\ pkt.ptype = "FIN"
        /\ UNCHANGED <<tcp_request, recv_bytes_data>>
    BY <1>4 DEF TCPServerGetsFin
  <2>2. tcp_client_state = "RETURNED"
    <3>1. to_tcp_server \notin Seq(BeforeFin(tcp_file))
      BY <2>1 DEF BeforeFin
    <3> QED
      BY <3>1 DEF OrderInv
  <2>3. recv_bytes_data = res
    <3>1. r + 1 > LastItem(tcp_file)
      BY <1>1, <2>1, HeadFacts
    <3>2. r \in 1 .. LastItem(tcp_file) /\ HasRead(tcp_file, r, recv_bytes_data)
      BY <2>1 DEF TCPInv, ServerHolds
    <3>3. r = LastItem(tcp_file)
      BY <1>1, <3>1, <3>2, Sizes
    <3> QED
      BY <1>1, <3>2, <3>3, ReadAll
  <2> QED
    BY <2>1, <2>2, <2>3, TCPOutcomes, NextTCPOutcomes DEF TCPReceiverMoves, TCPSaved
<1>5. CASE TCPServerGetsNoRequest(pkt) \/ TCPServerGetsMisfit(pkt)
  <2>1. /\ tcp_server_state \in {"WAIT_CCREQ", "TRANSFER"}
        /\ tcp_server_state' \in {"ABORTED", "CRASHED"}
        /\ UNCHANGED <<tcp_request, recv_bytes_data>>
    BY <1>5 DEF TCPServerGetsNoRequest, TCPServerGetsMisfit, TCPServerEnds
  <2> QED
    BY <2>1, TCPOutcomes, NextTCPOutcomes DEF TCPReceiverMoves, TCPSaved
<1> QED
  BY <1>2, <1>3, <1>4, <1>5 DEF TCPServerReceives

\* For every file and every size of the chunks, wherever the link breaks and
\* whatever arrives damaged, the TCP protocol is a transfer of a stream: the
\* server has its result in order, completes only with all of it and after the
\* client returned, and the client sends only what the server agreed to.
THEOREM ImplementsStream == TCPSpec => ImplementsStreamTransfer
<1>1. TCPInit => ST!Init
  <2> SUFFICES ASSUME TCPInit PROVE ST!Init
    OBVIOUS
  <2>1. TCPResult(tcp_file) \in Seq(Nat)
    BY TCPFilesAssumption, ResultFacts DEF TCPInit, TCPClientInit
  <2>2. TCPSenderOutcome = "idle" /\ TCPReceiverOutcome = "idle"
    BY TCPOutcomes DEF TCPInit, TCPClientInit, TCPServerInit
  <2> QED
    BY <2>1, <2>2 DEF TCPInit, TCPServerInit, ST!Init
<1>2. TCPIInv /\ OrderInv /\ FinishedIsWhole /\ [TCPNext]_tcpVars => [ST!Next]_(ST!vars)
  <2> SUFFICES ASSUME NEW r \in Nat, TCPInv(r), OrderInv, FinishedIsWhole,
                      [TCPNext]_tcpVars
               PROVE  [ST!Next]_(ST!vars)
    BY DEF TCPIInv
  <2>1. tcp_file' = tcp_file
    BY DEF TCPNext, TCPClientActs, TCPServerActs, tcpVars, tcpClientVars,
           TCPClientStep, TCPClientStarts, TCPClientStartFails, TCPClientIsRefused,
           TCPClientGetsAck, TCPClientGetsMisfit, TCPClientLosesLink,
           TCPClientSendsData, TCPClientSendFails, TCPClientFinishes,
           TCPClientFinishFails, TCPClientEnds
  <2>2. ASSUME UNCHANGED tcpServerVars, TCPSenderMoves PROVE [ST!Next]_(ST!vars)
    <3>1. UNCHANGED <<tcp_request, TCPReceiverOutcome, recv_bytes_data, TCPSaved>>
      BY <2>2 DEF tcpServerVars, TCPReceiverOutcome, TCPSaved
    <3> QED
      BY <2>1, <2>2, <3>1
      DEF TCPSenderMoves, TCPSaved, TCPAgreed, ST!Next, ST!vars, ST!SenderMoves,
          ST!SenderAsks, ST!SenderLearns, ST!SenderReturns, ST!SenderFails
  <2>3. ASSUME UNCHANGED tcpClientVars, TCPReceiverMoves PROVE [ST!Next]_(ST!vars)
    <3>1. TCPSenderOutcome' = TCPSenderOutcome
      BY <2>3 DEF tcpClientVars, TCPSenderOutcome
    <3> QED
      BY <2>1, <2>3, <3>1
      DEF TCPReceiverMoves, TCPSaved, TCPAgreed, ST!Next, ST!vars, ST!ReceiverMoves,
          ST!ReceiverAgrees, ST!Deliver, ST!ReceiverCompletes, ST!ReceiverFails,
          ST!Save, ST!SaveCut
  <2>4. CASE TCPClientActs \/ (TCPClientLosesLink /\ UNCHANGED tcpServerVars)
    BY <2>2, <2>4, TCPSenderSteps DEF TCPClientActs
  <2>5. CASE TCPServerActs \/ (TCPServerLosesLink /\ UNCHANGED tcpClientVars)
    BY <2>3, <2>5, TCPReceiverSteps, TCPReceiverReads DEF TCPServerActs, TCPServerStep
  <2>6. CASE \/ LinkBreaks /\ UNCHANGED <<tcpClientVars, tcpServerVars>>
             \/ MisfitArrives /\ UNCHANGED <<tcpClientVars, tcpServerVars>>
             \/ UNCHANGED tcpVars
    <3>1. UNCHANGED <<tcpClientVars, tcpServerVars>>
      BY <2>6 DEF tcpVars
    <3>2. TCPSenderMoves
      BY <3>1 DEF TCPSenderMoves, TCPSenderOutcome, tcpClientVars
    <3> QED
      BY <2>2, <3>1, <3>2
  <2> QED
    BY <2>4, <2>5, <2>6 DEF TCPNext
<1> QED
  BY <1>1, <1>2, TCPInvariantHolds, OrderHolds, FinishedIsAlwaysWhole, PTL
  DEF TCPSpec, ImplementsStreamTransfer, ST!Spec
=============================================================================
