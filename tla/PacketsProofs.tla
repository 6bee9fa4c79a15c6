--------------------------- MODULE PacketsProofs ---------------------------
(***************************************************************************)
(* Facts about the packets of a file that the proofs about both transfers  *)
(* use.                                                                    *)
(***************************************************************************)
EXTENDS Packets, TLAPS

\* Quotient and remainder of natural numbers.
LEMMA QuotientRemainder ==
  ASSUME NEW n \in Nat, NEW d \in Nat \ {0}
  PROVE  /\ n \div d \in Nat
         /\ n % d \in 0 .. d - 1
         /\ n = d * (n \div d) + (n % d)
  OBVIOUS

\* The number of packets of a file is a number, and the packets are enough to
\* hold every byte (client/udp.py:95-101).
LEMMA PacketsHoldFile ==
  ASSUME NEW n \in Nat
  PROVE  /\ NumDataPackets(n) \in Nat
         /\ n <= NumDataPackets(n) * ZT_RAW_DATA_BYTES_SIZE
<1> DEFINE c == ZT_RAW_DATA_BYTES_SIZE
           q == n \div c
           r == n % c
<1>1. q \in Nat /\ r \in Nat /\ r < c /\ n = c * q + r /\ c \in Nat
  BY QuotientRemainder, ChunkSizeAssumption
<1>2. (q + 1) * c = c * q + c /\ q * c = c * q
  BY <1>1
<1>3. CASE r > 0
  <2>1. NumDataPackets(n) = q + 1
    BY <1>3 DEF NumDataPackets
  <2> QED
    BY <2>1, <1>1, <1>2
<1>4. CASE r = 0
  <2>1. NumDataPackets(n) = q
    BY <1>1, <1>4 DEF NumDataPackets
  <2> QED
    BY <2>1, <1>1, <1>2, <1>4
<1> QED
  BY <1>1, <1>3, <1>4

\* The number of the last packet is the number of packets.
LEMMA LastIsNumber ==
  ASSUME NEW n \in Nat
  PROVE  /\ LastDataSeq(n) \in Nat
         /\ LastDataSeq(n) = NumDataPackets(n)
         /\ n <= LastDataSeq(n) * ZT_RAW_DATA_BYTES_SIZE
         /\ AllDataSeqs(LastDataSeq(n)) = 1 .. LastDataSeq(n)
  BY PacketsHoldFile DEF LastDataSeq, AllDataSeqs, DATA_SEQ_FIRST

\* The size of a file has 32 bits in the CREQ, and 2^32 - 1 is where the client
\* stops to accept numbers (packets.py:14, client/udp.py:362): the ACK of every
\* packet of a file that can be announced is in range, as soon as a packet holds
\* two bytes.
THEOREM AnnouncedIsInRange ==
  ASSUME ZT_RAW_DATA_BYTES_SIZE >= 2, SEQ_LIMIT >= 2,
         NEW size \in 0 .. SEQ_LIMIT
  PROVE  /\ LastDataSeq(size) < SEQ_LIMIT
         /\ \A s \in AllDataSeqs(LastDataSeq(size)) : NamesData(s)
<1> DEFINE c == ZT_RAW_DATA_BYTES_SIZE
           q == size \div c
           r == size % c
<1>1. q \in Nat /\ r \in 0 .. c - 1 /\ size = c * q + r /\ c \in Nat
  <2>1. size \in Nat /\ c \in Nat \ {0}
    BY ChunkSizeAssumption, SeqLimitAssumption
  <2> QED
    BY <2>1, QuotientRemainder
<1>2. 2 * q <= c * q
  <2> HIDE DEF q
  <2>1. (c - 2) * q >= 0 /\ c * q = (c - 2) * q + 2 * q
    BY <1>1
  <2> QED
    BY <2>1, <1>1
<1>3. LastDataSeq(size) < SEQ_LIMIT
  <2>1. LastDataSeq(size) = q + (IF r > 0 THEN 1 ELSE 0)
    BY <1>1 DEF LastDataSeq, NumDataPackets, DATA_SEQ_FIRST
  <2> HIDE DEF q, r
  <2> QED
    BY <2>1, <1>1, <1>2, SeqLimitAssumption
<1>4. LastDataSeq(size) \in Nat /\ AllDataSeqs(LastDataSeq(size)) = 1 .. LastDataSeq(size)
  BY LastIsNumber, SeqLimitAssumption
<1> QED
  BY <1>3, <1>4, SeqLimitAssumption DEF NamesData, DATA_SEQ_FIRST

\* The bytes a chunk is written to are those that follow its start, at most
\* as many as a packet holds.
LEMMA ChunkIsBounded ==
  ASSUME NEW n \in Nat, NEW s \in 1 .. LastDataSeq(n),
         NEW i \in ChunkBytes(n, LastDataSeq(n), s)
  PROVE  /\ i \in 1 .. n
         /\ ChunkStart(s) \in Nat
         /\ i - ChunkStart(s) \in 1 .. ZT_RAW_DATA_BYTES_SIZE
<1> DEFINE c == ZT_RAW_DATA_BYTES_SIZE
           last == LastDataSeq(n)
<1>1. last \in Nat /\ c \in Nat \ {0} /\ n <= last * c
  BY LastIsNumber, ChunkSizeAssumption
<1>2. ChunkStart(s) \in Nat /\ s * c = ChunkStart(s) + c
  BY <1>1 DEF ChunkStart
<1>3. i \in 1 .. n /\ ChunkStart(s) < i /\ (s = last \/ i <= s * c)
  BY DEF ChunkBytes
<1>4. i <= s * c
  BY <1>1, <1>3
<1> QED
  BY <1>1, <1>2, <1>3, <1>4

\* No byte belongs to the chunks of two packets.
LEMMA ChunksAreDisjoint ==
  ASSUME NEW n \in Nat,
         NEW s \in 1 .. LastDataSeq(n), NEW t \in 1 .. LastDataSeq(n),
         NEW i \in ChunkBytes(n, LastDataSeq(n), s),
         i \in ChunkBytes(n, LastDataSeq(n), t)
  PROVE  s = t
<1> DEFINE c == ZT_RAW_DATA_BYTES_SIZE
<1>1. c \in Nat \ {0} /\ s \in Nat /\ t \in Nat
  BY LastIsNumber, ChunkSizeAssumption
<1>2. i \in 1 .. n /\ (s - 1) * c \in Nat /\ i - (s - 1) * c \in 1 .. c
  BY ChunkIsBounded DEF ChunkStart
<1>3. (t - 1) * c \in Nat /\ i - (t - 1) * c \in 1 .. c
  BY ChunkIsBounded DEF ChunkStart
<1>4. ASSUME NEW a \in Nat, NEW b \in Nat, a < b PROVE (a - 1) * c + c <= (b - 1) * c
  <2>1. (a - 1) * c + c = a * c /\ a <= b - 1
    BY <1>1, <1>4
  <2> QED
    BY <1>1, <2>1
<1>5. ~(s < t) /\ ~(t < s)
  BY <1>1, <1>2, <1>3, <1>4
<1> QED
  BY <1>1, <1>5

\* Every byte of a file belongs to the chunk of one of its packets.
LEMMA ChunksCoverBytes ==
  ASSUME NEW n \in Nat, NEW i \in 1 .. n
  PROVE  \E s \in 1 .. LastDataSeq(n) : i \in ChunkBytes(n, LastDataSeq(n), s)
<1> DEFINE c == ZT_RAW_DATA_BYTES_SIZE
           last == LastDataSeq(n)
           q == (i - 1) \div c
           r == (i - 1) % c
           s == q + 1
<1>1. last \in Nat /\ c \in Nat \ {0} /\ n <= last * c
  BY LastIsNumber, ChunkSizeAssumption
<1>2. i - 1 \in Nat /\ i <= n
  BY <1>1
<1>3. q \in Nat /\ r \in 0 .. c - 1 /\ i - 1 = c * q + r
  BY <1>1, <1>2, QuotientRemainder
<1>4. ChunkStart(s) = c * q /\ s * c = c * q + c
  BY <1>1, <1>3 DEF ChunkStart
<1>5. s <= last
  <2>1. SUFFICES ASSUME last <= q PROVE FALSE
    BY <1>1, <1>3
  <2>2. last * c <= c * q
    BY <1>1, <1>3, <2>1
  <2> QED
    BY <1>1, <1>2, <1>3, <2>2
<1>6. s \in 1 .. last
  BY <1>1, <1>3, <1>5
<1>7. i \in ChunkBytes(n, last, s)
  BY <1>1, <1>2, <1>3, <1>4 DEF ChunkBytes
<1> QED
  BY <1>6, <1>7

\* Storing a packet writes its data to the bytes of its chunk, and to no
\* other (server/udp.py:182-185).
LEMMA StoreWritesChunk ==
  ASSUME NEW buffer \in Seq(Nat), NEW s \in 1 .. LastDataSeq(Len(buffer)),
         NEW data \in [1 .. ZT_RAW_DATA_BYTES_SIZE -> Nat],
         NEW result, result = StoreChunk(buffer, LastDataSeq(Len(buffer)), s, data)
  PROVE  /\ result \in Seq(Nat)
         /\ Len(result) = Len(buffer)
         /\ \A i \in 1 .. Len(buffer) :
              result[i] = IF i \in ChunkBytes(Len(buffer), LastDataSeq(Len(buffer)), s)
                          THEN data[i - ChunkStart(s)] ELSE buffer[i]
<1> DEFINE n == Len(buffer)
           chunk == ChunkBytes(n, LastDataSeq(n), s)
<1>1. n \in Nat /\ DOMAIN buffer = 1 .. n
  OBVIOUS
<1>2. result = [i \in 1 .. n |-> IF i \in chunk THEN data[i - ChunkStart(s)] ELSE buffer[i]]
  BY <1>1 DEF StoreChunk
<1>3. \A i \in chunk : data[i - ChunkStart(s)] \in Nat
  BY <1>1, ChunkIsBounded
<1>4. \A i \in 1 .. n : buffer[i] \in Nat
  BY <1>1
<1>5. result \in [1 .. n -> Nat]
  <2> HIDE DEF chunk, n
  <2> QED
    BY <1>2, <1>3, <1>4
<1>6. result \in Seq(Nat) /\ Len(result) = n
  BY <1>1, <1>2, <1>5
<1> QED
  BY <1>2, <1>6

\* The data of a packet are numbers, and those of the file where it has any.
LEMMA PaddedFacts ==
  ASSUME NEW f \in Seq(Nat), NEW s \in Nat \ {0}
  PROVE  /\ Padded(f, s) \in [1 .. ZT_RAW_DATA_BYTES_SIZE -> Nat]
         /\ \A i \in 1 .. Len(f) :
              i - ChunkStart(s) \in 1 .. ZT_RAW_DATA_BYTES_SIZE
                => Padded(f, s)[i - ChunkStart(s)] = f[i]
<1>1. ChunkStart(s) \in Nat /\ ZT_RAW_DATA_BYTES_SIZE \in Nat
  BY ChunkSizeAssumption DEF ChunkStart
<1>2. \A k \in 1 .. ZT_RAW_DATA_BYTES_SIZE :
        ChunkStart(s) + k <= Len(f) => f[ChunkStart(s) + k] \in Nat
  BY <1>1
<1>3. Padded(f, s) \in [1 .. ZT_RAW_DATA_BYTES_SIZE -> Nat]
  BY <1>2 DEF Padded
<1>4. ASSUME NEW i \in 1 .. Len(f), i - ChunkStart(s) \in 1 .. ZT_RAW_DATA_BYTES_SIZE
      PROVE  Padded(f, s)[i - ChunkStart(s)] = f[i]
  <2>1. ChunkStart(s) + (i - ChunkStart(s)) = i
    BY <1>1
  <2> QED
    BY <1>4, <2>1 DEF Padded
<1> QED
  BY <1>3, <1>4
=============================================================================
