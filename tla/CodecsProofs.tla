------------------------------ MODULE CodecsProofs ------------------------------
(***************************************************************************)
(* What is written is read back: acknowledgement packets for all numbers   *)
(* that three bytes can hold; chunks of any palettes, layers and sizes of  *)
(* words; any lists of commands; any trees of NBT tags; and the fields of  *)
(* any packets, but for those of the classes that lose some of them.       *)
(***************************************************************************)
EXTENDS AcknowledgeCodec, ChunkCodec, CommandCodec, NbtCodec, Codecs,
        FiniteSetTheorems, SequenceTheorems, WellFoundedInduction, NaturalsInduction, TLAPS

-----------------------------------------------------------------------------
(* Acknowledgement packets.                                                *)

\* The packet has one record, which stands for what was queued.
OneRecord ==
    \E first, last \in 0 .. MaxNumber :
        /\ packets = first .. last
        /\ \/ Len(records) = 4 /\ records[1] = 1 /\ Read(1) = first /\ first = last
           \/ Len(records) = 7 /\ records[1] = 0 /\ Read(1) = first /\ Read(4) = last

\* A short queue is one record, and nothing is lost before or after it is read.
AckInv ==
    /\ packets \subseteq 0 .. MaxNumber /\ packets # {}
    /\ Consecutive(packets) =>
          /\ stage = "queued" => decoded = {} /\ offset = 0
          /\ stage = "sent" =>
                \/ remaining = 1 /\ decoded = {} /\ offset = 0 /\ OneRecord
                \/ remaining = 0 /\ decoded = packets
          /\ stage = "decoded" => decoded = packets
          /\ stage # "failed"

\* The three bytes of a number give it back.
LEMMA TriadIsRead ==
    ASSUME NEW n \in Nat, n < 256 * 256 * 256
    PROVE  /\ LTriad(n) \in Seq(Nat) /\ Len(LTriad(n)) = 3
           /\ LTriad(n)[1] + 256 * LTriad(n)[2] + 256 * 256 * LTriad(n)[3] = n
BY DEF LTriad

\* A short queue holds a number, or a number and the next.
LEMMA ConsecutiveNumbers ==
    ASSUME NEW S, S \subseteq 0 .. MaxNumber, S # {}, Consecutive(S)
    PROVE  \E n \in 0 .. MaxNumber :
               S = {n} \/ (S = {n, n + 1} /\ n + 1 \in 0 .. MaxNumber)
<1>1. PICK m \in S : TRUE
  OBVIOUS
<1>2. CASE S = {m}
  BY <1>2
<1>3. CASE S # {m}
  <2>1. PICK n \in S : n # m
    BY <1>1, <1>3
  <2>2. \A k \in S : k = m \/ k = n
    <3> SUFFICES ASSUME NEW k \in S, k # m, k # n PROVE FALSE
      OBVIOUS
    <3>1. {k - m, k - n, m - n} \subseteq {-1, 0, 1}
      BY DEF Consecutive
    <3>2. k \in Int /\ m \in Int /\ n \in Int
      BY AckAssumption
    <3> QED
      BY <2>1, <3>1, <3>2
  <2>3. m - n \in {-1, 1} /\ m \in Int /\ n \in Int
    BY <2>1, AckAssumption DEF Consecutive
  <2>4. m = n + 1 \/ n = m + 1
    BY <2>3
  <2>5. S = {m, n}
    BY <2>2
  <2> QED
    BY <2>4, <2>5
<1> QED
  BY <1>2, <1>3

\* The sorted queue, when it is short.
LEMMA AscendingShort ==
    ASSUME NEW n \in Nat
    PROVE  /\ packets = {n} => Cardinality(packets) = 1 /\ Ascending[1] = n
           /\ packets = {n, n + 1} =>
                 Cardinality(packets) = 2 /\ Ascending[1] = n /\ Ascending[2] = n + 1
<1>1. Cardinality({}) = 0 /\ \A m : Cardinality({m}) = 1
  BY FS_EmptySet, FS_Singleton
<1>2. ASSUME packets = {n}
      PROVE  Cardinality(packets) = 1 /\ Ascending[1] = n
  <2>1. {m \in packets : m < n} = {}
    BY <1>2
  <2>2. Cardinality(packets) = 1
    BY <1>1, <1>2
  <2>3. Ascending[1] = Nth(1)
    BY <2>2 DEF Ascending
  <2>4. Ascending[1] \in packets
    <3>1. Cardinality({m \in packets : m < n}) = 1 - 1
      BY <1>1, <2>1
    <3> QED
      BY <1>2, <2>3, <3>1 DEF Nth
  <2> QED
    BY <1>2, <2>2, <2>4
<1>3. ASSUME packets = {n, n + 1}
      PROVE  Cardinality(packets) = 2 /\ Ascending[1] = n /\ Ascending[2] = n + 1
  <2>1. Cardinality(packets) = 2
    <3>1. IsFiniteSet({n}) /\ n + 1 \notin {n} /\ packets = {n} \cup {n + 1}
      BY <1>3, FS_Singleton
    <3>2. Cardinality({n} \cup {n + 1}) = Cardinality({n}) + 1
      BY <3>1, FS_AddElement
    <3>3. Cardinality({n}) = 1
      BY <1>1
    <3> QED
      BY <3>1, <3>2, <3>3
  <2>2. {m \in packets : m < n} = {} /\ {m \in packets : m < n + 1} = {n}
    BY <1>3
  <2>3. Cardinality({m \in packets : m < n}) = 0 /\ Cardinality({m \in packets : m < n + 1}) = 1
    BY <1>1, <2>2
  <2>4. Ascending[1] = Nth(1) /\ Ascending[2] = Nth(2)
    BY <2>1 DEF Ascending
  <2>5. Nth(1) = n
    BY <1>3, <2>3 DEF Nth
  <2>6. Nth(2) = n + 1
    BY <1>3, <2>3 DEF Nth
  <2> QED
    BY <2>1, <2>4, <2>5, <2>6
<1> QED
  BY <1>2, <1>3

\* Bytes behind a flag.
LEMMA PrefixedBytes ==
    ASSUME NEW flag \in Nat, NEW s \in Seq(Nat)
    PROVE  /\ Len(<<flag>> \o s) = Len(s) + 1 /\ (<<flag>> \o s)[1] = flag
           /\ \A b \in 1 .. Len(s) : (<<flag>> \o s)[b + 1] = s[b]
<1>1. <<flag>> \in Seq(Nat) /\ Len(<<flag>>) = 1 /\ <<flag>>[1] = flag /\ Len(s) \in Nat
  OBVIOUS
<1>2. /\ Len(<<flag>> \o s) = Len(s) + 1
      /\ \A b \in 1 .. Len(s) + 1 :
             (<<flag>> \o s)[b] = IF b <= 1 THEN <<flag>>[b] ELSE s[b - 1]
  BY <1>1, ConcatProperties
<1> QED
  BY <1>1, <1>2

\* What EncodePayload makes of a short queue.
LEMMA ShortQueueEncoded ==
    ASSUME AckInv, Consecutive(packets), EncodePayload
    PROVE  remaining' = 1 /\ OneRecord'
<1>1. PICK n \in 0 .. MaxNumber :
          packets = {n} \/ (packets = {n, n + 1} /\ n + 1 \in 0 .. MaxNumber)
  BY ConsecutiveNumbers DEF AckInv
<1>2. n \in Nat /\ n < 256 * 256 * 256 /\ packets' = packets
  BY AckAssumption DEF EncodePayload
<1>3. CASE packets = {n}
  <2>1. Cardinality(packets) = 1 /\ Ascending[1] = n
    BY <1>2, <1>3, AscendingShort
  <2>2. remaining' = 1 /\ records' = <<1>> \o LTriad(n)
    BY <2>1 DEF EncodePayload, RecordCount, FlagSingle
  <2> DEFINE t == LTriad(n)
  <2>3. t \in Seq(Nat) /\ Len(t) = 3 /\ t[1] + 256 * t[2] + 256 * 256 * t[3] = n
    BY <1>2, TriadIsRead
  <2> HIDE DEF t
  <2>4. /\ Len(<<1>> \o t) = 4 /\ (<<1>> \o t)[1] = 1 /\ (<<1>> \o t)[2] = t[1]
        /\ (<<1>> \o t)[3] = t[2] /\ (<<1>> \o t)[4] = t[3]
    <3>1. /\ Len(<<1>> \o t) = Len(t) + 1 /\ (<<1>> \o t)[1] = 1
          /\ \A b \in 1 .. Len(t) : (<<1>> \o t)[b + 1] = t[b]
      BY <2>3, PrefixedBytes
    <3>2. 1 \in 1 .. Len(t) /\ 2 \in 1 .. Len(t) /\ 3 \in 1 .. Len(t)
      BY <2>3
    <3>3. (<<1>> \o t)[1 + 1] = t[1] /\ (<<1>> \o t)[2 + 1] = t[2] /\ (<<1>> \o t)[3 + 1] = t[3]
      BY <3>1, <3>2
    <3> QED
      BY <2>3, <3>1, <3>3
  <2>5. Len(records') = 4 /\ records'[1] = 1 /\ (Read(1))' = n
    BY <2>2, <2>3, <2>4 DEF Read, t
  <2>6. packets' = n .. n
    BY <1>2, <1>3
  <2> QED
    BY <2>2, <2>5, <2>6 DEF OneRecord
<1>4. CASE packets = {n, n + 1} /\ n + 1 \in 0 .. MaxNumber
  <2>1. Cardinality(packets) = 2 /\ Ascending[1] = n /\ Ascending[2] = n + 1
    BY <1>2, <1>4, AscendingShort
  <2>2. PairCount(2) = 1
    <3>1. {i \in 0 .. 2 : 2 * i < 2 /\ i % 2 = 0} = {0}
      OBVIOUS
    <3> QED
      BY <3>1, FS_Singleton DEF PairCount
  <2> DEFINE t == LTriad(n)
             u == LTriad(n + 1)
             both == t \o u
  <2>3. /\ t \in Seq(Nat) /\ Len(t) = 3 /\ t[1] + 256 * t[2] + 256 * 256 * t[3] = n
        /\ u \in Seq(Nat) /\ Len(u) = 3 /\ u[1] + 256 * u[2] + 256 * 256 * u[3] = n + 1
    <3>1. n \in Nat /\ n < 256 * 256 * 256 /\ n + 1 \in Nat /\ n + 1 < 256 * 256 * 256
      BY <1>2, <1>4, AckAssumption
    <3>2. t \in Seq(Nat) /\ Len(t) = 3 /\ t[1] + 256 * t[2] + 256 * 256 * t[3] = n
      BY <3>1, TriadIsRead
    <3>3. u \in Seq(Nat) /\ Len(u) = 3 /\ u[1] + 256 * u[2] + 256 * 256 * u[3] = n + 1
      <4> DEFINE m == n + 1
      <4>1. m \in Nat /\ m < 256 * 256 * 256 /\ m = n + 1 /\ u = LTriad(m)
        BY <3>1
      <4> HIDE DEF m, u
      <4>2. LTriad(m) \in Seq(Nat) /\ Len(LTriad(m)) = 3 /\ LTriad(m)[1] + 256 * LTriad(m)[2] + 256 * 256 * LTriad(m)[3] = m
        BY <4>1, TriadIsRead
      <4> QED
        BY <4>1, <4>2
    <3> QED
      BY <3>2, <3>3
  <2>4. Pair(0) = both
    BY <2>1 DEF Pair
  <2> HIDE DEF t, u
  <2>5. /\ both[1] = t[1] /\ both[2] = t[2] /\ both[3] = t[3]
        /\ both[4] = u[1] /\ both[5] = u[2] /\ both[6] = u[3]
    <3>1. t \in Seq(Nat) /\ u \in Seq(Nat) /\ Len(t) = 3 /\ Len(u) = 3
      BY <2>3
    <3>2. \A b \in 1 .. Len(t) + Len(u) : both[b] = IF b <= Len(t) THEN t[b] ELSE u[b - Len(t)]
      BY <3>1, ConcatProperties
    <3> HIDE DEF both
    <3>3. \A b \in 1 .. 3 + 3 : both[b] = IF b <= 3 THEN t[b] ELSE u[b - 3]
      BY <3>1, <3>2, Zenon
    <3>4. /\ both[1] = t[1] /\ both[2] = t[2] /\ both[3] = t[3]
          /\ both[4] = u[4 - 3] /\ both[5] = u[5 - 3] /\ both[6] = u[6 - 3]
      BY <3>3
    <3> QED
      BY <3>4
  <2> HIDE DEF both
  <2> DEFINE bytes == [b \in 1 .. 6 |-> both[1 + ((b - 1) % 6)]]
  <2>6. Ranges(2) = <<0>> \o bytes
    <3>1. 6 * PairCount(2) = 6
      BY <2>2
    <3>2. \A b \in 1 .. 6 : 2 * ((b - 1) \div 6) = 0
      OBVIOUS
    <3> QED
      BY <2>4, <3>1, <3>2 DEF Ranges, FlagRange
  <2>7. remaining' = 1 /\ records' = <<0>> \o bytes
    BY <2>1, <2>6 DEF EncodePayload, RecordCount
  <2>8. \A b \in 1 .. 6 : bytes[b] = both[b]
    <3>1. \A b \in 1 .. 6 : 1 + ((b - 1) % 6) = b
      OBVIOUS
    <3> QED
      BY <3>1
  <2>9. DOMAIN bytes = 1 .. 6 /\ bytes = [b \in 1 .. 6 |-> bytes[b]]
    OBVIOUS
  <2> HIDE DEF bytes
  <2>10. bytes \in Seq(Nat) /\ Len(bytes) = 6
    <3>1. \A b \in 1 .. 6 : bytes[b] \in Nat
      <4>1. /\ t[1] \in Nat /\ t[2] \in Nat /\ t[3] \in Nat
            /\ u[1] \in Nat /\ u[2] \in Nat /\ u[3] \in Nat
        <5>1. t \in Seq(Nat) /\ u \in Seq(Nat) /\ Len(t) = 3 /\ Len(u) = 3
          BY <2>3
        <5>2. \A b \in 1 .. 3 : t[b] \in Nat /\ u[b] \in Nat
          BY <5>1, ElementOfSeq
        <5> QED
          BY <5>2
      <4> QED
        BY <2>5, <2>8, <4>1
    <3> QED
      BY <2>9, <3>1
  <2>11. /\ Len(<<0>> \o bytes) = 7 /\ (<<0>> \o bytes)[1] = 0
         /\ \A b \in 1 .. 6 : (<<0>> \o bytes)[b + 1] = bytes[b]
    <3>1. /\ Len(<<0>> \o bytes) = Len(bytes) + 1 /\ (<<0>> \o bytes)[1] = 0
          /\ \A b \in 1 .. Len(bytes) : (<<0>> \o bytes)[b + 1] = bytes[b]
      BY <2>10, PrefixedBytes
    <3> QED
      BY <2>10, <3>1
  <2>12. /\ records'[2] = t[1] /\ records'[3] = t[2] /\ records'[4] = t[3]
         /\ records'[5] = u[1] /\ records'[6] = u[2] /\ records'[7] = u[3]
    BY <2>5, <2>7, <2>8, <2>11
  <2>13. /\ Len(records') = 7 /\ records'[1] = 0
         /\ (Read(1))' = n /\ (Read(4))' = n + 1
    BY <2>3, <2>7, <2>11, <2>12 DEF Read
  <2>14. packets' = n .. n + 1
    BY <1>2, <1>4
  <2> QED
    BY <1>4, <2>7, <2>13, <2>14 DEF OneRecord
<1> QED
  BY <1>1, <1>3, <1>4

\* No step of the encoder or of the decoder spoils a short queue.
LEMMA AckStep == AckInv /\ [AckNext]_ackVars => AckInv'
<1> SUFFICES ASSUME AckInv, [AckNext]_ackVars PROVE AckInv'
  OBVIOUS
<1>1. CASE EncodePayload
  <2>1. ASSUME Consecutive(packets) PROVE remaining' = 1 /\ OneRecord'
    BY <1>1, <2>1, ShortQueueEncoded
  <2> QED
    BY <1>1, <2>1 DEF EncodePayload, AckInv, Consecutive
<1>2. CASE ReadSingle
  <2>1. packets' = packets /\ stage' = stage /\ stage = "sent" /\ remaining > 0
    BY <1>2 DEF ReadSingle, Reading
  <2>2. ASSUME Consecutive(packets) PROVE remaining' = 0 /\ decoded' = packets
    <3>1. remaining = 1 /\ decoded = {} /\ offset = 0 /\ OneRecord
      BY <2>1, <2>2 DEF AckInv
    <3>2. remaining' = 0 /\ decoded' = {Read(1)} /\ records[1] # 0
      BY <1>2, <3>1 DEF ReadSingle
    <3> QED
      BY <3>1, <3>2, AckAssumption DEF OneRecord
  <2> QED
    BY <2>1, <2>2 DEF AckInv, Consecutive
<1>3. CASE ReadRange
  <2>1. packets' = packets /\ stage' = stage /\ stage = "sent" /\ remaining > 0
    BY <1>3 DEF ReadRange, Reading
  <2>2. ASSUME Consecutive(packets) PROVE remaining' = 0 /\ decoded' = packets
    <3>1. remaining = 1 /\ decoded = {} /\ offset = 0 /\ OneRecord
      BY <2>1, <2>2 DEF AckInv
    <3>2. remaining' = 0 /\ decoded' = Read(1) .. Read(4) /\ records[1] = 0
      BY <1>3, <3>1 DEF ReadRange
    <3> QED
      BY <3>1, <3>2 DEF OneRecord
  <2> QED
    BY <2>1, <2>2 DEF AckInv, Consecutive
<1>4. CASE ReadPastEnd
  <2>1. packets' = packets /\ stage = "sent" /\ remaining > 0
    BY <1>4 DEF ReadPastEnd
  <2>2. ~Consecutive(packets)
    <3> SUFFICES ASSUME Consecutive(packets) PROVE FALSE
      OBVIOUS
    <3>1. offset = 0 /\ OneRecord
      BY <2>1 DEF AckInv
    <3>2. (Len(records) = 4 /\ records[1] = 1) \/ Len(records) = 7
      BY <3>1 DEF OneRecord
    <3>3. Left < 4 \/ (Left \in 4 .. 6 /\ records[0 + 1] = 0)
      BY <1>4, <3>1 DEF ReadPastEnd
    <3>4. Left = Len(records) - 0
      BY <3>1 DEF Left
    <3>5. CASE Len(records) = 4 /\ records[1] = 1
      <4>1. Left = 4 /\ records[0 + 1] = 1
        BY <3>4, <3>5
      <4> QED
        BY <3>3, <4>1
    <3>6. CASE Len(records) = 7
      BY <3>3, <3>4, <3>6
    <3> QED
      BY <3>2, <3>5, <3>6
  <2> QED
    BY <2>1, <2>2 DEF AckInv, Consecutive
<1>5. CASE FinishDecoding
  BY <1>5 DEF FinishDecoding, AckInv, Consecutive
<1>6. CASE UNCHANGED ackVars
  BY <1>6 DEF ackVars, AckInv, Consecutive, OneRecord, Read
<1> QED
  BY <1>1, <1>2, <1>3, <1>4, <1>5, <1>6 DEF AckNext

\* One sequence number, or two in a row, arrive as they are, whatever the bound
\* on the numbers that three bytes can hold (AcknowledgePacket).
THEOREM ShortQueuesArrive == AckSpec => []ShortQueueArrives
<1>1. AckInit => AckInv
  <2> SUFFICES ASSUME AckInit PROVE AckInv
    OBVIOUS
  <2>1. packets # {}
    <3>1. Cardinality(packets) \in 1 .. MaxQueue
      BY DEF AckInit
    <3> QED
      BY <3>1, FS_EmptySet, AckAssumption
  <2> QED
    BY <2>1 DEF AckInit, AckInv
<1>2. AckInv => ShortQueueArrives
  BY DEF AckInv, ShortQueueArrives
<1> QED
  BY <1>1, <1>2, AckStep, PTL DEF AckSpec

-----------------------------------------------------------------------------
(* The format of chunks.                                                   *)

\* The bound of a palette, as a bound on numbers.
LEMMA PaletteBound == MaxPalette \in Nat /\ \A n \in Nat : n <= MaxPalette => n <= 65536
BY DEF MaxPalette

\* The width of a block is one of eight, and the palette fits in it.
LEMMA PaletteFits ==
    ASSUME NEW n \in 1 .. MaxPalette
    PROVE  BitsPerBlock(n) \in {1, 2, 3, 4, 5, 6, 8, 16} /\ n <= 2 ^ BitsPerBlock(n)
<1>1. n \in Nat /\ 1 <= n /\ n <= 65536
  <2>1. n \in Nat /\ 1 <= n /\ n <= MaxPalette
    BY PaletteBound
  <2> QED
    BY <2>1, PaletteBound
<1>2. \E k \in 0 .. 16 : 2 ^ k >= n /\ (k > 0 => 2 ^ (k - 1) < n)
  BY <1>1, SMT
<1> DEFINE k == CeilLog2(n)
<1>3. k \in 0 .. 16 /\ 2 ^ k >= n
  BY <1>2 DEF CeilLog2
<1>4. BitsPerBlock(n) = CASE k = 0 -> 1 [] k \in 1 .. 6 -> k [] k \in 7 .. 8 -> 8 [] k > 8 -> 16
  BY DEF BitsPerBlock
<1> HIDE DEF k
<1>5. CASE k = 0
  BY <1>1, <1>3, <1>4, <1>5
<1>6. CASE k \in 1 .. 6
  <2>1. BitsPerBlock(n) = k
    BY <1>3, <1>4, <1>6
  <2>2. k \in {1, 2, 3, 4, 5, 6}
    BY <1>6
  <2>3. CASE k = 1
    BY <1>1, <1>3, <2>1, <2>3
  <2>4. CASE k = 2
    BY <1>1, <1>3, <2>1, <2>4
  <2>5. CASE k = 3
    BY <1>1, <1>3, <2>1, <2>5
  <2>6. CASE k = 4
    BY <1>1, <1>3, <2>1, <2>6
  <2>7. CASE k = 5
    BY <1>1, <1>3, <2>1, <2>7
  <2>8. CASE k = 6
    BY <1>1, <1>3, <2>1, <2>8
  <2> QED
    BY <2>2, <2>3, <2>4, <2>5, <2>6, <2>7, <2>8
<1>7. CASE k \in 7 .. 8
  <2>1. BitsPerBlock(n) = 8
    BY <1>4, <1>7
  <2>2. k \in {7, 8}
    BY <1>7
  <2>3. CASE k = 7
    BY <1>1, <1>3, <2>1, <2>3
  <2>4. CASE k = 8
    BY <1>1, <1>3, <2>1, <2>4
  <2> QED
    BY <2>2, <2>3, <2>4
<1>8. CASE k \in 9 .. 16
  BY <1>1, <1>3, <1>4, <1>8
<1> QED
  BY <1>3, <1>5, <1>6, <1>7, <1>8

\* The values a word has room for.
LEMMA EightWidths ==
    ASSUME NEW b \in {1, 2, 3, 4, 5, 6, 8, 16}
    PROVE  2 ^ b \in Nat /\ 2 ^ b > 0
<1>1. CASE b = 1
  BY <1>1
<1>2. CASE b = 2
  BY <1>2
<1>3. CASE b = 3
  BY <1>3
<1>4. CASE b = 4
  BY <1>4
<1>5. CASE b = 5
  BY <1>5
<1>6. CASE b = 6
  BY <1>6
<1>7. CASE b = 8
  BY <1>7
<1>8. CASE b = 16
  BY <1>8
<1> QED
  BY <1>1, <1>2, <1>3, <1>4, <1>5, <1>6, <1>7, <1>8

\* The words have room for every block, and for less than a word more.
LEMMA RoomForBlocks ==
    ASSUME NEW bits \in {1, 2, 3, 4, 5, 6, 8, 16}
    PROVE  /\ BlocksPerWord(bits) \in Nat \ {0} /\ WordsPerChunk(bits) \in Nat
           /\ BlocksPerWord(bits) * WordsPerChunk(bits) \in Nat
           /\ BlocksPerWord(bits) * WordsPerChunk(bits) >= Blocks
<1>1. WordBits \in Nat /\ WordBits >= 16 /\ Blocks \in Nat /\ Blocks > 0
  BY FormatAssumption, ChunkAssumption
<1> DEFINE n == BlocksPerWord(bits)
<1>2. n \in Nat /\ n > 0
  BY <1>1 DEF BlocksPerWord
<1>3. WordsPerChunk(bits) = (Blocks + n - 1) \div n
  BY DEF WordsPerChunk, CeilDiv
<1> HIDE DEF n
<1>4. /\ (Blocks + n - 1) \div n \in Nat /\ n * ((Blocks + n - 1) \div n) \in Nat
      /\ n * ((Blocks + n - 1) \div n) >= Blocks
  BY <1>1, <1>2
<1> QED
  BY <1>2, <1>3, <1>4 DEF n

\* A position is a word and a place in it.
LEMMA WordOfPosition ==
    ASSUME NEW n \in Nat \ {0}, NEW words \in Nat, NEW p \in Nat, p < n * words
    PROVE  /\ p \div n \in 0 .. words - 1 /\ p % n \in 0 .. n - 1
           /\ n * (p \div n) + (p % n) = p
OBVIOUS

\* A storage is read as it was written, but for the positions that wrap.
LEMMA StorageIsRead ==
    ASSUME NEW s \in Storages
    PROVE  ReadStorage(WriteStorage(s)) = Reread(s)
<1> DEFINE bits == BitsPerBlock(Len(s.palette))
           n == BlocksPerWord(bits)
           words == WordsPerChunk(bits)
           state(p) == IF p < Blocks THEN s.blocks[p] ELSE 0
           out == WriteStorage(s)
           at(p) == out.words[p \div n][p % n] % 2 ^ bits
<1>1. /\ s.palette \in Seq(Nat) /\ Len(s.palette) \in 1 .. MaxPalette
      /\ s.blocks \in [0 .. Blocks - 1 -> Nat] /\ DOMAIN s.blocks = 0 .. Blocks - 1
      /\ \A p \in 0 .. Blocks - 1 : s.blocks[p] \in Nat /\ s.blocks[p] < Len(s.palette)
      /\ s = [palette |-> s.palette, blocks |-> s.blocks]
  BY DEF Storages
<1>2. bits \in {1, 2, 3, 4, 5, 6, 8, 16} /\ Len(s.palette) <= 2 ^ bits
  BY <1>1, PaletteFits
<1>3. n \in Nat \ {0} /\ words \in Nat /\ n * words \in Nat /\ n * words >= Blocks
  BY <1>2, RoomForBlocks
<1>4. /\ out.bits = bits /\ out.palette = s.palette
      /\ out.words = [w \in 0 .. words - 1 |-> [b \in 0 .. n - 1 |-> state(n * w + b)]]
  BY DEF WriteStorage
<1>11. Wrapped(s) = n * words - Blocks
  BY DEF Wrapped
<1>5. Reread(s) = [palette |-> s.palette,
                   blocks |-> [i \in 0 .. Blocks - 1 |-> IF i < n * words - Blocks THEN 0 ELSE s.blocks[i]]]
  <2> DEFINE wrapped == Wrapped(s)
  <2>1. Reread(s) = [s EXCEPT !.blocks = [i \in DOMAIN @ |-> IF i < wrapped THEN 0 ELSE @[i]]]
    BY DEF Reread
  <2> HIDE DEF n, words, wrapped
  <2>2. Reread(s) = [palette |-> s.palette,
                     blocks |-> [i \in 0 .. Blocks - 1 |-> IF i < wrapped THEN 0 ELSE s.blocks[i]]]
    BY <1>1, <2>1
  <2>3. wrapped = n * words - Blocks
    BY <1>11 DEF wrapped, n, words, bits
  <2> QED
    BY <2>2, <2>3
<1>6. ReadStorage(out) =
          [palette |-> s.palette,
           blocks |-> [i \in 0 .. Blocks - 1 |-> IF i + Blocks < n * words THEN at(i + Blocks) ELSE at(i)]]
  BY <1>4 DEF ReadStorage
<1>7. 2 ^ bits \in Nat /\ 2 ^ bits > 0
  <2>1. \A b \in {1, 2, 3, 4, 5, 6, 8, 16} : 2 ^ b \in Nat /\ 2 ^ b > 0
    BY EightWidths
  <2> HIDE DEF bits
  <2> QED
    BY <1>2, <2>1
<1> HIDE DEF bits, n, words, out
<1>8. ASSUME NEW p \in Nat, p < n * words
      PROVE  at(p) = state(p)
  <2>1. out.words[p \div n][p % n] = state(p)
    <3>1. p \div n \in 0 .. words - 1 /\ p % n \in 0 .. n - 1 /\ n * (p \div n) + (p % n) = p
      BY <1>3, <1>8, WordOfPosition
    <3> HIDE DEF state
    <3> QED
      BY <1>4, <3>1
  <2>2. state(p) \in Nat /\ state(p) < 2 ^ bits
    <3>1. Blocks \in Nat /\ Len(s.palette) \in Nat
      BY <1>1, FormatAssumption
    <3>2. CASE p < Blocks
      BY <1>1, <1>2, <1>7, <3>1, <3>2
    <3>3. CASE ~(p < Blocks)
      BY <1>7, <3>3
    <3> QED
      BY <3>2, <3>3
  <2>3. \A x, m \in Nat : x < m => x % m = x
    OBVIOUS
  <2> QED
    BY <1>7, <2>1, <2>2, <2>3
<1>9. ASSUME NEW i \in 0 .. Blocks - 1
      PROVE  (IF i + Blocks < n * words THEN at(i + Blocks) ELSE at(i))
                = (IF i < n * words - Blocks THEN 0 ELSE s.blocks[i])
  <2>1. Blocks \in Nat /\ i \in Nat /\ i < Blocks
    BY FormatAssumption
  <2>2. i + Blocks < n * words => at(i + Blocks) = 0
    BY <1>8, <2>1
  <2>3. at(i) = s.blocks[i]
    BY <1>3, <1>8, <2>1
  <2>4. i + Blocks < n * words <=> i < n * words - Blocks
    BY <1>3, <2>1
  <2> QED
    BY <2>2, <2>3, <2>4
<1>10. [i \in 0 .. Blocks - 1 |-> IF i + Blocks < n * words THEN at(i + Blocks) ELSE at(i)]
          = [i \in 0 .. Blocks - 1 |-> IF i < n * words - Blocks THEN 0 ELSE s.blocks[i]]
  <2> HIDE DEF at
  <2> QED
    BY <1>9
<1> QED
  BY <1>5, <1>6, <1>10 DEF out

\* So are the layers of a sub-chunk.
LEMMA SubChunkIsRead ==
    ASSUME NEW layers \in Seq(Storages)
    PROVE  ReadSubChunk(WriteSubChunk(layers)) = [l \in DOMAIN layers |-> Reread(layers[l])]
<1>1. DOMAIN layers = 1 .. Len(layers) /\ \A l \in 1 .. Len(layers) : layers[l] \in Storages
  OBVIOUS
<1>2. \A l \in 1 .. Len(layers) : ReadStorage(WriteStorage(layers[l])) = Reread(layers[l])
  BY <1>1, StorageIsRead
<1> QED
  BY <1>1, <1>2 DEF ReadSubChunk, WriteSubChunk

\* And a chunk of which all sub-chunks are written.
LEMMA ChunkIsRead ==
    ASSUME NEW chunk \in [1 .. MAX_SUBCHUNKS -> Seq(Storages)], NEW forceAll \in BOOLEAN,
           forceAll \/ ~IsEmpty(chunk[1])
    PROVE  /\ Len(WriteChunk(chunk, forceAll)) = MAX_SUBCHUNKS
           /\ ReadChunk(WriteChunk(chunk, forceAll))
                 = [y \in DOMAIN chunk |-> [l \in DOMAIN chunk[y] |-> Reread(chunk[y][l])]]
<1>1. MAX_SUBCHUNKS \in Nat \ {0} /\ DOMAIN chunk = 1 .. MAX_SUBCHUNKS
  BY FormatAssumption
<1>2. WriteChunk(chunk, forceAll) = [y \in 1 .. MAX_SUBCHUNKS |-> WriteSubChunk(chunk[y])]
  BY DEF WriteChunk, TopEmpty
<1>3. \A y \in 1 .. MAX_SUBCHUNKS :
          ReadSubChunk(WriteSubChunk(chunk[y])) = [l \in DOMAIN chunk[y] |-> Reread(chunk[y][l])]
  BY SubChunkIsRead
<1>4. Len(WriteChunk(chunk, forceAll)) = MAX_SUBCHUNKS
  BY <1>1, <1>2
<1> QED
  BY <1>1, <1>2, <1>3, <1>4 DEF ReadChunk

\* What is serialized and read back belongs to the chunk that was stored.
ChunkInv ==
    /\ stored \in Chunks
    /\ serialized # <<>> => serialized = <<WriteChunk(stored.chunk, stored.forceAll)>>
    /\ ChunksAreRead

\* A chunk written with all its sub-chunks is read back, but for the positions
\* that wrap, whatever the size of words, storages and chunks and whatever the
\* palettes (BlockStorage, SubChunk and Chunk, networkSerialize and
\* networkDeserialize).
THEOREM ChunksCorrect == ChunkSpec => []ChunksAreRead
<1>1. ChunkInit => ChunkInv
  BY DEF ChunkInit, ChunkInv, ChunksAreRead
<1>2. ChunkInv /\ [ChunkNext]_chunkVars => ChunkInv'
  <2> SUFFICES ASSUME ChunkInv, [ChunkNext]_chunkVars PROVE ChunkInv'
    OBVIOUS
  <2>1. CASE SerializeChunk
    BY <2>1 DEF SerializeChunk, ChunkInv, ChunksAreRead
  <2>2. CASE DeserializeChunk
    <3>1. /\ serialized = <<WriteChunk(stored.chunk, stored.forceAll)>>
          /\ stored' = stored /\ serialized' = serialized
          /\ reread' = <<IF Len(serialized[1]) = MAX_SUBCHUNKS THEN ReadChunk(serialized[1]) ELSE <<>>>>
      BY <2>2 DEF DeserializeChunk, ChunkInv
    <3>2. serialized[1] = WriteChunk(stored.chunk, stored.forceAll)
      BY <3>1
    <3>3. /\ stored.chunk \in [1 .. MAX_SUBCHUNKS -> Seq(Storages)]
          /\ stored.forceAll \in BOOLEAN
      BY ChunkAssumption DEF ChunkInv
    <3>4. ASSUME stored.forceAll \/ ~IsEmpty(stored.chunk[1])
          PROVE  reread'[1] = [y \in DOMAIN stored.chunk |->
                                  [l \in DOMAIN stored.chunk[y] |-> Reread(stored.chunk[y][l])]]
      <4>1. /\ Len(serialized[1]) = MAX_SUBCHUNKS
            /\ ReadChunk(serialized[1])
                  = [y \in DOMAIN stored.chunk |->
                        [l \in DOMAIN stored.chunk[y] |-> Reread(stored.chunk[y][l])]]
        BY <3>2, <3>3, <3>4, ChunkIsRead
      <4>2. reread' = <<ReadChunk(serialized[1])>>
        BY <3>1, <4>1
      <4> QED
        BY <4>1, <4>2
    <3>5. ChunksAreRead'
      BY <3>1, <3>4 DEF ChunksAreRead
    <3> QED
      BY <3>1, <3>5 DEF ChunkInv
  <2>3. CASE UNCHANGED chunkVars
    BY <2>3 DEF chunkVars, ChunkInv, ChunksAreRead
  <2> QED
    BY <2>1, <2>2, <2>3 DEF ChunkNext
<1>3. ChunkInv => ChunksAreRead
  BY DEF ChunkInv
<1> QED
  BY <1>1, <1>2, <1>3, PTL DEF ChunkSpec

\* In the words and storages the code has, nothing wraps with a palette of one
\* or two, three or four, nine to sixteen, or more than sixty-four blocks; with
\* the other widths the first four, two and four positions are overwritten.
THEOREM WrappedBlocks ==
    ASSUME Blocks = 4096, WordBits = 32, NEW s \in Storages
    PROVE  LET bits == BitsPerBlock(Len(s.palette))
           IN  Wrapped(s) = CASE bits \in {1, 2, 4, 8, 16} -> 0
                              [] bits \in {3, 6} -> 4
                              [] bits = 5 -> 2
<1>1. Len(s.palette) \in 1 .. MaxPalette
  BY DEF Storages
<1> DEFINE bits == BitsPerBlock(Len(s.palette))
<1>2. bits \in {1, 2, 3, 4, 5, 6, 8, 16}
  BY <1>1, PaletteFits
<1>3. Wrapped(s) = BlocksPerWord(bits) * WordsPerChunk(bits) - Blocks
  BY DEF Wrapped
<1> HIDE DEF bits
<1>4. Wrapped(s) = CASE bits \in {1, 2, 4, 8, 16} -> 0 [] bits \in {3, 6} -> 4 [] bits = 5 -> 2
  BY <1>2, <1>3 DEF BlocksPerWord, WordsPerChunk, CeilDiv
<1> QED
  BY <1>4 DEF bits

-----------------------------------------------------------------------------
(* The table of commands a client is sent when it has joined.              *)

Place == Nat \X Nat \X Nat \X Nat

\* Places are ordered as the loops meet them.
LEMMA BeforeIs ==
    ASSUME NEW a \in Place, NEW b \in Place
    PROVE  Before(a, b) <=> \/ a[1] < b[1]
                            \/ a[1] = b[1] /\ a[2] < b[2]
                            \/ a[1] = b[1] /\ a[2] = b[2] /\ a[3] < b[3]
                            \/ a[1] = b[1] /\ a[2] = b[2] /\ a[3] = b[3] /\ a[4] < b[4]
<1>1. DOMAIN a = 1 .. 4
  BY DEF Place
<1>2. 1 .. 4 = {1, 2, 3, 4}
  OBVIOUS
<1>3. /\ \A m \in 1 .. 1 - 1 : a[m] = b[m]
      /\ (\A m \in 1 .. 2 - 1 : a[m] = b[m]) <=> a[1] = b[1]
      /\ (\A m \in 1 .. 3 - 1 : a[m] = b[m]) <=> a[1] = b[1] /\ a[2] = b[2]
      /\ (\A m \in 1 .. 4 - 1 : a[m] = b[m]) <=> a[1] = b[1] /\ a[2] = b[2] /\ a[3] = b[3]
  <2>1. 1 .. 1 - 1 = {} /\ 1 .. 2 - 1 = {1} /\ 1 .. 3 - 1 = {1, 2} /\ 1 .. 4 - 1 = {1, 2, 3}
    OBVIOUS
  <2> QED
    BY <2>1
<1>4. Before(a, b) <=> \E n \in {1, 2, 3, 4} : a[n] < b[n] /\ \A m \in 1 .. n - 1 : a[m] = b[m]
  BY <1>1, <1>2 DEF Before
<1> QED
  BY <1>3, <1>4

LEMMA BeforeIsAnOrder ==
    ASSUME NEW a \in Place, NEW b \in Place, NEW c \in Place
    PROVE  /\ ~Before(a, a)
           /\ Before(a, b) /\ Before(b, c) => Before(a, c)
           /\ Before(a, b) \/ Before(b, a) \/ a = b
<1>1. /\ a = <<a[1], a[2], a[3], a[4]>> /\ b = <<b[1], b[2], b[3], b[4]>>
      /\ {a[1], a[2], a[3], a[4], b[1], b[2], b[3], b[4], c[1], c[2], c[3], c[4]} \subseteq Nat
  BY DEF Place
<1>2. ~Before(a, a)
  BY <1>1, BeforeIs
<1>3. Before(a, b) /\ Before(b, c) => Before(a, c)
  BY <1>1, BeforeIs
<1>4. Before(a, b) \/ Before(b, a) \/ a = b
  <2>1. a[1] = b[1] /\ a[2] = b[2] /\ a[3] = b[3] /\ a[4] = b[4] => a = b
    BY <1>1
  <2> QED
    BY <1>1, <2>1, BeforeIs
<1> QED
  BY <1>2, <1>3, <1>4

\* Those that come before an earlier place are fewer.
LEMMA FewerBefore ==
    ASSUME NEW S, IsFiniteSet(S), S \subseteq Place, NEW a \in S, NEW b \in S, Before(a, b)
    PROVE  /\ Cardinality({c \in S : Before(c, a)}) \in Nat
           /\ Cardinality({c \in S : Before(c, b)}) \in Nat
           /\ Cardinality({c \in S : Before(c, a)}) < Cardinality({c \in S : Before(c, b)})
<1> DEFINE A == {c \in S : Before(c, a)}
           B == {c \in S : Before(c, b)}
<1>1. A \in SUBSET B
  BY BeforeIsAnOrder
<1>2. a \in B /\ a \notin A
  BY BeforeIsAnOrder
<1>3. IsFiniteSet(B)
  BY FS_Subset
<1> HIDE DEF A, B
<1>4. IsFiniteSet(A) /\ Cardinality(A) <= Cardinality(B) /\ Cardinality(A) # Cardinality(B)
  BY <1>1, <1>2, <1>3, FS_Subset
<1>5. Cardinality(A) \in Nat /\ Cardinality(B) \in Nat
  BY <1>3, <1>4, FS_CardinalityType
<1> QED
  BY <1>4, <1>5 DEF A, B

LEMMA LeastNumber ==
    ASSUME NEW S, S \subseteq Nat, S # {}
    PROVE  \E i \in S : \A j \in S : i <= j
<1> DEFINE less == {p \in Nat \X Nat : p[1] < p[2]}
<1>1. IsWellFoundedOn(less, Nat)
  BY NatLessThanWellFounded DEF OpToRel
<1>2. \E i \in S : \A j \in S : ~(<<j, i>> \in less)
  BY <1>1, WFMin
<1>3. ASSUME NEW i \in S, NEW j \in S, <<j, i>> \notin less PROVE i <= j
  <2>1. i \in Nat /\ j \in Nat /\ ~(j < i)
    BY <1>3
  <2> QED
    BY <2>1
<1> HIDE DEF less
<1> QED
  BY <1>2, <1>3

\* A set of places has a first one.
LEMMA FirstPlace ==
    ASSUME NEW S, IsFiniteSet(S), S \subseteq Place, S # {}
    PROVE  \E a \in S : \A b \in S : ~Before(b, a)
<1> DEFINE Behind(a) == Cardinality({c \in S : Before(c, a)})
           N == {Behind(a) : a \in S}
<1>1. \A a \in S : Behind(a) \in Nat
  <2> SUFFICES ASSUME NEW a \in S PROVE Behind(a) \in Nat
    OBVIOUS
  <2>1. IsFiniteSet({c \in S : Before(c, a)})
    BY FS_Subset
  <2> QED
    BY <2>1, FS_CardinalityType
<1>2. \A a, b \in S : Before(b, a) => Behind(b) < Behind(a)
  BY FewerBefore
<1> HIDE DEF Behind
<1>3. PICK n \in N : \A m \in N : n <= m
  BY <1>1, LeastNumber
<1>4. PICK a \in S : n = Behind(a)
  OBVIOUS
<1>5. ASSUME NEW b \in S, Before(b, a) PROVE FALSE
  <2>1. Behind(b) \in Nat /\ Behind(a) \in Nat /\ Behind(b) < Behind(a) /\ Behind(a) <= Behind(b)
    BY <1>1, <1>2, <1>3, <1>4, <1>5
  <2> QED
    BY <2>1
<1> QED
  BY <1>5

-----------------------------------------------------------------------------

\* What a loop may have met.
Met(table) == IsFiniteSet(DOMAIN table) /\ DOMAIN table \subseteq Place

\* An entry is at its index in the table.
LEMMA EntryAtIndex ==
    ASSUME NEW table, Met(table), NEW a \in Entries(table)
    PROVE  /\ Index(table, a) \in Nat /\ Index(table, a) + 1 \in DOMAIN KeysInOrder(table)
           /\ Entry(table, Index(table, a) + 1) = a
           /\ KeysInOrder(table)[Index(table, a) + 1] = table[a]
<1> DEFINE S == Entries(table)
<1>1. IsFiniteSet(S) /\ S \subseteq Place
  BY FS_Subset DEF Met, Entries
<1>2. \A b \in S : Index(table, b) = Cardinality({c \in S : Before(c, b)})
  BY DEF Index
<1> HIDE DEF S
<1>3. \A b \in S : Index(table, b) \in Nat /\ Index(table, b) < Cardinality(S)
  <2> SUFFICES ASSUME NEW b \in S PROVE Index(table, b) \in Nat /\ Index(table, b) < Cardinality(S)
    OBVIOUS
  <2> DEFINE T == {c \in S : Before(c, b)}
  <2>1. T \in SUBSET S /\ b \notin T
    BY <1>1, BeforeIsAnOrder
  <2>2. Index(table, b) = Cardinality(T)
    BY <1>2
  <2> HIDE DEF T
  <2>3. IsFiniteSet(T) /\ Cardinality(T) <= Cardinality(S) /\ Cardinality(T) # Cardinality(S)
    BY <1>1, <2>1, FS_Subset
  <2>4. Cardinality(T) \in Nat /\ Cardinality(S) \in Nat
    BY <1>1, <2>3, FS_CardinalityType
  <2> QED
    BY <2>2, <2>3, <2>4
<1>4. ASSUME NEW b \in S, NEW c \in S, Index(table, b) = Index(table, c) PROVE b = c
  <2>1. \A x, y \in S : Before(x, y) => Index(table, x) # Index(table, y)
    <3> SUFFICES ASSUME NEW x \in S, NEW y \in S, Before(x, y) PROVE Index(table, x) # Index(table, y)
      OBVIOUS
    <3>1. /\ Cardinality({z \in S : Before(z, x)}) \in Nat /\ Cardinality({z \in S : Before(z, y)}) \in Nat
          /\ Cardinality({z \in S : Before(z, x)}) < Cardinality({z \in S : Before(z, y)})
      BY <1>1, FewerBefore
    <3>2. Index(table, x) \in Nat /\ Index(table, y) \in Nat /\ Index(table, x) < Index(table, y)
      BY <1>2, <3>1
    <3> QED
      BY <3>2
  <2>2. Before(b, c) \/ Before(c, b) \/ b = c
    BY <1>1, BeforeIsAnOrder
  <2> QED
    BY <1>4, <2>1, <2>2
<1> DEFINE k == Index(table, a) + 1
<1>5. a \in S /\ Index(table, a) \in Nat /\ Cardinality(S) \in Nat
  BY <1>1, <1>3, FS_CardinalityType DEF S
<1>6. k \in 1 .. Cardinality(S) /\ k - 1 = Index(table, a)
  BY <1>3, <1>5
<1> HIDE DEF k
<1>7. Entry(table, k) = a
  <2>1. \A b \in S : Index(table, b) = k - 1 => b = a
    BY <1>4, <1>5, <1>6
  <2>2. Entry(table, k) = CHOOSE b \in S : Index(table, b) = k - 1
    BY DEF Entry, S
  <2> QED
    BY <1>5, <1>6, <2>1, <2>2
<1>8. k \in DOMAIN KeysInOrder(table) /\ KeysInOrder(table)[k] = table[Entry(table, k)]
  BY <1>6 DEF KeysInOrder, S
<1> QED
  BY <1>5, <1>7, <1>8 DEF k

\* A key that was met has an entry, where the table has the key.
LEMMA KeyIsFound ==
    ASSUME NEW table, Met(table), NEW a \in DOMAIN table
    PROVE  /\ IndexOf(table, table[a]) \in Nat
           /\ IndexOf(table, table[a]) + 1 \in DOMAIN KeysInOrder(table)
           /\ KeysInOrder(table)[IndexOf(table, table[a]) + 1] = table[a]
           /\ Entry(table, IndexOf(table, table[a]) + 1) \in DOMAIN table
           /\ table[Entry(table, IndexOf(table, table[a]) + 1)] = table[a]
<1>1. \E b \in Entries(table) : table[b] = table[a]
  <2> DEFINE S == {b \in DOMAIN table : table[b] = table[a]}
  <2>1. IsFiniteSet(S) /\ S \subseteq Place /\ S # {}
    BY FS_Subset DEF Met
  <2>2. PICK b \in S : \A c \in S : ~Before(c, b)
    BY <2>1, FirstPlace
  <2> QED
    BY <2>2 DEF Entries
<1> DEFINE b == CHOOSE c \in Entries(table) : table[c] = table[a]
<1>2. b \in Entries(table) /\ table[b] = table[a] /\ b \in DOMAIN table
  BY <1>1 DEF Entries
<1>3. IndexOf(table, table[a]) = Index(table, b)
  BY <1>1 DEF IndexOf
<1> HIDE DEF b
<1> QED
  BY <1>2, <1>3, EntryAtIndex

-----------------------------------------------------------------------------
(* The loops meet everything, and only finitely much of it.                *)

LEMMA FiniteImage ==
    ASSUME NEW n \in Nat, NEW f, f = [i \in 1 .. n |-> f[i]]
    PROVE  IsFiniteSet({f[i] : i \in 1 .. n})
<1> DEFINE T == {f[i] : i \in 1 .. n}
<1>1. IsFiniteSet(1 .. n)
  BY FS_Interval
<1>2. f \in Surjection(1 .. n, T)
  BY DEF Surjection
<1> HIDE DEF T
<1>3. IsFiniteSet(T)
  BY <1>1, <1>2, FS_Surjection
<1> QED
  BY <1>3 DEF T

LEMMA FiniteUnion ==
    ASSUME NEW n \in Nat, NEW f, f = [i \in 1 .. n |-> f[i]], \A i \in 1 .. n : IsFiniteSet(f[i])
    PROVE  IsFiniteSet(UNION {f[i] : i \in 1 .. n})
BY FiniteImage, FS_UNION

LEMMA OptionalIs ==
    ASSUME NEW S, NEW s \in Optional(S)
    PROVE  s = <<>> \/ (s = <<s[1]>> /\ s[1] \in S)
<1>1. s \in Seq(S) /\ Len(s) \in Nat /\ Len(s) <= 1
  BY DEF Optional
<1>2. CASE Len(s) = 0
  BY <1>1, <1>2
<1>3. CASE Len(s) = 1
  BY <1>1, <1>3
<1> QED
  BY <1>1, <1>2, <1>3

\* The parameters of a list of commands, and the places of a parameter.
LEMMA ParametersAreMet ==
    ASSUME NEW commands \in Seq(Command)
    PROVE  /\ IsFiniteSet(ParameterPlaces(commands)) /\ ParameterPlaces(commands) \subseteq Place
           /\ \A a \in ParameterPlaces(commands) :
                  a[2] # 0 /\ a[4] = 0 /\ ParameterAt(commands, a) \in Parameter
           /\ \A c \in DOMAIN commands : \A o \in DOMAIN commands[c].overloads :
                  \A p \in DOMAIN commands[c].overloads[o] :
                      /\ <<c, o, p, 0>> \in ParameterPlaces(commands)
                      /\ ParameterAt(commands, <<c, o, p, 0>>) = commands[c].overloads[o][p]
<1> DEFINE params(c, o) == {<<c, o, p, 0>> : p \in DOMAIN commands[c].overloads[o]}
           over(c) == UNION {params(c, o) : o \in DOMAIN commands[c].overloads}
<1>1. Len(commands) \in Nat /\ DOMAIN commands = 1 .. Len(commands)
  OBVIOUS
<1>2. \A c \in DOMAIN commands :
          /\ commands[c].overloads \in Seq(Seq(Parameter))
          /\ Len(commands[c].overloads) \in Nat /\ DOMAIN commands[c].overloads = 1 .. Len(commands[c].overloads)
  <2>1. \A c \in DOMAIN commands : commands[c] \in Command
    OBVIOUS
  <2>2. \A c \in DOMAIN commands : commands[c].overloads \in Seq(Seq(Parameter))
    BY <2>1 DEF Command
  <2> QED
    BY <2>2
<1>3. \A c \in DOMAIN commands : \A o \in DOMAIN commands[c].overloads :
          /\ commands[c].overloads[o] \in Seq(Parameter)
          /\ Len(commands[c].overloads[o]) \in Nat
          /\ DOMAIN commands[c].overloads[o] = 1 .. Len(commands[c].overloads[o])
  BY <1>2
<1>4. ParameterPlaces(commands) = UNION {over(c) : c \in DOMAIN commands}
  BY DEF ParameterPlaces
<1>5. ASSUME NEW c \in DOMAIN commands, NEW o \in DOMAIN commands[c].overloads
      PROVE  IsFiniteSet(params(c, o))
  <2> DEFINE n == Len(commands[c].overloads[o])
             f == [p \in 1 .. n |-> <<c, o, p, 0>>]
  <2>1. n \in Nat /\ DOMAIN commands[c].overloads[o] = 1 .. n
    BY <1>3
  <2>2. f = [p \in 1 .. n |-> f[p]]
    OBVIOUS
  <2>3. params(c, o) = {f[p] : p \in 1 .. n}
    BY <2>1
  <2> HIDE DEF f, n, params
  <2> QED
    BY <2>1, <2>2, <2>3, FiniteImage
<1>6. ASSUME NEW c \in DOMAIN commands PROVE IsFiniteSet(over(c))
  <2> DEFINE n == Len(commands[c].overloads)
             f == [o \in 1 .. n |-> params(c, o)]
  <2>1. n \in Nat /\ DOMAIN commands[c].overloads = 1 .. n
    BY <1>2
  <2>2. f = [o \in 1 .. n |-> f[o]]
    OBVIOUS
  <2>3. over(c) = UNION {f[o] : o \in 1 .. n}
    <3>1. over(c) = UNION {params(c, o) : o \in 1 .. n}
      BY <2>1
    <3>2. \A o \in 1 .. n : f[o] = params(c, o)
      OBVIOUS
    <3> HIDE DEF over, params, f, n
    <3>3. {params(c, o) : o \in 1 .. n} = {f[o] : o \in 1 .. n}
      BY <3>2
    <3> QED
      BY <3>1, <3>3
  <2>4. \A o \in 1 .. n : IsFiniteSet(f[o])
    <3> HIDE DEF params
    <3> QED
      BY <1>5, <2>1
  <2> HIDE DEF f, n, over
  <2> QED
    BY <2>1, <2>2, <2>3, <2>4, FiniteUnion
<1>7. IsFiniteSet(ParameterPlaces(commands))
  <2> DEFINE n == Len(commands)
             f == [c \in 1 .. n |-> over(c)]
  <2>1. n \in Nat /\ DOMAIN commands = 1 .. n
    BY <1>1
  <2>2. f = [c \in 1 .. n |-> f[c]]
    OBVIOUS
  <2> HIDE DEF over
  <2>3. ParameterPlaces(commands) = UNION {f[c] : c \in 1 .. n}
    BY <1>4, <2>1
  <2>4. \A c \in 1 .. n : IsFiniteSet(f[c])
    BY <1>6, <2>1
  <2> HIDE DEF f, n
  <2> QED
    BY <2>1, <2>2, <2>3, <2>4, FiniteUnion
<1>8. ASSUME NEW a \in ParameterPlaces(commands)
      PROVE  \E c \in DOMAIN commands : \E o \in DOMAIN commands[c].overloads :
                 \E p \in DOMAIN commands[c].overloads[o] : a = <<c, o, p, 0>>
  BY <1>8 DEF ParameterPlaces
<1>9. ASSUME NEW c \in DOMAIN commands, NEW o \in DOMAIN commands[c].overloads,
             NEW p \in DOMAIN commands[c].overloads[o]
      PROVE  /\ <<c, o, p, 0>> \in Place /\ o # 0
             /\ <<c, o, p, 0>> \in ParameterPlaces(commands)
             /\ ParameterAt(commands, <<c, o, p, 0>>) = commands[c].overloads[o][p]
             /\ commands[c].overloads[o][p] \in Parameter
  <2>1. c \in Nat /\ o \in Nat /\ o # 0 /\ p \in Nat
    BY <1>1, <1>2, <1>3
  <2>2. <<c, o, p, 0>> \in Place
    BY <2>1 DEF Place
  <2>3. <<c, o, p, 0>> \in params(c, o)
    OBVIOUS
  <2>4. params(c, o) \subseteq over(c) /\ over(c) \subseteq ParameterPlaces(commands)
    BY <1>4
  <2>5. ParameterAt(commands, <<c, o, p, 0>>) = commands[c].overloads[o][p]
    BY DEF ParameterAt
  <2>6. commands[c].overloads[o][p] \in Parameter
    BY <1>3
  <2> HIDE DEF params, over
  <2> QED
    BY <2>1, <2>2, <2>3, <2>4, <2>5, <2>6
<1>10. ASSUME NEW a \in ParameterPlaces(commands)
       PROVE  a \in Place /\ a[2] # 0 /\ a[4] = 0 /\ ParameterAt(commands, a) \in Parameter
  BY <1>8, <1>9
<1> QED
  BY <1>7, <1>9, <1>10

\* The enums, their values and the postfixes.
LEMMA EnumsAreMet ==
    ASSUME NEW commands \in Seq(Command)
    PROVE  /\ IsFiniteSet(EnumPlaces(commands)) /\ EnumPlaces(commands) \subseteq Place
           /\ \A a \in EnumPlaces(commands) : EnumAt(commands, a) \in Enum
           /\ \A c \in DOMAIN commands : commands[c].aliases # <<>> =>
                  /\ <<c, 0, 0, 0>> \in EnumPlaces(commands)
                  /\ commands[c].aliases = <<EnumAt(commands, <<c, 0, 0, 0>>)>>
           /\ \A a \in ParameterPlaces(commands) : ParameterAt(commands, a).enum # <<>> =>
                  /\ a \in EnumPlaces(commands)
                  /\ ParameterAt(commands, a).enum = <<EnumAt(commands, a)>>
<1> DEFINE named == {d \in DOMAIN commands : commands[d].aliases # <<>>}
           alias == {<<c, 0, 0, 0>> : c \in named}
           param == {a \in ParameterPlaces(commands) : ParameterAt(commands, a).enum # <<>>}
<1>1. /\ Len(commands) \in Nat /\ DOMAIN commands = 1 .. Len(commands)
      /\ \A c \in DOMAIN commands : commands[c] \in Command
  OBVIOUS
<1>2. EnumPlaces(commands) = alias \cup param
  BY DEF EnumPlaces
<1>3. IsFiniteSet(alias) /\ alias \subseteq Place
  <2> DEFINE n == Len(commands)
             f == [c \in 1 .. n |-> <<c, 0, 0, 0>>]
             T == {f[c] : c \in 1 .. n}
  <2>1. f = [c \in 1 .. n |-> f[c]]
    OBVIOUS
  <2>2. alias \subseteq T
    BY <1>1
  <2>3. T \subseteq Place
    BY <1>1 DEF Place
  <2>4. IsFiniteSet(T)
    <3> HIDE DEF f, n
    <3> QED
      BY <1>1, <2>1, FiniteImage DEF n
  <2> HIDE DEF alias, T
  <2> QED
    BY <2>2, <2>3, <2>4, FS_Subset
<1>4. IsFiniteSet(param) /\ param \subseteq Place
  BY ParametersAreMet, FS_Subset
<1>5. ASSUME NEW c \in named
      PROVE  commands[c].aliases = <<EnumAt(commands, <<c, 0, 0, 0>>)>> /\ EnumAt(commands, <<c, 0, 0, 0>>) \in Enum
  <2>1. commands[c].aliases \in Optional(Enum) /\ commands[c].aliases # <<>>
    BY <1>1 DEF Command
  <2>2. commands[c].aliases = <<commands[c].aliases[1]>> /\ commands[c].aliases[1] \in Enum
    BY <2>1, OptionalIs
  <2>3. EnumAt(commands, <<c, 0, 0, 0>>) = commands[c].aliases[1]
    BY DEF EnumAt
  <2> QED
    BY <2>2, <2>3
<1>6. ASSUME NEW a \in param
      PROVE  /\ ParameterAt(commands, a).enum = <<EnumAt(commands, a)>>
             /\ EnumAt(commands, a) \in Enum
  <2>1. a[2] # 0 /\ ParameterAt(commands, a) \in Parameter
    BY ParametersAreMet
  <2>2. ParameterAt(commands, a).enum \in Optional(Enum) /\ ParameterAt(commands, a).enum # <<>>
    BY <2>1 DEF Parameter
  <2>3. /\ ParameterAt(commands, a).enum = <<ParameterAt(commands, a).enum[1]>>
        /\ ParameterAt(commands, a).enum[1] \in Enum
    BY <2>2, OptionalIs
  <2>4. EnumAt(commands, a) = ParameterAt(commands, a).enum[1]
    BY <2>1 DEF EnumAt
  <2> QED
    BY <2>3, <2>4
<1>7. IsFiniteSet(alias \cup param) /\ alias \cup param \subseteq Place
  <2> HIDE DEF alias, param
  <2> QED
    BY <1>3, <1>4, FS_Union
<1>8. \A a \in alias \cup param : EnumAt(commands, a) \in Enum
  BY <1>5, <1>6
<1> QED
  BY <1>2, <1>5, <1>6, <1>7, <1>8

LEMMA ValuesAreMet ==
    ASSUME NEW commands \in Seq(Command)
    PROVE  /\ Met(EnumNames(commands)) /\ Met(EnumValues(commands)) /\ Met(Postfixes(commands))
           /\ \A a \in EnumPlaces(commands) : \A v \in DOMAIN EnumAt(commands, a).values :
                  \E b \in DOMAIN EnumValues(commands) :
                      EnumValues(commands)[b] = EnumAt(commands, a).values[v]
<1> DEFINE at(a) == {<<a[1], a[2], a[3], v>> : v \in DOMAIN EnumAt(commands, a).values}
           sets == {at(a) : a \in EnumPlaces(commands)}
<1>1. ValuePlaces(commands) = UNION sets
  BY DEF ValuePlaces
<1>2. ASSUME NEW a \in EnumPlaces(commands)
      PROVE  /\ IsFiniteSet(at(a)) /\ at(a) \subseteq Place
  <2> DEFINE n == Len(EnumAt(commands, a).values)
             f == [v \in 1 .. n |-> <<a[1], a[2], a[3], v>>]
  <2>1. EnumAt(commands, a) \in Enum /\ a \in Place
    BY EnumsAreMet
  <2>2. n \in Nat /\ DOMAIN EnumAt(commands, a).values = 1 .. n
    BY <2>1 DEF Enum
  <2>3. f = [v \in 1 .. n |-> f[v]]
    OBVIOUS
  <2>4. at(a) = {f[v] : v \in 1 .. n}
    BY <2>2
  <2>5. \A v \in 1 .. n : <<a[1], a[2], a[3], v>> \in Place
    BY <2>1 DEF Place
  <2>6. at(a) \subseteq Place
    BY <2>2, <2>5
  <2> HIDE DEF f, n, at
  <2> QED
    BY <2>2, <2>3, <2>4, <2>6, FiniteImage
<1>3. IsFiniteSet(sets)
  <2> DEFINE S == EnumPlaces(commands)
             f == [a \in S |-> at(a)]
  <2>1. IsFiniteSet(S)
    BY EnumsAreMet
  <2> HIDE DEF at
  <2>2. f \in Surjection(S, sets)
    BY DEF Surjection
  <2> HIDE DEF f, S, sets
  <2> QED
    BY <2>1, <2>2, FS_Surjection
<1>4. \A T \in sets : IsFiniteSet(T) /\ T \subseteq Place
  <2> HIDE DEF at
  <2> QED
    BY <1>2
<1>5. IsFiniteSet(ValuePlaces(commands)) /\ ValuePlaces(commands) \subseteq Place
  <2> HIDE DEF sets
  <2> QED
    BY <1>1, <1>3, <1>4, FS_UNION
<1>6. Met(EnumNames(commands)) /\ Met(EnumValues(commands))
  BY <1>5, EnumsAreMet DEF Met, EnumNames, EnumValues
<1>7. Met(Postfixes(commands))
  <2> DEFINE S == {b \in ParameterPlaces(commands) : ParameterAt(commands, b).postfix # <<>>}
  <2>1. DOMAIN Postfixes(commands) = S
    BY DEF Postfixes
  <2>2. S \in SUBSET ParameterPlaces(commands)
    OBVIOUS
  <2> HIDE DEF S
  <2> QED
    BY <2>1, <2>2, ParametersAreMet, FS_Subset DEF Met
<1>8. ASSUME NEW a \in EnumPlaces(commands), NEW v \in DOMAIN EnumAt(commands, a).values
      PROVE  \E b \in DOMAIN EnumValues(commands) : EnumValues(commands)[b] = EnumAt(commands, a).values[v]
  <2> DEFINE b == <<a[1], a[2], a[3], v>>
  <2>1. b \in at(a)
    OBVIOUS
  <2>2. b \in ValuePlaces(commands)
    BY <1>1, <2>1
  <2>3. EnumAt(commands, b) = EnumAt(commands, a) /\ b[4] = v
    BY DEF EnumAt, ParameterAt
  <2>4. EnumValues(commands)[b] = EnumAt(commands, b).values[b[4]]
    BY <2>2 DEF EnumValues
  <2>5. b \in DOMAIN EnumValues(commands)
    BY <2>2 DEF EnumValues
  <2> HIDE DEF b
  <2> QED
    BY <2>3, <2>4, <2>5
<1> QED
  BY <1>6, <1>7, <1>8

-----------------------------------------------------------------------------
(* What the client makes of it                                             *)

\* An enum is found at the number kept for its name, with the values it has.
LEMMA EnumIsResolved ==
    ASSUME NEW commands \in Seq(Command), OneEnumPerName(commands), NEW a \in EnumPlaces(commands)
    PROVE  LET i == IndexOf(EnumNames(commands), EnumAt(commands, a).name)
           IN  i \in Nat /\ ResolvedEnum(EncodeCommands(commands), i) = EnumAt(commands, a)
<1> DEFINE names == EnumNames(commands)
           values == EnumValues(commands)
           enum == EnumAt(commands, a)
           packet == EncodeCommands(commands)
           i == IndexOf(names, enum.name)
           b == Entry(names, i + 1)
<1>1. Met(names) /\ Met(values)
  BY ValuesAreMet
<1>2. DOMAIN names = EnumPlaces(commands) /\ \A c \in EnumPlaces(commands) : names[c] = EnumAt(commands, c).name
  BY DEF EnumNames
<1>3. i \in Nat /\ i + 1 \in DOMAIN KeysInOrder(names) /\ b \in DOMAIN names /\ names[b] = names[a]
  <2>1. names[a] = enum.name /\ a \in DOMAIN names
    BY <1>2
  <2> HIDE DEF names, enum
  <2> QED
    BY <1>1, <2>1, KeyIsFound
<1>4. EnumAt(commands, b) = enum
  <2> HIDE DEF b
  <2> QED
    BY <1>2, <1>3 DEF OneEnumPerName
<1>5. /\ packet.enumValues = KeysInOrder(values)
      /\ packet.enums = [k \in DOMAIN KeysInOrder(names) |-> WrittenEnum(commands, EnumAt(commands, Entry(names, k)))]
  BY DEF EncodeCommands
<1>6. packet.enums[i + 1] = WrittenEnum(commands, enum)
  <2> HIDE DEF names, i, enum, packet
  <2> QED
    BY <1>3, <1>4, <1>5 DEF b
<1>7. enum \in Enum /\ enum = [name |-> enum.name, values |-> enum.values] /\ enum.values \in Seq(STRING)
  BY EnumsAreMet DEF Enum
<1>8. \A v \in DOMAIN enum.values : packet.enumValues[IndexOf(values, enum.values[v]) + 1] = enum.values[v]
  <2> SUFFICES ASSUME NEW v \in DOMAIN enum.values
               PROVE  packet.enumValues[IndexOf(values, enum.values[v]) + 1] = enum.values[v]
    OBVIOUS
  <2>1. PICK c \in DOMAIN values : values[c] = enum.values[v]
    BY ValuesAreMet
  <2> HIDE DEF values, enum, packet
  <2> QED
    BY <1>1, <1>5, <2>1, KeyIsFound
<1>9. WrittenEnum(commands, enum) = [name |-> enum.name, values |-> [v \in DOMAIN enum.values |-> IndexOf(values, enum.values[v])]]
  BY DEF WrittenEnum
<1> HIDE DEF values, enum, packet, i
<1>10. ResolvedEnum(packet, i)
          = [name |-> enum.name,
             values |-> [v \in DOMAIN enum.values |-> packet.enumValues[IndexOf(values, enum.values[v]) + 1]]]
  <2> DEFINE e == packet.enums[i + 1]
             is == [v \in DOMAIN enum.values |-> IndexOf(values, enum.values[v])]
  <2>1. e.name = enum.name /\ e.values = is
    BY <1>6, <1>9
  <2>2. ResolvedEnum(packet, i) = [name |-> e.name, values |-> [v \in DOMAIN e.values |-> packet.enumValues[e.values[v] + 1]]]
    BY DEF ResolvedEnum
  <2>3. DOMAIN is = DOMAIN enum.values /\ \A v \in DOMAIN enum.values : is[v] = IndexOf(values, enum.values[v])
    OBVIOUS
  <2> HIDE DEF e, is
  <2>4. [v \in DOMAIN is |-> packet.enumValues[is[v] + 1]]
           = [v \in DOMAIN enum.values |-> packet.enumValues[IndexOf(values, enum.values[v]) + 1]]
    BY <2>3
  <2> QED
    BY <2>1, <2>2, <2>4
<1>11. [v \in DOMAIN enum.values |-> packet.enumValues[IndexOf(values, enum.values[v]) + 1]]
          = [v \in DOMAIN enum.values |-> enum.values[v]]
  BY <1>8
<1>12. enum.values = [v \in DOMAIN enum.values |-> enum.values[v]]
  BY <1>7
<1>13. ResolvedEnum(packet, i) = enum
  BY <1>7, <1>10, <1>11, <1>12
<1> QED
  BY <1>3, <1>13 DEF i, enum, packet, names

\* A parameter is resolved to its enum, or else to its postfix.
LEMMA ParameterIsResolved ==
    ASSUME NEW commands \in Seq(Command), OneEnumPerName(commands), NEW a \in ParameterPlaces(commands)
    PROVE  ResolvedParameter(EncodeCommands(commands), ParameterType(commands, ParameterAt(commands, a)))
              = Shown(ParameterAt(commands, a))
<1> DEFINE p == ParameterAt(commands, a)
           packet == EncodeCommands(commands)
<1>1. p \in Parameter
  BY ParametersAreMet
<1>2. /\ p.enum \in Optional(Enum) /\ p.postfix \in Optional(STRING)
      /\ p.type # "enum" /\ p.type # "postfix"
  BY <1>1 DEF Parameter
<1>3. CASE p.enum # <<>>
  <2> DEFINE e == EnumAt(commands, a)
             i == IndexOf(EnumNames(commands), e.name)
  <2>1. a \in EnumPlaces(commands) /\ p.enum = <<e>>
    BY <1>3, EnumsAreMet
  <2>2. ResolvedEnum(packet, i) = e
    BY <2>1, EnumIsResolved
  <2>3. ParameterType(commands, p) = [kind |-> "enum", index |-> i]
    <3> HIDE DEF p, e
    <3>1. p.enum[1] = e
      BY <2>1
    <3> QED
      BY <1>3, <3>1 DEF ParameterType
  <2> HIDE DEF p, e, i, packet
  <2>4. ResolvedParameter(packet, [kind |-> "enum", index |-> i]) = [enum |-> <<ResolvedEnum(packet, i)>>, postfix |-> <<>>]
    BY DEF ResolvedParameter
  <2>5. Shown(p) = [enum |-> <<e>>, postfix |-> <<>>]
    BY <1>3, <2>1 DEF Shown
  <2>6. ResolvedParameter(packet, ParameterType(commands, p)) = Shown(p)
    BY <2>2, <2>3, <2>4, <2>5
  <2> QED
    BY <2>6 DEF p, packet
<1>4. CASE p.enum = <<>> /\ p.postfix # <<>>
  <2> DEFINE table == Postfixes(commands)
             i == IndexOf(table, p.postfix[1])
  <2>1. p.postfix = <<p.postfix[1]>>
    BY <1>2, <1>4, OptionalIs
  <2>2. a \in DOMAIN table /\ table[a] = p.postfix[1]
    BY <1>4 DEF Postfixes
  <2>3. Met(table) /\ packet.postfixes = KeysInOrder(table)
    BY ValuesAreMet DEF EncodeCommands
  <2> HIDE DEF p, packet, table
  <2>4. packet.postfixes[i + 1] = p.postfix[1]
    BY <2>2, <2>3, KeyIsFound
  <2>5. ParameterType(commands, p) = [kind |-> "postfix", index |-> i]
    BY <1>4 DEF ParameterType, table
  <2> HIDE DEF i
  <2>6. ResolvedParameter(packet, [kind |-> "postfix", index |-> i]) = [enum |-> <<>>, postfix |-> <<packet.postfixes[i + 1]>>]
    BY DEF ResolvedParameter
  <2>7. Shown(p) = [enum |-> <<>>, postfix |-> p.postfix]
    BY <1>4 DEF Shown
  <2>8. ResolvedParameter(packet, ParameterType(commands, p)) = Shown(p)
    BY <2>1, <2>4, <2>5, <2>6, <2>7
  <2> QED
    BY <2>8 DEF p, packet
<1>5. CASE p.enum = <<>> /\ p.postfix = <<>>
  <2> HIDE DEF p, packet
  <2>1. ParameterType(commands, p) = [kind |-> p.type, index |-> 0]
    BY <1>5 DEF ParameterType
  <2>2. ResolvedParameter(packet, [kind |-> p.type, index |-> 0]) = [enum |-> <<>>, postfix |-> <<>>]
    BY <1>2 DEF ResolvedParameter
  <2>3. ResolvedParameter(packet, ParameterType(commands, p)) = Shown(p)
    BY <1>5, <2>1, <2>2 DEF Shown
  <2> QED
    BY <2>3 DEF p, packet
<1> QED
  BY <1>3, <1>4, <1>5

\* What a command is for the client.
ForClient(command) ==
    [name |-> command.name, aliases |-> command.aliases,
     overloads |-> [o \in DOMAIN command.overloads |->
                       [p \in DOMAIN command.overloads[o] |-> Shown(command.overloads[o][p])]]]

LEMMA CommandIsResolved ==
    ASSUME NEW commands \in Seq(Command), OneEnumPerName(commands), NEW c \in DOMAIN commands
    PROVE  ResolvedCommand(EncodeCommands(commands), WrittenCommand(commands, commands[c])) = ForClient(commands[c])
<1> DEFINE packet == EncodeCommands(commands)
           command == commands[c]
           out == WrittenCommand(commands, command)
           Type(o, p) == ParameterType(commands, command.overloads[o][p])
<1>1. command.aliases \in Optional(Enum)
  <2>1. command \in Command
    OBVIOUS
  <2> QED
    BY <2>1 DEF Command
<1>2. /\ out.name = command.name
      /\ out.aliases = IF command.aliases = <<>> THEN -1 ELSE IndexOf(EnumNames(commands), command.aliases[1].name)
      /\ out.overloads = [o \in DOMAIN command.overloads |-> [p \in DOMAIN command.overloads[o] |-> Type(o, p)]]
  BY DEF WrittenCommand
<1>3. (IF out.aliases = -1 THEN <<>> ELSE <<ResolvedEnum(packet, out.aliases)>>) = command.aliases
  <2>1. CASE command.aliases = <<>>
    BY <1>2, <2>1
  <2>2. CASE command.aliases # <<>>
    <3> DEFINE e == EnumAt(commands, <<c, 0, 0, 0>>)
               i == IndexOf(EnumNames(commands), e.name)
    <3>1. <<c, 0, 0, 0>> \in EnumPlaces(commands) /\ command.aliases = <<e>>
      BY <2>2, EnumsAreMet
    <3>2. i \in Nat /\ ResolvedEnum(packet, i) = e
      BY <3>1, EnumIsResolved
    <3>3. command.aliases[1] = e
      <4> HIDE DEF e, command
      <4> QED
        BY <3>1
    <3>4. out.aliases = i
      <4> HIDE DEF e, command, out
      <4> QED
        BY <1>2, <2>2, <3>3
    <3> HIDE DEF e, i, packet, out, command
    <3>5. out.aliases # -1
      BY <3>2, <3>4
    <3> QED
      BY <3>1, <3>2, <3>4, <3>5
  <2> QED
    BY <2>1, <2>2
<1>4. \A o \in DOMAIN command.overloads : \A p \in DOMAIN command.overloads[o] :
          ResolvedParameter(packet, Type(o, p)) = Shown(command.overloads[o][p])
  <2> SUFFICES ASSUME NEW o \in DOMAIN command.overloads, NEW p \in DOMAIN command.overloads[o]
               PROVE  ResolvedParameter(packet, Type(o, p)) = Shown(command.overloads[o][p])
    OBVIOUS
  <2>1. /\ <<c, o, p, 0>> \in ParameterPlaces(commands)
        /\ ParameterAt(commands, <<c, o, p, 0>>) = command.overloads[o][p]
    BY ParametersAreMet
  <2>2. ResolvedParameter(packet, ParameterType(commands, ParameterAt(commands, <<c, o, p, 0>>)))
           = Shown(ParameterAt(commands, <<c, o, p, 0>>))
    BY <2>1, ParameterIsResolved
  <2> HIDE DEF packet, command
  <2> QED
    BY <2>1, <2>2
<1>5. ResolvedCommand(packet, out)
         = [name |-> out.name,
            aliases |-> IF out.aliases = -1 THEN <<>> ELSE <<ResolvedEnum(packet, out.aliases)>>,
            overloads |-> [o \in DOMAIN out.overloads |->
                              [p \in DOMAIN out.overloads[o] |-> ResolvedParameter(packet, out.overloads[o][p])]]]
  BY DEF ResolvedCommand
<1> HIDE DEF packet, command, out, Type
<1>6. [o \in DOMAIN out.overloads |-> [p \in DOMAIN out.overloads[o] |-> ResolvedParameter(packet, out.overloads[o][p])]]
         = [o \in DOMAIN command.overloads |->
               [p \in DOMAIN command.overloads[o] |-> Shown(command.overloads[o][p])]]
  BY <1>2, <1>4
<1>7. ResolvedCommand(packet, out) = ForClient(command)
  BY <1>2, <1>3, <1>5, <1>6 DEF ForClient
<1> QED
  BY <1>7 DEF packet, command, out

\* What was written and resolved belongs to the commands there were.
CommandInv ==
    /\ commandData \in CommandLists
    /\ written # <<>> => written = <<EncodeCommands(commandData)>>
    /\ CommandsResolve

\* However many commands share enums, values and postfixes, and in whatever order
\* they come, the client resolves every reference to what the command was
\* registered with, as long as no two enums of one name differ
\* (AvailableCommandsPacket.encodePayload).
THEOREM CommandsCorrect == CommandSpec => []CommandsResolve
<1>1. CommandInit => CommandInv
  BY DEF CommandInit, CommandInv, CommandsResolve
<1>2. CommandInv /\ [CommandNext]_commandVars => CommandInv'
  <2> SUFFICES ASSUME CommandInv, [CommandNext]_commandVars PROVE CommandInv'
    OBVIOUS
  <2>1. CASE EncodeAvailableCommands
    BY <2>1 DEF EncodeAvailableCommands, CommandInv, CommandsResolve
  <2>2. CASE ResolveAvailableCommands
    <3>1. /\ written = <<EncodeCommands(commandData)>>
          /\ commandData' = commandData /\ written' = written
          /\ resolved' = <<DecodeCommands(written[1])>>
      BY <2>2 DEF ResolveAvailableCommands, CommandInv
    <3>2. commandData \in Seq(Command)
      BY CommandAssumption DEF CommandInv
    <3>3. ASSUME OneEnumPerName(commandData)
          PROVE  resolved'[1] = [i \in DOMAIN commandData |-> ForClient(commandData[i])]
      <4> DEFINE packet == EncodeCommands(commandData)
      <4>1. /\ DecodeCommands(packet) = [i \in DOMAIN packet.commands |-> ResolvedCommand(packet, packet.commands[i])]
            /\ packet.commands = [i \in DOMAIN commandData |-> WrittenCommand(commandData, commandData[i])]
        BY DEF DecodeCommands, EncodeCommands
      <4>2. \A i \in DOMAIN commandData :
                ResolvedCommand(packet, WrittenCommand(commandData, commandData[i])) = ForClient(commandData[i])
        BY <3>2, <3>3, CommandIsResolved
      <4>3. resolved'[1] = DecodeCommands(packet)
        BY <3>1
      <4> HIDE DEF packet
      <4> QED
        BY <4>1, <4>2, <4>3
    <3>4. ASSUME NEW i \in DOMAIN commandData
          PROVE  ForClient(commandData[i])
                    = [commandData[i] EXCEPT !.overloads = [o \in DOMAIN @ |-> [p \in DOMAIN @[o] |-> Shown(@[o][p])]]]
      <4> DEFINE command == commandData[i]
                 shown == [o \in DOMAIN command.overloads |->
                              [p \in DOMAIN command.overloads[o] |-> Shown(command.overloads[o][p])]]
      <4>1. command \in Command
        BY <3>2
      <4> HIDE DEF command
      <4>2. command = [name |-> command.name, aliases |-> command.aliases, overloads |-> command.overloads]
        BY <4>1 DEF Command
      <4>3. ForClient(command) = [name |-> command.name, aliases |-> command.aliases, overloads |-> shown]
        BY DEF ForClient
      <4> HIDE DEF shown
      <4>4. [command EXCEPT !.overloads = shown] = [name |-> command.name, aliases |-> command.aliases, overloads |-> shown]
        BY <4>2
      <4> QED
        BY <4>3, <4>4 DEF command, shown
    <3>5. CommandsResolve'
      <4>1. OneEnumPerName(commandData)' <=> OneEnumPerName(commandData)
        BY <3>1 DEF OneEnumPerName
      <4> HIDE DEF OneEnumPerName
      <4> QED
        BY <3>1, <3>3, <3>4, <4>1 DEF CommandsResolve
    <3> QED
      BY <3>1, <3>5 DEF CommandInv
  <2>3. CASE UNCHANGED commandVars
    BY <2>3 DEF commandVars, CommandInv, CommandsResolve
  <2> QED
    BY <2>1, <2>2, <2>3 DEF CommandNext
<1>3. CommandInv => CommandsResolve
  BY DEF CommandInv
<1> QED
  BY <1>1, <1>2, <1>3, PTL DEF CommandSpec

-----------------------------------------------------------------------------
(* Trees of NBT tags.                                                      *)

\* A sequence, of whatever elements.
IsSeq(s) == Len(s) \in Nat /\ s = [i \in 1 .. Len(s) |-> s[i]]

Frames == [tag : Tags, at : Nat \ {0}]
Parts == [name : STRING, tag : Tags]

\* The calls of the writer: each but the last is at a container, in which the
\* next one is, and all but the first have been met.
Nested(root, calls, tags) ==
    /\ \A d \in DOMAIN calls :
           /\ calls[d].tag.type \in Containers /\ calls[d].at <= Len(calls[d].tag.parts) + 1
           /\ d = 1 => calls[d].tag = root
           /\ d # 1 => calls[d].tag \in tags
    /\ \A d \in DOMAIN calls : d # Len(calls) =>
           /\ calls[d].tag.type = "compound"
           /\ ~AtEnd(calls[d]) /\ Current(calls[d]).tag = calls[d + 1].tag

\* Where the writer is between two steps.
Configurations == [calls : Seq(Frames), position : Nat, met : SUBSET Tags]

\* What a step of the writer makes of its calls.
After(calls) ==
    LET f == Last(calls)
    IN  IF AtEnd(f) THEN Returned(calls)
        ELSE IF Enters(f) THEN Append(calls, Frame(Current(f).tag)) ELSE Advanced(calls)

\* The tokens of a step are in the output, from where the step began.
Stepped(tokens, c, d) ==
    LET f == Last(c.calls)
    IN  /\ c.calls # <<>> /\ ~Throws(f)
        /\ d.calls = After(c.calls)
        /\ d.met = c.met \cup Meets(f)
        /\ d.position = c.position + Len(Emitted(f))
        /\ \A i \in 1 .. Len(Emitted(f)) : tokens[c.position + i] = Emitted(f)[i]

TrailType ==
    /\ tree \in Trees
    /\ IsSeq(output)
    /\ trail \in Seq(Configurations)

\* Each place on the trail leads to the next by the step of the writer.
TrailSteps ==
    /\ \A k \in DOMAIN trail :
           /\ Nested(tree, trail[k].calls, trail[k].met)
           /\ trail[k].position <= Len(output) /\ trail[k].met \subseteq met
    /\ \A k \in DOMAIN trail : k # Len(trail) => Stepped(output, trail[k], trail[k + 1])

TrailStart ==
    trail # <<>> =>
        /\ trail[1] = [calls |-> <<Frame(tree)>>, position |-> 2, met |-> {}]
        /\ Len(output) >= 2
        /\ output[1] = [kind |-> "tag", value |-> "compound"] /\ output[2] = [kind |-> "string", value |-> ""]

TrailEnd == trail # <<>> => trail[Len(trail)] = [calls |-> writing, position |-> Len(output), met |-> met]

\* What the stage says of the trail and of the calls of the writer.
StageInv ==
    /\ nbtStage \in {"start", "writing", "thrown", "written", "reading", "outOfStep", "read"}
    /\ nbtStage = "start" <=> trail = <<>>
    /\ nbtStage = "start" => output = <<>> /\ met = {}
    /\ nbtStage \in {"writing", "thrown"} => writing # <<>>
    /\ nbtStage \in {"written", "reading", "outOfStep", "read"} => writing = <<>>

TrailInv == TrailType /\ TrailSteps /\ TrailStart /\ TrailEnd /\ StageInv

\* A call of the reader has what a call of the writer had written.
Follows(r, c) ==
    /\ r = [type |-> r.type, name |-> r.name, parts |-> r.parts, of |-> r.of, count |-> r.count]
    /\ r.type = c.tag.type
    /\ IsSeq(r.parts) /\ Len(r.parts) = c.at - 1
    /\ \A i \in 1 .. c.at - 1 : r.parts[i].name = c.tag.parts[i].name
    /\ r.type = "list" => r.count = Len(c.tag.parts) /\ (c.tag.parts # <<>> => r.of = "intArray")

Equals(r, c) ==
    /\ \A i \in 1 .. c.at - 1 : r.parts[i] = c.tag.parts[i]
    /\ r.type = "list" => \A i \in c.at .. Len(c.tag.parts) : c.tag.parts[i].tag.type = "intArray"

\* The reader is where the writer was, with equal parts if all tags so far
\* were kept.
Aligned(calls, frames) ==
    /\ IsSeq(calls) /\ Len(calls) = Len(frames)
    /\ \A d \in 1 .. Len(frames) :
           Follows(calls[d], frames[d]) /\ (d # 1 => calls[d].name = Current(frames[d - 1]).name)

Same(calls, frames) == \A d \in 1 .. Len(frames) : Equals(calls[d], frames[d])

Matches(calls, n, c) ==
    /\ n = c.position
    /\ Aligned(calls, c.calls)
    /\ (\A t \in c.met : Kept(t)) <=> Same(calls, c.calls)

\* The reader is at a place of the trail; a tree that stopped the writer
\* or the reader has a tag that is not kept.
ReaderInv ==
    /\ nbtStage = "reading" => \E k \in DOMAIN trail : k # Len(trail) /\ Matches(reading, position, trail[k])
    /\ nbtStage \in {"thrown", "outOfStep"} => \E t \in met : ~Kept(t)
    /\ nbtStage = "read" => position = Len(output) /\ ((\A t \in met : Kept(t)) <=> parsed = tree.parts)

NbtInv == TrailInv /\ ReaderInv

-----------------------------------------------------------------------------

\* Sequences of elements of any kind: joined, extended, shortened and changed.
LEMMA SeqIsSeq ==
    ASSUME NEW S, NEW s \in Seq(S)
    PROVE  IsSeq(s)
BY DEF IsSeq

\* Two sequences of one length that agree at every index are equal.
LEMMA SameSeq ==
    ASSUME NEW s, NEW t, IsSeq(s), IsSeq(t), Len(s) = Len(t), \A i \in 1 .. Len(s) : s[i] = t[i]
    PROVE  s = t
BY DEF IsSeq

\* The length and the entries of a concatenation.
LEMMA JoinedSeq ==
    ASSUME NEW s, NEW t, IsSeq(s), IsSeq(t)
    PROVE  /\ IsSeq(s \o t) /\ Len(s \o t) = Len(s) + Len(t)
           /\ \A i \in 1 .. Len(s) : (s \o t)[i] = s[i]
           /\ \A i \in 1 .. Len(t) : (s \o t)[Len(s) + i] = t[i]
<1> DEFINE S == {s[i] : i \in 1 .. Len(s)} \cup {t[i] : i \in 1 .. Len(t)}
<1>1. s \in Seq(S) /\ t \in Seq(S)
  BY DEF IsSeq
<1> HIDE DEF S
<1>2. /\ s \o t \in Seq(S) /\ Len(s \o t) = Len(s) + Len(t)
      /\ \A i \in 1 .. Len(s) + Len(t) : (s \o t)[i] = IF i <= Len(s) THEN s[i] ELSE t[i - Len(s)]
  BY <1>1, ConcatProperties
<1>3. IsSeq(s \o t)
  BY <1>2, SeqIsSeq
<1>4. Len(s) \in Nat /\ Len(t) \in Nat
  BY DEF IsSeq
<1>5. ASSUME NEW i \in 1 .. Len(s) PROVE (s \o t)[i] = s[i]
  BY <1>2, <1>4
<1>6. ASSUME NEW i \in 1 .. Len(t) PROVE (s \o t)[Len(s) + i] = t[i]
  <2>1. Len(s) + i \in 1 .. Len(s) + Len(t) /\ ~(Len(s) + i <= Len(s)) /\ Len(s) + i - Len(s) = i
    BY <1>4
  <2> QED
    BY <1>2, <2>1
<1> QED
  BY <1>2, <1>3, <1>5, <1>6

\* The length and the entries of a sequence with one entry appended.
LEMMA AppendedSeq ==
    ASSUME NEW s, IsSeq(s), NEW x
    PROVE  /\ IsSeq(Append(s, x)) /\ Len(Append(s, x)) = Len(s) + 1
           /\ \A i \in 1 .. Len(s) : Append(s, x)[i] = s[i]
           /\ Append(s, x)[Len(s) + 1] = x
<1> DEFINE S == {s[i] : i \in 1 .. Len(s)} \cup {x}
<1>1. s \in Seq(S) /\ x \in S
  BY DEF IsSeq
<1> HIDE DEF S
<1>2. /\ Append(s, x) \in Seq(S) /\ Len(Append(s, x)) = Len(s) + 1
      /\ \A i \in 1 .. Len(s) : Append(s, x)[i] = s[i]
      /\ Append(s, x)[Len(s) + 1] = x
  BY <1>1, AppendProperties
<1> QED
  BY <1>2, SeqIsSeq

\* A sequence with one entry replaced keeps its length and its other entries.
LEMMA ChangedSeq ==
    ASSUME NEW s, IsSeq(s), NEW n \in 1 .. Len(s), NEW x
    PROVE  /\ IsSeq([s EXCEPT ![n] = x]) /\ Len([s EXCEPT ![n] = x]) = Len(s)
           /\ \A i \in 1 .. Len(s) : [s EXCEPT ![n] = x][i] = IF i = n THEN x ELSE s[i]
<1> DEFINE S == {s[i] : i \in 1 .. Len(s)} \cup {x}
<1>1. s \in Seq(S) /\ x \in S
  BY DEF IsSeq
<1> HIDE DEF S
<1> DEFINE t == [s EXCEPT ![n] = x]
<1>2. t \in Seq(S) /\ Len(t) = Len(s) /\ \A i \in 1 .. Len(s) : t[i] = IF i = n THEN x ELSE s[i]
  BY <1>1, ExceptSeq
<1> HIDE DEF t
<1>3. IsSeq(t)
  BY <1>2, SeqIsSeq
<1> QED
  BY <1>2, <1>3 DEF t

\* The length and the entries of a sequence without its last entry.
LEMMA FrontSeq ==
    ASSUME NEW s, IsSeq(s), s # <<>>
    PROVE  /\ IsSeq(Front(s)) /\ Len(Front(s)) = Len(s) - 1 /\ Len(s) \in Nat \ {0}
           /\ \A i \in 1 .. Len(s) - 1 : Front(s)[i] = s[i]
<1> DEFINE S == {s[i] : i \in 1 .. Len(s)}
<1>1. s \in Seq(S) /\ Len(s) \in Nat \ {0}
  BY DEF IsSeq
<1> HIDE DEF S
<1>2. Front(s) = [i \in 1 .. Len(s) - 1 |-> s[i]] /\ \A i \in 1 .. Len(s) - 1 : s[i] \in S
  BY <1>1 DEF Front
<1> DEFINE n == Len(s) - 1
<1>3. n \in Nat
  BY <1>1
<1>4. Front(s) \in [1 .. n -> S]
  BY <1>2
<1> HIDE DEF n
<1>5. Front(s) \in Seq(S) /\ Len(Front(s)) = n
  BY <1>3, <1>4
<1> QED
  BY <1>1, <1>2, <1>5, SeqIsSeq DEF n

\* Tokens, as the writer joins them.
LEMMA WriteFacts ==
    ASSUME NEW kind, NEW value
    PROVE  IsSeq(Write(kind, value)) /\ Len(Write(kind, value)) = 1 /\ Write(kind, value)[1] = [kind |-> kind, value |-> value]
<1> DEFINE x == [kind |-> kind, value |-> value]
<1>1. Write(kind, value) = <<x>>
  BY DEF Write
<1> HIDE DEF x
<1>2. IsSeq(<<x>>) /\ Len(<<x>>) = 1 /\ <<x>>[1] = x
  BY DEF IsSeq
<1> QED
  BY <1>1, <1>2 DEF x

\* Two writes in a row make a sequence of two tokens, in that order.
LEMMA TwoWrites ==
    ASSUME NEW kind, NEW value, NEW kind2, NEW value2
    PROVE  LET s == Write(kind, value) \o Write(kind2, value2)
           IN  /\ IsSeq(s) /\ Len(s) = 2
               /\ s[1] = [kind |-> kind, value |-> value] /\ s[2] = [kind |-> kind2, value |-> value2]
<1> DEFINE s == Write(kind, value)
           t == Write(kind2, value2)
<1>1. /\ IsSeq(s) /\ Len(s) = 1 /\ s[1] = [kind |-> kind, value |-> value]
      /\ IsSeq(t) /\ Len(t) = 1 /\ t[1] = [kind |-> kind2, value |-> value2]
  BY WriteFacts
<1> HIDE DEF s, t
<1>2. /\ IsSeq(s \o t) /\ Len(s \o t) = Len(s) + Len(t)
      /\ \A i \in 1 .. Len(s) : (s \o t)[i] = s[i]
      /\ \A i \in 1 .. Len(t) : (s \o t)[Len(s) + i] = t[i]
  BY <1>1, JoinedSeq
<1>3. (s \o t)[1] = s[1] /\ (s \o t)[1 + 1] = t[1]
  BY <1>1, <1>2
<1> QED
  BY <1>1, <1>2, <1>3 DEF s, t

\* A sequence of one entry.
LEMMA Singleton ==
    ASSUME NEW S, NEW x \in S
    PROVE  <<x>> \in Seq(S) /\ <<x>> # <<>> /\ Len(<<x>>) = 1 /\ DOMAIN <<x>> = {1} /\ <<x>>[1] = x
OBVIOUS

\* The empty sequence is one too.
LEMMA EmptyIsSeq == IsSeq(<<>>) /\ Len(<<>>) = 0
BY DEF IsSeq

\* A tag among Tags is a scalar, an array of numbers or a container of tags.
LEMMA TagFacts ==
    ASSUME NEW t \in Tags
    PROVE  /\ t.type \in Scalars \cup Arrays \cup Containers
           /\ t.parts \in Seq(Parts)
           /\ t.type \in Scalars \cup Arrays => t = Tag(t.type, t.numbers) /\ t.parts = <<>>
           /\ t.type \in Arrays => t.numbers \in Seq(Int)
           /\ t.type \in Containers => t = Container(t.type, t.parts)
           /\ t.type = "compound" => \A i, j \in DOMAIN t.parts : t.parts[i].name = t.parts[j].name => i = j
           /\ t.type = "list" => \A i \in DOMAIN t.parts : t.parts[i].name = ""
<1>1. IsTag(t, Tags)
  BY TagsAssumption
<1>2. t.type \in Scalars \cup Arrays => t = Tag(t.type, t.numbers)
  BY <1>1 DEF IsTag, Scalars, Arrays, Containers
<1>3. t.type \in Scalars \cup Arrays => t.parts = <<>>
  BY <1>2 DEF Tag
<1>4. t.type \in Containers => t = Container(t.type, t.parts)
  BY <1>1 DEF IsTag, Scalars, Arrays, Containers
<1> QED
  BY <1>1, <1>2, <1>3, <1>4 DEF IsTag, Parts, Scalars, Arrays, Containers

\* A call that is not at the end of its tag is at a part of it.
LEMMA FrameFacts ==
    ASSUME NEW f \in Frames
    PROVE  /\ f.tag \in Tags /\ f.at \in Nat \ {0} /\ f.tag.parts \in Seq(Parts) /\ Len(f.tag.parts) \in Nat
           /\ ~AtEnd(f) => f.at \in DOMAIN f.tag.parts /\ Current(f) \in Parts /\ Current(f).tag \in Tags /\ Current(f).name \in STRING
<1>1. f.tag \in Tags /\ f.at \in Nat \ {0}
  BY DEF Frames
<1>2. f.tag.parts \in Seq(Parts)
  BY <1>1, TagFacts
<1>3. ~AtEnd(f) => f.at \in DOMAIN f.tag.parts /\ Current(f) \in Parts
  <2>1. SUFFICES ASSUME ~AtEnd(f) PROVE f.at \in DOMAIN f.tag.parts /\ Current(f) \in Parts
    OBVIOUS
  <2>2. f.at \in 1 .. Len(f.tag.parts)
    BY <1>1, <1>2, <2>1 DEF AtEnd
  <2> QED
    BY <1>2, <2>2 DEF Current
<1> QED
  BY <1>1, <1>2, <1>3 DEF Parts

\* What a step writes, token by token.
LEMMA ValueOfTag ==
    ASSUME NEW t \in Tags
    PROVE  /\ IsSeq(WriteValue(t))
           /\ t.type \in Scalars =>
                  Len(WriteValue(t)) = 1 /\ WriteValue(t)[1] = [kind |-> t.type, value |-> t.numbers]
           /\ t.type = "byteArray" =>
                  /\ Len(WriteValue(t)) = 2
                  /\ WriteValue(t)[1] = [kind |-> "int", value |-> Len(t.numbers)]
                  /\ WriteValue(t)[2] = [kind |-> "bytes", value |-> t.numbers]
           /\ t.type = "intArray" =>
                  /\ Len(WriteValue(t)) = 1
                  /\ WriteValue(t)[1] = [kind |-> "int", value |-> IF Len(t.numbers) = 1 THEN t.numbers[1] ELSE 0]
           /\ t.type = "list" =>
                  /\ Len(WriteValue(t)) = 2
                  /\ WriteValue(t)[1] = [kind |-> "tag", value |-> IF t.parts = <<>> THEN "byte" ELSE "intArray"]
                  /\ WriteValue(t)[2] = [kind |-> "int", value |-> Len(t.parts)]
           /\ t.type = "compound" => Len(WriteValue(t)) = 0
<1>1. CASE t.type \in Scalars
  <2>1. WriteValue(t) = Write(t.type, t.numbers)
    BY <1>1 DEF WriteValue, Scalars
  <2> QED
    BY <1>1, <2>1, WriteFacts DEF Scalars
<1>2. CASE t.type = "byteArray"
  <2>1. WriteValue(t) = Write("int", Len(t.numbers)) \o Write("bytes", t.numbers)
    BY <1>2 DEF WriteValue, Scalars, WriteByteArrayValue
  <2> QED
    BY <1>2, <2>1, TwoWrites DEF Scalars
<1>3. CASE t.type = "intArray"
  <2>1. WriteValue(t) = Write("int", IF Len(t.numbers) = 1 THEN t.numbers[1] ELSE 0)
    BY <1>3 DEF WriteValue, Scalars, WriteArrayAsInteger
  <2> QED
    BY <1>3, <2>1, WriteFacts DEF Scalars
<1>4. CASE t.type = "list"
  <2>1. WriteValue(t) = WriteListValue(t.parts)
    BY <1>4 DEF WriteValue, Scalars
  <2>2. t.parts = <<>> => Len(t.parts) = 0
    BY EmptyIsSeq
  <2>3. WriteValue(t) = Write("tag", IF t.parts = <<>> THEN "byte" ELSE "intArray") \o Write("int", Len(t.parts))
    BY <2>1, <2>2 DEF WriteListValue
  <2> QED
    BY <1>4, <2>3, TwoWrites DEF Scalars
<1>5. CASE t.type = "compound"
  BY <1>5, EmptyIsSeq DEF WriteValue, Scalars
<1> QED
  BY <1>1, <1>2, <1>3, <1>4, <1>5, TagFacts DEF Arrays, Containers

\* A part of a compound is written as its type, its name, then its value.
LEMMA EmittedHeader ==
    ASSUME NEW f \in Frames, f.tag.type = "compound", ~AtEnd(f)
    PROVE  /\ IsSeq(Emitted(f)) /\ IsSeq(WriteValue(Current(f).tag))
           /\ Len(Emitted(f)) = 2 + Len(WriteValue(Current(f).tag))
           /\ Emitted(f)[1] = [kind |-> "tag", value |-> Current(f).tag.type]
           /\ Emitted(f)[2] = [kind |-> "string", value |-> Current(f).name]
           /\ \A i \in 1 .. Len(WriteValue(Current(f).tag)) : Emitted(f)[2 + i] = WriteValue(Current(f).tag)[i]
<1> DEFINE p == Current(f)
           h == WriteTagHeader(p.tag.type, p.name)
           v == WriteValue(p.tag)
<1>1. p.tag \in Tags
  BY FrameFacts
<1>2. Emitted(f) = h \o v
  BY DEF Emitted
<1>4. /\ IsSeq(h) /\ Len(h) = 2
      /\ h[1] = [kind |-> "tag", value |-> p.tag.type] /\ h[2] = [kind |-> "string", value |-> p.name]
  BY TwoWrites DEF WriteTagHeader
<1>5. IsSeq(v)
  BY <1>1, ValueOfTag
<1> HIDE DEF p, h, v
<1>8. IsSeq(h) /\ IsSeq(v)
  BY <1>4, <1>5
<1>6. /\ IsSeq(h \o v) /\ Len(h \o v) = Len(h) + Len(v)
      /\ \A i \in 1 .. Len(h) : (h \o v)[i] = h[i]
      /\ \A i \in 1 .. Len(v) : (h \o v)[Len(h) + i] = v[i]
  BY <1>8, JoinedSeq
<1>7. (h \o v)[1] = h[1] /\ (h \o v)[2] = h[2]
  BY <1>4, <1>6
<1> QED
  BY <1>2, <1>4, <1>5, <1>6, <1>7 DEF p, v

\* A compound that has written all its parts writes the end tag.
LEMMA EmittedEnd ==
    ASSUME NEW f \in Frames, f.tag.type = "compound", AtEnd(f)
    PROVE  IsSeq(Emitted(f)) /\ Len(Emitted(f)) = 1 /\ Emitted(f)[1] = [kind |-> "tag", value |-> "end"]
<1>1. Emitted(f) = Write("tag", "end")
  BY DEF Emitted
<1> QED
  BY <1>1, WriteFacts

\* An int array in a list is written as its length, then its numbers.
LEMMA EmittedElement ==
    ASSUME NEW f \in Frames, f.tag.type = "list", ~AtEnd(f), ~Throws(f)
    PROVE  LET v == Current(f).tag.numbers
           IN  /\ v \in Seq(Int)
               /\ IsSeq(Emitted(f)) /\ Len(Emitted(f)) = 1 + Len(v)
               /\ Emitted(f)[1] = [kind |-> "int", value |-> Len(v)]
               /\ \A i \in 1 .. Len(v) : Emitted(f)[1 + i] = [kind |-> "int", value |-> v[i]]
<1> DEFINE v == Current(f).tag.numbers
           h == Write("int", Len(v))
           w == [i \in DOMAIN v |-> [kind |-> "int", value |-> v[i]]]
<1>1. v \in Seq(Int)
  BY FrameFacts, TagFacts DEF Throws
<1>2. Emitted(f) = h \o w
  BY DEF Emitted, WriteIntegerArrayValue
<1>3. IsSeq(h) /\ Len(h) = 1 /\ h[1] = [kind |-> "int", value |-> Len(v)]
  BY WriteFacts
<1> HIDE DEF v
<1>4. IsSeq(w) /\ Len(w) = Len(v) /\ \A i \in 1 .. Len(v) : w[i] = [kind |-> "int", value |-> v[i]]
  BY <1>1 DEF IsSeq
<1> HIDE DEF h, w
<1>7. IsSeq(h) /\ IsSeq(w)
  BY <1>3, <1>4
<1>5. /\ IsSeq(h \o w) /\ Len(h \o w) = Len(h) + Len(w)
      /\ \A i \in 1 .. Len(h) : (h \o w)[i] = h[i]
      /\ \A i \in 1 .. Len(w) : (h \o w)[Len(h) + i] = w[i]
  BY <1>7, JoinedSeq
<1>6. (h \o w)[1] = h[1]
  BY <1>3, <1>5
<1> QED
  BY <1>1, <1>2, <1>3, <1>4, <1>5, <1>6 DEF v

\* What the writer writes in one step is a sequence of tokens.
LEMMA EmittedIsSeq ==
    ASSUME NEW f \in Frames, f.tag.type \in Containers, ~Throws(f)
    PROVE  IsSeq(Emitted(f)) /\ Len(Emitted(f)) \in Nat
<1>1. IsSeq(Emitted(f))
  <2>1. CASE f.tag.type = "list" /\ AtEnd(f)
    BY <2>1, EmptyIsSeq DEF Emitted
  <2> QED
    BY <2>1, EmittedHeader, EmittedEnd, EmittedElement DEF Containers
<1> QED
  BY <1>1 DEF IsSeq

\* The next part of the innermost call.
LEMMA AdvancedFacts ==
    ASSUME NEW calls \in Seq(Frames), calls # <<>>
    PROVE  /\ Advanced(calls) \in Seq(Frames) /\ Len(Advanced(calls)) = Len(calls) /\ Len(calls) \in Nat \ {0}
           /\ \A d \in 1 .. Len(calls) :
                  Advanced(calls)[d] = IF d = Len(calls) THEN [tag |-> calls[d].tag, at |-> calls[d].at + 1] ELSE calls[d]
<1> DEFINE n == Len(calls)
           x == [calls[n] EXCEPT !.at = @ + 1]
<1>1. n \in Nat \ {0}
  OBVIOUS
<1>2. calls[n] \in Frames
  BY <1>1
<1>3. x = [tag |-> calls[n].tag, at |-> calls[n].at + 1] /\ x \in Frames
  BY <1>2 DEF Frames
<1>4. Advanced(calls) = [calls EXCEPT ![n] = x]
  BY DEF Advanced
<1> HIDE DEF x
<1>5. /\ [calls EXCEPT ![n] = x] \in Seq(Frames) /\ Len([calls EXCEPT ![n] = x]) = n
      /\ \A d \in 1 .. n : [calls EXCEPT ![n] = x][d] = IF d = n THEN x ELSE calls[d]
  BY <1>1, <1>3, ExceptSeq
<1> QED
  BY <1>1, <1>3, <1>4, <1>5

\* Moving the innermost call to its next part keeps the calls nested.
LEMMA AdvancedNested ==
    ASSUME NEW root, NEW tags, NEW calls \in Seq(Frames), calls # <<>>, Nested(root, calls, tags), ~AtEnd(Last(calls))
    PROVE  Nested(root, Advanced(calls), tags)
<1> DEFINE a == Advanced(calls)
           n == Len(calls)
<1>1. /\ a \in Seq(Frames) /\ Len(a) = n /\ n \in Nat \ {0}
      /\ \A d \in 1 .. n : a[d] = IF d = n THEN [tag |-> calls[d].tag, at |-> calls[d].at + 1] ELSE calls[d]
  BY AdvancedFacts
<1> HIDE DEF a
<1>2. ASSUME NEW d \in 1 .. n PROVE a[d].tag = calls[d].tag
  <2>1. CASE d = n
    <3>1. a[d] = [tag |-> calls[d].tag, at |-> calls[d].at + 1]
      BY <1>1, <2>1
    <3> QED
      BY <3>1
  <2>2. CASE d # n
    BY <1>1, <2>2
  <2> QED
    BY <2>1, <2>2
<1>3. ASSUME NEW d \in DOMAIN a
      PROVE  /\ a[d].tag.type \in Containers /\ a[d].at <= Len(a[d].tag.parts) + 1
             /\ d = 1 => a[d].tag = root
             /\ d # 1 => a[d].tag \in tags
  <2>1. d \in 1 .. n /\ d \in DOMAIN calls
    BY <1>1
  <2>2. d # n => a[d] = calls[d]
    BY <1>1, <2>1
  <2>3. d = n => a[d].at <= Len(a[d].tag.parts) + 1
    <3>1. SUFFICES ASSUME d = n PROVE a[d].at <= Len(a[d].tag.parts) + 1
      OBVIOUS
    <3>4. a[d] = [tag |-> calls[n].tag, at |-> calls[n].at + 1]
      BY <1>1, <2>1, <3>1
    <3>2. calls[n] \in Frames /\ a[d].at = calls[n].at + 1 /\ a[d].tag = calls[n].tag
      BY <1>1, <3>4
    <3>3. ~(calls[n].at > Len(calls[n].tag.parts))
      BY DEF Last, AtEnd
    <3> QED
      BY <3>2, <3>3, FrameFacts
  <2> QED
    BY <1>2, <2>1, <2>2, <2>3 DEF Nested
<1>4. ASSUME NEW d \in DOMAIN a, d # Len(a)
      PROVE  a[d].tag.type = "compound" /\ ~AtEnd(a[d]) /\ Current(a[d]).tag = a[d + 1].tag
  <2>1. d \in 1 .. n /\ d + 1 \in 1 .. n /\ d # n /\ d \in DOMAIN calls
    BY <1>1, <1>4
  <2>2. a[d] = calls[d] /\ a[d + 1].tag = calls[d + 1].tag
    BY <1>1, <1>2, <2>1
  <2> QED
    BY <2>1, <2>2 DEF Nested
<1>5. Nested(root, a, tags)
  BY <1>3, <1>4 DEF Nested
<1> QED
  BY <1>5 DEF a

\* Returning from the innermost call keeps the calls nested, with a part left to finish.
LEMMA FrontNested ==
    ASSUME NEW root, NEW tags, NEW calls \in Seq(Frames), Nested(root, calls, tags), Len(calls) > 1
    PROVE  /\ Front(calls) \in Seq(Frames) /\ Front(calls) # <<>> /\ Len(Front(calls)) = Len(calls) - 1
           /\ \A d \in 1 .. Len(calls) - 1 : Front(calls)[d] = calls[d]
           /\ Nested(root, Front(calls), tags)
           /\ Last(Front(calls)) = calls[Len(calls) - 1] /\ ~AtEnd(Last(Front(calls)))
<1> DEFINE s == Front(calls)
           n == Len(calls) - 1
<1>1. n \in Nat \ {0} /\ Len(calls) = n + 1 /\ calls # <<>>
  <2>1. Len(calls) \in Nat
    OBVIOUS
  <2>2. calls # <<>>
    BY EmptyIsSeq
  <2>3. n \in Nat \ {0} /\ Len(calls) = n + 1
    <3>1. \A k \in Nat : k > 1 => k - 1 \in Nat \ {0} /\ k = k - 1 + 1
      OBVIOUS
    <3> QED
      BY <2>1, <3>1
  <2> QED
    BY <2>2, <2>3
<1>2. IsSeq(s) /\ Len(s) = n /\ \A d \in 1 .. n : s[d] = calls[d]
  BY <1>1, SeqIsSeq, FrontSeq
<1>3. s \in Seq(Frames)
  <2>1. \A d \in 1 .. n : s[d] \in Frames
    BY <1>1, <1>2
  <2> HIDE DEF s, n
  <2> QED
    BY <1>1, <1>2, <2>1 DEF IsSeq
<1> HIDE DEF s
<1>4. s # <<>>
  BY <1>1, <1>2, EmptyIsSeq
<1>5. Nested(root, s, tags)
  <2>1. DOMAIN s = 1 .. n /\ DOMAIN calls = 1 .. n + 1
    BY <1>1, <1>2, <1>3
  <2>2. ASSUME NEW d \in DOMAIN s
        PROVE  /\ s[d].tag.type \in Containers /\ s[d].at <= Len(s[d].tag.parts) + 1
               /\ d = 1 => s[d].tag = root
               /\ d # 1 => s[d].tag \in tags
    BY <1>1, <1>2, <2>1 DEF Nested
  <2>3. ASSUME NEW d \in DOMAIN s, d # Len(s)
        PROVE  s[d].tag.type = "compound" /\ ~AtEnd(s[d]) /\ Current(s[d]).tag = s[d + 1].tag
    <3>1. d \in 1 .. n /\ d + 1 \in 1 .. n /\ d \in DOMAIN calls /\ d # Len(calls)
      BY <1>1, <1>2, <2>1, <2>3
    <3>2. s[d] = calls[d] /\ s[d + 1] = calls[d + 1]
      BY <1>2, <3>1
    <3> QED
      BY <3>1, <3>2 DEF Nested
  <2> QED
    BY <2>2, <2>3 DEF Nested
<1>6. Last(s) = calls[n] /\ ~AtEnd(Last(s))
  <2>1. n \in DOMAIN calls /\ n # Len(calls) /\ n \in 1 .. n
    <3>1. DOMAIN calls = 1 .. n + 1
      BY <1>1
    <3> HIDE DEF n
    <3> QED
      BY <1>1, <3>1
  <2>2. Last(s) = calls[n]
    BY <1>2, <2>1 DEF Last
  <2> QED
    BY <2>1, <2>2 DEF Nested
<1> QED
  BY <1>2, <1>3, <1>4, <1>5, <1>6 DEF s

\* Entering a part that is a container keeps the calls nested.
LEMMA EnteredNested ==
    ASSUME NEW root, NEW tags, NEW calls \in Seq(Frames), calls # <<>>, Nested(root, calls, tags), Enters(Last(calls))
    PROVE  LET a == Append(calls, Frame(Current(Last(calls)).tag))
           IN  a \in Seq(Frames) /\ Nested(root, a, tags \cup Meets(Last(calls)))
<1> DEFINE n == Len(calls)
           f == Last(calls)
           x == Frame(Current(f).tag)
           a == Append(calls, x)
           m == tags \cup Meets(f)
<1>1. n \in Nat \ {0} /\ f = calls[n] /\ f \in Frames
  BY DEF Last
<1>2. f.tag.type = "compound" /\ ~AtEnd(f) /\ Current(f).tag.type \in Containers /\ Current(f).tag \in Tags
  BY <1>1, FrameFacts DEF Enters
<1>3. x \in Frames /\ x.tag = Current(f).tag /\ x.at = 1
  <2> DEFINE t == Current(f).tag
  <2>1. t \in Tags
    BY <1>2
  <2> HIDE DEF t
  <2>2. x = [tag |-> t, at |-> 1]
    BY DEF Frame, t
  <2> QED
    BY <2>1, <2>2 DEF Frames, t
<1>4. Len(Current(f).tag.parts) \in Nat
  <2> DEFINE t == Current(f).tag
  <2>1. t \in Tags
    BY <1>2
  <2> HIDE DEF t
  <2>2. t.parts \in Seq(Parts)
    BY <2>1, TagFacts
  <2>3. Len(t.parts) \in Nat
    BY <2>2
  <2> QED
    BY <2>3 DEF t
<1>5. x.tag \in m
  BY <1>2, <1>3 DEF Meets
<1> HIDE DEF f, x, m
<1>6. a \in Seq(Frames) /\ Len(a) = n + 1 /\ (\A d \in 1 .. n : a[d] = calls[d]) /\ a[n + 1] = x
  BY <1>3, AppendProperties
<1> HIDE DEF a
<1>7. DOMAIN a = 1 .. n + 1 /\ DOMAIN calls = 1 .. n
  BY <1>1, <1>6
<1>8. ASSUME NEW d \in DOMAIN a
      PROVE  /\ a[d].tag.type \in Containers /\ a[d].at <= Len(a[d].tag.parts) + 1
             /\ d = 1 => a[d].tag = root
             /\ d # 1 => a[d].tag \in m
  <2>1. CASE d = n + 1
    BY <1>1, <1>2, <1>3, <1>4, <1>5, <1>6, <2>1
  <2>2. CASE d \in 1 .. n
    BY <1>6, <1>7, <2>2 DEF Nested, m
  <2> QED
    BY <1>1, <1>7, <2>1, <2>2
<1>9. ASSUME NEW d \in DOMAIN a, d # Len(a)
      PROVE  a[d].tag.type = "compound" /\ ~AtEnd(a[d]) /\ Current(a[d]).tag = a[d + 1].tag
  <2>1. d \in 1 .. n /\ a[d] = calls[d]
    BY <1>1, <1>6, <1>7, <1>9
  <2>2. CASE d = n
    BY <1>1, <1>2, <1>3, <1>6, <2>1, <2>2
  <2>3. CASE d # n
    <3>1. d + 1 \in 1 .. n
      BY <1>1, <2>1, <2>3
    <3> QED
      BY <1>6, <1>7, <2>1, <2>3, <3>1 DEF Nested
  <2> QED
    BY <2>2, <2>3
<1>10. Nested(root, a, m)
  BY <1>8, <1>9 DEF Nested
<1> QED
  BY <1>6, <1>10 DEF a, x, f, m

\* Calls nested among some tags are nested among more of them.
LEMMA NestedMore ==
    ASSUME NEW root, NEW tags, NEW more, NEW calls, Nested(root, calls, tags), tags \subseteq more
    PROVE  Nested(root, calls, more)
BY DEF Nested

\* Whatever the writer does next, its calls stay nested.
LEMMA AfterNested ==
    ASSUME NEW root, NEW tags, NEW calls \in Seq(Frames), calls # <<>>, Nested(root, calls, tags)
    PROVE  After(calls) \in Seq(Frames) /\ Nested(root, After(calls), tags \cup Meets(Last(calls)))
<1> DEFINE f == Last(calls)
<1>1. CASE AtEnd(f) /\ Len(calls) = 1
  <2>1. After(calls) = <<>>
    BY <1>1 DEF After, Returned
  <2> QED
    BY <2>1 DEF Nested
<1>2. CASE AtEnd(f) /\ Len(calls) # 1
  <2>1. After(calls) = Advanced(Front(calls))
    BY <1>2 DEF After, Returned
  <2>2. Len(calls) > 1
    <3>1. Len(calls) \in Nat \ {0}
      OBVIOUS
    <3> QED
      BY <1>2, <3>1
  <2>3. Nested(root, Advanced(Front(calls)), tags) /\ Advanced(Front(calls)) \in Seq(Frames)
    BY <2>2, FrontNested, AdvancedNested, AdvancedFacts
  <2> QED
    BY <2>1, <2>3, NestedMore
<1>3. CASE Enters(f)
  <2>1. After(calls) = Append(calls, Frame(Current(f).tag))
    BY <1>3 DEF After, Enters
  <2> QED
    BY <1>3, <2>1, EnteredNested
<1>4. CASE ~AtEnd(f) /\ ~Enters(f)
  <2>1. After(calls) = Advanced(calls)
    BY <1>4 DEF After
  <2> QED
    BY <1>4, <2>1, AdvancedNested, AdvancedFacts, NestedMore
<1> QED
  BY <1>1, <1>2, <1>3, <1>4

\* The innermost call: its place is in range, and its tag is the root or one already met.
LEMMA LastFacts ==
    ASSUME NEW root, NEW tags, NEW calls \in Seq(Frames), calls # <<>>, Nested(root, calls, tags)
    PROVE  /\ Last(calls) \in Frames /\ Last(calls).tag.type \in Containers
           /\ Last(calls).at <= Len(Last(calls).tag.parts) + 1
           /\ Len(calls) = 1 => Last(calls).tag = root
           /\ Len(calls) # 1 => Last(calls).tag \in tags
           /\ Len(calls) \in Nat \ {0} /\ Last(calls) = calls[Len(calls)]
<1>1. Len(calls) \in Nat \ {0} /\ Len(calls) \in DOMAIN calls /\ calls[Len(calls)] \in Frames
  OBVIOUS
<1> QED
  BY <1>1 DEF Nested, Last

\* A step of the trail stays one when more tokens are written.
LEMMA SteppedGrows ==
    ASSUME NEW root, NEW c \in Configurations, NEW d \in Configurations, NEW tokens, NEW more,
           IsSeq(tokens), IsSeq(more), Nested(root, c.calls, c.met), Stepped(tokens, c, d), d.position <= Len(tokens)
    PROVE  Stepped(tokens \o more, c, d)
<1> DEFINE f == Last(c.calls)
           e == Emitted(f)
<1>1. c.calls \in Seq(Frames) /\ c.position \in Nat /\ d.position \in Nat
  BY DEF Configurations
<1>2. c.calls # <<>> /\ ~Throws(f)
  BY DEF Stepped
<1>3. f \in Frames /\ f.tag.type \in Containers
  BY <1>1, <1>2, LastFacts
<1>4. Len(e) \in Nat
  BY <1>2, <1>3, EmittedIsSeq
<1>5. d.position = c.position + Len(e) /\ \A i \in 1 .. Len(e) : tokens[c.position + i] = e[i]
  BY DEF Stepped
<1>6. Len(tokens) \in Nat /\ \A i \in 1 .. Len(tokens) : (tokens \o more)[i] = tokens[i]
  BY JoinedSeq DEF IsSeq
<1> HIDE DEF e
<1>7. ASSUME NEW i \in 1 .. Len(e) PROVE (tokens \o more)[c.position + i] = e[i]
  <2>1. c.position + i \in 1 .. Len(tokens)
    BY <1>1, <1>4, <1>5, <1>6
  <2> QED
    BY <1>5, <1>6, <2>1
<1> QED
  BY <1>7 DEF Stepped, e

\* The writer's state is the end of the trail.
LEMMA WritingFacts ==
    ASSUME TrailInv, trail # <<>>
    PROVE  /\ writing \in Seq(Frames) /\ met \in SUBSET Tags /\ Len(output) \in Nat
           /\ Nested(tree, writing, met)
           /\ Len(trail) \in Nat \ {0} /\ trail[Len(trail)] = [calls |-> writing, position |-> Len(output), met |-> met]
           /\ \A k \in 1 .. Len(trail) : trail[k] \in Configurations
<1>1. trail \in Seq(Configurations) /\ IsSeq(output)
  BY DEF TrailInv, TrailType
<1>2. Len(trail) \in Nat \ {0} /\ Len(trail) \in DOMAIN trail /\ DOMAIN trail = 1 .. Len(trail)
  BY <1>1
<1>3. trail[Len(trail)] = [calls |-> writing, position |-> Len(output), met |-> met]
  BY DEF TrailInv, TrailEnd
<1>4. \A k \in 1 .. Len(trail) : trail[k] \in Configurations
  BY <1>1, <1>2
<1> DEFINE c == trail[Len(trail)]
<1>5. c \in Configurations /\ c.calls = writing /\ c.met = met
  BY <1>2, <1>3, <1>4
<1>6. Nested(tree, c.calls, c.met)
  BY <1>2 DEF TrailInv, TrailSteps
<1> HIDE DEF c
<1>7. writing \in Seq(Frames) /\ met \in SUBSET Tags /\ Nested(tree, writing, met)
  BY <1>5, <1>6 DEF Configurations
<1>8. Len(output) \in Nat
  BY <1>1 DEF IsSeq
<1> QED
  BY <1>2, <1>3, <1>4, <1>7, <1>8

\* Every step of the writer extends the trail by one configuration.
LEMMA WriterStep ==
    ASSUME TrailInv, nbtStage = "writing", ~Throws(Last(writing)),
           Writes(Emitted(Last(writing)), After(writing), Meets(Last(writing))),
           nbtStage' \in {"writing", "written"}, nbtStage' = "writing" <=> After(writing) # <<>>
    PROVE  TrailInv'
<1> DEFINE f == Last(writing)
           e == Emitted(f)
           n == Len(trail)
           c == trail[n]
           x == [calls |-> writing', position |-> Len(output'), met |-> met']
<1>1. trail # <<>> /\ writing # <<>> /\ IsSeq(output) /\ trail \in Seq(Configurations) /\ tree \in Trees
  BY DEF TrailInv, TrailType, StageInv
<1>2. /\ writing \in Seq(Frames) /\ met \in SUBSET Tags /\ Len(output) \in Nat
      /\ Nested(tree, writing, met) /\ n \in Nat \ {0} /\ c = [calls |-> writing, position |-> Len(output), met |-> met]
      /\ \A k \in 1 .. n : trail[k] \in Configurations
  BY <1>1, WritingFacts
<1>3. f \in Frames /\ f.tag.type \in Containers
  BY <1>1, <1>2, LastFacts
<1>4. IsSeq(e) /\ Len(e) \in Nat
  BY <1>3, EmittedIsSeq
<1>5. output' = output \o e /\ writing' = After(writing) /\ met' = met \cup Meets(f) /\ tree' = tree
  BY DEF Writes
<1>6. trail' = Append(trail, x)
  BY DEF Writes
<1>7. /\ IsSeq(output') /\ Len(output') = Len(output) + Len(e)
      /\ \A i \in 1 .. Len(output) : output'[i] = output[i]
      /\ \A i \in 1 .. Len(e) : output'[Len(output) + i] = e[i]
  BY <1>1, <1>4, <1>5, JoinedSeq
<1>8. writing' \in Seq(Frames) /\ Nested(tree', writing', met')
  BY <1>1, <1>2, <1>5, AfterNested
<1>9. Meets(f) \subseteq Tags
  BY <1>3, FrameFacts DEF Meets
<1>10. x \in Configurations
  BY <1>2, <1>4, <1>5, <1>7, <1>8, <1>9 DEF Configurations
<1>11. Stepped(output', c, x)
  <2>1. c.calls = writing /\ c.position = Len(output) /\ c.met = met
    BY <1>2
  <2> HIDE DEF c
  <2> QED
    BY <1>1, <1>5, <1>7, <2>1 DEF Stepped
<1> HIDE DEF f, e, x
<1>12. /\ trail' \in Seq(Configurations) /\ Len(trail') = n + 1 /\ (\A k \in 1 .. n : trail'[k] = trail[k]) /\ trail'[n + 1] = x
       /\ DOMAIN trail' = 1 .. n + 1 /\ DOMAIN trail = 1 .. n
  BY <1>1, <1>2, <1>6, <1>10, AppendProperties
<1>13. x.calls = writing' /\ x.position = Len(output') /\ x.met = met'
  BY DEF x
<1>14. ASSUME NEW k \in DOMAIN trail'
       PROVE  /\ Nested(tree', trail'[k].calls, trail'[k].met)
              /\ trail'[k].position <= Len(output') /\ trail'[k].met \subseteq met'
  <2>1. CASE k = n + 1
    BY <1>2, <1>4, <1>7, <1>8, <1>12, <1>13, <2>1
  <2>2. CASE k \in 1 .. n
    <3>1. /\ Nested(tree, trail[k].calls, trail[k].met)
          /\ trail[k].position <= Len(output) /\ trail[k].met \subseteq met /\ trail[k].position \in Nat
      BY <1>2, <1>12, <2>2 DEF TrailInv, TrailSteps, Configurations
    <3> QED
      BY <1>2, <1>4, <1>5, <1>7, <1>12, <2>2, <3>1
  <2> QED
    BY <1>2, <1>12, <2>1, <2>2
<1>15. ASSUME NEW k \in DOMAIN trail', k # Len(trail')
       PROVE  Stepped(output', trail'[k], trail'[k + 1])
  <2>1. k \in 1 .. n
    BY <1>2, <1>12, <1>15
  <2>2. CASE k = n
    BY <1>11, <1>12, <2>1, <2>2
  <2>3. CASE k # n
    <3>1. k + 1 \in 1 .. n
      BY <1>2, <2>1, <2>3
    <3>2. Stepped(output, trail[k], trail[k + 1]) /\ Nested(tree, trail[k].calls, trail[k].met) /\ trail[k + 1].position <= Len(output)
      BY <1>12, <2>1, <2>3, <3>1 DEF TrailInv, TrailSteps
    <3>3. Stepped(output \o e, trail[k], trail[k + 1])
      BY <1>1, <1>2, <1>4, <2>1, <3>1, <3>2, SteppedGrows
    <3> QED
      BY <1>5, <1>12, <2>1, <3>1, <3>3
  <2> QED
    BY <2>2, <2>3
<1>16. trail' # <<>> /\ Last(trail') = x
  BY <1>2, <1>12, EmptyIsSeq DEF Last
<1>17. /\ trail'[1] = [calls |-> <<Frame(tree')>>, position |-> 2, met |-> {}]
       /\ Len(output') >= 2 /\ output'[1] = [kind |-> "tag", value |-> "compound"] /\ output'[2] = [kind |-> "string", value |-> ""]
  <2>1. /\ trail[1] = [calls |-> <<Frame(tree)>>, position |-> 2, met |-> {}]
        /\ Len(output) >= 2 /\ output[1] = [kind |-> "tag", value |-> "compound"] /\ output[2] = [kind |-> "string", value |-> ""]
    BY <1>1 DEF TrailInv, TrailStart
  <2>2. 1 \in 1 .. n
    BY <1>2
  <2>3. 1 \in 1 .. Len(output) /\ 2 \in 1 .. Len(output) /\ Len(output) + Len(e) >= 2
    <3>1. Len(output) \in Nat /\ Len(e) \in Nat /\ Len(output) >= 2
      BY <1>2, <1>4, <2>1
    <3> QED
      BY <3>1
  <2> QED
    BY <1>5, <1>7, <1>12, <2>1, <2>2, <2>3
<1>18. TrailType' /\ TrailSteps'
  BY <1>1, <1>5, <1>7, <1>12, <1>14, <1>15 DEF TrailType, TrailSteps
<1>19. TrailStart' /\ TrailEnd'
  BY <1>12, <1>16, <1>17 DEF TrailStart, TrailEnd, x
<1>20. StageInv'
  BY <1>5, <1>16 DEF StageInv
<1> QED
  BY <1>18, <1>19, <1>20 DEF TrailInv

\* Each action of the writer is a step of it.
LEMMA WriteCompoundTrail ==
    ASSUME TrailInv, WriteCompound
    PROVE  TrailInv'
<1> DEFINE h == WriteTagHeader("compound", "")
           x == [calls |-> <<Frame(tree)>>, position |-> 2, met |-> {}]
<1>1. tree \in Trees /\ trail = <<>> /\ output = <<>> /\ met = {}
  BY DEF TrailInv, TrailType, StageInv, WriteCompound
<1>2. tree \in Tags /\ tree.type = "compound" /\ Len(tree.parts) \in Nat
  <2>1. tree \in Tags /\ tree.type = "compound"
    BY <1>1, TreesAssumption
  <2>2. tree.parts \in Seq(Parts)
    BY <2>1, TagFacts
  <2> QED
    BY <2>1, <2>2
<1>3. IsSeq(h) /\ Len(h) = 2 /\ h[1] = [kind |-> "tag", value |-> "compound"] /\ h[2] = [kind |-> "string", value |-> ""]
  <2> DEFINE t == "compound"
             m == ""
  <2>1. h = Write("tag", t) \o Write("string", m)
    BY DEF WriteTagHeader
  <2> HIDE DEF h, t, m
  <2>2. IsSeq(h) /\ Len(h) = 2 /\ h[1] = [kind |-> "tag", value |-> t] /\ h[2] = [kind |-> "string", value |-> m]
    BY <2>1, TwoWrites
  <2> QED
    BY <2>2 DEF t, m
<1>4. IsSeq(output) /\ Len(output) = 0
  BY <1>1, EmptyIsSeq
<1>5. output' = output \o h /\ writing' = <<Frame(tree)>> /\ met' = {} /\ tree' = tree /\ nbtStage' = "writing"
  BY <1>1 DEF WriteCompound, Writes
<1> HIDE DEF h
<1>6. output' = h
  <2>1. IsSeq(h)
    BY <1>3
  <2>2. /\ IsSeq(output \o h) /\ Len(output \o h) = Len(output) + Len(h)
        /\ \A i \in 1 .. Len(h) : (output \o h)[Len(output) + i] = h[i]
    BY <1>4, <2>1, JoinedSeq
  <2>3. Len(output \o h) = 2
    <3>1. Len(output) = 0 /\ Len(h) = 2 /\ Len(output \o h) = Len(output) + Len(h)
      BY <1>3, <1>4, <2>2
    <3> QED
      BY <3>1
  <2>4. ASSUME NEW i \in 1 .. 2 PROVE (output \o h)[i] = h[i]
    <3>1. 0 + i = i
      OBVIOUS
    <3> QED
      BY <1>3, <1>4, <2>2, <3>1
  <2> QED
    BY <1>3, <1>5, <2>2, <2>3, <2>4, SameSeq
<1>7. trail' = <<x>>
  <2>1. trail' = Append(trail, [calls |-> writing', position |-> Len(output'), met |-> met'])
    BY DEF WriteCompound, Writes
  <2>2. [calls |-> writing', position |-> Len(output'), met |-> met'] = x
    BY <1>3, <1>5, <1>6
  <2> HIDE DEF x
  <2> QED
    BY <1>1, <2>1, <2>2
<1>8. Frame(tree) = [tag |-> tree, at |-> 1] /\ Frame(tree) \in Frames
  BY <1>2 DEF Frame, Frames
<1>9. x \in Configurations
  BY <1>8 DEF Configurations
<1> DEFINE calls == <<Frame(tree)>>
<1>10. Nested(tree, calls, {})
  <2>1. Len(calls) = 1 /\ DOMAIN calls = {1} /\ calls[1] = Frame(tree)
    OBVIOUS
  <2> HIDE DEF calls
  <2> QED
    BY <1>2, <1>8, <2>1 DEF Nested, Containers
<1>11. x.calls = calls /\ x.position = 2 /\ x.met = {}
  OBVIOUS
<1> HIDE DEF x, calls
<1>12. trail' \in Seq(Configurations) /\ trail' # <<>> /\ Len(trail') = 1 /\ DOMAIN trail' = {1} /\ trail'[1] = x
  BY <1>7, <1>9, Singleton
<1>13. TrailType'
  BY <1>1, <1>3, <1>5, <1>6, <1>12 DEF TrailType
<1>16. Nested(tree', trail'[1].calls, trail'[1].met) /\ trail'[1].position <= Len(output') /\ trail'[1].met \subseteq met'
  <2>1. trail'[1] = x /\ tree' = tree /\ met' = {} /\ Len(output') = 2
    BY <1>3, <1>5, <1>6, <1>12
  <2>2. Nested(tree', trail'[1].calls, trail'[1].met)
    BY <1>10, <1>11, <2>1
  <2>3. trail'[1].position <= Len(output')
    BY <1>11, <2>1
  <2>4. trail'[1].met \subseteq met'
    BY <1>11, <2>1
  <2> QED
    BY <2>2, <2>3, <2>4
<1>17. TrailSteps'
  <2>1. \A k \in DOMAIN trail' : k = 1 /\ k = Len(trail')
    BY <1>12
  <2> QED
    BY <1>16, <2>1 DEF TrailSteps
<1>18. x = [calls |-> <<Frame(tree)>>, position |-> 2, met |-> {}]
  BY DEF x
<1>14. TrailStart' /\ TrailEnd'
  <2>1. TrailStart'
    <3>1. Len(output') >= 2
      <4>1. Len(output') = 2
        BY <1>3, <1>6
      <4> QED
        BY <4>1
    <3> QED
      BY <1>3, <1>5, <1>6, <1>12, <1>18, <3>1 DEF TrailStart
  <2>2. Len(output') = 2
    BY <1>3, <1>6
  <2>3. trail'[Len(trail')] = x
    BY <1>12
  <2>4. TrailEnd'
    BY <1>5, <1>18, <2>2, <2>3 DEF TrailEnd
  <2> QED
    BY <2>1, <2>4
<1>15. StageInv'
  BY <1>5, <1>12 DEF StageInv
<1> QED
  BY <1>13, <1>14, <1>15, <1>17 DEF TrailInv

\* ... when it writes a scalar, an array or an element of a list.
LEMMA WritePartTrail ==
    ASSUME TrailInv, WritePart
    PROVE  TrailInv'
<1> DEFINE f == Last(writing)
<1>1. /\ nbtStage = "writing" /\ nbtStage' = "writing" /\ ~AtEnd(f) /\ ~Throws(f) /\ ~Enters(f)
      /\ Writes(Emitted(f), Advanced(writing), Meets(f))
  BY DEF WritePart
<1>2. trail # <<>> /\ writing # <<>>
  BY <1>1 DEF TrailInv, StageInv
<1>3. writing \in Seq(Frames)
  BY <1>2, WritingFacts
<1>4. Advanced(writing) # <<>> /\ After(writing) = Advanced(writing)
  BY <1>1, <1>2, <1>3, AdvancedFacts, EmptyIsSeq DEF After
<1> QED
  BY <1>1, <1>4, WriterStep

\* ... when it enters a container.
LEMMA EnterPartTrail ==
    ASSUME TrailInv, EnterPart
    PROVE  TrailInv'
<1> DEFINE f == Last(writing)
           a == Append(writing, Frame(Current(f).tag))
<1>1. nbtStage = "writing" /\ nbtStage' = "writing" /\ Enters(f) /\ Writes(Emitted(f), a, Meets(f))
  BY DEF EnterPart
<1>2. trail # <<>> /\ writing # <<>>
  BY <1>1 DEF TrailInv, StageInv
<1>3. writing \in Seq(Frames)
  BY <1>2, WritingFacts
<1>4. a # <<>>
  <2>1. IsSeq(writing)
    BY <1>3, SeqIsSeq
  <2>2. Len(a) = Len(writing) + 1
    BY <2>1, AppendedSeq
  <2>3. Len(writing) \in Nat
    BY <2>1 DEF IsSeq
  <2>4. Len(a) # 0
    BY <2>2, <2>3
  <2> HIDE DEF a
  <2> QED
    BY <2>4, EmptyIsSeq, Zenon
<1>5. After(writing) = a /\ ~Throws(f)
  BY <1>1 DEF After, Enters, Throws
<1> QED
  BY <1>1, <1>4, <1>5, WriterStep

\* ... when it leaves one.
LEMMA LeavePartTrail ==
    ASSUME TrailInv, LeavePart
    PROVE  TrailInv'
<1> DEFINE f == Last(writing)
<1>1. /\ nbtStage = "writing" /\ nbtStage' = (IF Len(writing) = 1 THEN "written" ELSE "writing")
      /\ AtEnd(f) /\ Writes(Emitted(f), Returned(writing), {})
  BY DEF LeavePart
<1>2. trail # <<>> /\ writing # <<>>
  BY <1>1 DEF TrailInv, StageInv
<1>3. writing \in Seq(Frames) /\ Nested(tree, writing, met)
  BY <1>2, WritingFacts
<1>4. After(writing) = Returned(writing) /\ ~Throws(f) /\ Meets(f) = {}
  BY <1>1 DEF After, Throws, Meets
<1>5. Returned(writing) = <<>> <=> Len(writing) = 1
  <2>1. CASE Len(writing) = 1
    BY <2>1 DEF Returned
  <2>2. CASE Len(writing) # 1
    <3>1. Len(writing) > 1
      <4>1. Len(writing) \in Nat \ {0}
        BY <1>2, <1>3
      <4>2. \A k \in Nat \ {0} : k # 1 => k > 1
        OBVIOUS
      <4> QED
        BY <2>2, <4>1, <4>2
    <3>2. Front(writing) \in Seq(Frames) /\ Front(writing) # <<>> /\ Len(Front(writing)) = Len(writing) - 1
      BY <1>3, <3>1, FrontNested
    <3>3. Len(Advanced(Front(writing))) # 0
      BY <3>2, AdvancedFacts
    <3> QED
      BY <2>2, <3>3, EmptyIsSeq DEF Returned
  <2> QED
    BY <2>1, <2>2
<1> QED
  BY <1>1, <1>4, <1>5, WriterStep

\* The writer's part of the state once it has stopped.
LEMMA StoppedTrail ==
    ASSUME TrailInv, UNCHANGED <<tree, writing, output, met, trail>>,
           \/ nbtStage = "writing" /\ nbtStage' = "thrown"
           \/ nbtStage \in {"written", "reading"} /\ nbtStage' \in {"reading", "outOfStep", "read"}
           \/ UNCHANGED nbtStage
    PROVE  TrailInv'
<1>1. TrailType' /\ TrailSteps' /\ TrailStart' /\ TrailEnd'
  BY DEF TrailInv, TrailType, TrailSteps, TrailStart, TrailEnd
<1>2. StageInv'
  BY DEF TrailInv, StageInv
<1> QED
  BY <1>1, <1>2 DEF TrailInv

\* The trail invariant is inductive.
LEMMA TrailStep == TrailInv /\ [NbtNext]_nbtVars => TrailInv'
<1> SUFFICES ASSUME TrailInv, [NbtNext]_nbtVars PROVE TrailInv'
  OBVIOUS
<1>1. CASE WriteCompound
  BY <1>1, WriteCompoundTrail
<1>2. CASE WritePart
  BY <1>2, WritePartTrail
<1>3. CASE EnterPart
  BY <1>3, EnterPartTrail
<1>4. CASE LeavePart
  BY <1>4, LeavePartTrail
<1>5. CASE ThrowAtPart
  BY <1>5, StoppedTrail DEF ThrowAtPart
<1>6. CASE Parse
  BY <1>6, StoppedTrail DEF Parse, Reads
<1>7. CASE ReadPart
  BY <1>7, StoppedTrail DEF ReadPart, Reads
<1>8. CASE ReadCompoundHead
  BY <1>8, StoppedTrail DEF ReadCompoundHead, Reads
<1>9. CASE ReadListHead
  BY <1>9, StoppedTrail DEF ReadListHead, Reads
<1>10. CASE ReadEnd
  BY <1>10, StoppedTrail DEF ReadEnd, Reads
<1>11. CASE FallOutOfStep
  BY <1>11, StoppedTrail DEF FallOutOfStep
<1>12. CASE UNCHANGED nbtVars
  BY <1>12, StoppedTrail DEF nbtVars
<1> QED
  BY <1>1, <1>2, <1>3, <1>4, <1>5, <1>6, <1>7, <1>8, <1>9, <1>10, <1>11, <1>12 DEF NbtNext

\* What was read goes to the place of the part that was written.
PartAdded(f, r, t, x, g) ==
    /\ Follows(x, g) /\ x.name = r.name
    /\ f.tag.type = "compound" => (Equals(x, g) <=> Equals(r, f) /\ t = Current(f).tag)
    /\ f.tag.type = "list" /\ ~Throws(f) /\ t = Tag("intArray", Current(f).tag.numbers) => (Equals(x, g) <=> Equals(r, f))

\* A container under construction follows the writer after one more part was added.
LEMMA AddedFollows ==
    ASSUME NEW f \in Frames, f.tag.type \in Containers, ~AtEnd(f), NEW r, Follows(r, f), NEW t,
           NEW x, x = WithPart(r, Current(f).name, t), NEW g, g = [tag |-> f.tag, at |-> f.at + 1]
    PROVE  PartAdded(f, r, t, x, g)
<1> DEFINE part == Part(Current(f).name, t)
           s == x.parts
           parts == f.tag.parts
           n == f.at
<1>1. /\ x = [type |-> r.type, name |-> r.name, parts |-> s, of |-> r.of, count |-> r.count]
      /\ IsSeq(s) /\ Len(s) = n /\ (\A i \in 1 .. n - 1 : s[i] = r.parts[i]) /\ s[n] = part
  <2> DEFINE name == Current(f).name
             grown == Append(r.parts, part)
  <2>1. /\ r = [type |-> r.type, name |-> r.name, parts |-> r.parts, of |-> r.of, count |-> r.count]
        /\ r.type = f.tag.type /\ IsSeq(r.parts) /\ Len(r.parts) = f.at - 1
        /\ \A i \in 1 .. f.at - 1 : r.parts[i].name = f.tag.parts[i].name
    BY DEF Follows
  <2>2. f.tag \in Tags /\ f.at \in Nat \ {0} /\ f.at \in DOMAIN f.tag.parts /\ f.tag.parts \in Seq(Parts)
    BY FrameFacts
  <2>3. f.tag.type = "compound" => AddValue(r.parts, name, t) = grown
    <3>1. SUFFICES ASSUME f.tag.type = "compound" PROVE ~\E i \in DOMAIN r.parts : r.parts[i].name = name
      BY DEF AddValue
    <3>2. DOMAIN r.parts = 1 .. f.at - 1
      BY <2>1 DEF IsSeq
    <3>3. ASSUME NEW i \in 1 .. f.at - 1 PROVE r.parts[i].name # name
      <4>1. i \in DOMAIN f.tag.parts /\ i # f.at
        BY <2>2
      <4>2. f.tag.parts[i].name # f.tag.parts[f.at].name
        BY <2>2, <3>1, <4>1, TagFacts
      <4> QED
        BY <2>1, <4>2 DEF Current
    <3> QED
      BY <3>2, <3>3
  <2>4. (IF r.type = "list" THEN grown ELSE AddValue(r.parts, name, t)) = grown
    BY <2>1, <2>3 DEF Containers
  <2> HIDE DEF name
  <2>5. WithPart(r, name, t) = [r EXCEPT !.parts = grown]
    BY <2>4 DEF WithPart, name
  <2>6. IsSeq(grown) /\ Len(grown) = Len(r.parts) + 1 /\ (\A i \in 1 .. Len(r.parts) : grown[i] = r.parts[i]) /\ grown[Len(r.parts) + 1] = part
    BY <2>1, AppendedSeq
  <2> HIDE DEF part, grown
  <2>7. WithPart(r, name, t) = [type |-> r.type, name |-> r.name, parts |-> grown, of |-> r.of, count |-> r.count]
    BY <2>1, <2>5
  <2>8. Len(r.parts) + 1 = f.at
    BY <2>1, <2>2
  <2>10. x = WithPart(r, name, t)
    BY DEF name
  <2>9. x.parts = grown /\ x = [type |-> r.type, name |-> r.name, parts |-> x.parts, of |-> r.of, count |-> r.count]
    BY <2>7, <2>10
  <2> QED
    BY <2>1, <2>6, <2>8, <2>9
<1>2. /\ r.type = f.tag.type /\ IsSeq(r.parts) /\ Len(r.parts) = n - 1
      /\ \A i \in 1 .. n - 1 : r.parts[i].name = parts[i].name
      /\ r.type = "list" => r.count = Len(parts) /\ (parts # <<>> => r.of = "intArray")
  BY DEF Follows
<1>3. f.tag \in Tags /\ n \in Nat \ {0} /\ n \in DOMAIN parts /\ parts \in Seq(Parts) /\ Len(parts) \in Nat /\ Current(f) \in Parts
  BY FrameFacts
<1>4. part.name = parts[n].name /\ part.tag = t /\ Current(f) = parts[n] /\ n \in 1 .. Len(parts)
  BY <1>3 DEF Part, Current
<1>5. parts[n] = part <=> t = Current(f).tag
  <2>1. parts[n] = [name |-> parts[n].name, tag |-> parts[n].tag]
    BY <1>3, <1>4 DEF Parts
  <2> QED
    BY <1>4, <2>1 DEF Part
<1>6. g.tag = f.tag /\ g.at = n + 1 /\ g.at - 1 = n
  BY <1>3
<1> HIDE DEF part
<1>7. /\ x.type = r.type /\ x.name = r.name /\ x.parts = s /\ x.of = r.of /\ x.count = r.count
      /\ x = [type |-> x.type, name |-> x.name, parts |-> x.parts, of |-> x.of, count |-> x.count]
  BY <1>1
<1>8. ASSUME NEW i \in 1 .. n PROVE s[i].name = parts[i].name
  <2>1. CASE i = n
    BY <1>1, <1>4, <2>1
  <2>2. CASE i # n
    <3>1. i \in 1 .. n - 1
      BY <1>3, <2>2
    <3> QED
      BY <1>1, <1>2, <3>1
  <2> QED
    BY <2>1, <2>2
<1>9. Follows(x, g)
  BY <1>1, <1>2, <1>6, <1>7, <1>8 DEF Follows
<1>10. (\A i \in 1 .. n : s[i] = parts[i]) <=> (\A i \in 1 .. n - 1 : r.parts[i] = parts[i]) /\ t = Current(f).tag
  <2>1. \A i \in 1 .. n : i = n \/ i \in 1 .. n - 1
    BY <1>3
  <2>2. n \in 1 .. n /\ \A i \in 1 .. n - 1 : i \in 1 .. n
    BY <1>3
  <2>3. \A i \in 1 .. n - 1 : s[i] = r.parts[i]
    BY <1>1
  <2>4. s[n] = parts[n] <=> t = Current(f).tag
    BY <1>1, <1>5, Zenon
  <2>5. (\A i \in 1 .. n : s[i] = parts[i]) <=> (\A i \in 1 .. n - 1 : s[i] = parts[i]) /\ s[n] = parts[n]
    BY <2>1, <2>2, Zenon
  <2>6. (\A i \in 1 .. n - 1 : s[i] = parts[i]) <=> \A i \in 1 .. n - 1 : r.parts[i] = parts[i]
    BY <2>3, Zenon
  <2> QED
    BY <2>4, <2>5, <2>6, Zenon
<1>11. ASSUME f.tag.type = "compound" PROVE Equals(x, g) <=> Equals(r, f) /\ t = Current(f).tag
  BY <1>2, <1>6, <1>7, <1>10, <1>11 DEF Equals
<1>12. ASSUME f.tag.type = "list", ~Throws(f), t = Tag("intArray", Current(f).tag.numbers) PROVE Equals(x, g) <=> Equals(r, f)
  <2>1. Current(f).tag \in Tags /\ Current(f).tag.type \in Arrays
    BY <1>12, FrameFacts DEF Throws
  <2>2. Current(f).tag = Tag(Current(f).tag.type, Current(f).tag.numbers)
    BY <2>1, TagFacts
  <2>3. t = Current(f).tag <=> parts[n].tag.type = "intArray"
    <3> DEFINE now == Current(f).tag
    <3>1. now.type = parts[n].tag.type
      BY <1>4
    <3> HIDE DEF now
    <3>2. now = Tag(now.type, now.numbers) /\ t = Tag("intArray", now.numbers)
      BY <1>12, <2>2 DEF now
    <3>3. Tag("intArray", now.numbers).type = "intArray"
      BY DEF Tag
    <3>4. t = now <=> now.type = "intArray"
      BY <3>2, <3>3, Zenon
    <3> QED
      BY <3>1, <3>4 DEF now
  <2>4. (\A i \in n .. Len(parts) : parts[i].tag.type = "intArray") <=>
            parts[n].tag.type = "intArray" /\ \A i \in n + 1 .. Len(parts) : parts[i].tag.type = "intArray"
    <3>1. \A i \in n .. Len(parts) : i = n \/ i \in n + 1 .. Len(parts)
      BY <1>3
    <3>2. n \in n .. Len(parts) /\ \A i \in n + 1 .. Len(parts) : i \in n .. Len(parts)
      BY <1>3, <1>4
    <3> QED
      BY <3>1, <3>2
  <2>5. Equals(x, g) <=> (\A i \in 1 .. n : s[i] = parts[i]) /\ \A i \in n + 1 .. Len(parts) : parts[i].tag.type = "intArray"
    BY <1>2, <1>6, <1>7, <1>12 DEF Equals
  <2>6. Equals(r, f) <=> (\A i \in 1 .. n - 1 : r.parts[i] = parts[i]) /\ \A i \in n .. Len(parts) : parts[i].tag.type = "intArray"
    BY <1>2, <1>12 DEF Equals
  <2> QED
    BY <1>10, <2>3, <2>4, <2>5, <2>6
<1> QED
  BY <1>7, <1>9, <1>11, <1>12 DEF PartAdded

CallsAdded(f, s, calls, t, u) ==
    /\ Aligned(u, Advanced(s))
    /\ f.tag.type = "compound" => (Same(u, Advanced(s)) <=> Same(calls, s) /\ t = Current(f).tag)
    /\ f.tag.type = "list" /\ ~Throws(f) /\ t = Tag("intArray", Current(f).tag.numbers) =>
           (Same(u, Advanced(s)) <=> Same(calls, s))

\* Adding a part to the innermost call keeps reader and writer aligned.
LEMMA AddsAligned ==
    ASSUME NEW root, NEW tags, NEW s \in Seq(Frames), s # <<>>, Nested(root, s, tags), ~AtEnd(Last(s)),
           NEW calls, Aligned(calls, s), NEW t
    PROVE  CallsAdded(Last(s), s, calls, t, Adds(calls, Current(Last(s)).name, t))
<1> DEFINE f == Last(s)
           u == Adds(calls, Current(f).name, t)
           a == Advanced(s)
           n == Len(s)
           r == calls[n]
           x == WithPart(r, Current(f).name, t)
           g == [tag |-> f.tag, at |-> f.at + 1]
<1>1. f \in Frames /\ f.tag.type \in Containers /\ n \in Nat \ {0} /\ f = s[n] /\ n \in 1 .. n
  BY LastFacts
<1>2. IsSeq(calls) /\ Len(calls) = n
  BY DEF Aligned
<1>3. \A d \in 1 .. n : Follows(calls[d], s[d]) /\ (d # 1 => calls[d].name = Current(s[d - 1]).name)
  BY DEF Aligned
<1>4. Follows(r, f)
  BY <1>1, <1>3
<1>5. Len(a) = n /\ \A d \in 1 .. n : a[d] = IF d = n THEN g ELSE s[d]
  BY <1>1, AdvancedFacts
<1>6. u = [calls EXCEPT ![n] = x]
  BY <1>2 DEF Adds
<1>7. IsSeq(u) /\ Len(u) = n /\ \A d \in 1 .. n : u[d] = IF d = n THEN x ELSE calls[d]
  <2>1. n \in 1 .. Len(calls)
    BY <1>1, <1>2
  <2> HIDE DEF x, u, n
  <2>2. IsSeq(calls)
    BY <1>2
  <2>3. IsSeq([calls EXCEPT ![n] = x])
    BY <2>1, <2>2, ChangedSeq
  <2>4. Len([calls EXCEPT ![n] = x]) = Len(calls)
    BY <2>1, <2>2, ChangedSeq
  <2>5. \A d \in 1 .. Len(calls) : [calls EXCEPT ![n] = x][d] = IF d = n THEN x ELSE calls[d]
    BY <2>1, <2>2, ChangedSeq
  <2> QED
    BY <1>2, <1>6, <2>3, <2>4, <2>5
<1>8. /\ Follows(x, g) /\ x.name = r.name
      /\ f.tag.type = "compound" => (Equals(x, g) <=> Equals(r, f) /\ t = Current(f).tag)
      /\ f.tag.type = "list" /\ ~Throws(f) /\ t = Tag("intArray", Current(f).tag.numbers) => (Equals(x, g) <=> Equals(r, f))
  <2>1. ~AtEnd(f)
    OBVIOUS
  <2>2. x = WithPart(r, Current(f).name, t) /\ g = [tag |-> f.tag, at |-> f.at + 1]
    OBVIOUS
  <2> HIDE DEF f, r, x, g
  <2>3. PartAdded(f, r, t, x, g)
    BY <1>1, <1>4, <2>1, <2>2, AddedFollows
  <2> QED
    BY <2>3 DEF PartAdded
<1> HIDE DEF a, u, x, g
<1>9. ASSUME NEW d \in 1 .. n
      PROVE  Follows(u[d], a[d]) /\ (d # 1 => u[d].name = Current(a[d - 1]).name)
  <2>1. u[d].name = calls[d].name
    BY <1>7, <1>8
  <2>2. d # 1 => a[d - 1] = s[d - 1]
    <3>1. SUFFICES ASSUME d # 1 PROVE a[d - 1] = s[d - 1]
      OBVIOUS
    <3>2. d - 1 \in 1 .. n /\ d - 1 # n
      BY <1>1, <3>1
    <3> QED
      BY <1>5, <3>2
  <2>3. Follows(u[d], a[d])
    BY <1>3, <1>5, <1>7, <1>8
  <2> QED
    BY <1>3, <2>1, <2>2, <2>3
<1>10. Aligned(u, a)
  BY <1>5, <1>7, <1>9 DEF Aligned
<1>11. Same(u, a) <=> Equals(x, g) /\ \A d \in 1 .. n : d # n => Equals(calls[d], s[d])
  BY <1>1, <1>5, <1>7 DEF Same
<1>12. Same(calls, s) <=> Equals(r, f) /\ \A d \in 1 .. n : d # n => Equals(calls[d], s[d])
  BY <1>1 DEF Same
<1> QED
  BY <1>8, <1>10, <1>11, <1>12 DEF u, a, CallsAdded

\* Entering a container on both sides keeps reader and writer aligned.
LEMMA EnteredAligned ==
    ASSUME NEW s \in Seq(Frames), s # <<>>, NEW calls, Aligned(calls, s), NEW g \in Frames, NEW x,
           Follows(x, g), x.name = Current(Last(s)).name
    PROVE  /\ Aligned(Append(calls, x), Append(s, g))
           /\ Same(Append(calls, x), Append(s, g)) <=> Same(calls, s) /\ Equals(x, g)
<1> DEFINE u == Append(calls, x)
           a == Append(s, g)
           n == Len(s)
<1>1. n \in Nat \ {0} /\ Last(s) = s[n]
  BY DEF Last
<1>2. IsSeq(calls) /\ Len(calls) = n
  BY DEF Aligned
<1>3. \A d \in 1 .. n : Follows(calls[d], s[d]) /\ (d # 1 => calls[d].name = Current(s[d - 1]).name)
  BY DEF Aligned
<1>4. IsSeq(s)
  BY SeqIsSeq
<1>5. Len(a) = n + 1 /\ (\A d \in 1 .. n : a[d] = s[d]) /\ a[n + 1] = g
  BY <1>4, AppendedSeq
<1>6. IsSeq(u) /\ Len(u) = n + 1 /\ (\A d \in 1 .. n : u[d] = calls[d]) /\ u[n + 1] = x
  BY <1>2, AppendedSeq
<1> HIDE DEF u, a
<1>7. \A d \in 1 .. n + 1 : d = n + 1 \/ d \in 1 .. n
  BY <1>1
<1>8. n + 1 \in 1 .. n + 1 /\ \A d \in 1 .. n : d \in 1 .. n + 1
  BY <1>1
<1>9. ASSUME NEW d \in 1 .. n + 1
      PROVE  Follows(u[d], a[d]) /\ (d # 1 => u[d].name = Current(a[d - 1]).name)
  <2>1. CASE d = n + 1
    <3>1. a[d - 1] = s[n]
      BY <1>1, <1>5, <2>1
    <3> QED
      BY <1>1, <1>5, <1>6, <2>1, <3>1
  <2>2. CASE d \in 1 .. n
    <3>1. d # 1 => a[d - 1] = s[d - 1]
      BY <1>1, <1>5, <2>2
    <3> QED
      BY <1>3, <1>5, <1>6, <2>2, <3>1
  <2> QED
    BY <1>7, <2>1, <2>2
<1>10. Aligned(u, a)
  BY <1>5, <1>6, <1>9 DEF Aligned
<1>11. Same(u, a) <=> Same(calls, s) /\ Equals(x, g)
  BY <1>5, <1>6, <1>7, <1>8 DEF Same
<1> QED
  BY <1>10, <1>11 DEF u, a

\* So does leaving one.
LEMMA LeftAligned ==
    ASSUME NEW s \in Seq(Frames), Len(s) > 1, NEW calls, Aligned(calls, s)
    PROVE  /\ Aligned(Front(calls), Front(s))
           /\ Same(calls, s) <=> Same(Front(calls), Front(s)) /\ Equals(Last(calls), Last(s))
<1> DEFINE u == Front(calls)
           a == Front(s)
           n == Len(s)
<1>1. n \in Nat \ {0} /\ n > 1 /\ IsSeq(s) /\ s # <<>>
  BY SeqIsSeq, EmptyIsSeq
<1>2. IsSeq(calls) /\ Len(calls) = n
  BY DEF Aligned
<1>3. \A d \in 1 .. n : Follows(calls[d], s[d]) /\ (d # 1 => calls[d].name = Current(s[d - 1]).name)
  BY DEF Aligned
<1>4. Len(a) = n - 1 /\ \A d \in 1 .. n - 1 : a[d] = s[d]
  BY <1>1, FrontSeq
<1>5. calls # <<>>
  BY <1>1, <1>2, EmptyIsSeq
<1>6. IsSeq(u) /\ Len(u) = n - 1 /\ \A d \in 1 .. n - 1 : u[d] = calls[d]
  BY <1>2, <1>5, FrontSeq
<1> HIDE DEF u, a
<1>7. \A d \in 1 .. n : d = n \/ d \in 1 .. n - 1
  BY <1>1
<1>8. n \in 1 .. n /\ \A d \in 1 .. n - 1 : d \in 1 .. n /\ (d # 1 => d - 1 \in 1 .. n - 1)
  BY <1>1
<1>9. Aligned(u, a)
  BY <1>3, <1>4, <1>6, <1>8 DEF Aligned
<1>10. Last(calls) = calls[n] /\ Last(s) = s[n]
  BY <1>2 DEF Last
<1>11. Same(calls, s) <=> Same(u, a) /\ Equals(Last(calls), Last(s))
  BY <1>4, <1>6, <1>7, <1>8, <1>10 DEF Same
<1> QED
  BY <1>9, <1>11 DEF u, a

\* The reader, the step of the writer it is at and what it finds there.
Here(k) == k \in DOMAIN trail /\ k # Len(trail) /\ Matches(reading, position, trail[k])

Context(k, c, d, f, r) ==
    /\ c = trail[k] /\ d = trail[k + 1] /\ k + 1 \in DOMAIN trail
    /\ c.calls \in Seq(Frames) /\ c.calls # <<>> /\ Nested(tree, c.calls, c.met)
    /\ f = Last(c.calls) /\ f \in Frames /\ f.tag.type \in Containers /\ ~Throws(f)
    /\ Aligned(reading, c.calls) /\ r = Last(reading) /\ Follows(r, f)
    /\ (\A t \in c.met : Kept(t)) <=> Same(reading, c.calls)
    /\ position \in Nat
    /\ d.calls = After(c.calls) /\ d.met = c.met \cup Meets(f) /\ d.met \subseteq met
    /\ d.position = position + Len(Emitted(f))
    /\ d.calls = <<>> => d.position = Len(output) /\ d.met = met
    /\ d.calls # <<>> => k + 1 # Len(trail)

\* The tokens of the step are next.
NextTokens(f) ==
    /\ Len(Emitted(f)) \in Nat
    /\ \A i \in 1 .. Len(Emitted(f)) : position + i \in 1 .. Len(output) /\ output[position + i] = Emitted(f)[i]

\* Where the reader stands on the trail, and what the writer wrote from there on.
LEMMA ReaderContext ==
    ASSUME TrailInv, nbtStage = "reading", NEW k, Here(k)
    PROVE  /\ Context(k, trail[k], trail[k + 1], Last(trail[k].calls), Last(reading))
           /\ NextTokens(Last(trail[k].calls))
<1> DEFINE c == trail[k]
           d == trail[k + 1]
           f == Last(c.calls)
           n == Len(trail)
<1>1. trail # <<>> /\ writing = <<>>
  BY DEF TrailInv, StageInv
<1>2. n \in Nat \ {0} /\ trail[n] = [calls |-> writing, position |-> Len(output), met |-> met] /\ Len(output) \in Nat
  BY <1>1, WritingFacts
<1>3. DOMAIN trail = 1 .. n /\ \A j \in 1 .. n : trail[j] \in Configurations
  BY <1>1, WritingFacts DEF TrailInv, TrailType
<1>4. k \in 1 .. n /\ k # n /\ Matches(reading, position, c)
  BY <1>3 DEF Here
<1>5. k + 1 \in 1 .. n
  BY <1>2, <1>4
<1>6. c \in Configurations /\ d \in Configurations
  BY <1>3, <1>4, <1>5
<1>7. /\ Nested(tree, c.calls, c.met) /\ Stepped(output, c, d)
      /\ d.position <= Len(output) /\ d.met \subseteq met
  BY <1>3, <1>4, <1>5 DEF TrailInv, TrailSteps
<1>8. k + 1 = n => d.calls = <<>> /\ d.position = Len(output) /\ d.met = met
  <2>1. SUFFICES ASSUME k + 1 = n PROVE d.calls = <<>> /\ d.position = Len(output) /\ d.met = met
    OBVIOUS
  <2>2. d = [calls |-> writing, position |-> Len(output), met |-> met]
    BY <1>2, <2>1
  <2> QED
    BY <1>1, <2>2
<1>9. k + 1 # n => d.calls # <<>>
  BY <1>3, <1>5 DEF TrailInv, TrailSteps, Stepped
<1> HIDE DEF c, d
<1>10. c.calls \in Seq(Frames) /\ c.calls # <<>> /\ ~Throws(f) /\ c.position \in Nat /\ d.position \in Nat
  BY <1>6, <1>7 DEF Configurations, Stepped
<1>11. f \in Frames /\ f.tag.type \in Containers /\ Len(c.calls) \in Nat \ {0} /\ f = c.calls[Len(c.calls)]
  BY <1>7, <1>10, LastFacts
<1>12. Aligned(reading, c.calls) /\ position = c.position /\ ((\A t \in c.met : Kept(t)) <=> Same(reading, c.calls))
  BY <1>4 DEF Matches
<1>13. Follows(Last(reading), f)
  <2>1. Len(reading) = Len(c.calls) /\ \A j \in 1 .. Len(c.calls) : Follows(reading[j], c.calls[j])
    BY <1>12 DEF Aligned
  <2>2. Len(c.calls) \in 1 .. Len(c.calls)
    BY <1>11
  <2> QED
    BY <1>11, <2>1, <2>2 DEF Last
<1>14. /\ d.calls = After(c.calls) /\ d.met = c.met \cup Meets(f)
       /\ d.position = position + Len(Emitted(f))
       /\ \A i \in 1 .. Len(Emitted(f)) : output[position + i] = Emitted(f)[i]
  BY <1>7, <1>12 DEF Stepped
<1>15. Len(Emitted(f)) \in Nat
  BY <1>10, <1>11, EmittedIsSeq
<1>16. \A i \in 1 .. Len(Emitted(f)) : position + i \in 1 .. Len(output)
  BY <1>2, <1>7, <1>10, <1>12, <1>14, <1>15
<1>17. NextTokens(f)
  BY <1>14, <1>15, <1>16 DEF NextTokens
<1>18. Context(k, c, d, f, Last(reading))
  BY <1>3, <1>5, <1>7, <1>8, <1>9, <1>10, <1>11, <1>12, <1>13, <1>14 DEF Context, c, d
<1> QED
  BY <1>17, <1>18 DEF c, d

\* The reader comes to where the writer's next step began.
LEMMA ReaderProgress ==
    ASSUME NEW k, NEW c, NEW d, NEW f, NEW r, Context(k, c, d, f, r), UNCHANGED <<tree, output, met, trail>>,
           nbtStage' = "reading", position' = d.position, d.calls # <<>>, Aligned(reading', d.calls),
           (\A t \in d.met : Kept(t)) <=> Same(reading', d.calls)
    PROVE  ReaderInv'
<1>1. k + 1 \in DOMAIN trail' /\ k + 1 # Len(trail') /\ trail'[k + 1] = d
  BY DEF Context
<1>2. Matches(reading', position', trail'[k + 1])
  BY <1>1 DEF Matches
<1> QED
  BY <1>1, <1>2 DEF ReaderInv

\* The token at each position the reader looks at is the one the writer emitted there.
LEMMA TokenFacts ==
    ASSUME NEW f, NextTokens(f), position \in Nat, NEW i \in 1 .. Len(Emitted(f))
    PROVE  /\ \A kind : Has(kind, position + i - 1) <=> Emitted(f)[i].kind = kind
           /\ ValueAfter(position + i - 1) = Emitted(f)[i].value
<1>1. position + i \in 1 .. Len(output) /\ output[position + i] = Emitted(f)[i] /\ Len(Emitted(f)) \in Nat
  BY DEF NextTokens
<1> QED
  BY <1>1 DEF Has, ValueAfter

\* The reader at a part of a compound: the type, the name and the value.
AtPart(f, r) ==
    /\ ~Over(r) /\ HasHeader(r)
    /\ NextType(r) = Current(f).tag.type /\ NextName(r) = Current(f).name /\ AfterHeader(r) = position + 2
    /\ \A i \in 1 .. Len(WriteValue(Current(f).tag)) :
           /\ \A kind : Has(kind, position + 2 + i - 1) <=> WriteValue(Current(f).tag)[i].kind = kind
           /\ ValueAfter(position + 2 + i - 1) = WriteValue(Current(f).tag)[i].value

\* The same for the header and the value of a part of a compound.
LEMMA PartContext ==
    ASSUME NEW f \in Frames, f.tag.type = "compound", ~AtEnd(f), NextTokens(f), position \in Nat, NEW r, Follows(r, f)
    PROVE  AtPart(f, r)
<1> DEFINE e == Emitted(f)
           p == Current(f)
           v == WriteValue(p.tag)
<1>1. /\ Len(e) = 2 + Len(v) /\ e[1] = [kind |-> "tag", value |-> p.tag.type] /\ e[2] = [kind |-> "string", value |-> p.name]
      /\ \A i \in 1 .. Len(v) : e[2 + i] = v[i]
  BY EmittedHeader
<1>2. Len(v) \in Nat
  BY EmittedHeader DEF IsSeq
<1>3. \A i \in 1 .. Len(e) :
          (\A kind : Has(kind, position + i - 1) <=> e[i].kind = kind) /\ ValueAfter(position + i - 1) = e[i].value
  BY TokenFacts
<1>4. r.type = "compound"
  BY DEF Follows
<1>5. p.tag.type # "end"
  <2>1. p.tag \in Tags
    BY FrameFacts
  <2> HIDE DEF p
  <2> QED
    BY <2>1, TagFacts DEF Scalars, Arrays, Containers
<1> HIDE DEF e, p, v
<1>6. Has("tag", position) /\ ValueAfter(position) = p.tag.type
  <2>1. 1 \in 1 .. Len(e) /\ position + 1 - 1 = position
    BY <1>1, <1>2
  <2> QED
    BY <1>1, <1>3, <2>1
<1>7. Has("string", position + 1) /\ ValueAfter(position + 1) = p.name
  <2>1. 2 \in 1 .. Len(e) /\ position + 2 - 1 = position + 1
    BY <1>1, <1>2
  <2> QED
    BY <1>1, <1>3, <2>1
<1>8. ASSUME NEW i \in 1 .. Len(v)
      PROVE  (\A kind : Has(kind, position + 2 + i - 1) <=> v[i].kind = kind) /\ ValueAfter(position + 2 + i - 1) = v[i].value
  <2>1. 2 + i \in 1 .. Len(e) /\ position + (2 + i) - 1 = position + 2 + i - 1
    BY <1>1, <1>2
  <2> QED
    BY <1>1, <1>3, <2>1
<1>9. ~Over(r) /\ HasHeader(r)
  BY <1>4, <1>5, <1>6, <1>7 DEF Over, HasHeader
<1>10. NextType(r) = p.tag.type /\ NextName(r) = p.name /\ AfterHeader(r) = position + 2
  BY <1>4, <1>6, <1>7 DEF NextType, NextName, AfterHeader
<1> QED
  BY <1>8, <1>9, <1>10 DEF AtPart, p, v

\* What the reader makes of the value of a tag: the same value, or another one
\* of the same length for an int array with numbers, or it falls out of step.
ValueIsRead(t, n) ==
    /\ t.type \in Scalars \cup Arrays /\ EndOfValue(t.type, n) = n + Len(WriteValue(t))
    /\ Tag(t.type, ReadValue(t.type, n)) = t <=> Kept(t)

\* A value read where it was written is the tag written, unless its type loses something.
LEMMA ReadTag ==
    ASSUME NEW t \in Tags, NEW n \in Nat, HasValue(t.type, n),
           ~Has("int", n + 1) \/ t.type # "intArray",
           \A i \in 1 .. Len(WriteValue(t)) :
               /\ \A kind : Has(kind, n + i - 1) <=> WriteValue(t)[i].kind = kind
               /\ ValueAfter(n + i - 1) = WriteValue(t)[i].value
    PROVE  ValueIsRead(t, n)
<1> DEFINE v == WriteValue(t)
<1>1. t.type \in Scalars \cup Arrays
  BY TagFacts DEF HasValue, Containers, Scalars
<1>2. t = Tag(t.type, t.numbers)
  BY <1>1, TagFacts
<1>3. n + 1 - 1 = n /\ n + 2 - 1 = n + 1
  OBVIOUS
<1>4. CASE t.type \in Scalars
  <2>1. Len(v) = 1 /\ v[1] = [kind |-> t.type, value |-> t.numbers]
    BY <1>4, ValueOfTag
  <2>2. ValueAfter(n) = t.numbers
    BY <1>3, <2>1
  <2>3. ReadValue(t.type, n) = t.numbers /\ EndOfValue(t.type, n) = n + 1 /\ Kept(t)
    BY <1>4, <2>2 DEF ReadValue, EndOfValue, Kept, Scalars
  <2> QED
    BY <1>1, <1>2, <2>1, <2>3 DEF ValueIsRead
<1>5. CASE t.type = "byteArray"
  <2>1. Len(v) = 2 /\ v[2] = [kind |-> "bytes", value |-> t.numbers]
    BY <1>5, ValueOfTag
  <2>2. ValueAfter(n + 1) = t.numbers
    BY <1>3, <2>1
  <2>3. ReadValue(t.type, n) = t.numbers /\ EndOfValue(t.type, n) = n + 2 /\ Kept(t)
    BY <1>5, <2>2 DEF ReadValue, EndOfValue, Kept, Scalars
  <2> QED
    BY <1>1, <1>2, <2>1, <2>3 DEF ValueIsRead
<1>6. CASE t.type = "intArray"
  <2> DEFINE m == ValueAfter(n)
  <2>1. Len(v) = 1 /\ v[1] = [kind |-> "int", value |-> IF Len(t.numbers) = 1 THEN t.numbers[1] ELSE 0]
    BY <1>6, ValueOfTag
  <2>2. m = IF Len(t.numbers) = 1 THEN t.numbers[1] ELSE 0
    BY <1>3, <2>1
  <2>3. t.numbers \in Seq(Int)
    BY <1>6, TagFacts DEF Arrays
  <2>4. m \in Int
    BY <2>2, <2>3
  <2>5. ReadValue(t.type, n) = [i \in 1 .. m |-> ValueAfter(n + i)] /\ EndOfValue(t.type, n) = (IF m > 0 THEN n + 1 + m ELSE n + 1)
    BY <1>6 DEF ReadValue, EndOfValue, Scalars
  <2>6. Kept(t) <=> t.numbers = <<>>
    BY <1>6 DEF Kept
  <2>7. \A i \in 1 .. m : Has("int", n + i)
    BY <1>6 DEF HasValue, Scalars
  <2> HIDE DEF m
  <2>8. m <= 0
    <3>1. SUFFICES ASSUME ~(m <= 0) PROVE FALSE
      OBVIOUS
    <3>2. 1 \in 1 .. m
      BY <2>4, <3>1
    <3> QED
      BY <1>6, <2>7, <3>2
  <2>9. ReadValue(t.type, n) = <<>> /\ EndOfValue(t.type, n) = n + 1
    <3>1. 1 .. m = {} /\ ~(m > 0)
      BY <2>4, <2>8
    <3> QED
      BY <2>5, <3>1
  <2>10. Tag(t.type, <<>>) = t <=> t.numbers = <<>>
    BY <1>2 DEF Tag
  <2> QED
    BY <1>1, <2>1, <2>6, <2>9, <2>10 DEF ValueIsRead
<1> QED
  BY <1>1, <1>4, <1>5, <1>6 DEF Arrays

\* The reader at an element of a list.
AtElement(f, r) ==
    /\ ~Over(r) /\ CanRead(r)
    /\ NextType(r) = "intArray" /\ NextName(r) = Current(f).name /\ AfterHeader(r) = position
    /\ ReadValue("intArray", position) = Current(f).tag.numbers
    /\ EndOfValue("intArray", position) = position + Len(Emitted(f))

\* The same for an element of a list.
LEMMA ElementContext ==
    ASSUME NEW f \in Frames, f.tag.type = "list", ~AtEnd(f), ~Throws(f), NextTokens(f), position \in Nat,
           NEW r, Follows(r, f)
    PROVE  AtElement(f, r)
<1> DEFINE e == Emitted(f)
           v == Current(f).tag.numbers
<1>1. /\ v \in Seq(Int) /\ Len(e) = 1 + Len(v) /\ e[1] = [kind |-> "int", value |-> Len(v)]
      /\ \A i \in 1 .. Len(v) : e[1 + i] = [kind |-> "int", value |-> v[i]]
  BY EmittedElement
<1>2. \A i \in 1 .. Len(e) :
          (\A kind : Has(kind, position + i - 1) <=> e[i].kind = kind) /\ ValueAfter(position + i - 1) = e[i].value
  BY TokenFacts
<1>3. f.tag \in Tags /\ f.at \in Nat \ {0} /\ f.at \in DOMAIN f.tag.parts /\ f.tag.parts \in Seq(Parts)
  BY FrameFacts
<1>4. Current(f).name = ""
  BY <1>3, TagFacts DEF Current
<1>5. f.at <= Len(f.tag.parts) /\ f.tag.parts # <<>> /\ Len(f.tag.parts) \in Nat
  BY <1>3
<1>6. r.type = "list" /\ r.count = Len(f.tag.parts) /\ r.of = "intArray" /\ Len(r.parts) = f.at - 1
  BY <1>5 DEF Follows
<1>7. ~Over(r)
  BY <1>3, <1>5, <1>6 DEF Over
<1>8. HasHeader(r) /\ NextType(r) = "intArray" /\ NextName(r) = "" /\ AfterHeader(r) = position
  BY <1>6 DEF HasHeader, NextType, NextName, AfterHeader
<1> HIDE DEF e, v
<1>9. Len(v) \in Nat
  BY <1>1
<1>10. Has("int", position) /\ ValueAfter(position) = Len(v)
  <2>1. 1 \in 1 .. Len(e) /\ position + 1 - 1 = position
    BY <1>1, <1>9
  <2> QED
    BY <1>1, <1>2, <2>1
<1>11. ASSUME NEW i \in 1 .. Len(v) PROVE Has("int", position + i) /\ ValueAfter(position + i) = v[i]
  <2>1. 1 + i \in 1 .. Len(e) /\ position + (1 + i) - 1 = position + i
    BY <1>1, <1>9
  <2>2. (\A kind : Has(kind, position + i) <=> e[1 + i].kind = kind) /\ ValueAfter(position + i) = e[1 + i].value
    BY <1>2, <2>1
  <2>3. e[1 + i] = [kind |-> "int", value |-> v[i]]
    BY <1>1
  <2> QED
    BY <2>2, <2>3
<1>12. HasValue("intArray", position)
  BY <1>10, <1>11 DEF HasValue, Scalars
<1>13. ReadValue("intArray", position) = v
  <2>1. ReadValue("intArray", position) = [i \in 1 .. Len(v) |-> ValueAfter(position + i)]
    BY <1>10 DEF ReadValue, Scalars
  <2>2. [i \in 1 .. Len(v) |-> ValueAfter(position + i)] = [i \in 1 .. Len(v) |-> v[i]]
    BY <1>11
  <2>3. v = [i \in 1 .. Len(v) |-> v[i]]
    BY <1>1
  <2> QED
    BY <2>1, <2>2, <2>3
<1>14. EndOfValue("intArray", position) = position + Len(e)
  <2>1. EndOfValue("intArray", position) = IF Len(v) > 0 THEN position + 1 + Len(v) ELSE position + 1
    BY <1>10 DEF EndOfValue, Scalars
  <2>2. Len(e) = 1 + Len(v)
    BY <1>1
  <2>3. (IF Len(v) > 0 THEN position + 1 + Len(v) ELSE position + 1) = position + (1 + Len(v))
    <3>1. CASE Len(v) > 0
      BY <1>9, <3>1
    <3>2. CASE ~(Len(v) > 0)
      <4>1. Len(v) = 0
        BY <1>9, <3>2
      <4> QED
        BY <3>2, <4>1
    <3> QED
      BY <3>1, <3>2
  <2> QED
    BY <2>1, <2>2, <2>3
<1> QED
  BY <1>4, <1>7, <1>8, <1>12, <1>13, <1>14 DEF AtElement, CanRead, e, v

\* After a value the writer writes a type, never a number.
LEMMA NextIsTag ==
    ASSUME TrailInv, NEW k, NEW c, NEW d, NEW f, NEW r, Context(k, c, d, f, r),
           f.tag.type = "compound", ~AtEnd(f), ~Enters(f)
    PROVE  ~Has("int", d.position)
<1>1. /\ d = trail[k + 1] /\ k + 1 \in DOMAIN trail /\ f = Last(c.calls) /\ c.calls \in Seq(Frames) /\ c.calls # <<>>
      /\ d.calls = After(c.calls) /\ (d.calls # <<>> => k + 1 # Len(trail)) /\ f \in Frames
  BY DEF Context
<1>2. d.calls = Advanced(c.calls)
  BY <1>1 DEF After
<1> DEFINE n == Len(c.calls)
           g == Last(d.calls)
<1>3. /\ d.calls \in Seq(Frames) /\ Len(d.calls) = n /\ n \in Nat \ {0}
      /\ \A j \in 1 .. n : d.calls[j] = IF j = n THEN [tag |-> c.calls[j].tag, at |-> c.calls[j].at + 1] ELSE c.calls[j]
  BY <1>1, <1>2, AdvancedFacts
<1>4. n \in 1 .. n /\ f = c.calls[n]
  BY <1>1, <1>3 DEF Last
<1>5. g = [tag |-> f.tag, at |-> f.at + 1] /\ g \in Frames
  <2>1. g = d.calls[n]
    BY <1>3 DEF Last
  <2> QED
    BY <1>3, <1>4, <2>1
<1>6. g.tag = f.tag
  BY <1>5
<1> HIDE DEF g
<1>7. d.calls # <<>>
  BY <1>3, EmptyIsSeq
<1>8. Stepped(output, d, trail[k + 1 + 1])
  BY <1>1, <1>7 DEF TrailInv, TrailSteps
<1>9. \A i \in 1 .. Len(Emitted(g)) : output[d.position + i] = Emitted(g)[i]
  BY <1>8 DEF Stepped, g
<1>10. 1 \in 1 .. Len(Emitted(g)) /\ Emitted(g)[1].kind = "tag"
  <2>1. CASE AtEnd(g)
    <3>1. Len(Emitted(g)) = 1 /\ Emitted(g)[1] = [kind |-> "tag", value |-> "end"]
      BY <1>5, <1>6, <2>1, EmittedEnd
    <3> QED
      BY <3>1
  <2>2. CASE ~AtEnd(g)
    <3> DEFINE v == WriteValue(Current(g).tag)
    <3>1. IsSeq(v) /\ Len(Emitted(g)) = 2 + Len(v) /\ Emitted(g)[1] = [kind |-> "tag", value |-> Current(g).tag.type]
      BY <1>5, <1>6, <2>2, EmittedHeader
    <3>2. Len(v) \in Nat
      BY <3>1 DEF IsSeq
    <3> HIDE DEF v
    <3>3. 1 \in 1 .. Len(Emitted(g))
      BY <3>1, <3>2
    <3> QED
      BY <3>1, <3>3
  <2> QED
    BY <2>1, <2>2
<1> QED
  BY <1>9, <1>10 DEF Has

\* Nothing is left to read of the tag of a call whose writer was at the end.
LEMMA EndContext ==
    ASSUME NEW f \in Frames, f.tag.type \in Containers, AtEnd(f), f.at <= Len(f.tag.parts) + 1, NextTokens(f), position \in Nat,
           NEW r, Follows(r, f)
    PROVE  /\ Over(r)
           /\ (IF r.type = "list" THEN position ELSE position + 1) = position + Len(Emitted(f))
           /\ r.type = f.tag.type /\ f.at - 1 = Len(f.tag.parts)
           /\ Equals(r, f) <=> r.parts = f.tag.parts
<1>1. /\ r.type = f.tag.type /\ Len(r.parts) = f.at - 1 /\ IsSeq(r.parts)
      /\ r.type = "list" => r.count = Len(f.tag.parts)
  BY DEF Follows
<1>2. f.at \in Nat /\ f.tag.parts \in Seq(Parts) /\ Len(f.tag.parts) \in Nat
  BY FrameFacts
<1>3. f.at = Len(f.tag.parts) + 1
  BY <1>2 DEF AtEnd
<1>4. Equals(r, f) <=> r.parts = f.tag.parts
  <2>1. IsSeq(f.tag.parts)
    BY <1>2, SeqIsSeq
  <2>2. f.at - 1 = Len(f.tag.parts) /\ f.at .. Len(f.tag.parts) = {}
    BY <1>2, <1>3
  <2>3. Equals(r, f) <=> \A i \in 1 .. Len(f.tag.parts) : r.parts[i] = f.tag.parts[i]
    BY <2>2 DEF Equals
  <2>4. (\A i \in 1 .. Len(f.tag.parts) : r.parts[i] = f.tag.parts[i]) => r.parts = f.tag.parts
    BY <1>1, <2>1, <2>2, SameSeq
  <2> QED
    BY <2>3, <2>4
<1>5. CASE f.tag.type = "list"
  <2>1. Emitted(f) = <<>>
    BY <1>5 DEF Emitted
  <2>2. Len(Emitted(f)) = 0
    BY <2>1, EmptyIsSeq
  <2> QED
    BY <1>1, <1>2, <1>3, <1>4, <1>5, <2>2 DEF Over
<1>6. CASE f.tag.type = "compound"
  <2>1. Len(Emitted(f)) = 1 /\ Emitted(f)[1] = [kind |-> "tag", value |-> "end"]
    BY <1>6, EmittedEnd
  <2>2. 1 \in 1 .. Len(Emitted(f)) /\ position + 1 - 1 = position
    BY <2>1
  <2>3. (\A kind : Has(kind, position) <=> Emitted(f)[1].kind = kind) /\ ValueAfter(position) = Emitted(f)[1].value
    BY <2>2, TokenFacts
  <2>4. Has("tag", position) /\ ValueAfter(position) = "end"
    BY <2>1, <2>3
  <2>5. Over(r)
    BY <1>1, <1>6, <2>4 DEF Over
  <2> QED
    BY <1>1, <1>2, <1>3, <1>4, <1>6, <2>1, <2>5
<1> QED
  BY <1>5, <1>6 DEF Containers

\* A value that was read, or an element of a list.
LEMMA ReadPartStep ==
    ASSUME TrailInv, nbtStage = "reading", NEW k, NEW c, NEW d, NEW f, NEW r, Context(k, c, d, f, r), NextTokens(f), ReadPart
    PROVE  ReaderInv'
<1> DEFINE type == NextType(r)
           n == AfterHeader(r)
           t == Tag(type, ReadValue(type, n))
<1>1. /\ c.calls \in Seq(Frames) /\ c.calls # <<>> /\ Nested(tree, c.calls, c.met)
      /\ f = Last(c.calls) /\ f \in Frames /\ f.tag.type \in Containers /\ ~Throws(f)
      /\ Aligned(reading, c.calls) /\ r = Last(reading) /\ Follows(r, f)
      /\ (\A u \in c.met : Kept(u)) <=> Same(reading, c.calls)
      /\ position \in Nat
      /\ d.calls = After(c.calls) /\ d.met = c.met \cup Meets(f)
      /\ d.position = position + Len(Emitted(f))
  BY DEF Context
<1>2. /\ ~Over(r) /\ HasHeader(r) /\ HasValue(type, n)
      /\ reading' = Adds(reading, NextName(r), t) /\ position' = EndOfValue(type, n)
      /\ UNCHANGED <<tree, output, met, trail>> /\ nbtStage' = "reading"
  BY <1>1 DEF ReadPart, Reads, CanRead
<1>3. ~AtEnd(f)
  <2>1. f.at <= Len(f.tag.parts) + 1
    BY <1>1, LastFacts
  <2> QED
    BY <1>1, <1>2, <2>1, EndContext
<1>4. /\ NextName(r) = Current(f).name /\ position' = d.position /\ ~Enters(f)
      /\ f.tag.type = "compound" => (t = Current(f).tag <=> Kept(Current(f).tag))
      /\ f.tag.type = "list" => t = Tag("intArray", Current(f).tag.numbers)
  <2>1. CASE f.tag.type = "list"
    <3>1. AtElement(f, r)
      BY <1>1, <1>3, <2>1, ElementContext
    <3>2. type = "intArray" /\ n = position
      BY <3>1 DEF AtElement
    <3>3. t = Tag("intArray", Current(f).tag.numbers) /\ position' = d.position /\ NextName(r) = Current(f).name
      BY <1>1, <1>2, <3>1, <3>2 DEF AtElement
    <3> QED
      BY <2>1, <3>3 DEF Enters
  <2>2. CASE f.tag.type = "compound"
    <3> DEFINE p == Current(f)
               u == p.tag
               v == WriteValue(u)
    <3>1. AtPart(f, r)
      BY <1>1, <1>3, <2>2, PartContext
    <3>2. type = u.type /\ n = position + 2 /\ NextName(r) = p.name
      BY <3>1 DEF AtPart
    <3>3. \A i \in 1 .. Len(v) : (\A kind : Has(kind, position + 2 + i - 1) <=> v[i].kind = kind) /\ ValueAfter(position + 2 + i - 1) = v[i].value
      BY <3>1 DEF AtPart
    <3>4. u \in Tags
      BY <1>1, <1>3, FrameFacts
    <3>5. Len(Emitted(f)) = 2 + Len(v) /\ IsSeq(v)
      BY <1>1, <1>3, <2>2, EmittedHeader
    <3> HIDE DEF u, v
    <3>6. u.type \notin Containers
      <4>1. HasValue(u.type, n)
        BY <1>2, <3>2
      <4> HIDE DEF n
      <4> QED
        BY <4>1 DEF HasValue, Containers, Scalars
    <3>7. ~Enters(f)
      BY <3>6 DEF Enters, u
    <3>8. ~Has("int", position + 2 + 1) \/ u.type # "intArray"
      <4>1. SUFFICES ASSUME u.type = "intArray" PROVE ~Has("int", position + 2 + 1)
        OBVIOUS
      <4>2. ~Has("int", d.position)
        BY <1>3, <2>2, <3>7, NextIsTag
      <4>3. Len(v) = 1
        BY <3>4, <4>1, ValueOfTag DEF v
      <4>4. d.position = position + 2 + 1
        BY <1>1, <3>5, <4>3
      <4> QED
        BY <4>2, <4>4
    <3>9. ValueIsRead(u, position + 2)
      <4> DEFINE q == position + 2
      <4>1. q \in Nat /\ HasValue(u.type, q) /\ (~Has("int", q + 1) \/ u.type # "intArray")
        BY <1>1, <1>2, <3>2, <3>8
      <4>2. \A i \in 1 .. Len(WriteValue(u)) :
                /\ \A kind : Has(kind, q + i - 1) <=> WriteValue(u)[i].kind = kind
                /\ ValueAfter(q + i - 1) = WriteValue(u)[i].value
        BY <3>3 DEF v
      <4> HIDE DEF q
      <4>3. ValueIsRead(u, q)
        BY <3>4, <4>1, <4>2, ReadTag
      <4> QED
        BY <4>3 DEF q
    <3>10. EndOfValue(u.type, position + 2) = position + 2 + Len(v) /\ (Tag(u.type, ReadValue(u.type, position + 2)) = u <=> Kept(u))
      BY <3>9 DEF ValueIsRead, v
    <3>11. t = u <=> Kept(u)
      BY <3>2, <3>10
    <3>12. position' = d.position
      <4>1. Len(v) \in Nat
        BY <3>5 DEF IsSeq
      <4>2. position' = position + 2 + Len(v)
        BY <1>2, <3>2, <3>10
      <4> QED
        BY <1>1, <3>5, <4>1, <4>2
    <3> QED
      BY <2>2, <3>2, <3>7, <3>11, <3>12 DEF u
  <2> QED
    BY <1>1, <2>1, <2>2 DEF Containers
<1>5. d.calls = Advanced(c.calls)
  BY <1>1, <1>3, <1>4 DEF After
<1> HIDE DEF type, n, t
<1>6. CallsAdded(f, c.calls, reading, t, reading')
  BY <1>1, <1>2, <1>3, <1>4, AddsAligned
<1>7. (\A u \in d.met : Kept(u)) <=> Same(reading', d.calls)
  <2>1. CASE f.tag.type = "list"
    <3>1. d.met = c.met
      BY <1>1, <2>1 DEF Meets
    <3>2. Same(reading', d.calls) <=> Same(reading, c.calls)
      BY <1>1, <1>4, <1>5, <1>6, <2>1 DEF CallsAdded
    <3> QED
      BY <1>1, <3>1, <3>2
  <2>2. CASE f.tag.type = "compound"
    <3>1. d.met = c.met \cup {Current(f).tag}
      BY <1>1, <1>3, <2>2 DEF Meets
    <3>2. Same(reading', d.calls) <=> Same(reading, c.calls) /\ Kept(Current(f).tag)
      BY <1>1, <1>4, <1>5, <1>6, <2>2 DEF CallsAdded
    <3> QED
      BY <1>1, <3>1, <3>2
  <2> QED
    BY <1>1, <2>1, <2>2 DEF Containers
<1>8. d.calls # <<>>
  <2>1. Len(d.calls) # 0
    BY <1>1, <1>5, AdvancedFacts
  <2> QED
    BY <2>1, EmptyIsSeq
<1>9. Aligned(reading', d.calls)
  BY <1>5, <1>6 DEF CallsAdded
<1> QED
  BY <1>2, <1>4, <1>7, <1>8, <1>9, ReaderProgress

\* The head of a part that is a list or a compound: a new call.
LEMMA EnteredStep ==
    ASSUME NEW k, NEW c, NEW d, NEW f, NEW r, Context(k, c, d, f, r), f.tag.type = "compound", ~AtEnd(f),
           Current(f).tag.type \in Containers, NEW x, reading' = Append(reading, x), position' = d.position,
           UNCHANGED <<tree, output, met, trail>>, nbtStage' = "reading",
           x = [type |-> Current(f).tag.type, name |-> Current(f).name, parts |-> <<>>, of |-> x.of, count |-> x.count],
           x.type = "list" => x.count = Len(Current(f).tag.parts) /\ (Current(f).tag.parts # <<>> => x.of = "intArray")
    PROVE  ReaderInv'
<1> DEFINE t == Current(f).tag
           g == Frame(t)
<1>1. /\ c.calls \in Seq(Frames) /\ c.calls # <<>>
      /\ f = Last(c.calls) /\ f \in Frames /\ Aligned(reading, c.calls)
      /\ (\A u \in c.met : Kept(u)) <=> Same(reading, c.calls)
      /\ d.calls = After(c.calls) /\ d.met = c.met \cup Meets(f)
  BY DEF Context
<1>2. t \in Tags /\ t.type \in Containers
  BY <1>1, FrameFacts
<1>3. d.calls = Append(c.calls, g) /\ d.met = c.met \cup {t}
  BY <1>1 DEF After, Enters, Meets
<1>4. x.type = t.type /\ x.name = Current(f).name /\ x.parts = <<>>
      /\ x = [type |-> x.type, name |-> x.name, parts |-> x.parts, of |-> x.of, count |-> x.count]
  OBVIOUS
<1>5. x.type = "list" => x.count = Len(t.parts) /\ (t.parts # <<>> => x.of = "intArray")
  OBVIOUS
<1> HIDE DEF t
<1>6. g.tag = t /\ g.at = 1 /\ g \in Frames
  <2>1. g = [tag |-> t, at |-> 1]
    BY DEF Frame
  <2> QED
    BY <1>2, <2>1 DEF Frames
<1> HIDE DEF g
<1>7. Follows(x, g)
  <2>1. IsSeq(x.parts) /\ Len(x.parts) = g.at - 1 /\ 1 .. g.at - 1 = {}
    BY <1>4, <1>6, EmptyIsSeq
  <2> QED
    BY <1>4, <1>5, <1>6, <2>1 DEF Follows
<1>8. Equals(x, g) <=> Kept(t)
  <2>1. 1 .. g.at - 1 = {} /\ g.at = 1
    BY <1>6
  <2>2. Len(t.parts) \in Nat /\ DOMAIN t.parts = 1 .. Len(t.parts)
    <3>1. t.parts \in Seq(Parts)
      BY <1>2, TagFacts
    <3> QED
      BY <3>1
  <2>3. Equals(x, g) <=> (t.type = "list" => \A i \in 1 .. Len(t.parts) : t.parts[i].tag.type = "intArray")
    BY <1>4, <1>6, <2>1 DEF Equals
  <2>4. Kept(t) <=> (t.type = "list" => \A i \in 1 .. Len(t.parts) : t.parts[i].tag.type = "intArray")
    BY <1>2, <2>2 DEF Kept, Containers
  <2> QED
    BY <2>3, <2>4
<1>9. x.name = Current(Last(c.calls)).name
  BY <1>1, <1>4
<1>10. Aligned(reading', d.calls)
  BY <1>1, <1>3, <1>6, <1>7, <1>9, EnteredAligned
<1>11. Same(reading', d.calls) <=> Same(reading, c.calls) /\ Equals(x, g)
  BY <1>1, <1>3, <1>6, <1>7, <1>9, EnteredAligned
<1>12. (\A u \in d.met : Kept(u)) <=> Same(reading', d.calls)
  BY <1>1, <1>3, <1>8, <1>11
<1>13. d.calls # <<>>
  <2>1. Len(d.calls) # 0
    BY <1>1, <1>3, SeqIsSeq, AppendedSeq
  <2> QED
    BY <2>1, EmptyIsSeq
<1> QED
  BY <1>10, <1>12, <1>13, ReaderProgress

\* The reader that enters a compound stays aligned with the trail.
LEMMA ReadCompoundHeadStep ==
    ASSUME TrailInv, nbtStage = "reading", NEW k, NEW c, NEW d, NEW f, NEW r, Context(k, c, d, f, r), NextTokens(f),
           ReadCompoundHead
    PROVE  ReaderInv'
<1>1. /\ c.calls \in Seq(Frames) /\ c.calls # <<>> /\ Nested(tree, c.calls, c.met)
      /\ f = Last(c.calls) /\ f \in Frames /\ f.tag.type \in Containers /\ ~Throws(f)
      /\ r = Last(reading) /\ Follows(r, f) /\ position \in Nat
      /\ d.position = position + Len(Emitted(f))
  BY DEF Context
<1>2. /\ ~Over(r) /\ NextType(r) = "compound"
      /\ reading' = Append(reading, CompoundCall(NextName(r))) /\ position' = AfterHeader(r)
      /\ UNCHANGED <<tree, output, met, trail>> /\ nbtStage' = "reading"
  BY <1>1 DEF ReadCompoundHead, Reads, CanEnterCompound
<1>3. ~AtEnd(f)
  <2>1. f.at <= Len(f.tag.parts) + 1
    BY <1>1, LastFacts
  <2> QED
    BY <1>1, <1>2, <2>1, EndContext
<1>4. f.tag.type = "compound"
  <2>1. SUFFICES ASSUME f.tag.type = "list" PROVE FALSE
    BY <1>1 DEF Containers
  <2>2. NextType(r) = "intArray"
    BY <1>1, <1>3, <2>1, ElementContext DEF AtElement
  <2> QED
    BY <1>2, <2>2
<1>5. AtPart(f, r)
  BY <1>1, <1>3, <1>4, PartContext
<1> DEFINE p == Current(f)
<1>6. p.tag.type = "compound" /\ NextName(r) = p.name /\ AfterHeader(r) = position + 2
  BY <1>2, <1>5 DEF AtPart
<1>7. position' = d.position
  <2>1. Len(Emitted(f)) = 2 + Len(WriteValue(p.tag))
    BY <1>1, <1>3, <1>4, EmittedHeader
  <2>2. Len(WriteValue(p.tag)) = 0
    <3>1. p.tag \in Tags
      BY <1>1, <1>3, FrameFacts
    <3> QED
      BY <1>6, <3>1, ValueOfTag
  <2> QED
    BY <1>1, <1>2, <1>6, <2>1, <2>2
<1> DEFINE x == CompoundCall(NextName(r))
<1>8. x = [type |-> p.tag.type, name |-> p.name, parts |-> <<>>, of |-> x.of, count |-> x.count] /\ x.type = "compound"
  BY <1>6 DEF CompoundCall
<1>9. reading' = Append(reading, x)
  BY <1>2
<1> HIDE DEF x
<1> QED
  BY <1>2, <1>3, <1>4, <1>6, <1>7, <1>8, <1>9, EnteredStep DEF Containers

\* So does the one that enters a list.
LEMMA ReadListHeadStep ==
    ASSUME TrailInv, nbtStage = "reading", NEW k, NEW c, NEW d, NEW f, NEW r, Context(k, c, d, f, r), NextTokens(f),
           ReadListHead
    PROVE  ReaderInv'
<1> DEFINE n == AfterHeader(r)
           of == ValueAfter(n)
           count == IF of = "end" THEN 0 ELSE ValueAfter(n + 1)
           x == ListCall(NextName(r), of, count)
<1>1. /\ c.calls \in Seq(Frames) /\ c.calls # <<>> /\ Nested(tree, c.calls, c.met)
      /\ f = Last(c.calls) /\ f \in Frames /\ f.tag.type \in Containers /\ ~Throws(f)
      /\ r = Last(reading) /\ Follows(r, f) /\ position \in Nat
      /\ d.position = position + Len(Emitted(f))
  BY DEF Context
<1>2. /\ ~Over(r) /\ NextType(r) = "list"
      /\ reading' = Append(reading, x) /\ position' = n + 2
      /\ UNCHANGED <<tree, output, met, trail>> /\ nbtStage' = "reading"
  BY <1>1 DEF ReadListHead, Reads, CanEnterList
<1>3. ~AtEnd(f)
  <2>1. f.at <= Len(f.tag.parts) + 1
    BY <1>1, LastFacts
  <2> QED
    BY <1>1, <1>2, <2>1, EndContext
<1>4. f.tag.type = "compound"
  <2>1. SUFFICES ASSUME f.tag.type = "list" PROVE FALSE
    BY <1>1 DEF Containers
  <2>2. NextType(r) = "intArray"
    BY <1>1, <1>3, <2>1, ElementContext DEF AtElement
  <2> QED
    BY <1>2, <2>2
<1>5. AtPart(f, r)
  BY <1>1, <1>3, <1>4, PartContext
<1> DEFINE p == Current(f)
           v == WriteValue(p.tag)
<1>6. p.tag.type = "list" /\ NextName(r) = p.name /\ n = position + 2
  BY <1>2, <1>5 DEF AtPart
<1>7. p.tag \in Tags
  BY <1>1, <1>3, FrameFacts
<1>8. /\ Len(v) = 2 /\ v[1] = [kind |-> "tag", value |-> IF p.tag.parts = <<>> THEN "byte" ELSE "intArray"]
      /\ v[2] = [kind |-> "int", value |-> Len(p.tag.parts)]
  BY <1>6, <1>7, ValueOfTag
<1>9. \A i \in 1 .. Len(v) : ValueAfter(position + 2 + i - 1) = v[i].value
  BY <1>5 DEF AtPart
<1>10. position' = d.position
  <2>1. Len(Emitted(f)) = 2 + Len(v)
    BY <1>1, <1>3, <1>4, EmittedHeader
  <2> QED
    BY <1>1, <1>2, <1>6, <1>8, <2>1
<1>11. of = (IF p.tag.parts = <<>> THEN "byte" ELSE "intArray") /\ ValueAfter(n + 1) = Len(p.tag.parts)
  <2> HIDE DEF v
  <2>1. 1 \in 1 .. Len(v) /\ 2 \in 1 .. Len(v) /\ position + 2 + 1 - 1 = n /\ position + 2 + 2 - 1 = n + 1
    BY <1>1, <1>6, <1>8
  <2>2. ValueAfter(n) = v[1].value /\ ValueAfter(n + 1) = v[2].value
    BY <1>9, <2>1
  <2> QED
    BY <1>8, <2>2
<1>12. of # "end" /\ count = Len(p.tag.parts)
  BY <1>11
<1> HIDE DEF of, count, n
<1>13. /\ x = [type |-> p.tag.type, name |-> p.name, parts |-> <<>>, of |-> x.of, count |-> x.count]
       /\ x.of = of /\ x.count = count
  <2> DEFINE name == NextName(r)
  <2> HIDE DEF name
  <2>1. ListCall(name, of, count) = [type |-> "list", name |-> name, parts |-> <<>>, of |-> of, count |-> count]
    BY DEF ListCall
  <2> QED
    BY <1>6, <2>1 DEF name
<1> HIDE DEF x
<1>14. x.type = "list" => x.count = Len(p.tag.parts) /\ (p.tag.parts # <<>> => x.of = "intArray")
  BY <1>11, <1>12, <1>13
<1> QED
  BY <1>2, <1>3, <1>4, <1>6, <1>10, <1>13, <1>14, EnteredStep DEF Containers

\* The end of a list or a compound: its tag is a part of the call around it,
\* or the root.
LEMMA ReadEndStep ==
    ASSUME TrailInv, nbtStage = "reading", NEW k, NEW c, NEW d, NEW f, NEW r, Context(k, c, d, f, r), NextTokens(f), ReadEnd
    PROVE  ReaderInv'
<1> DEFINE n == IF r.type = "list" THEN position ELSE position + 1
           m == Len(c.calls)
<1>1. /\ c.calls \in Seq(Frames) /\ c.calls # <<>> /\ Nested(tree, c.calls, c.met)
      /\ f = Last(c.calls) /\ f \in Frames /\ f.tag.type \in Containers /\ ~Throws(f)
      /\ Aligned(reading, c.calls) /\ r = Last(reading) /\ Follows(r, f)
      /\ (\A u \in c.met : Kept(u)) <=> Same(reading, c.calls)
      /\ position \in Nat
      /\ d.calls = After(c.calls) /\ d.met = c.met \cup Meets(f)
      /\ d.position = position + Len(Emitted(f))
      /\ d.calls = <<>> => d.position = Len(output) /\ d.met = met
  BY DEF Context
<1>2. Over(r) /\ UNCHANGED <<tree, output, met, trail>>
  BY <1>1 DEF ReadEnd, Reads
<1>3. AtEnd(f)
  <2>1. CASE f.tag.type = "compound" /\ ~AtEnd(f)
    BY <1>1, <1>2, <2>1, PartContext DEF AtPart
  <2>2. CASE f.tag.type = "list" /\ ~AtEnd(f)
    BY <1>1, <1>2, <2>2, ElementContext DEF AtElement
  <2> QED
    BY <1>1, <2>1, <2>2 DEF Containers
<1>4. n = d.position /\ r.type = f.tag.type /\ f.at - 1 = Len(f.tag.parts) /\ (Equals(r, f) <=> r.parts = f.tag.parts)
  <2>1. f.at <= Len(f.tag.parts) + 1
    BY <1>1, LastFacts
  <2> QED
    BY <1>1, <1>3, <2>1, EndContext
<1>5. d.calls = Returned(c.calls) /\ d.met = c.met
  BY <1>1, <1>3 DEF After, Meets
<1>6. Len(reading) = m /\ IsSeq(reading) /\ m \in Nat \ {0}
  BY <1>1, LastFacts DEF Aligned
<1>7. CASE m = 1
  <2>1. reading' = <<>> /\ position' = n /\ parsed' = r.parts /\ nbtStage' = "read"
    BY <1>1, <1>6, <1>7 DEF ReadEnd, Reads
  <2>2. d.calls = <<>>
    BY <1>5, <1>7 DEF Returned
  <2>3. d.position = Len(output) /\ d.met = met
    BY <1>1, <2>2
  <2>4. f.tag = tree
    BY <1>1, <1>7, LastFacts
  <2>5. Same(reading, c.calls) <=> Equals(r, f)
    <3>1. r = reading[1] /\ f = c.calls[1] /\ \A j \in 1 .. m : j = 1
      BY <1>1, <1>6, <1>7 DEF Last
    <3> QED
      BY <1>7, <3>1 DEF Same
  <2>6. (\A u \in met : Kept(u)) <=> parsed' = tree.parts
    BY <1>1, <1>4, <1>5, <2>1, <2>3, <2>4, <2>5
  <2> QED
    BY <1>2, <1>4, <2>1, <2>3, <2>6 DEF ReaderInv
<1>8. CASE m # 1
  <2> DEFINE t == Container(r.type, r.parts)
             s == Front(c.calls)
             g == Last(s)
  <2>1. reading' = Adds(Front(reading), r.name, t) /\ position' = n /\ nbtStage' = "reading"
    BY <1>1, <1>6, <1>8 DEF ReadEnd, Reads
  <2>2. m > 1
    <3>1. \A j \in Nat \ {0} : j # 1 => j > 1
      OBVIOUS
    <3> QED
      BY <1>6, <1>8, <3>1
  <2>3. /\ s \in Seq(Frames) /\ s # <<>> /\ Len(s) = m - 1 /\ Nested(tree, s, c.met)
        /\ g = c.calls[m - 1] /\ ~AtEnd(g)
    <3>1. c.calls \in Seq(Frames) /\ Nested(tree, c.calls, c.met)
      BY <1>1
    <3> HIDE DEF t
    <3> QED
      BY <2>2, <3>1, FrontNested
  <2>4. Aligned(Front(reading), s) /\ (Same(reading, c.calls) <=> Same(Front(reading), s) /\ Equals(r, f))
    BY <1>1, <2>2, LeftAligned
  <2>5. d.calls = Advanced(s)
    BY <1>5, <1>8 DEF Returned
  <2>6. g.tag.type = "compound" /\ Current(g).tag = f.tag /\ r.name = Current(g).name
    <3>1. m - 1 \in DOMAIN c.calls /\ m - 1 # m /\ m - 1 + 1 = m /\ m \in 1 .. m /\ f = c.calls[m] /\ r = reading[m]
      BY <1>1, <1>6, <2>2 DEF Last
    <3>2. g.tag.type = "compound" /\ Current(g).tag = f.tag
      BY <1>1, <2>3, <3>1 DEF Nested
    <3>3. reading[m].name = Current(c.calls[m - 1]).name
      BY <1>1, <1>8, <3>1 DEF Aligned
    <3> QED
      BY <2>3, <3>1, <3>2, <3>3
  <2>7. t = f.tag <=> Equals(r, f)
    <3>1. f.tag \in Tags
      BY <1>1, FrameFacts
    <3>2. f.tag = Container(f.tag.type, f.tag.parts)
      BY <1>1, <3>1, TagFacts
    <3> QED
      BY <1>4, <3>2 DEF Container
  <2> HIDE DEF t, s, g
  <2>8. CallsAdded(g, s, Front(reading), t, reading')
    BY <2>1, <2>3, <2>4, <2>6, AddsAligned DEF g
  <2>9. Aligned(reading', d.calls) /\ (Same(reading', d.calls) <=> Same(Front(reading), s) /\ t = f.tag)
    BY <2>5, <2>6, <2>8 DEF CallsAdded
  <2>10. (\A u \in d.met : Kept(u)) <=> Same(reading', d.calls)
    BY <1>1, <1>5, <2>4, <2>7, <2>9
  <2>11. d.calls # <<>>
    <3>1. Len(d.calls) # 0
      BY <2>3, <2>5, AdvancedFacts
    <3> QED
      BY <3>1, EmptyIsSeq
  <2> QED
    BY <1>2, <1>4, <2>1, <2>9, <2>10, <2>11, ReaderProgress
<1> QED
  BY <1>7, <1>8

\* The reader falls out of step only after an int array with numbers.
LEMMA FallStep ==
    ASSUME TrailInv, nbtStage = "reading", NEW k, NEW c, NEW d, NEW f, NEW r, Context(k, c, d, f, r), NextTokens(f),
           FallOutOfStep
    PROVE  ReaderInv'
<1>1. /\ c.calls \in Seq(Frames) /\ c.calls # <<>> /\ Nested(tree, c.calls, c.met)
      /\ f = Last(c.calls) /\ f \in Frames /\ f.tag.type \in Containers /\ ~Throws(f)
      /\ r = Last(reading) /\ Follows(r, f)
      /\ position \in Nat /\ d.met = c.met \cup Meets(f) /\ d.met \subseteq met
  BY DEF Context
<1>2. /\ ~Over(r) /\ ~CanRead(r) /\ ~CanEnterCompound(r) /\ ~CanEnterList(r)
      /\ UNCHANGED <<tree, output, met, trail>> /\ nbtStage' = "outOfStep"
  BY <1>1 DEF FallOutOfStep
<1>3. ~AtEnd(f)
  <2>1. f.at <= Len(f.tag.parts) + 1
    BY <1>1, LastFacts
  <2> QED
    BY <1>1, <1>2, <2>1, EndContext
<1>4. f.tag.type = "compound"
  <2>1. SUFFICES ASSUME f.tag.type = "list" PROVE FALSE
    BY <1>1 DEF Containers
  <2> QED
    BY <1>1, <1>2, <1>3, <2>1, ElementContext DEF AtElement
<1>5. AtPart(f, r)
  BY <1>1, <1>3, <1>4, PartContext
<1> DEFINE u == Current(f).tag
           v == WriteValue(u)
           n == position + 2
<1>6. HasHeader(r) /\ NextType(r) = u.type /\ AfterHeader(r) = n
  BY <1>5 DEF AtPart
<1>7. \A i \in 1 .. Len(v) : (\A kind : Has(kind, n + i - 1) <=> v[i].kind = kind) /\ ValueAfter(n + i - 1) = v[i].value
  BY <1>5 DEF AtPart
<1>8. u \in Tags
  BY <1>1, <1>3, FrameFacts
<1>9. n \in Nat /\ n + 1 - 1 = n /\ n + 2 - 1 = n + 1
  BY <1>1
<1> HIDE DEF u, v, n
<1>10. u.type = "intArray" /\ u.numbers # <<>>
  <2>1. CASE u.type \in Scalars
    <3>1. Len(v) = 1 /\ v[1] = [kind |-> u.type, value |-> u.numbers]
      BY <1>8, <2>1, ValueOfTag DEF v
    <3>2. Has(u.type, n)
      BY <1>7, <1>9, <3>1
    <3> QED
      BY <1>2, <1>6, <2>1, <3>2 DEF CanRead, HasValue, Scalars
  <2>2. CASE u.type = "byteArray"
    <3>1. /\ Len(v) = 2 /\ v[1] = [kind |-> "int", value |-> Len(u.numbers)]
          /\ v[2] = [kind |-> "bytes", value |-> u.numbers]
      BY <1>8, <2>2, ValueOfTag DEF v
    <3>2. 1 \in 1 .. Len(v) /\ 2 \in 1 .. Len(v)
      BY <3>1
    <3>3. Has("int", n) /\ ValueAfter(n) = Len(u.numbers) /\ Has("bytes", n + 1) /\ ValueAfter(n + 1) = u.numbers
      BY <1>7, <1>9, <3>1, <3>2
    <3> QED
      BY <1>2, <1>6, <2>2, <3>3 DEF CanRead, HasValue, Scalars
  <2>3. CASE u.type = "list"
    <3> DEFINE of == IF u.parts = <<>> THEN "byte" ELSE "intArray"
    <3> HIDE DEF of
    <3>0. Len(v) = 2 /\ v[1] = [kind |-> "tag", value |-> of] /\ v[2] = [kind |-> "int", value |-> Len(u.parts)]
      BY <1>8, <2>3, ValueOfTag DEF v, of
    <3>1. Len(v) = 2 /\ v[1].kind = "tag" /\ v[2].kind = "int"
      BY <3>0
    <3>2. 1 \in 1 .. Len(v) /\ 2 \in 1 .. Len(v)
      BY <3>1
    <3>3. Has("tag", n) /\ Has("int", n + 1)
      BY <1>7, <1>9, <3>1, <3>2
    <3> QED
      BY <1>2, <1>6, <2>3, <3>3 DEF CanEnterList
  <2>4. CASE u.type = "compound"
    BY <1>2, <1>6, <2>4 DEF CanEnterCompound
  <2>5. CASE u.type = "intArray" /\ u.numbers = <<>>
    <3>1. Len(v) = 1 /\ v[1] = [kind |-> "int", value |-> IF Len(u.numbers) = 1 THEN u.numbers[1] ELSE 0]
      BY <1>8, <2>5, ValueOfTag DEF v
    <3>2. Len(u.numbers) = 0
      BY <2>5, EmptyIsSeq
    <3>3. Has("int", n) /\ ValueAfter(n) = 0
      BY <1>7, <1>9, <3>1, <3>2
    <3> QED
      BY <1>2, <1>6, <2>5, <3>3 DEF CanRead, HasValue, Scalars
  <2> QED
    BY <1>8, <2>1, <2>2, <2>3, <2>4, <2>5, TagFacts DEF Arrays, Containers
<1>11. ~Kept(u)
  BY <1>10 DEF Kept
<1>12. u \in met
  BY <1>1, <1>3, <1>4 DEF Meets, u
<1> QED
  BY <1>2, <1>11, <1>12 DEF ReaderInv

\* The first step of the reader puts it at the start of the trail.
LEMMA ParseStep ==
    ASSUME TrailInv, Parse
    PROVE  ReaderInv'
<1>1. nbtStage = "written" /\ trail # <<>> /\ writing = <<>> /\ trail \in Seq(Configurations) /\ IsSeq(output) /\ tree \in Trees
  BY DEF Parse, TrailInv, TrailType, StageInv
<1>2. /\ trail[1] = [calls |-> <<Frame(tree)>>, position |-> 2, met |-> {}]
      /\ Len(output) >= 2 /\ Len(output) \in Nat
      /\ output[1] = [kind |-> "tag", value |-> "compound"] /\ output[2] = [kind |-> "string", value |-> ""]
  BY <1>1 DEF TrailInv, TrailStart, IsSeq
<1>3. Has("tag", 0) /\ ValueAfter(0) = "compound" /\ Has("string", 1) /\ ValueAfter(1) = ""
  <2>1. \A j \in Nat : j >= 2 => 0 < j /\ 1 < j
    OBVIOUS
  <2>2. 0 < Len(output) /\ 1 < Len(output)
    BY <1>2, <2>1
  <2>3. 0 + 1 = 1 /\ 1 + 1 = 2
    OBVIOUS
  <2>4. output[1].kind = "tag" /\ output[1].value = "compound"
    <3>1. output[1] = [kind |-> "tag", value |-> "compound"]
      BY <1>2
    <3> QED
      BY <3>1
  <2>5. output[2].kind = "string" /\ output[2].value = ""
    <3>1. output[2] = [kind |-> "string", value |-> ""]
      BY <1>2
    <3>2. \A name : output[2] = [kind |-> "string", value |-> name] => output[2].kind = "string" /\ output[2].value = name
      OBVIOUS
    <3> QED
      BY <3>1, <3>2
  <2>6. Has("tag", 0) /\ ValueAfter(0) = "compound"
    BY <2>2, <2>3, <2>4 DEF Has, ValueAfter
  <2>7. Has("string", 1) /\ ValueAfter(1) = ""
    BY <2>2, <2>3, <2>5 DEF Has, ValueAfter
  <2> QED
    BY <2>6, <2>7
<1> DEFINE x == CompoundCall("")
           g == Frame(tree)
<1>4. reading' = <<x>> /\ position' = 2 /\ nbtStage' = "reading" /\ UNCHANGED <<tree, output, met, trail>>
  BY <1>3 DEF Parse, Reads
<1>5. tree.type = "compound"
  BY <1>1, TreesAssumption
<1>6. g.tag = tree /\ g.at = 1
  BY DEF Frame
<1>7. /\ x = [type |-> x.type, name |-> x.name, parts |-> x.parts, of |-> x.of, count |-> x.count]
      /\ x.type = "compound" /\ x.parts = <<>>
  BY DEF CompoundCall
<1> HIDE DEF x, g
<1>8. Follows(x, g) /\ Equals(x, g)
  <2>1. IsSeq(x.parts) /\ Len(x.parts) = g.at - 1 /\ 1 .. g.at - 1 = {}
    BY <1>6, <1>7, EmptyIsSeq
  <2> QED
    BY <1>5, <1>6, <1>7, <2>1 DEF Follows, Equals
<1> DEFINE u == <<x>>
           a == <<g>>
<1>9. IsSeq(u) /\ Len(u) = 1 /\ u[1] = x /\ Len(a) = 1 /\ a[1] = g
  BY DEF IsSeq
<1> HIDE DEF u, a
<1>10. \A j \in 1 .. 1 : j = 1
  OBVIOUS
<1>11. Aligned(u, a) /\ Same(u, a)
  BY <1>8, <1>9, <1>10 DEF Aligned, Same
<1>12. Matches(u, 2, trail[1])
  <2>1. trail[1] = [calls |-> a, position |-> 2, met |-> {}]
    BY <1>2 DEF a, g
  <2>2. trail[1].calls = a /\ trail[1].position = 2 /\ trail[1].met = {}
    BY <2>1
  <2>3. Aligned(u, trail[1].calls) /\ Same(u, trail[1].calls)
    BY <1>11, <2>2
  <2>4. \A t \in trail[1].met : Kept(t)
    BY <2>2
  <2> QED
    BY <2>2, <2>3, <2>4 DEF Matches
<1>13. 1 \in DOMAIN trail /\ 1 # Len(trail)
  <2>1. Len(trail) \in Nat \ {0} /\ trail[Len(trail)] = [calls |-> writing, position |-> Len(output), met |-> met]
    BY <1>1, WritingFacts
  <2>2. trail[Len(trail)].calls = <<>>
    BY <1>1, <2>1
  <2>3. trail[1].calls # <<>>
    <3>1. trail[1].calls = a
      <4>1. trail[1] = [calls |-> a, position |-> 2, met |-> {}]
        BY <1>2 DEF a, g
      <4> QED
        BY <4>1
    <3> QED
      BY <1>9, <3>1, EmptyIsSeq
  <2> QED
    BY <1>1, <2>1, <2>2, <2>3
<1> QED
  BY <1>4, <1>12, <1>13 DEF ReaderInv, u

\* The writer throws at an element that is no array.
LEMMA ThrowStep ==
    ASSUME TrailInv, ThrowAtPart
    PROVE  ReaderInv'
<1> DEFINE f == Last(writing)
<1>1. nbtStage = "writing" /\ nbtStage' = "thrown" /\ Throws(f) /\ met' = met
  BY DEF ThrowAtPart
<1>2. trail # <<>> /\ writing # <<>> /\ tree \in Trees
  BY <1>1 DEF TrailInv, TrailType, StageInv
<1>3. writing \in Seq(Frames) /\ Nested(tree, writing, met)
  BY <1>2, WritingFacts
<1>4. f \in Frames /\ (Len(writing) = 1 => f.tag = tree) /\ (Len(writing) # 1 => f.tag \in met)
  BY <1>2, <1>3, LastFacts
<1>5. tree.type = "compound"
  BY <1>2, TreesAssumption
<1>6. f.tag.type = "list" /\ ~AtEnd(f) /\ Current(f).tag.type \notin Arrays
  BY <1>1 DEF Throws
<1>7. f.tag \in met
  BY <1>4, <1>5, <1>6
<1>8. f.at \in DOMAIN f.tag.parts
  BY <1>4, <1>6, FrameFacts
<1>9. ~Kept(f.tag)
  BY <1>6, <1>8 DEF Kept, Current, Arrays
<1> QED
  BY <1>1, <1>7, <1>9 DEF ReaderInv

\* The reader invariant is inductive.
LEMMA ReaderStep == NbtInv /\ [NbtNext]_nbtVars => ReaderInv'
<1> SUFFICES ASSUME TrailInv, ReaderInv, [NbtNext]_nbtVars PROVE ReaderInv'
  BY DEF NbtInv
<1>1. ASSUME nbtStage = "reading"
      PROVE  \E k, c, d, f, r : Context(k, c, d, f, r) /\ NextTokens(f)
  <2>1. PICK k : Here(k)
    BY <1>1 DEF ReaderInv, Here
  <2> QED
    BY <1>1, <2>1, ReaderContext
<1>2. CASE WriteCompound
  BY <1>2 DEF WriteCompound, ReaderInv
<1>3. CASE WritePart
  BY <1>3 DEF WritePart, ReaderInv
<1>4. CASE EnterPart
  BY <1>4 DEF EnterPart, ReaderInv
<1>5. CASE LeavePart
  BY <1>5 DEF LeavePart, ReaderInv
<1>6. CASE ThrowAtPart
  BY <1>6, ThrowStep
<1>7. CASE Parse
  BY <1>7, ParseStep
<1>8. CASE ReadPart
  BY <1>1, <1>8, ReadPartStep DEF ReadPart
<1>9. CASE ReadCompoundHead
  BY <1>1, <1>9, ReadCompoundHeadStep DEF ReadCompoundHead
<1>10. CASE ReadListHead
  BY <1>1, <1>10, ReadListHeadStep DEF ReadListHead
<1>11. CASE ReadEnd
  BY <1>1, <1>11, ReadEndStep DEF ReadEnd
<1>12. CASE FallOutOfStep
  BY <1>1, <1>12, FallStep DEF FallOutOfStep
<1>13. CASE UNCHANGED nbtVars
  BY <1>13 DEF nbtVars, ReaderInv
<1> QED
  BY <1>2, <1>3, <1>4, <1>5, <1>6, <1>7, <1>8, <1>9, <1>10, <1>11, <1>12, <1>13 DEF NbtNext

\* What NBTReader makes of what NBTWriter wrote of any tree of tags is that tree
\* exactly when all tags its compounds have are of a kind that is kept.
THEOREM TagsCorrect == NbtSpec => []WrittenTagsAreRead
<1>1. NbtInit => NbtInv
  <2> SUFFICES ASSUME NbtInit PROVE NbtInv
    OBVIOUS
  <2>1. TrailType /\ TrailSteps /\ TrailStart /\ TrailEnd
    BY EmptyIsSeq DEF NbtInit, TrailType, TrailSteps, TrailStart, TrailEnd
  <2>2. StageInv /\ ReaderInv
    BY DEF NbtInit, StageInv, ReaderInv
  <2> QED
    BY <2>1, <2>2 DEF NbtInv, TrailInv
<1>2. NbtInv /\ [NbtNext]_nbtVars => NbtInv'
  BY TrailStep, ReaderStep DEF NbtInv
<1>3. NbtInv => WrittenTagsAreRead
  BY DEF NbtInv, ReaderInv, WrittenTagsAreRead
<1> QED
  BY <1>1, <1>2, <1>3, PTL DEF NbtSpec

-----------------------------------------------------------------------------
(* Packets: the writer.                                                    *)

IsPlace(p) ==
    /\ p = [call |-> p.call, element |-> p.element, inner |-> p.inner, count |-> p.count]
    /\ p.call \in Nat \ {0}

\* Of the classes whose writer and reader agree: a call of a body is one.
InItsBody(m, p) ==
    m.class \notin UnevenClasses /\ p.inner # 0 =>
        /\ p.call <= Len(WriteLayout(m.class)) /\ WriteLayout(m.class)[p.call].op = "each"
        /\ p.inner \in 1 .. Len(WriteLayout(m.class)[p.call].body)

CallOf(m, p) == Packets!CallAt(WriteLayout(m.class), p)
FieldsOf(m, p) == Packets!FieldsAt(WriteLayout(m.class), p, m.fields)
MadeAt(m, p) == Packets!Made(CallOf(m, p), FieldsOf(m, p))
MeantAt(m, p) == Packets!Meant(CallOf(m, p), FieldsOf(m, p))
TokenAt(m, p) == Packets!Written(CallOf(m, p), FieldsOf(m, p))

\* What one call of the writer of m added, with the writer at c before and at d
\* after it.
CallStep(m, tokens, names, c, d) ==
    LET call == CallOf(m, c.place)
    IN  /\ ~Packets!Over(WriteLayout(m.class), c.place)
        /\ IF MadeAt(m, c.place)
           THEN /\ call.op # "throws"
                /\ d.position = c.position + 1 /\ tokens[d.position] = TokenAt(m, c.place)
                /\ d.place = Packets!NextPlace(WriteLayout(m.class), c.place, TokenAt(m, c.place).value)
                /\ IF call.name = "" THEN d.named = c.named
                   ELSE d.named = c.named + 1 /\ names[d.named] = <<call.name, MeantAt(m, c.place)>>
           ELSE d.position = c.position /\ d.named = c.named /\ d.place = Packets!Passed(WriteLayout(m.class), c.place)

PathEnds ==
    LET n == Len(path)
    IN  /\ n >= 1 /\ path[n].position = Len(stream) /\ path[n].named = Len(meant)
        /\ packetStage = "encoding" => path[n].place = place
        /\ packetStage \in {"decoding", "decoded", "lost"} => Packets!Over(WriterCalls, path[n].place)

PathInv ==
    /\ message \in PacketMessages
    /\ packetStage \in {"encoding", "thrown", "decoding", "decoded", "lost"}
    /\ IsSeq(stream) /\ IsSeq(meant) /\ IsSeq(path)
    /\ path[1] = [place |-> Packets!Start, position |-> 0, named |-> 0]
    /\ \A k \in 1 .. Len(path) :
           /\ IsPlace(path[k].place) /\ InItsBody(message, path[k].place)
           /\ path[k].position \in 0 .. Len(stream) /\ path[k].named \in 0 .. Len(meant)
    /\ \A k \in 1 .. Len(path) - 1 : CallStep(message, stream, meant, path[k], path[k + 1])
    /\ PathEnds

\* The next place is one, at the same call or at the next one.
LEMMA PlaceFacts ==
    ASSUME NEW layout, NEW p, IsPlace(p), NEW v
    PROVE  /\ IsPlace(Packets!Passed(layout, p)) /\ IsPlace(Packets!NextPlace(layout, p, v))
           /\ Packets!Passed(layout, p).call \in {p.call, p.call + 1}
           /\ Packets!NextPlace(layout, p, v).call \in {p.call, p.call + 1}
           /\ p.inner = 0 => Packets!Passed(layout, p) = Packets!Following(p)
           /\ Packets!Following(p) = [call |-> p.call + 1, element |-> 0, inner |-> 0, count |-> 0]
<1>1. Packets!Following(p) = [call |-> p.call + 1, element |-> 0, inner |-> 0, count |-> 0]
  BY DEF Packets!Following, Packets!Start
<1>2. IsPlace(Packets!Following(p)) /\ Packets!Following(p).call = p.call + 1
  BY <1>1 DEF IsPlace
<1>3. \A e, i, n : LET q == [call |-> p.call, element |-> e, inner |-> i, count |-> n] IN IsPlace(q) /\ q.call = p.call
  BY DEF IsPlace
<1>4. /\ [p EXCEPT !.inner = @ + 1] = [call |-> p.call, element |-> p.element, inner |-> p.inner + 1, count |-> p.count]
      /\ [p EXCEPT !.inner = 0] = [call |-> p.call, element |-> p.element, inner |-> 0, count |-> p.count]
  BY DEF IsPlace
<1>5. /\ IsPlace(Packets!Passed(layout, p)) /\ Packets!Passed(layout, p).call \in {p.call, p.call + 1}
      /\ p.inner = 0 => Packets!Passed(layout, p) = Packets!Following(p)
  <2>1. p.inner = 0 => ~Packets!MoreInBody(layout, p) /\ ~Packets!LastInBody(layout, p)
    BY DEF Packets!MoreInBody, Packets!LastInBody
  <2>2. ~(Packets!MoreInBody(layout, p) /\ Packets!LastInBody(layout, p))
    BY DEF Packets!MoreInBody, Packets!LastInBody
  <2> QED
    BY <1>2, <1>3, <1>4, <2>1, <2>2 DEF Packets!Passed, Packets!AtElement
<1>6. IsPlace(Packets!NextPlace(layout, p, v)) /\ Packets!NextPlace(layout, p, v).call \in {p.call, p.call + 1}
  BY <1>2, <1>3, <1>5 DEF Packets!NextPlace, Packets!AtElement
<1> QED
  BY <1>1, <1>5, <1>6

\* The next place is in its body when this one is.
LEMMA StaysInBody ==
    ASSUME NEW m \in PacketMessages, NEW p, IsPlace(p), InItsBody(m, p), ~Packets!Over(WriteLayout(m.class), p), NEW v
    PROVE  /\ InItsBody(m, Packets!Passed(WriteLayout(m.class), p))
           /\ InItsBody(m, Packets!NextPlace(WriteLayout(m.class), p, v))
<1> DEFINE W == WriteLayout(m.class)
<1> SUFFICES ASSUME m.class \notin UnevenClasses
             PROVE  InItsBody(m, Packets!Passed(W, p)) /\ InItsBody(m, Packets!NextPlace(W, p, v))
  BY DEF InItsBody
<1>1. /\ Len(W) \in Nat
      /\ \A i \in 1 .. Len(W) :
             /\ W[i].op \in {"field", "default", "skipped", "each", "throws"}
             /\ W[i].op = "each" => Len(W[i].body) \in Nat \ {0}
             /\ \A j \in 1 .. Len(W[i].body) : W[i].body[j].op = "field"
  <2>1. m.class \in Classes \ UnevenClasses
    BY PacketMessagesAssumption
  <2> QED
    <3>1. IsScoped(W)
      BY <2>1, LayoutsAssumption
    <3>2. /\ Len(W) \in Nat
          /\ \A i \in 1 .. Len(W) :
                 /\ W[i].op \in {"field", "default", "skipped", "each", "throws"}
                 /\ W[i].op = "each" => Len(W[i].body) \in Nat \ {0}
      BY <3>1 DEF IsScoped
    <3>3. \A i \in 1 .. Len(W) : \A j \in 1 .. Len(W[i].body) : W[i].body[j].op = "field"
      <4> HIDE DEF W
      <4> SUFFICES ASSUME NEW i \in 1 .. Len(W), NEW j \in 1 .. Len(W[i].body) PROVE W[i].body[j].op = "field"
        OBVIOUS
      <4> QED
        BY <3>1, Zenon DEF IsScoped
    <3> QED
      BY <3>2, <3>3
<1>2. p.call \in 1 .. Len(W)
  BY <1>1 DEF IsPlace, Packets!Over
<1>3. p.inner # 0 => W[p.call].op = "each" /\ p.inner \in 1 .. Len(W[p.call].body)
  BY DEF InItsBody
<1>4. InItsBody(m, Packets!Following(p))
  <2>1. Packets!Following(p).inner = 0
    BY DEF Packets!Following, Packets!Start
  <2> QED
    BY <2>1 DEF InItsBody
<1>5. InItsBody(m, Packets!Passed(W, p))
  <2>1. CASE p.inner = 0
    BY <1>4, <2>1, PlaceFacts
  <2>2. CASE Packets!MoreInBody(W, p)
    <3>1. ~Packets!LastInBody(W, p) /\ p.inner # 0 /\ p.inner < Len(W[p.call].body)
      BY <2>2 DEF Packets!MoreInBody, Packets!LastInBody
    <3>2. Packets!Passed(W, p) = [p EXCEPT !.inner = @ + 1]
      BY <2>2, <3>1 DEF Packets!Passed
    <3>3. /\ [p EXCEPT !.inner = @ + 1].inner = p.inner + 1 /\ [p EXCEPT !.inner = @ + 1].call = p.call
      BY DEF IsPlace
    <3>4. p.inner + 1 \in 1 .. Len(W[p.call].body)
      BY <1>1, <1>2, <1>3, <3>1
    <3> QED
      BY <1>1, <1>2, <1>3, <3>1, <3>2, <3>3, <3>4 DEF InItsBody
  <2>3. CASE p.inner # 0 /\ ~Packets!MoreInBody(W, p)
    <3>1. W[p.call].op = "each" /\ 1 \in 1 .. Len(W[p.call].body)
      BY <1>1, <1>2, <1>3, <2>3
    <3> DEFINE q == Packets!AtElement(p, p.element + 1, p.count)
    <3>2. Packets!Passed(W, p) = Packets!Following(p) \/ Packets!Passed(W, p) = q
      BY <2>3, <3>1 DEF Packets!Passed, Packets!LastInBody
    <3>3. q.inner = 1 /\ q.call = p.call
      BY DEF Packets!AtElement
    <3>4. InItsBody(m, q)
      BY <1>1, <1>2, <3>1, <3>3 DEF InItsBody
    <3> QED
      BY <1>4, <3>2, <3>4
  <2> QED
    BY <2>1, <2>2, <2>3
<1>6. InItsBody(m, Packets!NextPlace(W, p, v))
  <2> DEFINE q == Packets!AtElement(p, p.element + 1, Len(v))
  <2>1. CASE Packets!Loops(Packets!CallAt(W, p))
    <3>1. p.inner = 0 /\ W[p.call].op = "each"
      BY <1>1, <1>2, <1>3, <2>1 DEF Packets!Loops, Packets!CallAt
    <3>2. q.inner = 1 /\ q.call = p.call
      BY DEF Packets!AtElement
    <3>3. InItsBody(m, q)
      BY <1>1, <1>2, <3>1, <3>2 DEF InItsBody
    <3> QED
      BY <1>4, <2>1, <3>3 DEF Packets!NextPlace
  <2>2. CASE ~Packets!Loops(Packets!CallAt(W, p))
    BY <1>5, <2>2 DEF Packets!NextPlace
  <2> QED
    BY <2>1, <2>2
<1> QED
  BY <1>5, <1>6

\* The writer starts at its first call.
LEMMA PathStart == CodecInit => PathInv
<1> SUFFICES ASSUME CodecInit PROVE PathInv
  OBVIOUS
<1>1. /\ message \in PacketMessages /\ packetStage = "encoding" /\ place = Packets!Start
      /\ stream = <<>> /\ meant = <<>> /\ path = <<[place |-> Packets!Start, position |-> 0, named |-> 0]>>
  BY DEF CodecInit, WriterHere
<1>2. IsSeq(path) /\ Len(path) = 1 /\ path[1] = [place |-> Packets!Start, position |-> 0, named |-> 0]
  BY <1>1 DEF IsSeq
<1>3. IsSeq(stream) /\ IsSeq(meant) /\ Len(stream) = 0 /\ Len(meant) = 0
  BY <1>1 DEF IsSeq
<1>4. IsPlace(Packets!Start) /\ InItsBody(message, Packets!Start)
  BY DEF IsPlace, InItsBody, Packets!Start
<1> QED
  BY <1>1, <1>2, <1>3, <1>4 DEF PathInv, PathEnds

\* A step that appends to the path one call of the writer.
LEMMA PathGrows ==
    ASSUME PathInv, IsWriting, UNCHANGED <<message, packetStage>>,
           IsSeq(stream'), Len(stream) <= Len(stream'), \A i \in 1 .. Len(stream) : stream'[i] = stream[i],
           IsSeq(meant'), Len(meant) <= Len(meant'), \A i \in 1 .. Len(meant) : meant'[i] = meant[i],
           IsPlace(place'), InItsBody(message, place'), path' = Append(path, WriterHere'),
           CallStep(message, stream', meant', WriterHere, WriterHere')
    PROVE  PathInv'
<1> DEFINE n == Len(path)
<1>1. IsSeq(path) /\ n \in Nat \ {0} /\ Len(stream) \in Nat /\ Len(meant) \in Nat /\ Len(stream') \in Nat /\ Len(meant') \in Nat
  BY DEF PathInv, PathEnds, IsSeq
<1>2. /\ IsSeq(path') /\ Len(path') = n + 1 /\ path'[n + 1] = WriterHere'
      /\ \A k \in 1 .. n : path'[k] = path[k]
  BY <1>1, AppendedSeq
<1>3. path[n].place = place /\ path[n].position = Len(stream) /\ path[n].named = Len(meant)
  BY DEF PathInv, PathEnds, IsWriting
<1>4. WriterHere = [place |-> place, position |-> Len(stream), named |-> Len(meant)]
      /\ WriterHere' = [place |-> place', position |-> Len(stream'), named |-> Len(meant')]
  BY DEF WriterHere
<1>5. ASSUME NEW k \in 1 .. Len(path')
      PROVE  /\ IsPlace(path'[k].place) /\ InItsBody(message, path'[k].place)
             /\ path'[k].position \in 0 .. Len(stream') /\ path'[k].named \in 0 .. Len(meant')
  <2>1. CASE k \in 1 .. n
    <3>1. /\ IsPlace(path[k].place) /\ InItsBody(message, path[k].place)
          /\ path[k].position \in 0 .. Len(stream) /\ path[k].named \in 0 .. Len(meant)
      BY <2>1 DEF PathInv
    <3>2. path'[k] = path[k]
      BY <1>2, <2>1
    <3>3. 0 .. Len(stream) \subseteq 0 .. Len(stream') /\ 0 .. Len(meant) \subseteq 0 .. Len(meant')
      BY <1>1
    <3> QED
      BY <3>1, <3>2, <3>3, Zenon
  <2>2. CASE k = n + 1
    <3>1. path'[k] = WriterHere'
      BY <1>2, <2>2
    <3>2. path'[k].place = place' /\ path'[k].position = Len(stream') /\ path'[k].named = Len(meant')
      BY <1>4, <3>1
    <3>3. Len(stream') \in 0 .. Len(stream') /\ Len(meant') \in 0 .. Len(meant')
      BY <1>1
    <3> QED
      BY <3>2, <3>3, Zenon
  <2> QED
    BY <1>1, <1>2, <2>1, <2>2
<1>6. ASSUME NEW k \in 1 .. Len(path') - 1
      PROVE  CallStep(message, stream', meant', path'[k], path'[k + 1])
  <2>1. CASE k \in 1 .. n - 1
    <3>1. CallStep(message, stream, meant, path[k], path[k + 1])
      BY <2>1 DEF PathInv
    <3>2. k \in 1 .. n /\ k + 1 \in 1 .. n /\ path'[k] = path[k] /\ path'[k + 1] = path[k + 1]
      BY <1>1, <1>2, <2>1
    <3> DEFINE c == path[k]
               d == path[k + 1]
    <3>3. c.position \in 0 .. Len(stream) /\ d.position \in 0 .. Len(stream) /\ c.named \in 0 .. Len(meant) /\ d.named \in 0 .. Len(meant)
      BY <3>2 DEF PathInv
    <3> HIDE DEF c, d
    <3>4. CallStep(message, stream, meant, c, d)
      BY <3>1 DEF c, d
    <3>5. CallStep(message, stream', meant', c, d)
      <4>1. d.position = c.position + 1 => stream'[d.position] = stream[d.position]
        BY <1>1, <3>3
      <4>2. d.named = c.named + 1 => meant'[d.named] = meant[d.named]
        BY <1>1, <3>3
      <4> QED
        BY <3>4, <4>1, <4>2 DEF CallStep
    <3> QED
      BY <3>2, <3>5 DEF c, d
  <2>2. CASE k = n
    <3>1. path'[k + 1] = WriterHere' /\ path'[k] = path[n]
      BY <1>1, <1>2, <2>2
    <3>2. CallStep(message, stream', meant', path[n], WriterHere')
      BY <1>3, <1>4 DEF CallStep
    <3> QED
      BY <3>1, <3>2
  <2> QED
    BY <1>1, <1>2, <2>1, <2>2
<1>7. PathEnds'
  <2>1. packetStage' = "encoding"
    BY DEF IsWriting
  <2> QED
    BY <1>1, <1>2, <1>4, <2>1 DEF PathEnds
<1>8. path'[1] = [place |-> Packets!Start, position |-> 0, named |-> 0]
  BY <1>1, <1>2 DEF PathInv
<1> QED
  BY <1>2, <1>5, <1>6, <1>7, <1>8 DEF PathInv

\* What is noted of a call is at most one field.
LEMMA NotedFacts ==
    ASSUME NEW s, IsSeq(s), NEW call, NEW v
    PROVE  /\ IsSeq(s \o Packets!Noted(call, v)) /\ \A i \in 1 .. Len(s) : (s \o Packets!Noted(call, v))[i] = s[i]
           /\ call.name = "" => s \o Packets!Noted(call, v) = s
           /\ call.name # "" => /\ Len(s \o Packets!Noted(call, v)) = Len(s) + 1
                                /\ (s \o Packets!Noted(call, v))[Len(s) + 1] = <<call.name, v>>
<1>1. CASE call.name = ""
  <2>1. IsSeq(<<>>) /\ Len(<<>>) = 0
    BY DEF IsSeq
  <2>2. s \o <<>> = s
    <3>1. IsSeq(s \o <<>>) /\ Len(s \o <<>>) = Len(s) /\ \A i \in 1 .. Len(s) : (s \o <<>>)[i] = s[i]
      BY <2>1, JoinedSeq DEF IsSeq
    <3> QED
      BY <3>1, SameSeq
  <2> QED
    BY <1>1, <2>2 DEF Packets!Noted
<1>2. CASE call.name # ""
  <2> DEFINE x == <<call.name, v>>
  <2>1. IsSeq(<<x>>) /\ Len(<<x>>) = 1 /\ <<x>>[1] = x
    BY DEF IsSeq
  <2>2. Packets!Noted(call, v) = <<x>>
    BY <1>2 DEF Packets!Noted
  <2> HIDE DEF x
  <2>3. IsSeq(s \o <<x>>) /\ Len(s \o <<x>>) = Len(s) + 1 /\ (\A i \in 1 .. Len(s) : (s \o <<x>>)[i] = s[i])
        /\ (s \o <<x>>)[Len(s) + 1] = x
    BY <2>1, JoinedSeq
  <2> QED
    BY <1>2, <2>2, <2>3 DEF x
<1> QED
  BY <1>1, <1>2

\* The field that is noted of a call with one.
LEMMA NotedEntry ==
    \A s, call, v : IsSeq(s) /\ call.name # "" => (s \o Packets!Noted(call, v))[Len(s) + 1] = <<call.name, v>>
<1> SUFFICES ASSUME NEW s, IsSeq(s), NEW call, NEW v
             PROVE  call.name # "" => (s \o Packets!Noted(call, v))[Len(s) + 1] = <<call.name, v>>
  OBVIOUS
<1>1. CASE call.name # ""
  <2> DEFINE x == <<call.name, v>>
  <2>1. IsSeq(<<x>>) /\ Len(<<x>>) = 1 /\ <<x>>[1] = x
    BY DEF IsSeq
  <2>2. Packets!Noted(call, v) = <<x>>
    BY <1>1 DEF Packets!Noted
  <2> HIDE DEF x
  <2>3. (s \o <<x>>)[Len(s) + 1] = x
    BY <2>1, JoinedSeq
  <2> QED
    BY <2>2, <2>3 DEF x
<1> QED
  BY <1>1

\* A call with a field notes one.
LEMMA NotedLength ==
    \A s, call, v : IsSeq(s) /\ call.name # "" => Len(s \o Packets!Noted(call, v)) = Len(s) + 1
<1> SUFFICES ASSUME NEW s, IsSeq(s), NEW call, call.name # "", NEW v
             PROVE  Len(s \o Packets!Noted(call, v)) = Len(s) + 1
  OBVIOUS
<1> QED
  BY NotedFacts

\* Every step of the writer adds its next call to the path, and no step of the
\* reader changes it.
LEMMA PathStep == PathInv /\ [CodecNext]_codecVars => PathInv'
<1> SUFFICES ASSUME PathInv, [CodecNext]_codecVars PROVE PathInv'
  OBVIOUS
<1> USE DEF WriterCalls
<1>1. /\ message \in PacketMessages /\ IsSeq(stream) /\ IsSeq(meant) /\ IsSeq(path)
      /\ Len(stream) \in Nat /\ Len(meant) \in Nat
  BY DEF PathInv, IsSeq
<1>2. packetStage = "encoding" => IsPlace(place) /\ InItsBody(message, place)
  <2>1. Len(path) \in 1 .. Len(path) /\ (packetStage = "encoding" => path[Len(path)].place = place)
    BY <1>1 DEF PathInv, PathEnds, IsSeq
  <2> QED
    BY <2>1 DEF PathInv
<1>3. CASE SkipWriteCall
  <2>1. packetStage = "encoding" /\ ~Packets!Over(WriterCalls, place)
    BY <1>3 DEF SkipWriteCall, IsWriting
  <2>2. /\ UNCHANGED <<message, packetStage, stream, meant>> /\ place' = Packets!Passed(WriterCalls, place)
        /\ path' = Append(path, WriterHere') /\ ~MadeAt(message, place)
    BY <1>3 DEF SkipWriteCall, MadeAt, CallOf, FieldsOf, WriteCall, FieldsHere
  <2>3. IsPlace(place') /\ InItsBody(message, place')
    BY <1>1, <1>2, <2>1, <2>2, PlaceFacts, StaysInBody
  <2>4. CallStep(message, stream', meant', WriterHere, WriterHere')
    BY <2>1, <2>2 DEF CallStep, WriterHere
  <2> QED
    BY <1>1, <1>3, <2>2, <2>3, <2>4, PathGrows DEF SkipWriteCall
<1>4. CASE MakeWriteCall
  <2> DEFINE call == CallOf(message, place)
             token == TokenAt(message, place)
             given == MeantAt(message, place)
  <2>1. packetStage = "encoding" /\ ~Packets!Over(WriterCalls, place)
    BY <1>4 DEF MakeWriteCall, IsWriting
  <2>2. /\ UNCHANGED <<message, packetStage>> /\ MadeAt(message, place) /\ call.op # "throws"
        /\ stream' = Append(stream, token) /\ place' = Packets!NextPlace(WriterCalls, place, token.value)
        /\ meant' = meant \o Packets!Noted(call, given) /\ path' = Append(path, WriterHere')
    BY <1>4 DEF MakeWriteCall, MadeAt, CallOf, FieldsOf, TokenAt, MeantAt, WriteCall, FieldsHere
  <2> HIDE DEF call, token, given
  <2>3. IsPlace(place') /\ InItsBody(message, place')
    BY <1>1, <1>2, <2>1, <2>2, PlaceFacts, StaysInBody
  <2>4. /\ IsSeq(stream') /\ Len(stream') = Len(stream) + 1 /\ stream'[Len(stream) + 1] = token
        /\ \A i \in 1 .. Len(stream) : stream'[i] = stream[i]
    BY <1>1, <2>2, AppendedSeq
  <2>5. /\ IsSeq(meant') /\ \A i \in 1 .. Len(meant) : meant'[i] = meant[i]
        /\ call.name = "" => Len(meant') = Len(meant)
        /\ call.name # "" => Len(meant') = Len(meant) + 1 /\ meant'[Len(meant) + 1] = <<call.name, given>>
    <3> DEFINE t == meant \o Packets!Noted(call, given)
    <3>1. /\ IsSeq(t) /\ \A i \in 1 .. Len(meant) : t[i] = meant[i]
          /\ call.name = "" => t = meant
          /\ call.name # "" => Len(t) = Len(meant) + 1 /\ t[Len(meant) + 1] = <<call.name, given>>
      <4>1. IsSeq(meant)
        BY <1>1
      <4>2. IsSeq(t)
        BY <4>1, NotedFacts
      <4>3. \A i \in 1 .. Len(meant) : t[i] = meant[i]
        BY <4>1, NotedFacts
      <4>4. call.name = "" => t = meant
        BY <4>1, NotedFacts
      <4>5. call.name # "" => Len(t) = Len(meant) + 1
        BY <4>1, NotedFacts
      <4>6. call.name # "" => t[Len(meant) + 1] = <<call.name, given>>
        BY <4>1, NotedEntry
      <4> QED
        BY <4>2, <4>3, <4>4, <4>5, <4>6
    <3> QED
      BY <2>2, <3>1
  <2>6. CallStep(message, stream', meant', WriterHere, WriterHere')
    BY <2>1, <2>2, <2>4, <2>5 DEF CallStep, WriterHere, call, token, given
  <2>7. Len(stream) <= Len(stream') /\ Len(meant) <= Len(meant')
    <3>1. Len(stream') = Len(stream) + 1
      BY <2>4
    <3>2. Len(meant') = Len(meant) \/ Len(meant') = Len(meant) + 1
      BY <2>5
    <3> QED
      BY <1>1, <3>1, <3>2
  <2> QED
    BY <1>1, <1>4, <2>2, <2>3, <2>4, <2>5, <2>6, <2>7, PathGrows DEF MakeWriteCall
<1>5. CASE Transmit
  <2>1. /\ packetStage = "encoding" /\ packetStage' = "decoding" /\ Packets!Over(WriterCalls, place)
        /\ UNCHANGED <<message, stream, meant, path>>
    BY <1>5 DEF Transmit
  <2>2. PathEnds'
    BY <2>1 DEF PathInv, PathEnds
  <2> QED
    BY <2>1, <2>2 DEF PathInv
<1>6. CASE EncodeThrows \/ SkipReadCall \/ MakeReadCall \/ DecodeFails \/ EndDecode \/ UNCHANGED codecVars
  <2>1. /\ UNCHANGED <<message, stream, meant, path>> /\ packetStage' \in {"encoding", "thrown", "decoding", "decoded", "lost"}
        /\ packetStage' = "encoding" => packetStage = "encoding" /\ place' = place
        /\ packetStage' \in {"decoding", "decoded", "lost"} => packetStage \in {"decoding", "decoded", "lost"}
    BY <1>6 DEF PathInv, EncodeThrows, SkipReadCall, MakeReadCall, DecodeFails, EndDecode, IsReading, codecVars
  <2>2. PathEnds'
    BY <2>1 DEF PathInv, PathEnds
  <2> QED
    BY <2>1, <2>2 DEF PathInv
<1> QED
  BY <1>3, <1>4, <1>5, <1>6 DEF CodecNext

-----------------------------------------------------------------------------
(* Packets: the reader.                                                    *)

\* The reader is where the writer was before its call k, and has read the same.
InStepAt(k) ==
    /\ k \in 1 .. Len(path) /\ place = path[k].place /\ cursor = path[k].position /\ Len(got) = path[k].named
    /\ \A j \in 1 .. Len(got) : got[j] = meant[j]

\* A field was read as another one, or with another value.
Mismatch == \E j \in 1 .. Len(got) : j <= Len(meant) /\ got[j] # meant[j]

\* Writer and reader make the same call here, and go on to the same place.
EvenAt(m, p) ==
    LET call == CallOf(m, p)
        reads == Packets!CallAt(ReadLayout(m.class), p)
    IN  /\ ~Packets!Over(ReadLayout(m.class), p) /\ reads.op = call.op /\ reads.kind = call.kind /\ reads.name = call.name
        /\ call.op # "recounted" /\ (call.op = "skipped" => call.name = "")
        /\ Packets!Passed(ReadLayout(m.class), p) = Packets!Passed(WriteLayout(m.class), p)
        /\ \A v : Packets!NextPlace(ReadLayout(m.class), p, v) = Packets!NextPlace(WriteLayout(m.class), p, v)

\* A sequence of one entry.
LEMMA SingleSeq == ASSUME NEW x PROVE IsSeq(<<x>>) /\ Len(<<x>>) = 1 /\ <<x>>[1] = x
BY DEF IsSeq

\* What is taken of a token is at most one field.
LEMMA TakenFacts ==
    ASSUME NEW s, IsSeq(s), NEW call, NEW p, NEW v
    PROVE  /\ IsSeq(s \o Packets!Taken(call, p, v))
           /\ \A i \in 1 .. Len(s) : (s \o Packets!Taken(call, p, v))[i] = s[i]
           /\ Len(s) <= Len(s \o Packets!Taken(call, p, v))
<1>1. IsSeq(<<>>) /\ Len(<<>>) = 0
  BY DEF IsSeq
<1>2. \/ Packets!Taken(call, p, v) = <<>>
      \/ Packets!Taken(call, p, v) = Packets!Noted(call, v)
      \/ Packets!Taken(call, p, v) = Packets!Noted(call, Packets!Unary(p.element))
  BY DEF Packets!Taken
<1>3. \A w : Packets!Noted(call, w) = <<>> \/ Packets!Noted(call, w) = <<<<call.name, w>>>>
  BY DEF Packets!Noted
<1>4. \A x : IsSeq(<<x>>) /\ Len(<<x>>) = 1
  BY DEF IsSeq
<1>5. \A w : IsSeq(Packets!Noted(call, w))
  BY <1>1, <1>3, <1>4
<1>6. IsSeq(Packets!Taken(call, p, v))
  BY <1>1, <1>2, <1>5
<1>7. /\ IsSeq(s \o Packets!Taken(call, p, v))
      /\ \A i \in 1 .. Len(s) : (s \o Packets!Taken(call, p, v))[i] = s[i]
      /\ Len(s \o Packets!Taken(call, p, v)) = Len(s) + Len(Packets!Taken(call, p, v))
  BY <1>6, JoinedSeq
<1>8. Len(s) <= Len(s \o Packets!Taken(call, p, v))
  BY <1>6, <1>7 DEF IsSeq
<1> QED
  BY <1>7, <1>8

\* A step of the reader takes at most one field more, and leaves the writer's
\* side alone.
LEMMA ReaderSteps ==
    ASSUME IsSeq(got), SkipReadCall \/ MakeReadCall \/ DecodeFails \/ EndDecode
    PROVE  /\ IsSeq(got') /\ Len(got) <= Len(got') /\ \A i \in 1 .. Len(got) : got'[i] = got[i]
           /\ UNCHANGED <<message, stream, meant, path>>
           /\ packetStage = "decoding" /\ packetStage' \in {"decoding", "decoded", "lost"}
<1>1. Len(got) <= Len(got)
  BY DEF IsSeq
<1>2. CASE MakeReadCall
  <2>1. \E call, p, v : got' = got \o Packets!Taken(call, p, v)
    BY <1>2 DEF MakeReadCall
  <2> QED
    BY <1>2, <2>1, TakenFacts DEF MakeReadCall, IsReading
<1>3. CASE SkipReadCall \/ DecodeFails \/ EndDecode
  BY <1>1, <1>3 DEF SkipReadCall, DecodeFails, EndDecode, IsReading
<1> QED
  BY <1>2, <1>3

\* A field that was got wrong stays wrong: what was read is never changed.
LEMMA MismatchStays ==
    ASSUME IsSeq(got), Mismatch, SkipReadCall \/ MakeReadCall \/ DecodeFails \/ EndDecode
    PROVE  Mismatch'
<1>1. PICK j \in 1 .. Len(got) : j <= Len(meant) /\ got[j] # meant[j]
  BY DEF Mismatch
<1>2. Len(got) <= Len(got') /\ got'[j] = got[j] /\ meant' = meant /\ IsSeq(got')
  BY ReaderSteps
<1>3. j \in 1 .. Len(got')
  BY <1>2 DEF IsSeq
<1> QED
  BY <1>1, <1>2, <1>3 DEF Mismatch

\* At a call that both make, the reader stays in step, unless the writer wrote
\* another value than it was given.
LEMMA AlignedRead ==
    ASSUME PathInv, packetStage = "decoding", IsSeq(got), NEW k, InStepAt(k), k < Len(path), EvenAt(message, place),
           Packets!Made(ReadCall, fieldsRead) <=> MadeAt(message, place),
           SkipReadCall \/ MakeReadCall \/ DecodeFails \/ EndDecode
    PROVE  /\ packetStage' = "decoding" /\ UNCHANGED <<message, stream, meant, path>> /\ IsSeq(got')
           /\ k \in 1 .. Len(path) - 1 /\ k + 1 \in 1 .. Len(path) /\ place' = path[k + 1].place
           /\ MadeAt(message, place) => CallOf(message, place).op # "throws"
           /\ ~MadeAt(message, place) \/ CallOf(message, place).op = "skipped" => fieldsRead' = fieldsRead
           /\ MadeAt(message, place) /\ CallOf(message, place).op # "skipped" =>
                  fieldsRead' = Packets!Assigned(fieldsRead, CallOf(message, place).name, TokenAt(message, place).value)
           /\ IF \/ ~MadeAt(message, place) \/ CallOf(message, place).name = ""
                 \/ TokenAt(message, place).value = MeantAt(message, place)
              THEN InStepAt(k + 1)' ELSE Mismatch'
<1> DEFINE call == CallOf(message, place)
           token == TokenAt(message, place)
           c == path[k]
           d == path[k + 1]
           n == Len(got)
<1>1. /\ k \in 1 .. Len(path) - 1 /\ k + 1 \in 1 .. Len(path) /\ place = c.place /\ cursor = c.position /\ n = c.named
      /\ n \in Nat /\ \A j \in 1 .. n : got[j] = meant[j]
  BY DEF InStepAt, PathInv, IsSeq
<1>2. CallStep(message, stream, meant, c, d)
  BY <1>1 DEF PathInv
<1>3. c.position \in 0 .. Len(stream) /\ d.position \in 0 .. Len(stream) /\ d.named \in 0 .. Len(meant) /\ Len(stream) \in Nat /\ Len(meant) \in Nat
  BY <1>1 DEF PathInv, IsSeq
<1>4. /\ ReadCall.op = call.op /\ ReadCall.kind = call.kind /\ ReadCall.name = call.name
      /\ ~Packets!Over(ReaderCalls, place) /\ call.op # "recounted" /\ (call.op = "skipped" => call.name = "")
  BY DEF EvenAt, ReadCall, ReaderCalls
<1>5. /\ IsSeq(got') /\ UNCHANGED <<message, stream, meant, path>> /\ (\A j \in 1 .. n : got'[j] = got[j])
  BY ReaderSteps
<1>6. ~EndDecode
  BY <1>4 DEF EndDecode
<1>7. CASE ~MadeAt(message, place)
  <2>1. SkipReadCall
    BY <1>6, <1>7 DEF MakeReadCall, DecodeFails
  <2>2. packetStage' = "decoding" /\ fieldsRead' = fieldsRead /\ got' = got /\ cursor' = cursor /\ place' = Packets!Passed(ReaderCalls, place)
    BY <2>1 DEF SkipReadCall
  <2>3. d.position = c.position /\ d.named = c.named /\ d.place = Packets!Passed(WriteLayout(message.class), place)
    BY <1>1, <1>2, <1>7 DEF CallStep
  <2>4. place' = d.place
    BY <2>2, <2>3 DEF EvenAt, ReaderCalls
  <2>5. InStepAt(k + 1)'
    BY <1>1, <1>5, <2>2, <2>3, <2>4 DEF InStepAt
  <2> QED
    BY <1>1, <1>5, <1>7, <2>2, <2>4, <2>5
<1>8. CASE MadeAt(message, place)
  <2>1. /\ call.op # "throws" /\ d.position = cursor + 1 /\ stream[cursor + 1] = token
        /\ d.place = Packets!NextPlace(WriteLayout(message.class), place, token.value)
        /\ call.name = "" => d.named = n
        /\ call.name # "" => d.named = n + 1 /\ meant[n + 1] = <<call.name, MeantAt(message, place)>>
    BY <1>1, <1>2, <1>8 DEF CallStep
  <2>2. token.kind = call.kind
    <3>1. \A l, f : Packets!Written(l, f).kind = l.kind
      BY DEF Packets!Written
    <3> QED
      BY <3>1 DEF TokenAt
  <2>3. Comes(ReadCall.kind)
    <3>1. cursor < Len(stream)
      <4>1. cursor \in Nat
        BY <1>1, <1>3
      <4>2. cursor + 1 \in 0 .. Len(stream)
        BY <1>3, <2>1
      <4> QED
        BY <1>3, <4>1, <4>2
    <3> QED
      BY <1>4, <2>1, <2>2, <3>1 DEF Comes
  <2>4. MakeReadCall
    BY <1>4, <1>6, <1>8, <2>1, <2>3 DEF SkipReadCall, DecodeFails
  <2>5. /\ packetStage' = "decoding" /\ cursor' = cursor + 1 /\ got' = got \o Packets!Taken(ReadCall, place, token.value)
        /\ fieldsRead' = IF call.op = "skipped" THEN fieldsRead ELSE Packets!Assigned(fieldsRead, call.name, token.value)
        /\ place' = Packets!NextPlace(ReaderCalls, place, token.value)
    BY <1>4, <2>1, <2>4 DEF MakeReadCall, IsReading
  <2>6. place' = d.place
    BY <2>1, <2>5 DEF EvenAt, ReaderCalls
  <2> DEFINE t == got \o Packets!Noted(call, token.value)
  <2>7. got' = t
    <3>1. Packets!Taken(ReadCall, place, token.value) = Packets!Noted(call, token.value)
      BY <1>4 DEF Packets!Taken, Packets!Noted
    <3> QED
      BY <2>5, <3>1
  <2>8. CASE call.name = ""
    <3>1. t = got
      BY <2>8, NotedFacts
    <3>2. InStepAt(k + 1)'
      <4>1. got' = got
        BY <2>7, <3>1
      <4>2. k + 1 \in 1 .. Len(path') /\ place' = path'[k + 1].place /\ cursor' = path'[k + 1].position
        BY <1>1, <1>5, <2>1, <2>5, <2>6
      <4>3. Len(got') = path'[k + 1].named
        BY <1>1, <1>5, <2>1, <2>8, <4>1
      <4>4. \A j \in 1 .. Len(got') : got'[j] = meant'[j]
        BY <1>1, <1>5, <4>1
      <4> QED
        BY <4>2, <4>3, <4>4 DEF InStepAt
    <3> QED
      BY <1>1, <1>5, <1>8, <2>1, <2>5, <2>6, <2>8, <3>2
  <2>9. CASE call.name # ""
    <3>1. Len(t) = n + 1
      BY <2>9, NotedLength
    <3>2. t[n + 1] = <<call.name, token.value>>
      <4> DEFINE v == token.value
      <4> HIDE DEF call, v
      <4>1. IsSeq(got) /\ call.name # "" => (got \o Packets!Noted(call, v))[Len(got) + 1] = <<call.name, v>>
        BY NotedEntry
      <4>2. t = got \o Packets!Noted(call, v) /\ n = Len(got)
        BY DEF v
      <4> HIDE DEF t, n
      <4>3. t[n + 1] = <<call.name, v>>
        BY <2>9, <4>1, <4>2
      <4> QED
        BY <4>3 DEF v
    <3>3. d.named = n + 1 /\ meant[n + 1] = <<call.name, MeantAt(message, place)>>
      BY <2>1, <2>9
    <3>4. Len(got') = n + 1 /\ got'[n + 1] = <<call.name, token.value>> /\ n + 1 \in 1 .. n + 1 /\ n + 1 <= Len(meant)
      <4>1. Len(got') = n + 1 /\ got'[n + 1] = <<call.name, token.value>>
        BY <2>7, <3>1, <3>2
      <4>2. n \in Nat /\ Len(meant) \in Nat /\ d.named \in 0 .. Len(meant)
        BY <1>1, <1>3
      <4>3. n + 1 \in 1 .. n + 1 /\ n + 1 <= Len(meant)
        BY <3>3, <4>2
      <4> QED
        BY <4>1, <4>3
    <3>5. CASE token.value = MeantAt(message, place)
      <4>1. ASSUME NEW j \in 1 .. n + 1 PROVE got'[j] = meant[j]
        <5>1. j \in 1 .. n \/ j = n + 1
          BY <1>1
        <5>2. CASE j \in 1 .. n
          BY <1>1, <1>5, <5>2
        <5>3. CASE j = n + 1
          <6> HIDE DEF token, call
          <6> QED
            BY <3>3, <3>4, <3>5, <5>3
        <5> QED
          BY <5>1, <5>2, <5>3
      <4>2. InStepAt(k + 1)'
        <5>1. k + 1 \in 1 .. Len(path') /\ place' = path'[k + 1].place /\ cursor' = path'[k + 1].position
          BY <1>1, <1>5, <2>1, <2>5, <2>6
        <5>2. Len(got') = path'[k + 1].named
          BY <1>1, <1>5, <3>3, <3>4
        <5>3. \A j \in 1 .. Len(got') : got'[j] = meant'[j]
          BY <1>5, <3>4, <4>1
        <5> QED
          BY <5>1, <5>2, <5>3 DEF InStepAt
      <4> QED
        BY <1>1, <1>5, <1>8, <2>1, <2>5, <2>6, <3>5, <4>2
    <3>6. CASE token.value # MeantAt(message, place)
      <4>1. got'[n + 1] # meant[n + 1]
        BY <3>3, <3>4, <3>6
      <4>2. Mismatch'
        BY <1>5, <3>4, <4>1 DEF Mismatch
      <4> QED
        BY <1>1, <1>5, <1>8, <2>1, <2>5, <2>6, <2>9, <3>6, <4>2
    <3> QED
      BY <3>5, <3>6
  <2> QED
    BY <2>8, <2>9
<1> QED
  BY <1>7, <1>8

\* decodePayload of every class but the uneven ones makes the calls of its
\* encodePayload.
LEMMA EvenLayouts ==
    ASSUME NEW class \in Classes \ UnevenClasses
    PROVE  ReadLayout(class) = WriteLayout(class)
<1>1. Packets!ActorFallPacket.read = Packets!ActorFallPacket.write
  BY DEF Packets!ActorFallPacket, Packets!Both
<1>2. Packets!AdventureSettingsPacket.read = Packets!AdventureSettingsPacket.write
  BY DEF Packets!AdventureSettingsPacket, Packets!Both
<1>3. Packets!AnimatePacket.read = Packets!AnimatePacket.write
  BY DEF Packets!AnimatePacket, Packets!Both
<1>4. Packets!ChangeDimensionPacket.read = Packets!ChangeDimensionPacket.write
  BY DEF Packets!ChangeDimensionPacket, Packets!Both
<1>5. Packets!ChunkRadiusUpdatedPacket.read = Packets!ChunkRadiusUpdatedPacket.write
  BY DEF Packets!ChunkRadiusUpdatedPacket, Packets!Both
<1>6. Packets!CommandBlockUpdatePacket.read = Packets!CommandBlockUpdatePacket.write
  BY DEF Packets!CommandBlockUpdatePacket, Packets!Both
<1>7. Packets!ContainerClosePacket.read = Packets!ContainerClosePacket.write
  BY DEF Packets!ContainerClosePacket, Packets!Both
<1>8. Packets!ContainerOpenPacket.read = Packets!ContainerOpenPacket.write
  BY DEF Packets!ContainerOpenPacket, Packets!Both
<1>9. Packets!DisconnectPacket.read = Packets!DisconnectPacket.write
  BY DEF Packets!DisconnectPacket, Packets!Both
<1>10. Packets!EmoteListPacket.read = Packets!EmoteListPacket.write
  BY DEF Packets!EmoteListPacket, Packets!Both
<1>11. Packets!InteractPacket.read = Packets!InteractPacket.write
  BY DEF Packets!InteractPacket, Packets!Both
<1>12. Packets!LevelSoundEventPacket.read = Packets!LevelSoundEventPacket.write
  BY DEF Packets!LevelSoundEventPacket, Packets!Both
<1>13. Packets!ModalFormRequestPacket.read = Packets!ModalFormRequestPacket.write
  BY DEF Packets!ModalFormRequestPacket, Packets!Both
<1>14. Packets!ModalFormResponsePacket.read = Packets!ModalFormResponsePacket.write
  BY DEF Packets!ModalFormResponsePacket, Packets!Both
<1>15. Packets!MovePlayerPacket.read = Packets!MovePlayerPacket.write
  BY DEF Packets!MovePlayerPacket, Packets!Both
<1>16. Packets!OnScreenTextureAnimationPacket.read = Packets!OnScreenTextureAnimationPacket.write
  BY DEF Packets!OnScreenTextureAnimationPacket, Packets!Both
<1>17. Packets!PacketViolationWarningPacket.read = Packets!PacketViolationWarningPacket.write
  BY DEF Packets!PacketViolationWarningPacket, Packets!Both
<1>18. Packets!PlayStatusPacket.read = Packets!PlayStatusPacket.write
  BY DEF Packets!PlayStatusPacket, Packets!Both
<1>19. Packets!RemoveObjectivePacket.read = Packets!RemoveObjectivePacket.write
  BY DEF Packets!RemoveObjectivePacket, Packets!Both
<1>20. Packets!RequestChunkRadiusPacket.read = Packets!RequestChunkRadiusPacket.write
  BY DEF Packets!RequestChunkRadiusPacket, Packets!Both
<1>21. Packets!SetDefaultGameTypePacket.read = Packets!SetDefaultGameTypePacket.write
  BY DEF Packets!SetDefaultGameTypePacket, Packets!Both
<1>22. Packets!SetDisplayObjectivePacket.read = Packets!SetDisplayObjectivePacket.write
  BY DEF Packets!SetDisplayObjectivePacket, Packets!Both
<1>23. Packets!SetHealthPacket.read = Packets!SetHealthPacket.write
  BY DEF Packets!SetHealthPacket, Packets!Both
<1>24. Packets!SetPlayerGameTypePacket.read = Packets!SetPlayerGameTypePacket.write
  BY DEF Packets!SetPlayerGameTypePacket, Packets!Both
<1>25. Packets!SetTimePacket.read = Packets!SetTimePacket.write
  BY DEF Packets!SetTimePacket, Packets!Both
<1>26. Packets!SetTitlePacket.read = Packets!SetTitlePacket.write
  BY DEF Packets!SetTitlePacket, Packets!Both
<1>27. Packets!ShowCreditsPacket.read = Packets!ShowCreditsPacket.write
  BY DEF Packets!ShowCreditsPacket, Packets!Both
<1>28. Packets!ShowProfilePacket.read = Packets!ShowProfilePacket.write
  BY DEF Packets!ShowProfilePacket, Packets!Both
<1>29. Packets!ShowStoreOfferPacket.read = Packets!ShowStoreOfferPacket.write
  BY DEF Packets!ShowStoreOfferPacket, Packets!Both
<1>30. Packets!SpawnParticleEffectPacket.read = Packets!SpawnParticleEffectPacket.write
  BY DEF Packets!SpawnParticleEffectPacket, Packets!Both
<1>31. Packets!TextPacket.read = Packets!TextPacket.write
  BY DEF Packets!TextPacket, Packets!Both
<1>32. Packets!TickSyncPacket.read = Packets!TickSyncPacket.write
  BY DEF Packets!TickSyncPacket, Packets!Both
<1>33. Packets!TransferPacket.read = Packets!TransferPacket.write
  BY DEF Packets!TransferPacket, Packets!Both
<1>34. Packets!UpdateBlockPacket.read = Packets!UpdateBlockPacket.write
  BY DEF Packets!UpdateBlockPacket, Packets!Both
<1>35. Packets!WorldEventPacket.read = Packets!WorldEventPacket.write
  BY DEF Packets!WorldEventPacket, Packets!Both
<1>36. Packets!ConnectedPing.read = Packets!ConnectedPing.write
  BY DEF Packets!ConnectedPing, Packets!Both
<1>37. Packets!ConnectionRequest.read = Packets!ConnectionRequest.write
  BY DEF Packets!ConnectionRequest, Packets!Both
<1>38. Packets!ConnectionRequestAccepted.read = Packets!ConnectionRequestAccepted.write
  BY DEF Packets!ConnectionRequestAccepted, Packets!Both
<1>39. Packets!NewIncomingConnection.read = Packets!NewIncomingConnection.write
  BY DEF Packets!NewIncomingConnection, Packets!Both
<1>40. Packets!OpenConnectionReply1.read = Packets!OpenConnectionReply1.write
  BY DEF Packets!OpenConnectionReply1, Packets!Both
<1>41. Packets!OpenConnectionReply2.read = Packets!OpenConnectionReply2.write
  BY DEF Packets!OpenConnectionReply2, Packets!Both
<1>42. Packets!OpenConnectionRequest2.read = Packets!OpenConnectionRequest2.write
  BY DEF Packets!OpenConnectionRequest2, Packets!Both
<1>43. Packets!UnconnectedPing.read = Packets!UnconnectedPing.write
  BY DEF Packets!UnconnectedPing, Packets!Both
<1>44. Packets!UnconnectedPong.read = Packets!UnconnectedPong.write
  BY DEF Packets!UnconnectedPong, Packets!Both
<1>45. Packets!EncapsulatedPacket.read = Packets!EncapsulatedPacket.write
  BY DEF Packets!EncapsulatedPacket, Packets!Both
<1> QED
  BY <1>1, <1>2, <1>3, <1>4, <1>5, <1>6, <1>7, <1>8, <1>9, <1>10, <1>11, <1>12, <1>13, <1>14, <1>15, <1>16,
     <1>17, <1>18, <1>19, <1>20, <1>21, <1>22, <1>23, <1>24, <1>25, <1>26, <1>27, <1>28, <1>29, <1>30, <1>31,
     <1>32, <1>33, <1>34, <1>35, <1>36, <1>37, <1>38, <1>39, <1>40, <1>41, <1>42, <1>43, <1>44, <1>45
     DEF Classes, UnevenClasses, ReadLayout, WriteLayout, Packets!Layouts


-----------------------------------------------------------------------------
(* Packets: the classes whose writer and reader agree.                     *)

\* The fields that every packet of the class has were read as they are.
Known(m, p, fields) ==
    \A s \in 1 .. Len(WriteLayout(m.class)) :
        s < p.call /\ Opens(WriteLayout(m.class), s) =>
            Packets!Field(fields, WriteLayout(m.class)[s].name) = Packets!Field(m.fields, WriteLayout(m.class)[s].name)

\* No zero was written as a default.
NoDefault(m, p) ==
    \A s \in 1 .. Len(WriteLayout(m.class)) :
        s < p.call /\ WriteLayout(m.class)[s].op = "default" =>
            Packets!Field(m.fields, WriteLayout(m.class)[s].name) # Packets!Zero

\* The reader of such a packet is in step, and has read no default.
EvenTrack == \E k : InStepAt(k) /\ Known(message, place, fieldsRead) /\ NoDefault(message, place)

\* A field that was assigned.
LEMMA AssignedField ==
    ASSUME NEW fields, NEW n, NEW v, NEW x
    PROVE  Packets!Field(Packets!Assigned(fields, n, v), x) = IF x = n THEN v ELSE Packets!Field(fields, x)
BY DEF Packets!Field, Packets!Assigned

\* What is known of the layout of such a packet.
LEMMA EvenFacts ==
    ASSUME NEW m \in PacketMessages, m.class \notin UnevenClasses
    PROVE  /\ ReadLayout(m.class) = WriteLayout(m.class) /\ IsScoped(WriteLayout(m.class))
           /\ Len(WriteLayout(m.class)) \in Nat
<1>1. m.class \in Classes \ UnevenClasses
  BY PacketMessagesAssumption
<1>2. IsScoped(WriteLayout(m.class))
  BY <1>1, LayoutsAssumption
<1> QED
  BY <1>1, <1>2, EvenLayouts DEF IsScoped

\* Writer and reader make the same calls of it.
LEMMA EvenPlace ==
    ASSUME NEW m \in PacketMessages, m.class \notin UnevenClasses, NEW p, IsPlace(p), InItsBody(m, p),
           ~Packets!Over(WriteLayout(m.class), p), NEW fields, Known(m, p, fields)
    PROVE  /\ EvenAt(m, p) /\ (Packets!Made(Packets!CallAt(ReadLayout(m.class), p), fields) <=> MadeAt(m, p))
           /\ p.call \in 1 .. Len(WriteLayout(m.class))
           /\ CallOf(m, p).op \in {"field", "default", "skipped", "each", "throws"}
           /\ CallOf(m, p).op = "default" => p.inner = 0 /\ MadeAt(m, p)
           /\ p.inner # 0 => CallOf(m, p).op = "field" /\ CallOf(m, p).name # "" /\ MadeAt(m, p)
           /\ CallOf(m, p).name = "" <=> CallOf(m, p).op \in {"skipped", "throws"}
<1> DEFINE W == WriteLayout(m.class)
           call == CallOf(m, p)
<1>1. ReadLayout(m.class) = W /\ IsScoped(W) /\ Len(W) \in Nat
  BY EvenFacts
<1>2. p.call \in 1 .. Len(W)
  BY <1>1 DEF IsPlace, Packets!Over
<1>3. /\ W[p.call].op \in {"field", "default", "skipped", "each", "throws"}
      /\ W[p.call].name = "" <=> W[p.call].op \in {"skipped", "throws"}
      /\ W[p.call].op = "default" => W[p.call].guards = {}
      /\ \A g \in W[p.call].guards : \E s \in 1 .. p.call - 1 : W[s].name = g.name /\ Opens(W, s)
  BY <1>1, <1>2 DEF IsScoped
<1>4. \A j \in 1 .. Len(W[p.call].body) :
          W[p.call].body[j].op = "field" /\ W[p.call].body[j].guards = {} /\ W[p.call].body[j].name # ""
  BY <1>1, <1>2 DEF IsScoped
<1>5. CASE p.inner = 0
  <2>1. call = W[p.call] /\ FieldsOf(m, p) = m.fields
    BY <1>5 DEF CallOf, FieldsOf, Packets!CallAt, Packets!FieldsAt
  <2>2. ASSUME NEW g \in call.guards PROVE Packets!Field(fields, g.name) = Packets!Field(m.fields, g.name)
    <3>1. PICK s \in 1 .. p.call - 1 : W[s].name = g.name /\ Opens(W, s)
      BY <1>3, <2>1
    <3>2. s \in 1 .. Len(W) /\ s < p.call
      BY <1>2
    <3> QED
      BY <3>1, <3>2 DEF Known
  <2>3. Packets!Made(call, fields) <=> MadeAt(m, p)
    BY <2>1, <2>2 DEF MadeAt, Packets!Made
  <2>4. call.op = "default" => MadeAt(m, p)
    BY <1>3, <2>1 DEF MadeAt, Packets!Made
  <2>5. EvenAt(m, p)
    BY <1>1, <1>3, <2>1 DEF EvenAt, CallOf
  <2> QED
    BY <1>1, <1>2, <1>3, <1>5, <2>1, <2>3, <2>4, <2>5 DEF CallOf
<1>6. CASE p.inner # 0
  <2>1. p.inner \in 1 .. Len(W[p.call].body) /\ call = W[p.call].body[p.inner]
    BY <1>6 DEF InItsBody, CallOf, Packets!CallAt
  <2>2. call.op = "field" /\ call.guards = {} /\ call.name # ""
    BY <1>4, <2>1
  <2>3. Packets!Made(call, fields) /\ MadeAt(m, p)
    BY <2>2 DEF MadeAt, Packets!Made
  <2>4. EvenAt(m, p)
    BY <1>1, <2>2 DEF EvenAt, CallOf
  <2> QED
    BY <1>1, <1>2, <1>6, <2>2, <2>3, <2>4 DEF CallOf
<1> QED
  BY <1>5, <1>6

\* A step of the reader of such a packet.
LEMMA EvenStep ==
    ASSUME PathInv, packetStage = "decoding", IsSeq(got), message.class \notin UnevenClasses, EvenTrack,
           SkipReadCall \/ MakeReadCall \/ DecodeFails \/ EndDecode
    PROVE  \/ packetStage' = "decoded" /\ got' = meant' /\ ~Lossy(message.class, message.fields)
           \/ packetStage' = "decoding" /\ EvenTrack'
           \/ packetStage' = "decoding" /\ Lossy(message.class, message.fields) /\ Mismatch'
<1> DEFINE W == WriteLayout(message.class)
           call == CallOf(message, place)
           token == TokenAt(message, place)
           given == MeantAt(message, place)
<1>1. PICK k : InStepAt(k) /\ Known(message, place, fieldsRead) /\ NoDefault(message, place)
  BY DEF EvenTrack
<1>2. /\ message \in PacketMessages /\ k \in 1 .. Len(path) /\ place = path[k].place /\ IsPlace(place) /\ InItsBody(message, place)
  BY <1>1 DEF InStepAt, PathInv
<1>3. ReadLayout(message.class) = W /\ IsScoped(W) /\ Len(W) \in Nat
  BY <1>2, EvenFacts
<1>4. Lossy(message.class, message.fields) <=> IsDefaulted(message.class, message.fields)
  BY DEF Lossy, UnevenClasses
<1>5. /\ IsSeq(got') /\ UNCHANGED <<message, stream, meant, path>>
  BY ReaderSteps
<1>6. CASE k = Len(path)
  <2>1. Packets!Over(W, place)
    BY <1>2, <1>6 DEF PathInv, PathEnds, WriterCalls
  <2>2. EndDecode
    BY <1>3, <2>1 DEF SkipReadCall, MakeReadCall, DecodeFails, IsReading, ReaderCalls
  <2>3. Len(got) = Len(meant) /\ \A j \in 1 .. Len(got) : got[j] = meant[j]
    BY <1>1, <1>6 DEF InStepAt, PathInv, PathEnds
  <2>4. got = meant
    BY <2>3, SameSeq DEF PathInv
  <2>5. ~IsDefaulted(message.class, message.fields)
    BY <1>1, <1>2, <1>3, <2>1 DEF IsDefaulted, NoDefault, Packets!Over, IsPlace
  <2> QED
    BY <1>4, <2>2, <2>4, <2>5 DEF EndDecode
<1>7. CASE k # Len(path)
  <2>1. k < Len(path) /\ k \in 1 .. Len(path) - 1 /\ CallStep(message, stream, meant, path[k], path[k + 1])
    BY <1>2, <1>7 DEF PathInv, IsSeq
  <2>2. ~Packets!Over(W, place)
    BY <1>2, <2>1 DEF CallStep
  <2>3. /\ EvenAt(message, place) /\ (Packets!Made(ReadCall, fieldsRead) <=> MadeAt(message, place))
        /\ place.call \in 1 .. Len(W) /\ call.op \in {"field", "default", "skipped", "each", "throws"}
        /\ call.op = "default" => place.inner = 0 /\ MadeAt(message, place)
        /\ place.inner # 0 => call.op = "field" /\ call.name # "" /\ MadeAt(message, place)
        /\ call.name = "" <=> call.op \in {"skipped", "throws"}
    BY <1>1, <1>2, <2>2, EvenPlace DEF ReadCall, ReaderCalls
  <2>4. /\ packetStage' = "decoding" /\ place' = path[k + 1].place
        /\ MadeAt(message, place) => call.op # "throws"
        /\ ~MadeAt(message, place) \/ call.op = "skipped" => fieldsRead' = fieldsRead
        /\ MadeAt(message, place) /\ call.op # "skipped" =>
               fieldsRead' = Packets!Assigned(fieldsRead, call.name, token.value)
        /\ IF ~MadeAt(message, place) \/ call.name = "" \/ token.value = given
           THEN InStepAt(k + 1)' ELSE Mismatch'
    BY <1>1, <2>1, <2>3, AlignedRead
  <2>5. place'.call \in {place.call, place.call + 1} /\ place.call \in Nat
    <3>1. \/ place' = Packets!NextPlace(W, place, token.value)
          \/ place' = Packets!Passed(W, place)
      BY <1>2, <2>1, <2>4 DEF CallStep
    <3>2. /\ Packets!NextPlace(W, place, token.value).call \in {place.call, place.call + 1}
          /\ Packets!Passed(W, place).call \in {place.call, place.call + 1}
      BY <1>2, PlaceFacts
    <3> QED
      BY <1>2, <3>1, <3>2 DEF IsPlace
  <2>6. token.value = (CASE call.op = "skipped" -> Packets!Zero
                         [] call.op = "default" /\ given = Packets!Zero -> <<"default">>
                         [] OTHER -> given)
    BY DEF TokenAt, MeantAt, Packets!Written
  <2>7. call.op # "each" => given = Packets!Field(FieldsOf(message, place), call.name)
    BY DEF MeantAt, Packets!Meant
  <2>8. place.inner = 0 => call = W[place.call] /\ FieldsOf(message, place) = message.fields
    BY DEF CallOf, FieldsOf, Packets!CallAt, Packets!FieldsAt
  <2>9. place.inner # 0 => W[place.call].op = "each" /\ call = W[place.call].body[place.inner] /\ place.inner \in 1 .. Len(W[place.call].body)
    BY <1>2 DEF InItsBody, CallOf, Packets!CallAt
  <2>10. CASE ~MadeAt(message, place) \/ call.name = "" \/ token.value = given
    <3>1. ASSUME NEW s \in 1 .. Len(W), s < place'.call, Opens(W, s)
          PROVE  Packets!Field(fieldsRead', W[s].name) = Packets!Field(message.fields, W[s].name)
      <4>1. /\ W[s].op = "field" /\ W[s].guards = {}
            /\ s # place.call => W[place.call].name # W[s].name
            /\ \A j \in 1 .. Len(W[place.call].body) : W[place.call].body[j].name # W[s].name
        BY <2>3, <3>1 DEF Opens
      <4>2. CASE s < place.call
        <5>1. Packets!Field(fieldsRead, W[s].name) = Packets!Field(message.fields, W[s].name)
          BY <1>1, <3>1, <4>2 DEF Known
        <5>2. s # place.call
          BY <2>5, <4>2
        <5>3. call.name # W[s].name
          BY <2>8, <2>9, <4>1, <5>2
        <5>4. Packets!Field(Packets!Assigned(fieldsRead, call.name, token.value), W[s].name) = Packets!Field(fieldsRead, W[s].name)
          BY <5>3, AssignedField
        <5> QED
          BY <2>4, <5>1, <5>4
      <4>3. CASE s = place.call
        <5>1. place.inner = 0
          BY <2>9, <4>1, <4>3
        <5>2. call.op = "field" /\ call.guards = {} /\ call.name = W[s].name
          BY <2>8, <4>1, <4>3, <5>1
        <5>3. MadeAt(message, place)
          BY <5>2 DEF MadeAt, Packets!Made
        <5>4. token.value = Packets!Field(message.fields, W[s].name)
          BY <2>6, <2>7, <2>8, <5>1, <5>2
        <5>5. fieldsRead' = Packets!Assigned(fieldsRead, W[s].name, token.value)
          BY <2>4, <5>2, <5>3
        <5> QED
          BY <5>4, <5>5, AssignedField
      <4> QED
        BY <2>5, <3>1, <4>2, <4>3
    <3>2. ASSUME NEW s \in 1 .. Len(W), s < place'.call, W[s].op = "default"
          PROVE  Packets!Field(message.fields, W[s].name) # Packets!Zero
      <4>1. CASE s < place.call
        BY <1>1, <3>2, <4>1 DEF NoDefault
      <4>2. CASE s = place.call
        <5>1. place.inner = 0
          BY <2>9, <3>2, <4>2
        <5>2. call.op = "default" /\ call.name = W[s].name
          BY <2>8, <3>2, <4>2, <5>1
        <5>3. token.value = given /\ given = Packets!Field(message.fields, W[s].name)
          BY <2>3, <2>7, <2>8, <2>10, <5>1, <5>2
        <5>4. <<"default">> # Packets!Zero
          BY DEF Packets!Zero
        <5> QED
          BY <2>6, <5>2, <5>3, <5>4
      <4> QED
        BY <2>5, <3>2, <4>1, <4>2
    <3>3. Known(message, place', fieldsRead') /\ NoDefault(message, place')
      BY <3>1, <3>2 DEF Known, NoDefault
    <3> QED
      BY <1>5, <2>4, <2>10, <3>3 DEF EvenTrack
  <2>11. CASE ~(~MadeAt(message, place) \/ call.name = "" \/ token.value = given)
    <3>1. call.op = "default" /\ given = Packets!Zero
      BY <2>3, <2>6, <2>11
    <3>2. W[place.call].op = "default" /\ Packets!Field(message.fields, W[place.call].name) = Packets!Zero
      BY <2>3, <2>7, <2>8, <3>1
    <3>3. IsDefaulted(message.class, message.fields)
      BY <2>3, <3>2 DEF IsDefaulted
    <3> QED
      BY <1>4, <2>4, <2>11, <3>3
  <2> QED
    BY <2>10, <2>11
<1> QED
  BY <1>6, <1>7


-----------------------------------------------------------------------------
(* Packets: the classes whose writer and reader make different calls.      *)

At(c) == place = [call |-> c, element |-> 0, inner |-> 0, count |-> 0]
Inside(c, i, n) == place = [call |-> c, element |-> 1, inner |-> i, count |-> n]

\* The next field to be noted is this one.
Pending(name) == Len(got) < Len(meant) /\ meant[Len(got) + 1][1] = name

Lost == packetStage' = "lost" /\ Lossy(message.class, message.fields)
Astray == packetStage' = "decoding" /\ Lossy(message.class, message.fields) /\ Mismatch'
Arrived == packetStage' = "decoded" /\ got' = meant' /\ ~Lossy(message.class, message.fields)

\* Where the writer's last call was, everything was read.
LEMMA WriterIsOver ==
    ASSUME PathInv, packetStage = "decoding", IsSeq(got), NEW k, InStepAt(k)
    PROVE  IF Packets!Over(WriteLayout(message.class), place) THEN k = Len(path) /\ got = meant
           ELSE k < Len(path) /\ k \in 1 .. Len(path) - 1
<1>1. k \in 1 .. Len(path) /\ Len(path) \in Nat /\ place = path[k].place
  BY DEF InStepAt, PathInv, IsSeq
<1>2. CASE k = Len(path)
  <2>1. Packets!Over(WriteLayout(message.class), place)
    BY <1>1, <1>2 DEF PathInv, PathEnds, WriterCalls
  <2>2. Len(got) = Len(meant) /\ \A j \in 1 .. Len(got) : got[j] = meant[j]
    BY <1>2 DEF InStepAt, PathInv, PathEnds
  <2> QED
    BY <1>2, <2>1, <2>2, SameSeq DEF PathInv
<1>3. CASE k # Len(path)
  <2>1. k < Len(path) /\ k \in 1 .. Len(path) - 1
    BY <1>1, <1>3
  <2>2. CallStep(message, stream, meant, path[k], path[k + 1])
    BY <2>1 DEF PathInv
  <2> QED
    BY <1>1, <2>1, <2>2 DEF CallStep
<1> QED
  BY <1>2, <1>3

\* At a call that is made, its field is the next one.
LEMMA PendingHere ==
    ASSUME PathInv, packetStage = "decoding", IsSeq(got), NEW k, InStepAt(k),
           ~Packets!Over(WriteLayout(message.class), place), MadeAt(message, place)
    PROVE  CallOf(message, place).name = "" \/ Pending(CallOf(message, place).name)
<1> DEFINE c == path[k]
           d == path[k + 1]
<1>1. k \in 1 .. Len(path) - 1 /\ place = c.place /\ Len(got) = c.named /\ Len(got) \in Nat
  BY WriterIsOver DEF InStepAt, IsSeq
<1>2. CallStep(message, stream, meant, c, d) /\ d.named \in 0 .. Len(meant) /\ Len(meant) \in Nat
  BY <1>1 DEF PathInv, IsSeq
<1>3. \/ CallOf(message, place).name = ""
      \/ d.named = Len(got) + 1 /\ meant[d.named] = <<CallOf(message, place).name, MeantAt(message, place)>>
  BY <1>1, <1>2 DEF CallStep
<1> HIDE DEF c, d
<1>4. ASSUME d.named = Len(got) + 1, NEW x, NEW v, meant[d.named] = <<x, v>> PROVE Pending(x)
  <2>1. Len(got) < Len(meant)
    BY <1>1, <1>2, <1>4
  <2>2. meant[Len(got) + 1][1] = x
    BY <1>4
  <2> QED
    BY <2>1, <2>2 DEF Pending
<1> QED
  BY <1>3, <1>4

\* Then a field of another name is a mismatch.
LEMMA PendingRead ==
    ASSUME IsSeq(got), IsSeq(meant), NEW name, Pending(name), MakeReadCall, ReadCall.op # "recounted"
    PROVE  ReadCall.name \in {"", name} \/ Mismatch'
<1> DEFINE n == Len(got)
           v == stream[cursor + 1].value
<1>1. got' = got \o Packets!Noted(ReadCall, v) /\ meant' = meant
  BY DEF MakeReadCall, Packets!Taken
<1> HIDE DEF v
<1>2. CASE ReadCall.name # ""
  <2>1. Len(got') = n + 1
    <3>1. Len(got \o Packets!Noted(ReadCall, v)) = n + 1
      BY <1>2, NotedLength
    <3> QED
      BY <1>1, <3>1
  <2>2. got'[n + 1] = <<ReadCall.name, v>>
    BY <1>1, <1>2, NotedEntry
  <2>3. n + 1 \in 1 .. n + 1 /\ n + 1 <= Len(meant) /\ meant[n + 1][1] = name
    BY DEF IsSeq, Pending
  <2>4. CASE ReadCall.name # name
    <3>1. got'[n + 1][1] = ReadCall.name
      BY <2>2
    <3>2. got'[n + 1] # meant[n + 1]
      BY <2>3, <2>4, <3>1
    <3> QED
      BY <1>1, <2>1, <2>3, <3>2 DEF Mismatch
  <2> QED
    BY <2>4
<1> QED
  BY <1>2

\* A field that both write and read.
LEMMA AlignedField ==
    ASSUME PathInv, packetStage = "decoding", IsSeq(got), NEW k, InStepAt(k), NEW c \in Nat \ {0}, At(c),
           ~Packets!Over(WriterCalls, place), ~Packets!Over(ReaderCalls, place), WriterCalls[c].op = "field", ReaderCalls[c].op = "field",
           ReaderCalls[c].kind = WriterCalls[c].kind, ReaderCalls[c].name = WriterCalls[c].name,
           Packets!Made(WriterCalls[c], message.fields), Packets!Made(ReaderCalls[c], fieldsRead),
           SkipReadCall \/ MakeReadCall \/ DecodeFails \/ EndDecode
    PROVE  /\ packetStage' = "decoding" /\ InStepAt(k + 1)' /\ At(c + 1)'
           /\ fieldsRead' = Packets!Assigned(fieldsRead, WriterCalls[c].name, Packets!Field(message.fields, WriterCalls[c].name))
<1>1. /\ place.call = c /\ place.inner = 0 /\ IsPlace(place)
      /\ CallOf(message, place) = WriterCalls[c] /\ Packets!CallAt(ReadLayout(message.class), place) = ReaderCalls[c]
      /\ FieldsOf(message, place) = message.fields
  BY DEF At, IsPlace, CallOf, FieldsOf, Packets!CallAt, Packets!FieldsAt, WriterCalls, ReaderCalls
<1>2. ~Packets!Over(WriteLayout(message.class), place) /\ ~Packets!Over(ReadLayout(message.class), place)
  BY DEF WriterCalls, ReaderCalls
<1>3. k < Len(path) /\ k \in 1 .. Len(path) - 1
  BY <1>2, WriterIsOver
<1>4. /\ \A v : Packets!NextPlace(WriteLayout(message.class), place, v) = Packets!Following(place)
      /\ \A v : Packets!NextPlace(ReadLayout(message.class), place, v) = Packets!Following(place)
      /\ Packets!Passed(WriteLayout(message.class), place) = Packets!Following(place)
      /\ Packets!Passed(ReadLayout(message.class), place) = Packets!Following(place)
  <2>1. /\ Packets!Passed(WriteLayout(message.class), place) = Packets!Following(place)
        /\ Packets!Passed(ReadLayout(message.class), place) = Packets!Following(place)
    BY <1>1, PlaceFacts
  <2>2. ~Packets!Loops(WriterCalls[c]) /\ ~Packets!Loops(ReaderCalls[c])
    BY DEF Packets!Loops
  <2> QED
    BY <1>1, <2>1, <2>2 DEF Packets!NextPlace, CallOf
<1>5. EvenAt(message, place) /\ MadeAt(message, place) /\ Packets!Made(ReadCall, fieldsRead)
  BY <1>1, <1>2, <1>4 DEF EvenAt, MadeAt, ReadCall, ReaderCalls
<1>6. TokenAt(message, place).value = Packets!Field(message.fields, WriterCalls[c].name)
      /\ MeantAt(message, place) = Packets!Field(message.fields, WriterCalls[c].name)
  BY <1>1 DEF TokenAt, MeantAt, Packets!Written, Packets!Meant
<1>7. /\ packetStage' = "decoding" /\ place' = path[k + 1].place
      /\ IF \/ ~MadeAt(message, place) \/ CallOf(message, place).name = ""
            \/ TokenAt(message, place).value = MeantAt(message, place)
         THEN InStepAt(k + 1)' ELSE Mismatch'
      /\ fieldsRead' = Packets!Assigned(fieldsRead, CallOf(message, place).name, TokenAt(message, place).value)
  BY <1>1, <1>3, <1>5, AlignedRead
<1>8. place' = Packets!Following(place)
  <2>1. CallStep(message, stream, meant, path[k], path[k + 1]) /\ place = path[k].place
    BY <1>3 DEF PathInv, InStepAt
  <2>2. path[k + 1].place = Packets!NextPlace(WriteLayout(message.class), place, TokenAt(message, place).value)
    BY <1>5, <2>1 DEF CallStep
  <2> QED
    BY <1>4, <1>7, <2>2
<1>9. At(c + 1)'
  BY <1>1, <1>8, PlaceFacts DEF At
<1> QED
  BY <1>1, <1>6, <1>7, <1>9

\* A call that neither makes.
LEMMA AlignedSkip ==
    ASSUME PathInv, packetStage = "decoding", IsSeq(got), NEW k, InStepAt(k), NEW c \in Nat \ {0}, At(c),
           ~Packets!Over(WriterCalls, place), ~Packets!Over(ReaderCalls, place),
           ~Packets!Made(WriterCalls[c], message.fields), ~Packets!Made(ReaderCalls[c], fieldsRead),
           SkipReadCall \/ MakeReadCall \/ DecodeFails \/ EndDecode
    PROVE  packetStage' = "decoding" /\ InStepAt(k + 1)' /\ At(c + 1)' /\ UNCHANGED <<fieldsRead, got>>
<1>1. /\ place.call = c /\ place.inner = 0 /\ IsPlace(place)
      /\ CallOf(message, place) = WriterCalls[c] /\ ReadCall = ReaderCalls[c] /\ FieldsOf(message, place) = message.fields
  BY DEF At, IsPlace, CallOf, FieldsOf, Packets!CallAt, Packets!FieldsAt, WriterCalls, ReaderCalls, ReadCall
<1>2. k < Len(path) /\ k \in 1 .. Len(path) - 1 /\ k + 1 \in 1 .. Len(path)
  BY WriterIsOver DEF WriterCalls
<1>3. /\ Packets!Passed(WriteLayout(message.class), place) = Packets!Following(place)
      /\ Packets!Passed(ReaderCalls, place) = Packets!Following(place)
  BY <1>1, PlaceFacts
<1>4. ~MadeAt(message, place)
  BY <1>1 DEF MadeAt
<1>5. SkipReadCall
  BY <1>1 DEF MakeReadCall, DecodeFails, EndDecode
<1>6. packetStage' = "decoding" /\ place' = Packets!Following(place) /\ UNCHANGED <<message, stream, cursor, meant, path, fieldsRead, got>>
  BY <1>3, <1>5 DEF SkipReadCall
<1>7. CallStep(message, stream, meant, path[k], path[k + 1]) /\ place = path[k].place /\ cursor = path[k].position
      /\ Len(got) = path[k].named /\ \A j \in 1 .. Len(got) : got[j] = meant[j]
  BY <1>2 DEF PathInv, InStepAt
<1>8. /\ path[k + 1].place = Packets!Following(place) /\ path[k + 1].position = cursor /\ path[k + 1].named = Len(got)
  BY <1>3, <1>4, <1>7 DEF CallStep
<1>9. InStepAt(k + 1)'
  BY <1>2, <1>6, <1>7, <1>8 DEF InStepAt
<1>10. At(c + 1)'
  BY <1>1, <1>6, PlaceFacts DEF At
<1> QED
  BY <1>6, <1>9, <1>10

\* The condition-free call whose field another one is pending for goes wrong.
LEMMA PendingGoesWrong ==
    ASSUME PathInv, packetStage = "decoding", IsSeq(got), NEW name, Pending(name), Lossy(message.class, message.fields),
           ~Packets!Over(ReaderCalls, place), Packets!Made(ReadCall, fieldsRead),
           SkipReadCall \/ MakeReadCall \/ DecodeFails \/ EndDecode
    PROVE  ReadCall.op = "recounted" \/ ReadCall.name \in {"", name} \/ Lost \/ Astray
<1>1. CASE MakeReadCall
  BY <1>1, PendingRead DEF Astray, MakeReadCall, PathInv
<1>2. CASE DecodeFails
  BY <1>2 DEF Lost, DecodeFails
<1> QED
  BY <1>1, <1>2 DEF SkipReadCall, EndDecode

PlayerActionTrack == \E c \in 1 .. 5 : At(c) /\ \E k : InStepAt(k)

\* The calls of PlayerActionPacket, which differ in the Z of its BlockPosition: it
\* is written as another X.
LEMMA PlayerActionCalls ==
    LET W == WriteLayout("PlayerAction")
        R == ReadLayout("PlayerAction")
    IN  /\ Len(W) = 6 /\ Len(R) = 6
        /\ \A c \in 1 .. 6 : W[c].op = "field" /\ W[c].guards = {} /\ R[c].op = "field" /\ R[c].guards = {} /\ R[c].kind = W[c].kind
        /\ \A c \in 1 .. 4 : R[c].name = W[c].name
        /\ W[5].name = "position.x" /\ R[5].name = "position.z"
BY SMTT(60) DEF WriteLayout, ReadLayout, Packets!Layouts, Packets!PlayerActionPacket, Packets!BlockPosition, Packets!UVarLong,
       Packets!VarInt, Packets!UVarInt, Packets!Call

\* The Z of its BlockPosition is read as an X.
LEMMA PlayerActionStep ==
    ASSUME PathInv, packetStage = "decoding", IsSeq(got), message.class = "PlayerAction", PlayerActionTrack,
           SkipReadCall \/ MakeReadCall \/ DecodeFails \/ EndDecode
    PROVE  Lost \/ Astray \/ (packetStage' = "decoding" /\ PlayerActionTrack')
<1> DEFINE W == WriterCalls
           R == ReaderCalls
<1>1. PICK c \in 1 .. 5 : At(c) /\ \E k : InStepAt(k)
  BY DEF PlayerActionTrack
<1>2. PICK k : InStepAt(k)
  BY <1>1
<1>3. place.call = c /\ place.inner = 0
  BY <1>1 DEF At
<1>4. /\ Len(W) = 6 /\ Len(R) = 6 /\ W[c].op = "field" /\ W[c].guards = {} /\ R[c].op = "field" /\ R[c].guards = {}
      /\ R[c].kind = W[c].kind /\ (c \in 1 .. 4 => R[c].name = W[c].name) /\ W[5].name = "position.x" /\ R[5].name = "position.z"
  BY PlayerActionCalls DEF WriterCalls, ReaderCalls
<1>5. ~Packets!Over(W, place) /\ ~Packets!Over(R, place) /\ Packets!Made(W[c], message.fields) /\ Packets!Made(R[c], fieldsRead)
  BY <1>3, <1>4 DEF Packets!Over, Packets!Made
<1>6. CASE c \in 1 .. 4
  <2>1. packetStage' = "decoding" /\ InStepAt(k + 1)' /\ At(c + 1)'
    BY <1>1, <1>2, <1>4, <1>5, <1>6, AlignedField
  <2>2. c + 1 \in 1 .. 5
    BY <1>6
  <2> QED
    BY <2>1, <2>2 DEF PlayerActionTrack
<1>7. CASE c = 5
  <2>1. CallOf(message, place) = W[5] /\ MadeAt(message, place) /\ ReadCall = R[5]
    BY <1>3, <1>5, <1>7 DEF CallOf, MadeAt, FieldsOf, Packets!CallAt, Packets!FieldsAt, ReadCall, WriterCalls
  <2>2. Pending("position.x")
    BY <1>2, <1>4, <1>5, <2>1, PendingHere DEF WriterCalls
  <2>3. Lossy(message.class, message.fields)
    BY DEF Lossy
  <2>4. ~Packets!Over(ReaderCalls, place) /\ Packets!Made(ReadCall, fieldsRead)
    BY <1>5, <1>7, <2>1
  <2>5. ReadCall.op = "field" /\ ReadCall.name = "position.z"
    BY <1>4, <1>7, <2>1
  <2> QED
    BY <2>2, <2>3, <2>4, <2>5, PendingGoesWrong
<1> QED
  BY <1>6, <1>7

\* The parts of the call of a loop.
LEMMA EachCall ==
    ASSUME NEW kind, NEW name, NEW body
    PROVE  /\ LET c == Packets!Each(kind, name, body)
              IN  c.op = "each" /\ c.kind = kind /\ c.name = name /\ c.guards = {} /\ c.body = body
           /\ LET c == Packets!EachRecounted(kind, name, body)
              IN  c.op = "recounted" /\ c.kind = kind /\ c.name = name /\ c.guards = {} /\ c.body = body
BY DEF Packets!Each, Packets!EachRecounted, Packets!Call

ScoresList(class) == IF class = "SetScore" THEN "scoreEntries" ELSE "scoreboardIdentityEntries"

ScoresTrack ==
    \/ \E c \in 1 .. 2 : At(c) /\ \E k : InStepAt(k)
    \/ At(3) /\ ~Lossy(message.class, message.fields) /\ \E k : InStepAt(k)
    \/ /\ Lossy(message.class, message.fields)
       /\ \E i \in 1 .. 2 : \E n : Inside(2, i, n)

\* The calls of the two score packets, whose readers throw in their lists.
LEMMA ScoresCalls ==
    ASSUME NEW class \in {"SetScore", "SetScoreboardIdentity"}
    PROVE  LET W == WriteLayout(class)
               R == ReadLayout(class)
           IN  /\ Len(W) = 2 /\ Len(R) = 2 /\ W[1].op = "field" /\ R[1].op = "field" /\ W[1].kind = R[1].kind /\ W[1].name = R[1].name
               /\ W[1].guards = {} /\ R[1].guards = {} /\ W[2].guards = {} /\ R[2].guards = {}
               /\ W[2].op = "each" /\ R[2].op = "each" /\ R[2].kind = W[2].kind /\ R[2].name = W[2].name /\ W[2].name = ScoresList(class)
               /\ Len(R[2].body) = 2 /\ R[2].body[1].op = "field" /\ R[2].body[2].op = "throws"
               /\ R[2].body[1].guards = {} /\ R[2].body[2].guards = {}
<1> DEFINE C == Packets!Byte("action")
           B == <<Packets!VarLong("entryID"), Packets!Throws>>
<1>1. \E body : /\ WriteLayout(class) = <<C, Packets!Each("UnsignedVarInt", ScoresList(class), body)>>
               /\ ReadLayout(class) = <<C, Packets!Each("UnsignedVarInt", ScoresList(class), B)>>
  <2>1. CASE class = "SetScore"
    <3>1. WriteLayout(class) = Packets!SetScorePacket.write /\ ReadLayout(class) = Packets!SetScorePacket.read
      BY <2>1, SMTT(60) DEF WriteLayout, ReadLayout, Packets!Layouts
    <3> QED
      BY <2>1, <3>1 DEF ScoresList, Packets!SetScorePacket
  <2>2. CASE class = "SetScoreboardIdentity"
    <3>1. WriteLayout(class) = Packets!SetScoreboardIdentityPacket.write /\ ReadLayout(class) = Packets!SetScoreboardIdentityPacket.read
      BY <2>2, SMTT(60) DEF WriteLayout, ReadLayout, Packets!Layouts
    <3> QED
      BY <2>2, <3>1 DEF ScoresList, Packets!SetScoreboardIdentityPacket
  <2> QED
    BY <2>1, <2>2
<1>2. C.op = "field" /\ C.guards = {} /\ Len(B) = 2 /\ B[1].op = "field" /\ B[1].guards = {} /\ B[2].op = "throws" /\ B[2].guards = {}
  BY DEF Packets!Byte, Packets!VarLong, Packets!Throws, Packets!Call
<1> HIDE DEF C, B
<1> QED
  BY <1>1, <1>2, EachCall

\* The loop of the reader throws at its first element.
LEMMA ScoresStep ==
    ASSUME PathInv, packetStage = "decoding", IsSeq(got), message.class \in {"SetScore", "SetScoreboardIdentity"}, ScoresTrack,
           SkipReadCall \/ MakeReadCall \/ DecodeFails \/ EndDecode
    PROVE  Lost \/ Arrived \/ (packetStage' = "decoding" /\ ScoresTrack')
<1> DEFINE W == WriterCalls
           R == ReaderCalls
           n == Len(Packets!Field(message.fields, W[2].name))
           HasNone == n = 0
<1>1. /\ Len(W) = 2 /\ Len(R) = 2 /\ W[1].op = "field" /\ R[1].op = "field" /\ W[1].kind = R[1].kind /\ W[1].name = R[1].name
      /\ W[1].guards = {} /\ R[1].guards = {} /\ W[2].guards = {} /\ R[2].guards = {}
      /\ W[2].op = "each" /\ R[2].op = "each" /\ R[2].kind = W[2].kind /\ R[2].name = W[2].name
  BY ScoresCalls DEF WriterCalls, ReaderCalls
<1>2. Len(R[2].body) = 2 /\ R[2].body[1].op = "field" /\ R[2].body[2].op = "throws" /\ R[2].body[1].guards = {} /\ R[2].body[2].guards = {}
  BY ScoresCalls DEF WriterCalls, ReaderCalls
<1>3. /\ W[2].name = ScoresList(message.class) /\ n \in Nat
  BY <1>1, ScoresCalls, PacketMessagesAssumption DEF WriterCalls, PathInv
<1>4. Lossy(message.class, message.fields) <=> ~HasNone
  BY <1>3 DEF Lossy, ScoresList
<1>5. message' = message
  BY ReaderSteps
<1> HIDE DEF W, R, n
<1>6. CASE \E c \in 1 .. 2 : At(c) /\ \E k : InStepAt(k)
  <2>1. PICK c \in 1 .. 2 : At(c) /\ \E k : InStepAt(k)
    BY <1>6
  <2>2. PICK k : InStepAt(k)
    BY <2>1
  <2>3. place.call = c /\ place.inner = 0
    BY <2>1 DEF At
  <2>4. ~Packets!Over(W, place) /\ ~Packets!Over(R, place) /\ Packets!Made(W[c], message.fields) /\ Packets!Made(R[c], fieldsRead)
    BY <1>1, <2>3 DEF Packets!Over, Packets!Made
  <2>5. CASE c = 1
    <3>1. packetStage' = "decoding" /\ InStepAt(k + 1)' /\ At(c + 1)'
      BY <1>1, <2>1, <2>2, <2>4, <2>5, AlignedField DEF W, R
    <3> QED
      BY <2>5, <3>1 DEF ScoresTrack
  <2>6. CASE c = 2
    <3> DEFINE given == Packets!Unary(n)
    <3>1. /\ CallOf(message, place) = W[2] /\ FieldsOf(message, place) = message.fields /\ ReadCall = R[2]
          /\ Packets!CallAt(ReadLayout(message.class), place) = R[2]
      BY <2>3, <2>6 DEF W, R, CallOf, FieldsOf, Packets!CallAt, Packets!FieldsAt, ReadCall, WriterCalls, ReaderCalls
    <3>2. MadeAt(message, place) /\ Packets!Made(ReadCall, fieldsRead)
      BY <2>4, <2>6, <3>1 DEF MadeAt
    <3>3. MeantAt(message, place) = given /\ TokenAt(message, place).value = given
      BY <1>1, <3>1 DEF n, W, MeantAt, TokenAt, Packets!Meant, Packets!Written
    <3>4. IsPlace(place) /\ Packets!Passed(W, place) = Packets!Following(place) /\ Packets!Passed(R, place) = Packets!Following(place)
      <4>1. IsPlace(place)
        BY <2>1, <2>6 DEF At, IsPlace
      <4> QED
        BY <2>3, <4>1, PlaceFacts
    <3>5. \A v : /\ Packets!NextPlace(W, place, v) = IF Packets!GoesOn(place, v) THEN Packets!AtElement(place, place.element + 1, Len(v))
                                                    ELSE Packets!Following(place)
                 /\ Packets!NextPlace(R, place, v) = IF Packets!GoesOn(place, v) THEN Packets!AtElement(place, place.element + 1, Len(v))
                                                    ELSE Packets!Following(place)
      BY <1>1, <2>3, <2>6 DEF Packets!NextPlace, Packets!Loops, Packets!CallAt
    <3>6. EvenAt(message, place)
      BY <1>1, <2>4, <3>1, <3>4, <3>5 DEF EvenAt, W, R, WriterCalls, ReaderCalls
    <3>7. k < Len(path) /\ k \in 1 .. Len(path) - 1
      BY <2>2, <2>4, WriterIsOver DEF W, WriterCalls
    <3>8. packetStage' = "decoding" /\ place' = path[k + 1].place /\ InStepAt(k + 1)'
      BY <2>2, <3>2, <3>3, <3>6, <3>7, AlignedRead
    <3>9. place' = Packets!NextPlace(W, place, given)
      <4>1. CallStep(message, stream, meant, path[k], path[k + 1]) /\ place = path[k].place
        BY <2>2, <3>7 DEF PathInv, InStepAt
      <4> QED
        BY <3>2, <3>3, <3>8, <4>1 DEF CallStep, W, WriterCalls
    <3>10. Len(given) = n
      BY <1>3 DEF Packets!Unary
    <3>11. place.element = 0 /\ place.call = 2
      BY <2>1, <2>6 DEF At
    <3>12. CASE HasNone
      <4>1. At(3)'
        BY <3>4, <3>5, <3>9, <3>10, <3>11, <3>12, PlaceFacts DEF At, Packets!GoesOn
      <4> QED
        BY <1>4, <1>5, <3>8, <3>12, <4>1 DEF ScoresTrack
    <3>13. CASE ~HasNone
      <4>1. place' = Packets!AtElement(place, 1, n)
        BY <1>3, <3>5, <3>9, <3>10, <3>11, <3>13 DEF Packets!GoesOn
      <4>2. PICK v : v = n
        OBVIOUS
      <4>3. Inside(2, 1, v)'
        BY <3>11, <4>1, <4>2 DEF Packets!AtElement, Inside
      <4>4. Lossy(message'.class, message'.fields)
        BY <1>4, <1>5, <3>13
      <4> QED
        BY <3>8, <4>3, <4>4 DEF ScoresTrack
    <3> QED
      BY <3>12, <3>13
  <2> QED
    BY <2>5, <2>6
<1>7. CASE At(3) /\ ~Lossy(message.class, message.fields) /\ \E k : InStepAt(k)
  <2>1. Packets!Over(W, place) /\ Packets!Over(R, place)
    BY <1>1, <1>7 DEF At, Packets!Over
  <2>2. EndDecode
    BY <2>1 DEF R, SkipReadCall, MakeReadCall, DecodeFails, IsReading
  <2>3. got = meant
    BY <1>7, <2>1, WriterIsOver DEF W, WriterCalls
  <2> QED
    BY <1>7, <2>2, <2>3 DEF Arrived, EndDecode
<1>8. CASE Lossy(message.class, message.fields) /\ \E i \in 1 .. 2 : \E m : Inside(2, i, m)
  <2>0. PICK i \in 1 .. 2 : \E m : Inside(2, i, m)
    BY <1>8
  <2>1. PICK m : place = [call |-> 2, element |-> 1, inner |-> i, count |-> m]
    BY <2>0 DEF Inside
  <2>2. ~Packets!Over(R, place) /\ ReadCall = R[2].body[i]
    BY <1>1, <2>1 DEF R, ReadCall, Packets!Over, Packets!CallAt
  <2>3. Packets!Made(ReadCall, fieldsRead)
    BY <1>2, <2>2 DEF Packets!Made
  <2>4. CASE MakeReadCall
    <3>1. ReadCall.op # "throws" /\ \E v : place' = Packets!NextPlace(R, place, v)
      BY <2>4 DEF R, MakeReadCall
    <3>2. i = 1 /\ ~Packets!Loops(ReadCall)
      BY <1>2, <2>2, <3>1 DEF Packets!Loops
    <3>3. Packets!MoreInBody(R, place) /\ ~Packets!LastInBody(R, place)
      BY <1>2, <2>1, <3>2 DEF Packets!MoreInBody, Packets!LastInBody
    <3>4. place' = [place EXCEPT !.inner = @ + 1]
      BY <3>1, <3>2, <3>3 DEF R, ReadCall, Packets!NextPlace, Packets!Passed
    <3>5. Inside(2, 2, m)'
      BY <2>1, <3>2, <3>4 DEF Inside
    <3> QED
      <4>1. \E j \in 1 .. 2 : \E v : Inside(2, j, v)'
        BY <3>5
      <4>2. Lossy(message'.class, message'.fields)
        BY <1>5, <1>8
      <4>3. packetStage' = "decoding"
        BY <2>4 DEF MakeReadCall
      <4> QED
        BY <4>1, <4>2, <4>3 DEF ScoresTrack
  <2>5. CASE DecodeFails
    BY <1>8, <2>5 DEF DecodeFails, Lost
  <2> QED
    BY <2>2, <2>3, <2>4, <2>5 DEF R, SkipReadCall, EndDecode
<1> QED
  BY <1>6, <1>7, <1>8 DEF ScoresTrack

\* At a call that is made, what it wrote is the next token.
LEMMA TokenHere ==
    ASSUME PathInv, packetStage = "decoding", IsSeq(got), NEW k, InStepAt(k),
           ~Packets!Over(WriteLayout(message.class), place), MadeAt(message, place)
    PROVE  /\ cursor < Len(stream) /\ stream[cursor + 1] = TokenAt(message, place)
           /\ TokenAt(message, place).kind = CallOf(message, place).kind
           /\ path[k + 1].place = Packets!NextPlace(WriteLayout(message.class), place, TokenAt(message, place).value)
           /\ path[k + 1].position = cursor + 1 /\ k \in 1 .. Len(path) - 1 /\ k + 1 \in 1 .. Len(path)
           /\ CallOf(message, place).name = "" => path[k + 1].named = Len(got)
           /\ CallOf(message, place).name # "" =>
                  path[k + 1].named = Len(got) + 1 /\ meant[Len(got) + 1] = <<CallOf(message, place).name, MeantAt(message, place)>>
<1>1. k \in 1 .. Len(path) - 1 /\ k + 1 \in 1 .. Len(path) /\ place = path[k].place /\ cursor = path[k].position /\ Len(got) = path[k].named
  <2>1. place = path[k].place /\ cursor = path[k].position /\ Len(got) = path[k].named
    BY DEF InStepAt
  <2>2. k \in 1 .. Len(path) - 1
    BY WriterIsOver
  <2>3. Len(path) \in Nat
    BY DEF PathInv, IsSeq
  <2>4. k + 1 \in 1 .. Len(path)
    BY <2>2, <2>3
  <2> QED
    BY <2>1, <2>2, <2>4
<1>2. CallStep(message, stream, meant, path[k], path[k + 1])
  BY <1>1 DEF PathInv
<1>3. /\ path[k].position \in 0 .. Len(stream) /\ path[k + 1].position \in 0 .. Len(stream) /\ Len(stream) \in Nat
  BY <1>1 DEF PathInv, IsSeq
<1>4. path[k + 1].position = cursor + 1 /\ stream[path[k + 1].position] = TokenAt(message, place)
  BY <1>1, <1>2 DEF CallStep
<1>5. cursor < Len(stream)
  <2>1. cursor \in Nat
    BY <1>1, <1>3
  <2>2. cursor + 1 \in 0 .. Len(stream)
    BY <1>3, <1>4
  <2> QED
    BY <1>3, <2>1, <2>2
<1>6. \A l, f : Packets!Written(l, f).kind = l.kind
  BY DEF Packets!Written
<1>7. /\ path[k + 1].place = Packets!NextPlace(WriteLayout(message.class), place, TokenAt(message, place).value)
      /\ CallOf(message, place).name = "" => path[k + 1].named = Len(got)
      /\ CallOf(message, place).name # "" =>
             path[k + 1].named = Len(got) + 1 /\ meant[Len(got) + 1] = <<CallOf(message, place).name, MeantAt(message, place)>>
  BY <1>1, <1>2 DEF CallStep
<1>8. TokenAt(message, place).kind = CallOf(message, place).kind
  BY <1>6 DEF TokenAt
<1> QED
  BY <1>1, <1>4, <1>5, <1>7, <1>8

\* A list of no elements is counted as zero.
LEMMA UnaryFacts ==
    ASSUME NEW n \in Nat
    PROVE  Len(Packets!Unary(n)) = n /\ (Packets!Unary(n) = Packets!Zero <=> n = 0)
<1>1. IsSeq(Packets!Unary(n)) /\ Len(Packets!Unary(n)) = n
  BY DEF IsSeq, Packets!Unary
<1>2. IsSeq(Packets!Zero) /\ Len(Packets!Zero) = 0
  BY DEF IsSeq, Packets!Zero
<1>3. n = 0 => Packets!Unary(n) = Packets!Zero
  BY <1>1, <1>2, SameSeq
<1>4. Packets!Unary(n) = Packets!Zero => n = 0
  BY <1>1, <1>2
<1> QED
  BY <1>1, <1>3, <1>4

\* The calls of ResourcePackResponsePacket, whose writer begins its list with a
\* zero that the reader takes for the count.
LEMMA ResponseCalls ==
    LET W == WriteLayout("ResourcePackResponse")
        R == ReadLayout("ResourcePackResponse")
    IN  /\ Len(W) = 3 /\ Len(R) = 2 /\ W[1].op = "field" /\ R[1].op = "field" /\ W[1].kind = R[1].kind /\ W[1].name = R[1].name
        /\ W[1].guards = {} /\ R[1].guards = {} /\ W[2].guards = {} /\ R[2].guards = {} /\ W[3].guards = {}
        /\ W[2].op = "skipped" /\ W[2].kind = R[2].kind /\ W[2].name = "" /\ R[2].op = "each" /\ R[2].name = "packIds"
        /\ W[3].op = "each" /\ W[3].name = "packIds"
<1> DEFINE C == Packets!Byte("status")
           B == <<Packets!String("id")>>
           S == Packets!Skipped("LShort")
           E == Packets!Each("LShort", "packIds", B)
<1>1. WriteLayout("ResourcePackResponse") = <<C, S, E>> /\ ReadLayout("ResourcePackResponse") = <<C, E>>
  BY SMTT(60) DEF WriteLayout, ReadLayout, Packets!Layouts, Packets!ResourcePackResponsePacket
<1>2. C.op = "field" /\ C.guards = {} /\ S.op = "skipped" /\ S.kind = "LShort" /\ S.name = "" /\ S.guards = {}
  BY DEF Packets!Byte, Packets!Skipped, Packets!Call
<1>3. E.op = "each" /\ E.kind = "LShort" /\ E.name = "packIds" /\ E.guards = {}
  BY EachCall
<1> HIDE DEF C, S, E
<1> DEFINE W == WriteLayout("ResourcePackResponse")
           R == ReadLayout("ResourcePackResponse")
<1>4. Len(W) = 3 /\ W[1] = C /\ W[2] = S /\ W[3] = E /\ Len(R) = 2 /\ R[1] = C /\ R[2] = E
  BY <1>1
<1> HIDE DEF W, R
<1> QED
  BY <1>2, <1>3, <1>4 DEF W, R

\* The zero that is written first is read as the count.
ResponseTrack ==
    \/ \E c \in 1 .. 2 : At(c) /\ \E k : InStepAt(k)
    \/ At(3) /\ ~Lossy(message.class, message.fields) /\ got = meant

\* Without pack ids the zero is the count that was meant; with some of them the
\* count is a mismatch.
LEMMA ResponseStep ==
    ASSUME PathInv, packetStage = "decoding", IsSeq(got), message.class = "ResourcePackResponse", ResponseTrack,
           SkipReadCall \/ MakeReadCall \/ DecodeFails \/ EndDecode
    PROVE  Arrived \/ Astray \/ (packetStage' = "decoding" /\ ResponseTrack')
<1> DEFINE W == WriterCalls
           R == ReaderCalls
           n == Len(Packets!Field(message.fields, "packIds"))
           HasNone == n = 0
<1>1. /\ Len(W) = 3 /\ Len(R) = 2 /\ W[1].op = "field" /\ R[1].op = "field" /\ W[1].kind = R[1].kind /\ W[1].name = R[1].name
      /\ W[1].guards = {} /\ R[1].guards = {} /\ W[2].guards = {} /\ R[2].guards = {} /\ W[3].guards = {}
  BY ResponseCalls DEF WriterCalls, ReaderCalls
<1>2. /\ W[2].op = "skipped" /\ W[2].kind = R[2].kind /\ W[2].name = "" /\ R[2].op = "each" /\ R[2].name = "packIds"
      /\ W[3].op = "each" /\ W[3].name = "packIds"
  BY ResponseCalls DEF WriterCalls, ReaderCalls
<1>3. n \in Nat
  <2>1. 3 \in 1 .. Len(W) /\ message \in PacketMessages
    BY <1>1 DEF PathInv
  <2>2. Len(Packets!Field(message.fields, W[3].name)) \in Nat
    BY <1>2, <2>1, PacketMessagesAssumption DEF WriterCalls
  <2> QED
    BY <1>2, <2>2
<1>4. Lossy(message.class, message.fields) <=> ~HasNone
  BY DEF Lossy
<1>5. UNCHANGED <<message, stream, meant, path>> /\ IsSeq(meant)
  BY ReaderSteps DEF PathInv
<1> HIDE DEF W, R, n
<1>6. CASE \E c \in 1 .. 2 : At(c) /\ \E k : InStepAt(k)
  <2>1. PICK c \in 1 .. 2 : At(c) /\ \E k : InStepAt(k)
    BY <1>6
  <2>2. PICK k : InStepAt(k)
    BY <2>1
  <2>3. place.call = c /\ place.inner = 0 /\ place.element = 0
    BY <2>1 DEF At
  <2>4. ~Packets!Over(W, place) /\ ~Packets!Over(R, place) /\ Packets!Made(W[c], message.fields) /\ Packets!Made(R[c], fieldsRead)
    BY <1>1, <2>3 DEF Packets!Over, Packets!Made
  <2>5. CASE c = 1
    <3>1. packetStage' = "decoding" /\ InStepAt(k + 1)' /\ At(c + 1)'
      BY <1>1, <2>1, <2>2, <2>4, <2>5, AlignedField DEF W, R
    <3> QED
      BY <2>5, <3>1 DEF ResponseTrack
  <2>6. CASE c = 2
    <3>1. /\ CallOf(message, place) = W[2] /\ FieldsOf(message, place) = message.fields /\ ReadCall = R[2]
      BY <2>3, <2>6 DEF W, R, CallOf, FieldsOf, Packets!CallAt, Packets!FieldsAt, ReadCall, WriterCalls, ReaderCalls
    <3>2. MadeAt(message, place) /\ Packets!Made(ReadCall, fieldsRead)
      BY <2>4, <2>6, <3>1 DEF MadeAt
    <3>3. TokenAt(message, place).value = Packets!Zero
      BY <1>2, <3>1 DEF TokenAt, Packets!Written
    <3>4. IsPlace(place)
      BY <2>1, <2>6 DEF At, IsPlace
    <3>5. /\ \A v : Packets!NextPlace(W, place, v) = Packets!Following(place)
          /\ Packets!NextPlace(R, place, Packets!Zero) = Packets!Following(place)
      <4>1. Packets!Passed(W, place) = Packets!Following(place)
        BY <2>3, <3>4, PlaceFacts
      <4>2. ~Packets!Loops(W[2])
        BY <1>2 DEF Packets!Loops
      <4>3. ~Packets!GoesOn(place, Packets!Zero)
        BY <2>3 DEF Packets!GoesOn, Packets!Zero
      <4>4. Packets!Loops(R[2])
        BY <1>2 DEF Packets!Loops
      <4> QED
        BY <2>3, <2>6, <4>1, <4>2, <4>3, <4>4 DEF Packets!NextPlace, Packets!CallAt
    <3>6. /\ cursor < Len(stream) /\ stream[cursor + 1] = TokenAt(message, place) /\ TokenAt(message, place).kind = W[2].kind
          /\ path[k + 1].place = Packets!NextPlace(WriteLayout(message.class), place, TokenAt(message, place).value)
          /\ k \in 1 .. Len(path) - 1 /\ k + 1 \in 1 .. Len(path) /\ path[k + 1].named = Len(got)
      BY <1>2, <2>2, <2>4, <3>1, <3>2, TokenHere DEF W, WriterCalls
    <3>7. MakeReadCall
      BY <1>2, <2>4, <3>1, <3>2, <3>6 DEF R, Comes, SkipReadCall, DecodeFails, EndDecode
    <3>8. /\ packetStage' = "decoding" /\ got' = got \o Packets!Noted(R[2], Packets!Zero) /\ place' = Packets!Following(place)
      BY <1>2, <3>1, <3>3, <3>5, <3>6, <3>7 DEF R, MakeReadCall, Packets!Taken
    <3> DEFINE third == [call |-> 3, element |-> 0, inner |-> 0, count |-> 0]
    <3>17. Packets!Following(place) = third
      BY <2>3, <2>6, <3>4, PlaceFacts
    <3>9. At(3)'
      BY <3>8, <3>17 DEF At
    <3>10. /\ IsSeq(got') /\ Len(got') = Len(got) + 1 /\ got'[Len(got) + 1] = <<"packIds", Packets!Zero>>
           /\ \A j \in 1 .. Len(got) : got'[j] = got[j]
      <4>1. IsSeq(got') /\ \A j \in 1 .. Len(got) : got'[j] = got[j]
        BY ReaderSteps
      <4> DEFINE r == R[2]
                 v == Packets!Zero
      <4>3. r.name = "packIds" /\ got' = got \o Packets!Noted(r, v)
        BY <1>2, <3>8
      <4> HIDE DEF r, v
      <4>4. r.name # ""
        BY <4>3
      <4>5. Len(got \o Packets!Noted(r, v)) = Len(got) + 1
        BY <4>4, NotedFacts
      <4>6. (got \o Packets!Noted(r, v))[Len(got) + 1] = <<r.name, v>>
        BY <4>4, NotedEntry
      <4> QED
        BY <4>1, <4>3, <4>5, <4>6 DEF v
    <3> DEFINE d == path[k + 1]
               e == path[k + 2]
    <3>11. d.place = third
      BY <3>5, <3>6, <3>17 DEF W, WriterCalls
    <3>12. k + 1 \in 1 .. Len(path) - 1 /\ k + 2 \in 1 .. Len(path)
      <4>1. ~Packets!Over(W, d.place)
        BY <1>1, <3>11 DEF Packets!Over
      <4>2. k + 1 # Len(path)
        BY <4>1 DEF PathInv, PathEnds, W
      <4>3. Len(path) \in Nat
        BY DEF PathInv, IsSeq
      <4> QED
        BY <3>6, <4>2, <4>3
    <3>13. CallStep(message, stream, meant, d, e)
      <4>1. (k + 1) + 1 = k + 2
        BY <3>6
      <4> QED
        BY <3>12, <4>1 DEF PathInv
    <3>14. /\ e.named = Len(got) + 1 /\ meant[Len(got) + 1] = <<"packIds", Packets!Unary(n)>>
           /\ e.place = Packets!NextPlace(W, d.place, Packets!Unary(n))
      <4>1. CallOf(message, d.place) = W[3] /\ FieldsOf(message, d.place) = message.fields
        BY <3>11 DEF W, CallOf, FieldsOf, Packets!CallAt, Packets!FieldsAt, WriterCalls
      <4>2. MadeAt(message, d.place)
        BY <1>1, <4>1 DEF MadeAt, Packets!Made
      <4>3. MeantAt(message, d.place) = Packets!Unary(n)
        BY <1>2, <4>1 DEF n, MeantAt, Packets!Meant
      <4>4. TokenAt(message, d.place).value = MeantAt(message, d.place)
        BY <1>2, <4>1 DEF MeantAt, TokenAt, Packets!Written
      <4>5. W[3].name = "packIds" /\ W[3].name # ""
        BY <1>2
      <4> HIDE DEF d, e
      <4>6. e.named = d.named + 1 /\ meant[e.named] = <<"packIds", Packets!Unary(n)>>
        BY <3>13, <4>1, <4>2, <4>3, <4>5 DEF CallStep
      <4>7. e.place = Packets!NextPlace(W, d.place, Packets!Unary(n))
        BY <3>13, <4>2, <4>3, <4>4 DEF CallStep, W, WriterCalls
      <4>8. d.named = Len(got)
        BY <3>6 DEF d
      <4> QED
        BY <4>6, <4>7, <4>8
    <3>15. CASE HasNone
      <4>1. Packets!Unary(n) = Packets!Zero
        BY <1>3, <3>15, UnaryFacts
      <4>2. Packets!Over(W, e.place)
        <5>1. e.place = Packets!Following(d.place)
          <6>1. Packets!CallAt(W, d.place) = W[3] /\ d.place.element = 0
            BY <3>11 DEF Packets!CallAt
          <6>2. Packets!Loops(W[3])
            BY <1>2 DEF Packets!Loops
          <6>3. ~Packets!GoesOn(d.place, Packets!Unary(n))
            BY <1>3, <3>15, <6>1, UnaryFacts DEF Packets!GoesOn
          <6> QED
            BY <3>14, <6>1, <6>2, <6>3 DEF Packets!NextPlace
        <5>2. e.place.call = 4
          BY <3>11, <5>1 DEF Packets!Following, Packets!Start
        <5> QED
          BY <1>1, <5>2 DEF Packets!Over
      <4>3. k + 2 = Len(path)
        <5>1. k + 2 \in 1 .. Len(path) - 1 => CallStep(message, stream, meant, path[k + 2], path[k + 2 + 1])
          BY DEF PathInv
        <5>2. k + 2 \notin 1 .. Len(path) - 1
          BY <4>2, <5>1 DEF CallStep, W, WriterCalls
        <5>3. Len(path) \in Nat
          BY DEF PathInv, IsSeq
        <5> QED
          BY <3>12, <5>2, <5>3
      <4>4. Len(meant) = Len(got) + 1
        BY <3>14, <4>3 DEF PathInv, PathEnds
      <4>5. ASSUME NEW j \in 1 .. Len(got) + 1 PROVE got'[j] = meant[j]
        <5>1. j \in 1 .. Len(got) \/ j = Len(got) + 1
          BY DEF IsSeq
        <5>2. \A i \in 1 .. Len(got) : got[i] = meant[i]
          BY <2>2 DEF InStepAt
        <5> QED
          BY <3>10, <3>14, <4>1, <5>1, <5>2
      <4>6. got' = meant
        BY <1>5, <3>10, <4>4, <4>5, SameSeq
      <4> QED
        BY <1>4, <1>5, <3>8, <3>9, <3>15, <4>6 DEF ResponseTrack
    <3>16. CASE ~HasNone
      <4>1. Packets!Unary(n) # Packets!Zero
        BY <1>3, <3>16, UnaryFacts
      <4>2. got'[Len(got) + 1] # meant[Len(got) + 1]
        BY <3>10, <3>14, <4>1
      <4>3. Len(got) + 1 \in 1 .. Len(got') /\ Len(got) + 1 <= Len(meant)
        <5>1. e.named \in 0 .. Len(meant) /\ Len(meant) \in Nat
          BY <3>12 DEF PathInv, IsSeq
        <5>2. Len(got) \in Nat
          BY DEF IsSeq
        <5> QED
          BY <3>10, <3>14, <5>1, <5>2
      <4> QED
        BY <1>4, <1>5, <3>8, <3>16, <4>2, <4>3 DEF Astray, Mismatch
    <3> QED
      BY <3>15, <3>16
  <2> QED
    BY <2>5, <2>6
<1>7. CASE At(3) /\ ~Lossy(message.class, message.fields) /\ got = meant
  <2>1. Packets!Over(R, place)
    BY <1>1, <1>7 DEF At, Packets!Over
  <2>2. EndDecode
    BY <2>1 DEF R, SkipReadCall, MakeReadCall, DecodeFails, IsReading
  <2> QED
    BY <1>7, <2>2 DEF Arrived, EndDecode
<1> QED
  BY <1>6, <1>7 DEF ResponseTrack


\* Nothing is joined.
LEMMA JoinedNone == ASSUME NEW s, IsSeq(s) PROVE s \o <<>> = s
<1>1. IsSeq(<<>>) /\ Len(<<>>) = 0
  BY DEF IsSeq
<1>2. IsSeq(s \o <<>>) /\ Len(s \o <<>>) = Len(s) /\ \A i \in 1 .. Len(s) : (s \o <<>>)[i] = s[i]
  BY <1>1, JoinedSeq DEF IsSeq
<1> QED
  BY <1>2, SameSeq

IsCall(call) ==
    call = [op |-> call.op, kind |-> call.kind, name |-> call.name, guards |-> call.guards, body |-> call.body]

\* A condition that is put on a call changes nothing else of it.
LEMMA GuardedCall ==
    ASSUME NEW call, NEW guard, IsCall(call)
    PROVE  [call EXCEPT !.guards = @ \cup {guard}] =
               [op |-> call.op, kind |-> call.kind, name |-> call.name, guards |-> call.guards \cup {guard}, body |-> call.body]
BY DEF IsCall

\* Each call of a layout stands under one condition more.
LEMMA GuardedFacts ==
    ASSUME NEW guard, NEW calls, IsSeq(calls), \A i \in 1 .. Len(calls) : IsCall(calls[i])
    PROVE  LET guarded == Packets!Guarded(guard, calls)
           IN  /\ IsSeq(guarded) /\ Len(guarded) = Len(calls)
               /\ \A i \in 1 .. Len(calls) :
                      /\ IsCall(guarded[i]) /\ guarded[i].op = calls[i].op /\ guarded[i].kind = calls[i].kind
                      /\ guarded[i].name = calls[i].name /\ guarded[i].guards = calls[i].guards \cup {guard}
<1> DEFINE E(i) == [op |-> calls[i].op, kind |-> calls[i].kind, name |-> calls[i].name,
                    guards |-> calls[i].guards \cup {guard}, body |-> calls[i].body]
<1>1. DOMAIN calls = 1 .. Len(calls) /\ Len(calls) \in Nat
  BY DEF IsSeq
<1>2. ASSUME NEW i \in 1 .. Len(calls) PROVE [calls[i] EXCEPT !.guards = @ \cup {guard}] = E(i)
  BY GuardedCall
<1> HIDE DEF E
<1>3. Packets!Guarded(guard, calls) = [i \in 1 .. Len(calls) |-> E(i)]
  BY <1>1, <1>2 DEF Packets!Guarded
<1>4. IsSeq([i \in 1 .. Len(calls) |-> E(i)]) /\ Len([i \in 1 .. Len(calls) |-> E(i)]) = Len(calls)
      /\ \A j \in 1 .. Len(calls) : [i \in 1 .. Len(calls) |-> E(i)][j] = E(j)
  BY <1>1 DEF IsSeq
<1>5. ASSUME NEW i \in 1 .. Len(calls)
      PROVE  /\ IsCall(E(i)) /\ E(i).op = calls[i].op /\ E(i).kind = calls[i].kind /\ E(i).name = calls[i].name
             /\ E(i).guards = calls[i].guards \cup {guard}
  BY DEF E, IsCall
<1> QED
  BY <1>3, <1>4, <1>5

\* The layout of an item: its id and, under a condition, three calls and n more.
IsItemLayout(layout, id, a, b, c, guard, n) ==
    /\ IsSeq(layout) /\ Len(layout) = n + 4 /\ layout[1] = id
    /\ \A i \in 2 .. n + 4 : guard \in layout[i].guards
    /\ layout[2].op = a.op /\ layout[2].kind = a.kind /\ layout[2].name = a.name /\ layout[2].guards = a.guards \cup {guard}
    /\ layout[3].op = b.op /\ layout[3].kind = b.kind /\ layout[3].name = b.name /\ layout[3].guards = b.guards \cup {guard}
    /\ layout[4].op = c.op /\ layout[4].kind = c.kind /\ layout[4].name = c.name /\ layout[4].guards = c.guards \cup {guard}

\* An item is its id and, under one condition, three calls, those of its NBT and
\* two more.
LEMMA ItemLayout ==
    ASSUME NEW id, NEW a, NEW b, NEW c, NEW s, IsCall(a), IsCall(b), IsCall(c), IsCall(s),
           NEW more, IsSeq(more), \A i \in 1 .. Len(more) : IsCall(more[i]), NEW guard
    PROVE  IsItemLayout(<<id>> \o Packets!Guarded(guard, <<a, b, c>> \o more \o <<s, s>>), id, a, b, c, guard, Len(more) + 2)
<1> DEFINE three == <<a, b, c>>
           two == <<s, s>>
           most == three \o more
           x == most \o two
           y == Packets!Guarded(guard, x)
           layout == <<id>> \o y
           m == Len(more)
<1>1. IsSeq(three) /\ Len(three) = 3 /\ three[1] = a /\ three[2] = b /\ three[3] = c /\ \A i \in 1 .. 3 : IsCall(three[i])
  BY DEF IsSeq
<1>2. IsSeq(two) /\ Len(two) = 2 /\ \A i \in 1 .. 2 : IsCall(two[i])
  BY DEF IsSeq
<1>3. m \in Nat
  BY DEF IsSeq
<1> HIDE DEF three, two
<1>4. /\ IsSeq(most) /\ Len(most) = 3 + m /\ (\A i \in 1 .. 3 : most[i] = three[i])
      /\ \A i \in 1 .. m : most[3 + i] = more[i]
  <2>1. IsSeq(three \o more) /\ Len(three \o more) = Len(three) + Len(more)
        /\ (\A i \in 1 .. Len(three) : (three \o more)[i] = three[i])
        /\ \A i \in 1 .. Len(more) : (three \o more)[Len(three) + i] = more[i]
    <3>1. IsSeq(three) /\ IsSeq(more)
      BY <1>1
    <3> QED
      BY <3>1, JoinedSeq
  <2> QED
    BY <1>1, <2>1
<1>5. \A i \in 1 .. Len(most) : IsCall(most[i])
  <2>1. ASSUME NEW i \in 1 .. Len(most) PROVE i \in 1 .. 3 \/ (i - 3 \in 1 .. m /\ i = 3 + (i - 3))
    BY <1>3, <1>4
  <2> QED
    BY <1>1, <1>4, <2>1
<1> HIDE DEF most
<1>6. /\ IsSeq(x) /\ Len(x) = 5 + m /\ (\A i \in 1 .. 3 + m : x[i] = most[i])
      /\ \A i \in 1 .. 2 : x[3 + m + i] = two[i]
  <2>1. IsSeq(most \o two) /\ Len(most \o two) = Len(most) + Len(two)
        /\ (\A i \in 1 .. Len(most) : (most \o two)[i] = most[i])
        /\ \A i \in 1 .. Len(two) : (most \o two)[Len(most) + i] = two[i]
    <3>1. IsSeq(most) /\ IsSeq(two)
      BY <1>2, <1>4
    <3> QED
      BY <3>1, JoinedSeq
  <2>2. (3 + m) + 2 = 5 + m
    BY <1>3
  <2> QED
    BY <1>2, <1>4, <2>1, <2>2
<1>7. \A i \in 1 .. Len(x) : IsCall(x[i])
  <2>1. ASSUME NEW i \in 1 .. Len(x) PROVE i \in 1 .. 3 + m \/ (i - (3 + m) \in 1 .. 2 /\ i = 3 + m + (i - (3 + m)))
    BY <1>3, <1>6
  <2> QED
    BY <1>2, <1>4, <1>5, <1>6, <2>1
<1>8. x[1] = a /\ x[2] = b /\ x[3] = c
  BY <1>1, <1>3, <1>4, <1>6
<1> HIDE DEF x
<1>9. /\ IsSeq(y) /\ Len(y) = 5 + m
      /\ \A i \in 1 .. 5 + m : y[i].op = x[i].op /\ y[i].kind = x[i].kind /\ y[i].name = x[i].name /\ y[i].guards = x[i].guards \cup {guard}
  BY <1>6, <1>7, GuardedFacts
<1> HIDE DEF y
<1>10. /\ IsSeq(layout) /\ Len(layout) = 6 + m /\ layout[1] = id
       /\ \A i \in 1 .. 5 + m : layout[1 + i] = y[i]
  <2>1. IsSeq(<<id>>) /\ Len(<<id>>) = 1 /\ <<id>>[1] = id
    BY SingleSeq
  <2> DEFINE one == <<id>>
  <2> HIDE DEF one
  <2>2. IsSeq(one) /\ Len(one) = 1 /\ one[1] = id
    BY <2>1 DEF one
  <2>3. /\ IsSeq(one \o y) /\ Len(one \o y) = 1 + (5 + m) /\ (\A i \in 1 .. 1 : (one \o y)[i] = one[i])
        /\ \A i \in 1 .. 5 + m : (one \o y)[1 + i] = y[i]
    <3>1. IsSeq(one \o y) /\ Len(one \o y) = Len(one) + Len(y)
        /\ (\A i \in 1 .. Len(one) : (one \o y)[i] = one[i])
        /\ \A i \in 1 .. Len(y) : (one \o y)[Len(one) + i] = y[i]
      <4>1. IsSeq(one) /\ IsSeq(y)
        BY <1>9, <2>2
      <4> QED
        BY <4>1, JoinedSeq
    <3> QED
      BY <1>9, <2>2, <3>1
  <2> QED
    BY <1>3, <2>2, <2>3 DEF one
<1> HIDE DEF layout
<1>11. layout[2] = y[1] /\ layout[3] = y[2] /\ layout[4] = y[3] /\ 1 \in 1 .. 5 + m /\ 2 \in 1 .. 5 + m /\ 3 \in 1 .. 5 + m
  <2>1. 1 \in 1 .. 5 + m /\ 2 \in 1 .. 5 + m /\ 3 \in 1 .. 5 + m
    BY <1>3
  <2>2. layout[1 + 1] = y[1] /\ layout[1 + 2] = y[2] /\ layout[1 + 3] = y[3]
    BY <1>10, <2>1
  <2> QED
    BY <2>1, <2>2
<1>12. ASSUME NEW i \in 2 .. Len(layout) PROVE guard \in layout[i].guards
  <2>1. i - 1 \in 1 .. 5 + m /\ 1 + (i - 1) = i
    BY <1>3, <1>10
  <2>2. layout[i] = y[i - 1]
    BY <1>10, <2>1
  <2> QED
    BY <1>9, <2>1, <2>2
<1>13. /\ layout[2].op = a.op /\ layout[2].kind = a.kind /\ layout[2].name = a.name /\ layout[2].guards = a.guards \cup {guard}
       /\ layout[3].op = b.op /\ layout[3].kind = b.kind /\ layout[3].name = b.name /\ layout[3].guards = b.guards \cup {guard}
       /\ layout[4].op = c.op /\ layout[4].kind = c.kind /\ layout[4].name = c.name /\ layout[4].guards = c.guards \cup {guard}
  BY <1>8, <1>9, <1>11
<1>14. IsSeq(layout) /\ Len(layout) = (m + 2) + 4 /\ layout[1] = id /\ \A i \in 2 .. (m + 2) + 4 : guard \in layout[i].guards
  BY <1>3, <1>10, <1>12
<1>15. layout = <<id>> \o Packets!Guarded(guard, <<a, b, c>> \o more \o <<s, s>>)
  BY DEF layout, y, x, most, three, two
<1> HIDE DEF m
<1>16. IsItemLayout(layout, id, a, b, c, guard, m + 2)
  BY <1>13, <1>14 DEF IsItemLayout
<1> QED
  BY <1>15, <1>16 DEF m


NotAir == [name |-> "id", set |-> {Packets!Zero}, holds |-> FALSE]

\* The calls of Item: the reader skips the amount its writer writes.
LEMMA ItemCalls ==
    LET W == WriteLayout("Item")
        R == ReadLayout("Item")
    IN  /\ Len(W) = 7 /\ Len(R) = 8 /\ IsSeq(R) /\ W[1] = Packets!VarInt("id") /\ R[1] = Packets!VarInt("id")
        /\ (\A i \in 2 .. 7 : NotAir \in W[i].guards) /\ \A i \in 2 .. 8 : NotAir \in R[i].guards
        /\ W[2].op = "field" /\ R[2].op = "field" /\ R[2].kind = W[2].kind /\ R[2].name = W[2].name
        /\ W[2].guards = {NotAir} /\ R[2].guards = {NotAir} /\ W[2].name # "id"
        /\ W[3].op = "field" /\ W[3].name = "amount" /\ R[3].op = "skipped" /\ R[3].name = "" /\ R[3].kind = W[3].kind
        /\ W[3].guards = {NotAir} /\ R[3].guards = {NotAir}
        /\ R[4].op = "field" /\ R[4].name = "nbt" /\ R[4].guards = {NotAir}
<1> DEFINE id == Packets!VarInt("id")
           a == Packets!Bits("meta")
           b == Packets!Bits("amount")
           c == Packets!LShort("nbt")
           k == Packets!Skipped("Bits")
           s == Packets!Skipped("VarInt")
           h == [name |-> "nbt", set |-> {<<"nbt">>}, holds |-> TRUE]
           e == Packets!Skipped("Byte")
           u == Packets!Compound("nbt tag")
           f == <<e>>
           g == <<e, u>>
           x == Packets!Guarded(h, f)
           y == Packets!Guarded(h, g)
           W == WriteLayout("Item")
           R == ReadLayout("Item")
<1>1. /\ W = <<id>> \o Packets!Guarded(NotAir, <<a, b, c>> \o x \o <<s, s>>)
      /\ R = <<id>> \o Packets!Guarded(NotAir, <<a, k, c>> \o y \o <<s, s>>)
  BY DEF WriteLayout, ReadLayout, Packets!Layouts, Packets!Item, Packets!When, Packets!Unless, NotAir
<1>2. IsCall(a) /\ IsCall(b) /\ IsCall(c) /\ IsCall(k) /\ IsCall(s) /\ IsCall(e) /\ IsCall(u)
  BY DEF IsCall, Packets!Bits, Packets!LShort, Packets!Skipped, Packets!Compound, Packets!Call
<1>3. /\ a.op = "field" /\ a.name = "meta" /\ a.kind = "Bits" /\ a.guards = {} /\ b.op = "field" /\ b.name = "amount" /\ b.kind = "Bits"
      /\ b.guards = {} /\ c.op = "field" /\ c.name = "nbt" /\ c.guards = {} /\ k.op = "skipped" /\ k.kind = "Bits" /\ k.name = ""
      /\ k.guards = {}
  BY DEF Packets!Bits, Packets!LShort, Packets!Skipped, Packets!Call
<1>4. /\ IsSeq(f) /\ Len(f) = 1 /\ (\A i \in 1 .. Len(f) : IsCall(f[i]))
      /\ IsSeq(g) /\ Len(g) = 2 /\ \A i \in 1 .. Len(g) : IsCall(g[i])
  <2> HIDE DEF e, u
  <2> QED
    BY <1>2 DEF IsSeq
<1> HIDE DEF a, b, c, k, s, h, f, g, id
<1>5. /\ IsSeq(x) /\ Len(x) = 1 /\ (\A i \in 1 .. Len(x) : IsCall(x[i]))
      /\ IsSeq(y) /\ Len(y) = 2 /\ \A i \in 1 .. Len(y) : IsCall(y[i])
  BY <1>4, GuardedFacts
<1> HIDE DEF x, y, W, R
<1>6. /\ Len(W) = 7 /\ W[1] = id /\ (\A i \in 2 .. Len(W) : NotAir \in W[i].guards)
      /\ W[2].op = a.op /\ W[2].kind = a.kind /\ W[2].name = a.name /\ W[2].guards = a.guards \cup {NotAir}
      /\ W[3].op = b.op /\ W[3].kind = b.kind /\ W[3].name = b.name /\ W[3].guards = b.guards \cup {NotAir}
  <2>1. IsCall(a) /\ IsCall(b) /\ IsCall(c) /\ IsCall(s) /\ IsSeq(x) /\ (\A i \in 1 .. Len(x) : IsCall(x[i]))
    BY <1>2, <1>5
  <2>2. IsItemLayout(<<id>> \o Packets!Guarded(NotAir, <<a, b, c>> \o x \o <<s, s>>), id, a, b, c, NotAir, Len(x) + 2)
    BY <2>1, ItemLayout
  <2>3. IsItemLayout(W, id, a, b, c, NotAir, 3)
    <3>1. Len(x) + 2 = 3
      BY <1>5
    <3> QED
      BY <1>1, <2>2, <3>1
  <2>4. IsSeq(W) /\ Len(W) = 3 + 4 /\ W[1] = id /\ \A i \in 2 .. 3 + 4 : NotAir \in W[i].guards
    BY <2>3, Zenon DEF IsItemLayout
  <2>5. Len(W) = 7 /\ \A i \in 2 .. Len(W) : NotAir \in W[i].guards
    BY <2>4
  <2> QED
    BY <2>3, <2>4, <2>5, Zenon DEF IsItemLayout
<1>7. /\ IsSeq(R) /\ Len(R) = 8 /\ R[1] = id /\ (\A i \in 2 .. Len(R) : NotAir \in R[i].guards)
      /\ R[2].op = a.op /\ R[2].kind = a.kind /\ R[2].name = a.name /\ R[2].guards = a.guards \cup {NotAir}
      /\ R[3].op = k.op /\ R[3].kind = k.kind /\ R[3].name = k.name /\ R[3].guards = k.guards \cup {NotAir}
      /\ R[4].op = c.op /\ R[4].kind = c.kind /\ R[4].name = c.name /\ R[4].guards = c.guards \cup {NotAir}
  <2>1. IsCall(a) /\ IsCall(k) /\ IsCall(c) /\ IsCall(s) /\ IsSeq(y) /\ (\A i \in 1 .. Len(y) : IsCall(y[i]))
    BY <1>2, <1>5
  <2>2. IsItemLayout(<<id>> \o Packets!Guarded(NotAir, <<a, k, c>> \o y \o <<s, s>>), id, a, k, c, NotAir, Len(y) + 2)
    BY <2>1, ItemLayout
  <2>3. IsItemLayout(R, id, a, k, c, NotAir, 4)
    <3>1. Len(y) + 2 = 4
      BY <1>5
    <3> QED
      BY <1>1, <2>2, <3>1
  <2>4. IsSeq(R) /\ Len(R) = 4 + 4 /\ R[1] = id /\ \A i \in 2 .. 4 + 4 : NotAir \in R[i].guards
    BY <2>3, Zenon DEF IsItemLayout
  <2>5. Len(R) = 8 /\ \A i \in 2 .. Len(R) : NotAir \in R[i].guards
    BY <2>4
  <2> QED
    BY <2>3, <2>4, <2>5, Zenon DEF IsItemLayout
<1>8. /\ Len(W) = 7 /\ Len(R) = 8 /\ IsSeq(R) /\ W[1] = id /\ R[1] = id
      /\ (\A i \in 2 .. 7 : NotAir \in W[i].guards) /\ \A i \in 2 .. 8 : NotAir \in R[i].guards
  BY <1>6, <1>7
<1>9. /\ W[2].op = "field" /\ R[2].op = "field" /\ R[2].kind = W[2].kind /\ R[2].name = W[2].name
      /\ W[2].guards = {NotAir} /\ R[2].guards = {NotAir} /\ W[2].name # "id"
  <2>1. W[2].op = "field" /\ W[2].name = "meta" /\ W[2].kind = "Bits" /\ W[2].guards = {} \cup {NotAir}
    BY <1>3, <1>6, Zenon
  <2>2. R[2].op = "field" /\ R[2].name = "meta" /\ R[2].kind = "Bits" /\ R[2].guards = {} \cup {NotAir}
    BY <1>3, <1>7, Zenon
  <2> QED
    BY <2>1, <2>2
<1>10. /\ W[3].op = "field" /\ W[3].name = "amount" /\ R[3].op = "skipped" /\ R[3].name = "" /\ R[3].kind = W[3].kind
       /\ W[3].guards = {NotAir} /\ R[3].guards = {NotAir}
  <2>1. W[3].op = "field" /\ W[3].name = "amount" /\ W[3].kind = "Bits" /\ W[3].guards = {} \cup {NotAir}
    BY <1>3, <1>6, Zenon
  <2>2. R[3].op = "skipped" /\ R[3].name = "" /\ R[3].kind = "Bits" /\ R[3].guards = {} \cup {NotAir}
    BY <1>3, <1>7, Zenon
  <2> QED
    BY <2>1, <2>2
<1>11. R[4].op = "field" /\ R[4].name = "nbt" /\ R[4].guards = {NotAir}
  <2>1. R[4].op = "field" /\ R[4].name = "nbt" /\ R[4].guards = {} \cup {NotAir}
    BY <1>3, <1>7, Zenon
  <2> QED
    BY <2>1
<1> QED
  BY <1>8, <1>9, <1>10, <1>11 DEF id, W, R

\* The calls of CreativeContentPacket: the reader reads a count before each entry.
LEMMA CreativeCalls ==
    LET W == WriteLayout("CreativeContent")
        R == ReadLayout("CreativeContent")
    IN  /\ Len(W) = 1 /\ Len(R) = 1 /\ W[1].op = "each" /\ R[1].op = "recounted" /\ W[1].guards = {} /\ R[1].guards = {}
        /\ R[1].kind = W[1].kind /\ R[1].name = "entries" /\ W[1].name = "entries"
        /\ R[1].body[1].op = "field" /\ R[1].body[1].name = "entryId" /\ R[1].body[1].guards = {}
<1> DEFINE c == Packets!VarInt("entryId")
           W == WriteLayout("CreativeContent")
           R == ReadLayout("CreativeContent")
           b == <<c>> \o Packets!Item.read
           B == <<c>> \o Packets!Item.write
           E == Packets!Each("UnsignedVarInt", "entries", B)
           F == Packets!EachRecounted("UnsignedVarInt", "entries", b)
<1>1. W = <<E>> /\ R = <<F>>
  BY SMTT(60) DEF WriteLayout, ReadLayout, Packets!Layouts, Packets!CreativeContentPacket
<1>2. c.op = "field" /\ c.name = "entryId" /\ c.guards = {}
  BY DEF Packets!VarInt, Packets!Call
<1>3. b[1] = c
  <2>1. IsSeq(Packets!Item.read)
    <3>1. ReadLayout("Item") = Packets!Item.read
      BY DEF ReadLayout, Packets!Layouts
    <3> QED
      BY <3>1, ItemCalls
  <2> DEFINE one == <<c>>
             rest == Packets!Item.read
  <2>2. IsSeq(one) /\ Len(one) = 1 /\ one[1] = c
    BY SingleSeq
  <2> HIDE DEF one, rest
  <2>3. IsSeq(rest)
    BY <2>1 DEF rest
  <2>4. \A i \in 1 .. Len(one) : (one \o rest)[i] = one[i]
    <3>1. IsSeq(one)
      BY <2>2
    <3> QED
      BY <2>3, <3>1, JoinedSeq
  <2>5. (one \o rest)[1] = c
    BY <2>2, <2>4
  <2> QED
    BY <2>5 DEF one, rest
<1> HIDE DEF b, B, c
<1>4. /\ E.op = "each" /\ E.guards = {} /\ E.kind = "UnsignedVarInt" /\ E.name = "entries"
      /\ F.op = "recounted" /\ F.guards = {} /\ F.kind = "UnsignedVarInt" /\ F.name = "entries" /\ F.body = b
  BY EachCall
<1> HIDE DEF E, F
<1>5. Len(W) = 1 /\ Len(R) = 1 /\ W[1] = E /\ R[1] = F
  BY <1>1
<1> HIDE DEF W, R
<1> QED
  BY <1>2, <1>3, <1>4, <1>5 DEF W, R

\* The reader counts the entries again, and not one of them arrives.
CreativeTrack ==
    \/ At(1) /\ \E k : InStepAt(k)
    \/ At(2) /\ ~Lossy(message.class, message.fields) /\ got = meant
    \/ Lossy(message.class, message.fields) /\ Pending("entries") /\ \E n : Inside(1, 1, n)

\* Without entries the one count is read as it was written; with some of them
\* the field noted next is not the list.
LEMMA CreativeStep ==
    ASSUME PathInv, packetStage = "decoding", IsSeq(got), message.class = "CreativeContent", CreativeTrack,
           SkipReadCall \/ MakeReadCall \/ DecodeFails \/ EndDecode
    PROVE  Lost \/ Arrived \/ Astray \/ (packetStage' = "decoding" /\ CreativeTrack')
<1> DEFINE W == WriterCalls
           R == ReaderCalls
           n == Len(Packets!Field(message.fields, "entries"))
           HasNone == n = 0
<1>1. /\ Len(W) = 1 /\ Len(R) = 1 /\ W[1].op = "each" /\ R[1].op = "recounted" /\ W[1].guards = {} /\ R[1].guards = {}
      /\ R[1].kind = W[1].kind /\ R[1].name = "entries" /\ W[1].name = "entries"
      /\ R[1].body[1].op = "field" /\ R[1].body[1].name = "entryId" /\ R[1].body[1].guards = {}
  BY CreativeCalls DEF WriterCalls, ReaderCalls
<1>2. n \in Nat
  <2>1. 1 \in 1 .. Len(W) /\ message \in PacketMessages
    BY <1>1 DEF PathInv
  <2>2. Len(Packets!Field(message.fields, W[1].name)) \in Nat
    BY <1>1, <2>1, PacketMessagesAssumption DEF WriterCalls
  <2> QED
    BY <1>1, <2>2
<1>3. Lossy(message.class, message.fields) <=> ~HasNone
  BY DEF Lossy
<1>4. UNCHANGED <<message, stream, meant, path>> /\ IsSeq(meant)
  BY ReaderSteps DEF PathInv
<1> HIDE DEF W, R, n
<1>5. CASE At(1) /\ \E k : InStepAt(k)
  <2>1. PICK k : InStepAt(k)
    BY <1>5
  <2>2. place.call = 1 /\ place.inner = 0 /\ place.element = 0
    BY <1>5 DEF At
  <2>3. ~Packets!Over(W, place) /\ ~Packets!Over(R, place)
    BY <1>1, <2>2 DEF Packets!Over
  <2>4. CallOf(message, place) = W[1] /\ FieldsOf(message, place) = message.fields /\ ReadCall = R[1]
    BY <2>2 DEF W, R, CallOf, FieldsOf, Packets!CallAt, Packets!FieldsAt, ReadCall, WriterCalls, ReaderCalls
  <2>5. MadeAt(message, place) /\ Packets!Made(ReadCall, fieldsRead)
    BY <1>1, <2>4 DEF MadeAt, Packets!Made
  <2>6. MeantAt(message, place) = Packets!Unary(n) /\ TokenAt(message, place).value = Packets!Unary(n)
    <3>1. MeantAt(message, place) = Packets!Unary(n)
      BY <1>1, <2>4 DEF n, MeantAt, Packets!Meant
    <3>2. TokenAt(message, place).value = MeantAt(message, place)
      BY <1>1, <2>4 DEF MeantAt, TokenAt, Packets!Written
    <3> QED
      BY <3>1, <3>2
  <2>7. /\ cursor < Len(stream) /\ stream[cursor + 1] = TokenAt(message, place) /\ TokenAt(message, place).kind = W[1].kind
        /\ path[k + 1].place = Packets!NextPlace(W, place, Packets!Unary(n))
        /\ k \in 1 .. Len(path) - 1 /\ k + 1 \in 1 .. Len(path)
        /\ path[k + 1].named = Len(got) + 1 /\ meant[Len(got) + 1] = <<"entries", Packets!Unary(n)>>
    <3>1. CallOf(message, place).name = "entries" /\ CallOf(message, place).name # ""
      BY <1>1, <2>4
    <3>2. ~Packets!Over(WriteLayout(message.class), place)
      BY <2>3 DEF W, WriterCalls
    <3>3. /\ cursor < Len(stream) /\ stream[cursor + 1] = TokenAt(message, place)
          /\ TokenAt(message, place).kind = CallOf(message, place).kind
          /\ path[k + 1].place = Packets!NextPlace(WriteLayout(message.class), place, TokenAt(message, place).value)
          /\ k \in 1 .. Len(path) - 1 /\ k + 1 \in 1 .. Len(path)
      BY <2>1, <2>5, <3>2, TokenHere
    <3>4. path[k + 1].named = Len(got) + 1 /\ meant[Len(got) + 1] = <<CallOf(message, place).name, MeantAt(message, place)>>
      BY <2>1, <2>5, <3>1, <3>2, TokenHere
    <3> QED
      BY <2>4, <2>6, <3>1, <3>3, <3>4 DEF W, WriterCalls
  <2>8. MakeReadCall
    BY <1>1, <2>3, <2>4, <2>5, <2>7 DEF R, Comes, SkipReadCall, DecodeFails, EndDecode
  <2>9. /\ packetStage' = "decoding" /\ got' = got \o Packets!Taken(R[1], place, Packets!Unary(n))
        /\ place' = Packets!NextPlace(R, place, Packets!Unary(n))
    BY <2>4, <2>6, <2>7, <2>8 DEF R, MakeReadCall
  <2>10. Packets!GoesOn(place, Packets!Unary(n)) <=> ~HasNone
    BY <1>2, <2>2, UnaryFacts DEF Packets!GoesOn
  <2>11. /\ Packets!CallAt(W, place) = W[1] /\ Packets!CallAt(R, place) = R[1] /\ Packets!Loops(W[1]) /\ Packets!Loops(R[1])
    BY <1>1, <2>2 DEF Packets!Loops, Packets!CallAt
  <2>12. CASE HasNone
    <3> DEFINE second == [call |-> 2, element |-> 0, inner |-> 0, count |-> 0]
    <3>1. Packets!Following(place) = second
      BY <2>2 DEF Packets!Following, Packets!Start
    <3>2. place' = second /\ path[k + 1].place = second
      BY <2>7, <2>9, <2>10, <2>11, <2>12, <3>1 DEF Packets!NextPlace
    <3>3. k + 1 = Len(path)
      <4>1. Packets!Over(W, path[k + 1].place)
        BY <1>1, <3>2 DEF Packets!Over
      <4>2. k + 1 \in 1 .. Len(path) - 1 => CallStep(message, stream, meant, path[k + 1], path[k + 1 + 1])
        BY DEF PathInv
      <4>3. k + 1 \notin 1 .. Len(path) - 1
        BY <4>1, <4>2 DEF CallStep, W, WriterCalls
      <4>4. Len(path) \in Nat
        BY DEF PathInv, IsSeq
      <4> QED
        BY <2>7, <4>3, <4>4
    <3>4. Len(meant) = Len(got) + 1
      BY <2>7, <3>3 DEF PathInv, PathEnds
    <3>5. /\ IsSeq(got') /\ Len(got') = Len(got) + 1 /\ got'[Len(got) + 1] = <<"entries", Packets!Unary(n)>>
          /\ \A j \in 1 .. Len(got) : got'[j] = got[j]
      <4>1. IsSeq(got') /\ \A j \in 1 .. Len(got) : got'[j] = got[j]
        BY ReaderSteps
      <4> DEFINE r == R[1]
                 v == Packets!Unary(n)
      <4>2. Packets!Taken(r, place, v) = Packets!Noted(r, Packets!Unary(0))
        BY <1>1, <2>2, <2>10, <2>12 DEF Packets!Taken
      <4>3. r.name = "entries" /\ got' = got \o Packets!Noted(r, v)
        BY <1>1, <2>9, <2>12, <4>2
      <4> HIDE DEF r, v
      <4>4. r.name # ""
        BY <4>3
      <4>5. Len(got \o Packets!Noted(r, v)) = Len(got) + 1
        BY <4>4, NotedFacts
      <4>6. (got \o Packets!Noted(r, v))[Len(got) + 1] = <<r.name, v>>
        BY <4>4, NotedEntry
      <4> QED
        BY <4>1, <4>3, <4>5, <4>6 DEF v
    <3>6. ASSUME NEW j \in 1 .. Len(got) + 1 PROVE got'[j] = meant[j]
      <4>1. j \in 1 .. Len(got) \/ j = Len(got) + 1
        BY DEF IsSeq
      <4>2. \A i \in 1 .. Len(got) : got[i] = meant[i]
        BY <2>1 DEF InStepAt
      <4> QED
        BY <2>7, <3>5, <4>1, <4>2
    <3>7. got' = meant
      BY <1>4, <3>4, <3>5, <3>6, SameSeq
    <3> QED
      BY <1>3, <1>4, <2>9, <2>12, <3>2, <3>7 DEF CreativeTrack, At
  <2>13. CASE ~HasNone
    <3>1. place' = Packets!AtElement(place, 1, n)
      BY <1>2, <2>2, <2>9, <2>10, <2>11, <2>13, UnaryFacts DEF Packets!NextPlace
    <3>2. PICK m : m = n
      OBVIOUS
    <3>3. Inside(1, 1, m)'
      BY <2>2, <3>1, <3>2 DEF Packets!AtElement, Inside
    <3>4. got' = got
      BY <1>1, <2>9, <2>10, <2>13, JoinedNone DEF Packets!Taken
    <3>5. Pending("entries")
      BY <1>1, <2>1, <2>3, <2>4, <2>5, PendingHere DEF W, WriterCalls
    <3>6. Pending("entries")'
      BY <1>4, <3>4, <3>5 DEF Pending
    <3>7. Lossy(message'.class, message'.fields)
      BY <1>3, <1>4, <2>13
    <3> QED
      BY <2>9, <3>3, <3>6, <3>7 DEF CreativeTrack
  <2> QED
    BY <2>12, <2>13
<1>6. CASE At(2) /\ ~Lossy(message.class, message.fields) /\ got = meant
  <2>1. Packets!Over(R, place)
    BY <1>1, <1>6 DEF At, Packets!Over
  <2>2. EndDecode
    BY <2>1 DEF R, SkipReadCall, MakeReadCall, DecodeFails, IsReading
  <2> QED
    BY <1>6, <2>2 DEF Arrived, EndDecode
<1>7. CASE Lossy(message.class, message.fields) /\ Pending("entries") /\ \E m : Inside(1, 1, m)
  <2>1. place.call = 1 /\ place.inner = 1
    BY <1>7 DEF Inside
  <2>2. ~Packets!Over(R, place) /\ ReadCall = R[1].body[1]
    BY <1>1, <2>1 DEF R, ReadCall, Packets!Over, Packets!CallAt
  <2>3. Packets!Made(ReadCall, fieldsRead) /\ ReadCall.op = "field" /\ ReadCall.name = "entryId"
    BY <1>1, <2>2 DEF Packets!Made
  <2> QED
    BY <1>7, <2>2, <2>3, PendingGoesWrong DEF R
<1> QED
  BY <1>5, <1>6, <1>7 DEF CreativeTrack


\* Calls for items other than air are not made for air, and are for others.
LEMMA NotAirFacts ==
    ASSUME NEW call, NEW fields
    PROVE  /\ NotAir \in call.guards /\ Packets!Field(fields, "id") = Packets!Zero => ~Packets!Made(call, fields)
           /\ call.guards = {NotAir} /\ Packets!Field(fields, "id") # Packets!Zero => Packets!Made(call, fields)
<1>1. NotAir.name = "id" /\ NotAir.set = {Packets!Zero} /\ NotAir.holds = FALSE
  BY DEF NotAir
<1>2. NotAir \in call.guards /\ Packets!Made(call, fields) => (Packets!Field(fields, "id") \in {Packets!Zero}) = FALSE
  BY <1>1 DEF Packets!Made
<1>3. call.guards = {NotAir} /\ (Packets!Field(fields, "id") \in {Packets!Zero}) = FALSE => Packets!Made(call, fields)
  BY <1>1 DEF Packets!Made
<1> QED
  BY <1>2, <1>3

\* An item loses its amount; air has none.
ItemTrack ==
    \/ At(1) /\ \E k : InStepAt(k)
    \/ /\ Lossy(message.class, message.fields) /\ Packets!Field(fieldsRead, "id") # Packets!Zero
       /\ \/ (\E c \in 2 .. 3 : At(c)) /\ \E k : InStepAt(k)
          \/ At(4) /\ Pending("amount")
    \/ /\ ~Lossy(message.class, message.fields) /\ Packets!Field(fieldsRead, "id") = Packets!Zero
       /\ \/ (\E c \in 2 .. 8 : At(c)) /\ \E k : InStepAt(k)
          \/ At(9) /\ got = meant

\* Air arrives; of any other item the amount is the next field, and is not read.
LEMMA ItemStep ==
    ASSUME PathInv, packetStage = "decoding", IsSeq(got), message.class = "Item", ItemTrack,
           SkipReadCall \/ MakeReadCall \/ DecodeFails \/ EndDecode
    PROVE  Lost \/ Arrived \/ Astray \/ (packetStage' = "decoding" /\ ItemTrack')
<1> DEFINE W == WriterCalls
           R == ReaderCalls
           id == Packets!Field(message.fields, "id")
<1>1. /\ Len(W) = 7 /\ Len(R) = 8 /\ W[1] = Packets!VarInt("id") /\ R[1] = Packets!VarInt("id")
      /\ (\A i \in 2 .. 7 : NotAir \in W[i].guards) /\ \A i \in 2 .. 8 : NotAir \in R[i].guards
  BY ItemCalls DEF WriterCalls, ReaderCalls
<1>2. /\ W[2].op = "field" /\ R[2].op = "field" /\ R[2].kind = W[2].kind /\ R[2].name = W[2].name
      /\ W[2].guards = {NotAir} /\ R[2].guards = {NotAir} /\ W[2].name # "id"
  BY ItemCalls DEF WriterCalls, ReaderCalls
<1>3. /\ W[3].op = "field" /\ W[3].name = "amount" /\ R[3].op = "skipped" /\ R[3].name = "" /\ R[3].kind = W[3].kind
      /\ W[3].guards = {NotAir} /\ R[3].guards = {NotAir} /\ R[4].op = "field" /\ R[4].name = "nbt" /\ R[4].guards = {NotAir}
  BY ItemCalls DEF WriterCalls, ReaderCalls
<1>4. Lossy(message.class, message.fields) <=> id # Packets!Zero
  BY DEF Lossy
<1>5. UNCHANGED <<message, stream, meant, path>>
  BY ReaderSteps
<1> HIDE DEF W, R, id
<1>6. \A c : At(c) => /\ place.call = c /\ place.inner = 0 /\ place.element = 0 /\ ReadCall = R[c]
                      /\ CallOf(message, place) = W[c] /\ FieldsOf(message, place) = message.fields
  BY DEF At, W, R, CallOf, FieldsOf, Packets!CallAt, Packets!FieldsAt, ReadCall, WriterCalls, ReaderCalls
<1>7. /\ \A c \in 1 .. 7 : At(c) => ~Packets!Over(W, place)
      /\ \A c \in 1 .. 8 : At(c) => ~Packets!Over(R, place)
      /\ At(8) => Packets!Over(W, place)
      /\ At(9) => Packets!Over(R, place)
  BY <1>1, <1>6 DEF Packets!Over
<1>8. CASE At(1) /\ \E k : InStepAt(k)
  <2>1. PICK k : InStepAt(k)
    BY <1>8
  <2>2. W[1].op = "field" /\ W[1].guards = {} /\ W[1].name = "id" /\ R[1].op = "field" /\ R[1].guards = {} /\ R[1].kind = W[1].kind /\ R[1].name = W[1].name
    BY <1>1 DEF Packets!VarInt, Packets!Call
  <2>3. Packets!Made(W[1], message.fields) /\ Packets!Made(R[1], fieldsRead)
    BY <2>2 DEF Packets!Made
  <2>4. /\ packetStage' = "decoding" /\ InStepAt(k + 1)' /\ At(1 + 1)'
        /\ fieldsRead' = Packets!Assigned(fieldsRead, W[1].name, Packets!Field(message.fields, W[1].name))
    BY <1>7, <1>8, <2>1, <2>2, <2>3, AlignedField DEF W, R
  <2>5. Packets!Field(fieldsRead', "id") = id
    BY <2>2, <2>4, AssignedField DEF id
  <2>6. At(2)'
    BY <2>4
  <2> QED
    BY <1>4, <1>5, <2>4, <2>5, <2>6 DEF ItemTrack
<1>9. CASE /\ Lossy(message.class, message.fields) /\ Packets!Field(fieldsRead, "id") # Packets!Zero
           /\ (\E c \in 2 .. 3 : At(c)) /\ \E k : InStepAt(k)
  <2>1. PICK k : InStepAt(k)
    BY <1>9
  <2>2. \A call : call.guards = {NotAir} => Packets!Made(call, message.fields) /\ Packets!Made(call, fieldsRead)
    BY <1>4, <1>9, NotAirFacts DEF id
  <2>3. CASE At(2)
    <3>1. Packets!Made(W[2], message.fields) /\ Packets!Made(R[2], fieldsRead)
      BY <1>2, <2>2
    <3>2. /\ packetStage' = "decoding" /\ InStepAt(k + 1)' /\ At(2 + 1)'
          /\ fieldsRead' = Packets!Assigned(fieldsRead, W[2].name, Packets!Field(message.fields, W[2].name))
      BY <1>2, <1>7, <2>1, <2>3, <3>1, AlignedField DEF W, R
    <3>3. Packets!Field(fieldsRead', "id") = Packets!Field(fieldsRead, "id")
      BY <1>2, <3>2, AssignedField
    <3>4. At(3)'
      BY <3>2
    <3> QED
      BY <1>5, <1>9, <3>2, <3>3, <3>4 DEF ItemTrack
  <2>4. CASE At(3)
    <3>1. MadeAt(message, place) /\ Packets!Made(ReadCall, fieldsRead)
      BY <1>3, <1>6, <2>2, <2>4 DEF MadeAt
    <3>2. ~Packets!Over(WriteLayout(message.class), place) /\ ~Packets!Over(R, place)
      BY <1>7, <2>4 DEF W, WriterCalls
    <3>3. Pending("amount")
      BY <1>3, <1>6, <2>1, <2>4, <3>1, <3>2, PendingHere
    <3>4. cursor < Len(stream) /\ stream[cursor + 1].kind = CallOf(message, place).kind
      BY <2>1, <3>1, <3>2, TokenHere
    <3>5. MakeReadCall
      BY <1>3, <1>6, <2>4, <3>1, <3>2, <3>4 DEF R, Comes, SkipReadCall, DecodeFails, EndDecode
    <3> DEFINE v == stream[cursor + 1].value
    <3>6. /\ packetStage' = "decoding" /\ fieldsRead' = fieldsRead /\ got' = got \o Packets!Taken(R[3], place, v)
          /\ place' = Packets!NextPlace(R, place, v)
      BY <1>3, <1>6, <2>4, <3>5 DEF R, MakeReadCall
    <3>7. got' = got
      BY <1>3, <3>6, JoinedNone DEF Packets!Taken, Packets!Noted
    <3>8. At(4)'
      <4>1. IsPlace(place)
        BY <2>4 DEF At, IsPlace
      <4>2. Packets!Passed(R, place) = [call |-> 3 + 1, element |-> 0, inner |-> 0, count |-> 0]
        BY <1>6, <2>4, <4>1, PlaceFacts
      <4>3. place' = Packets!Passed(R, place)
        BY <1>3, <1>6, <2>4, <3>6 DEF Packets!NextPlace, Packets!CallAt, Packets!Loops
      <4> QED
        BY <4>2, <4>3 DEF At
    <3>9. Pending("amount")'
      BY <1>5, <3>3, <3>7 DEF Pending
    <3> QED
      BY <1>5, <1>9, <3>6, <3>8, <3>9 DEF ItemTrack
  <2> QED
    BY <1>9, <2>3, <2>4
<1>10. CASE /\ Lossy(message.class, message.fields) /\ Packets!Field(fieldsRead, "id") # Packets!Zero
            /\ At(4) /\ Pending("amount")
  <2>1. ReadCall = R[4] /\ ~Packets!Over(ReaderCalls, place)
    BY <1>6, <1>7, <1>10 DEF R
  <2>2. ReadCall.op = "field" /\ ReadCall.name = "nbt" /\ Packets!Made(ReadCall, fieldsRead)
    BY <1>3, <1>10, <2>1, NotAirFacts
  <2> QED
    BY <1>10, <2>1, <2>2, PendingGoesWrong
<1>11. CASE /\ ~Lossy(message.class, message.fields) /\ Packets!Field(fieldsRead, "id") = Packets!Zero
            /\ (\E c \in 2 .. 8 : At(c)) /\ \E k : InStepAt(k)
  <2>1. PICK k : InStepAt(k)
    BY <1>11
  <2>2. CASE \E c \in 2 .. 7 : At(c)
    <3>1. PICK c \in 2 .. 7 : At(c)
      BY <2>2
    <3>2. ~Packets!Made(W[c], message.fields) /\ ~Packets!Made(R[c], fieldsRead)
      BY <1>1, <1>4, <1>11, NotAirFacts DEF id
    <3>3. packetStage' = "decoding" /\ InStepAt(k + 1)' /\ At(c + 1)' /\ UNCHANGED <<fieldsRead, got>>
      BY <1>7, <2>1, <3>1, <3>2, AlignedSkip DEF W, R
    <3>4. c + 1 \in 2 .. 8
      OBVIOUS
    <3> QED
      BY <1>5, <1>11, <3>3, <3>4 DEF ItemTrack
  <2>3. CASE At(8)
    <3>1. ~Packets!Made(ReadCall, fieldsRead) /\ ~Packets!Over(R, place)
      BY <1>1, <1>6, <1>7, <1>11, <2>3, NotAirFacts
    <3>2. SkipReadCall
      BY <3>1 DEF R, MakeReadCall, DecodeFails, EndDecode
    <3>3. packetStage' = "decoding" /\ UNCHANGED <<fieldsRead, got>> /\ place' = Packets!Passed(R, place)
      BY <3>2 DEF R, SkipReadCall
    <3>4. At(9)'
      <4>1. IsPlace(place)
        BY <2>3 DEF At, IsPlace
      <4>2. place.call = 8 /\ place.inner = 0
        BY <2>3 DEF At
      <4> HIDE DEF R
      <4>3. Packets!Passed(R, place) = [call |-> place.call + 1, element |-> 0, inner |-> 0, count |-> 0]
        BY <4>1, <4>2, PlaceFacts
      <4>4. Packets!Passed(R, place) = [call |-> 8 + 1, element |-> 0, inner |-> 0, count |-> 0]
        BY <4>2, <4>3
      <4> QED
        BY <3>3, <4>4 DEF At
    <3>5. got = meant
      BY <1>7, <2>1, <2>3, WriterIsOver DEF W, WriterCalls
    <3> QED
      BY <1>5, <1>11, <3>3, <3>4, <3>5 DEF ItemTrack
  <2> QED
    BY <1>11, <2>2, <2>3
<1>12. CASE /\ ~Lossy(message.class, message.fields) /\ Packets!Field(fieldsRead, "id") = Packets!Zero
            /\ At(9) /\ got = meant
  <2>1. EndDecode
    BY <1>7, <1>12 DEF R, SkipReadCall, MakeReadCall, DecodeFails, IsReading
  <2> QED
    BY <1>12, <2>1 DEF Arrived, EndDecode
<1> QED
  BY <1>8, <1>9, <1>10, <1>11, <1>12 DEF ItemTrack


-----------------------------------------------------------------------------
(* Packets: they arrive.                                                   *)

Track ==
    \/ message.class \notin UnevenClasses /\ EvenTrack
    \/ message.class = "PlayerAction" /\ PlayerActionTrack
    \/ message.class = "Item" /\ ItemTrack
    \/ message.class = "CreativeContent" /\ CreativeTrack
    \/ message.class = "ResourcePackResponse" /\ ResponseTrack
    \/ message.class \in {"SetScore", "SetScoreboardIdentity"} /\ ScoresTrack

DecoderInv ==
    /\ IsSeq(got)
    /\ packetStage = "encoding" => cursor = 0 /\ got = <<>>
    /\ packetStage = "decoding" => Track \/ (Lossy(message.class, message.fields) /\ Mismatch)
    /\ packetStage = "decoded" =>
           \/ Lossy(message.class, message.fields) /\ Mismatch
           \/ ~Lossy(message.class, message.fields) /\ got = meant
    /\ packetStage = "lost" => Lossy(message.class, message.fields)

CodecInv == PathInv /\ DecoderInv

\* The reader starts in step.
LEMMA TrackStart == PathInv /\ DecoderInv /\ Transmit => Track'
<1> SUFFICES ASSUME PathInv, DecoderInv, Transmit PROVE Track'
  OBVIOUS
<1>1. /\ packetStage = "encoding" /\ place' = Packets!Start /\ UNCHANGED <<message, stream, cursor, fieldsRead, got, meant, path>>
      /\ cursor = 0 /\ got = <<>>
  BY DEF Transmit, DecoderInv
<1>2. path[1] = [place |-> Packets!Start, position |-> 0, named |-> 0] /\ 1 \in 1 .. Len(path) /\ Len(got) = 0
  BY <1>1 DEF PathInv, PathEnds, IsSeq
<1>3. InStepAt(1)'
  BY <1>1, <1>2 DEF InStepAt
<1>4. At(1)' /\ place'.call = 1
  BY <1>1 DEF At, Packets!Start
<1>5. Known(message', place', fieldsRead') /\ NoDefault(message', place')
  BY <1>4 DEF Known, NoDefault
<1>6. EvenTrack' /\ PlayerActionTrack' /\ ItemTrack' /\ CreativeTrack' /\ ResponseTrack' /\ ScoresTrack'
  <2>1. EvenTrack'
    BY <1>3, <1>5 DEF EvenTrack
  <2>2. PlayerActionTrack' /\ ItemTrack' /\ CreativeTrack' /\ ResponseTrack' /\ ScoresTrack'
    BY <1>3, <1>4 DEF PlayerActionTrack, ItemTrack, CreativeTrack, ResponseTrack, ScoresTrack
  <2> QED
    BY <2>1, <2>2
<1> QED
  BY <1>6 DEF Track, UnevenClasses

\* Every step keeps the reader in step with the path, or a mismatch behind it.
LEMMA DecoderStep == PathInv /\ DecoderInv /\ [CodecNext]_codecVars => DecoderInv'
<1> SUFFICES ASSUME PathInv, DecoderInv, [CodecNext]_codecVars PROVE DecoderInv'
  OBVIOUS
<1>1. IsSeq(got)
  BY DEF DecoderInv
<1>2. CASE SkipWriteCall \/ MakeWriteCall \/ EncodeThrows
  BY <1>2 DEF SkipWriteCall, MakeWriteCall, EncodeThrows, IsWriting, DecoderInv
<1>3. CASE Transmit
  <2>1. packetStage' = "decoding" /\ got' = got
    BY <1>3 DEF Transmit
  <2> QED
    BY <1>1, <1>3, <2>1, TrackStart DEF DecoderInv
<1>4. CASE SkipReadCall \/ MakeReadCall \/ DecodeFails \/ EndDecode
  <2>1. packetStage = "decoding" /\ IsSeq(got') /\ message' = message /\ packetStage' \in {"decoding", "decoded", "lost"}
    BY <1>1, <1>4, ReaderSteps
  <2>2. CASE Lossy(message.class, message.fields) /\ Mismatch
    <3>1. Mismatch' /\ Lossy(message'.class, message'.fields)
      BY <1>1, <1>4, <2>1, <2>2, MismatchStays
    <3> QED
      BY <2>1, <3>1 DEF DecoderInv
  <2>3. CASE Track
    <3>1. Lost \/ Arrived \/ Astray \/ (packetStage' = "decoding" /\ Track')
      <4>1. CASE message.class \notin UnevenClasses /\ EvenTrack
        BY <1>1, <1>4, <2>1, <4>1, EvenStep DEF Arrived, Astray, Track
      <4>2. CASE message.class = "PlayerAction" /\ PlayerActionTrack
        BY <1>1, <1>4, <2>1, <4>2, PlayerActionStep DEF Track
      <4>3. CASE message.class = "Item" /\ ItemTrack
        BY <1>1, <1>4, <2>1, <4>3, ItemStep DEF Track
      <4>4. CASE message.class = "CreativeContent" /\ CreativeTrack
        BY <1>1, <1>4, <2>1, <4>4, CreativeStep DEF Track
      <4>5. CASE message.class = "ResourcePackResponse" /\ ResponseTrack
        BY <1>1, <1>4, <2>1, <4>5, ResponseStep DEF Track
      <4>6. CASE message.class \in {"SetScore", "SetScoreboardIdentity"} /\ ScoresTrack
        BY <1>1, <1>4, <2>1, <4>6, ScoresStep DEF Track
      <4> QED
        BY <2>3, <4>1, <4>2, <4>3, <4>4, <4>5, <4>6 DEF Track
    <3> QED
      BY <2>1, <3>1 DEF DecoderInv, Lost, Arrived, Astray
  <2> QED
    BY <2>1, <2>2, <2>3 DEF DecoderInv
<1>5. CASE UNCHANGED codecVars
  <2>1. UNCHANGED <<message, packetStage, place, stream, cursor, fieldsRead, got, meant, path>>
    BY <1>5 DEF codecVars
  <2>2. Track' <=> Track
    BY <2>1 DEF Track, EvenTrack, PlayerActionTrack, ItemTrack, CreativeTrack, ResponseTrack, ScoresTrack, InStepAt, At, Inside, Pending
  <2>3. Mismatch' <=> Mismatch
    BY <2>1 DEF Mismatch
  <2> QED
    BY <2>1, <2>2, <2>3 DEF DecoderInv
<1> QED
  BY <1>2, <1>3, <1>4, <1>5 DEF CodecNext

\* Nothing was read before the packet is sent.
LEMMA DecoderStart == CodecInit => DecoderInv
BY DEF CodecInit, DecoderInv, IsSeq

\* What the invariant says of the end of decode is the property.
LEMMA DecoderArrives == DecoderInv => PacketsArrive
<1> SUFFICES ASSUME DecoderInv PROVE PacketsArrive
  OBVIOUS
<1>1. Mismatch => got # meant
  BY DEF Mismatch
<1> QED
  BY <1>1 DEF DecoderInv, PacketsArrive

\* Every field of a packet arrives as it was sent, for every message of every
\* class (DataPacket.encode and decode), and the packets of Lossy never do.
THEOREM PacketsCorrect == CodecSpec => []PacketsArrive
<1>1. CodecInit => CodecInv
  BY PathStart, DecoderStart DEF CodecInv
<1>2. CodecInv /\ [CodecNext]_codecVars => CodecInv'
  BY PathStep, DecoderStep DEF CodecInv
<1>3. CodecInv => PacketsArrive
  BY DecoderArrives DEF CodecInv
<1> QED
  BY <1>1, <1>2, <1>3, PTL DEF CodecSpec

=============================================================================
