---------------------------- MODULE AcknowledgeCodec ----------------------------
(***************************************************************************)
(* AcknowledgePacket.encodePayload and decodePayload: how the sequence     *)
(* numbers of ackQueue or nackQueue are written to an ACK or NACK packet,  *)
(* and what the other end reads back                                       *)
(* (packages/raknet/src/protocol/AcknowledgePacket.ts).                    *)
(*                                                                         *)
(* The records are kept byte by byte, because the decoder may lose step    *)
(* with the encoder and take part of a number for a flag.                  *)
(***************************************************************************)
EXTENDS Integers, Sequences, FiniteSets

CONSTANTS MaxNumber,  (* sequence numbers are 0 .. MaxNumber                *)
          MaxQueue    (* how many of them a queue may hold                  *)

\* The numbers were read as three bytes.
ASSUME AckAssumption == MaxNumber \in Nat /\ MaxNumber < 256 * 256 * 256 /\ MaxQueue \in Nat

VARIABLES
    packets,    (* the numbers given to setPackets                          *)
    records,    (* the bytes after the record count                         *)
    remaining,  (* records the decoder still has to read                    *)
    offset,     (* the next byte it reads                                   *)
    decoded,    (* the numbers it has read                                  *)
    stage       (* "queued", "sent", "decoded" or "failed"                  *)

ackVars == <<packets, records, remaining, offset, decoded, stage>>

AckInit ==
    /\ packets \in {S \in SUBSET (0 .. MaxNumber) : Cardinality(S) \in 1 .. MaxQueue}
    /\ records = <<>>
    /\ remaining = 0
    /\ offset = 0
    /\ decoded = {}
    /\ stage = "queued"

-----------------------------------------------------------------------------

\* writeLTriad: three bytes, the lowest first.
LTriad(n) == <<n % 256, (n \div 256) % 256, (n \div (256 * 256)) % 256>>

\* writeBool.
FlagRange == <<0>>
FlagSingle == <<1>>

\* packets.sort().
Nth(k) == CHOOSE n \in packets : Cardinality({m \in packets : m < n}) = k - 1

Ascending == [k \in 1 .. Cardinality(packets) |-> Nth(k)]

\* Start and end of the range written for index i of the array.
Pair(i) == LTriad(Ascending[i + 1]) \o LTriad(Ascending[i + 2])

\* How many pairs the loop writes: its index is below half of the count and
\* grows by two.
PairCount(n) == Cardinality({i \in 0 .. n : 2 * i < n /\ i % 2 = 0})

\* One flag for all of them; a pair has six bytes.
Ranges(n) ==
    FlagRange \o [b \in 1 .. 6 * PairCount(n) |-> Pair(2 * ((b - 1) \div 6))[1 + ((b - 1) % 6)]]

\* Seeded fault: a pair counts as two records.
RecordCountPerNumber(n) == n

\* The record count; writeShort drops the half of an odd count.
RecordCount(n) == IF n > 1 THEN n \div 2 ELSE 1

EncodePayload ==
    LET n == Cardinality(packets)
    IN  /\ stage = "queued"
        /\ stage' = "sent"
        /\ remaining' = RecordCount(n)
        /\ records' = IF n > 1 THEN Ranges(n) ELSE FlagSingle \o LTriad(Ascending[1])
        /\ UNCHANGED <<packets, offset, decoded>>

-----------------------------------------------------------------------------

Left == Len(records) - offset

\* readLTriad with at bytes already consumed.
Read(at) == records[at + 1] + 256 * records[at + 2] + 256 * 256 * records[at + 3]

Reading(bytes) == stage = "sent" /\ remaining > 0 /\ Left >= bytes

\* A record of one number: any flag but 0.
ReadSingle ==
    /\ Reading(4)
    /\ records[offset + 1] # 0
    /\ decoded' = decoded \cup {Read(offset + 1)}
    /\ offset' = offset + 4
    /\ remaining' = remaining - 1
    /\ UNCHANGED <<packets, records, stage>>

\* A range stands for every number in it.
ReadRange ==
    /\ Reading(7)
    /\ records[offset + 1] = 0
    /\ decoded' = decoded \cup (Read(offset + 1) .. Read(offset + 4))
    /\ offset' = offset + 7
    /\ remaining' = remaining - 1
    /\ UNCHANGED <<packets, records, stage>>

\* Reading past the end of the buffer throws: the packet is lost.
ReadPastEnd ==
    /\ stage = "sent"
    /\ remaining > 0
    /\ \/ Left < 4
       \/ Left \in 4 .. 6 /\ records[offset + 1] = 0
    /\ stage' = "failed"
    /\ UNCHANGED <<packets, records, remaining, offset, decoded>>

FinishDecoding ==
    /\ stage = "sent"
    /\ remaining = 0
    /\ stage' = "decoded"
    /\ UNCHANGED <<packets, records, remaining, offset, decoded>>

AckNext == EncodePayload \/ ReadSingle \/ ReadRange \/ ReadPastEnd \/ FinishDecoding

AckSpec == AckInit /\ [][AckNext]_ackVars

-----------------------------------------------------------------------------
(* Properties.                                                             *)

Consecutive(S) == \A a, b \in S : a - b \in {-1, 0, 1}

\* One number, or two in a row, arrive as they are.
ShortQueueArrives ==
    stage \in {"decoded", "failed"} /\ Consecutive(packets) =>
        stage = "decoded" /\ decoded = packets

=============================================================================
