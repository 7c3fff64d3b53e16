----------------------------- MODULE RakNetReceive -----------------------------
(***************************************************************************)
(* The receiving half of a RakNet session: Connection.receive,             *)
(* handleDatagram and receivePacket, and the part of Connection.update     *)
(* that sends what was received and what is missing as ACK and NACK        *)
(* packets (packages/raknet/src/Connection.ts).                            *)
(*                                                                         *)
(* JavaScript runs a handler until it awaits an I/O promise.  Three kinds  *)
(* of activity interleave at those points: the handler of a datagram whose *)
(* message is being answered (handlePacket awaits the reply of a           *)
(* ConnectionRequest or ConnectedPing), the calls of update, which the     *)
(* listener starts every 10 ms without waiting for the previous one, and   *)
(* datagrams arriving from the socket in any order.                        *)
(***************************************************************************)
EXTENDS Integers, Sequences, FiniteSets

CONSTANTS MaxSeq,     (* bound on the datagram sequence numbers             *)
          Payloads,   (* the message lists a datagram may carry             *)
          Replying,   (* messages that may be answered while handled        *)
          Updates     (* the calls of update that may overlap               *)

\* A message is its reliable messageIndex, or Unreliable when it has none.
Unreliable == -1

Message == Nat \cup {Unreliable}

ASSUME ReceiveAssumption ==
    /\ MaxSeq \in Nat
    /\ Payloads \subseteq Seq(Message)
    /\ Replying \subseteq Message

VARIABLES
    nackQueue,           (* sequence numbers found missing                   *)
    ackQueue,            (* sequence numbers to acknowledge                  *)
    receivedSeqNumbers,  (* every sequence number received                   *)
    lastSequenceNumber,  (* the last one received, not the highest           *)
    lastReliableIndex,   (* the reliable message expected next               *)
    phase,               (* where the handler of each datagram stands        *)
    rest,                (* the messages it has not finished                 *)
    updates,             (* where each call of update stands                 *)
    handled,             (* history: reliable messages given to handlePacket *)
    acknowledged,        (* history: sequence numbers sent in an ACK, or     *)
                         (* received while one was being sent                *)
    nacked,              (* history: sequence numbers sent in a NACK, or     *)
                         (* found missing while one was being sent           *)
    noticed,             (* history: sequence numbers put into nackQueue     *)
    replying             (* the messages whose handling may await a reply    *)

window   == <<receivedSeqNumbers, lastSequenceNumber, noticed>>
delivery == <<lastReliableIndex, handled>>
handlers == <<phase, rest>>
receiveVars == <<nackQueue, ackQueue, acknowledged, nacked, updates, window,
                 delivery, handlers, replying>>

Seqs == 0 .. MaxSeq

ReceiveTypeOK ==
    /\ nackQueue \subseteq Seqs
    /\ ackQueue \subseteq Seqs
    /\ receivedSeqNumbers \subseteq Seqs
    /\ lastSequenceNumber \in Seqs \cup {-1}
    /\ lastReliableIndex \in Nat
    /\ phase \in [Seqs -> {"none", "running", "awaiting", "done"}]
    /\ rest \in [Seqs -> Seq(Message)]
    /\ updates \in [Updates -> {"idle", "sendingAck", "sendingNack"}]
    /\ handled \in Seq(Nat)
    /\ acknowledged \subseteq Seqs
    /\ nacked \subseteq Seqs
    /\ noticed \subseteq Seqs
    /\ replying \subseteq Replying

ReceiveInit ==
    /\ nackQueue = {}
    /\ ackQueue = {}
    /\ receivedSeqNumbers = {}
    /\ lastSequenceNumber = -1
    /\ lastReliableIndex = 0
    /\ phase = [s \in Seqs |-> "none"]
    /\ rest = [s \in Seqs |-> <<>>]
    /\ updates = [u \in Updates |-> "idle"]
    /\ handled = <<>>
    /\ acknowledged = {}
    /\ nacked = {}
    /\ noticed = {}
    /\ replying \in SUBSET Replying

-----------------------------------------------------------------------------
(* Receiving datagrams.                                                    *)

\* A handler keeps the thread until it awaits I/O or returns.
ThreadFree == \A s \in Seqs : phase[s] # "running"

\* Seeded fault: the search starts one number late.
MissingOneLess(s) ==
    {i \in lastSequenceNumber + 2 .. s - 1 : i \notin receivedSeqNumbers}

\* The numbers between the last datagram and s that never arrived.
Missing(s) == {i \in lastSequenceNumber + 1 .. s - 1 : i \notin receivedSeqNumbers}

\* Seeded fault: a late datagram stays in the queue of missing ones.
NackQueueKeepsLate(s) == nackQueue \cup Missing(s)

\* s is no longer missing, the numbers its arrival skips are.
NackQueueAfter(s) == (nackQueue \ {s}) \cup Missing(s)

\* An update waits for the socket with an ACK or a NACK.
Sending(stage) == \E u \in Updates : updates[u] = stage

\* A datagram that was not seen before; a duplicate is dropped at line 183
\* and changes nothing, not even ackQueue.
HandleDatagram(s, payload) ==
    /\ ThreadFree
    /\ s \notin receivedSeqNumbers
    /\ nackQueue' = NackQueueAfter(s)
    /\ noticed' = noticed \cup Missing(s)
    /\ ackQueue' = ackQueue \cup {s}
    /\ receivedSeqNumbers' = receivedSeqNumbers \cup {s}
    /\ lastSequenceNumber' = s
    /\ phase' = [phase EXCEPT ![s] = "running"]
    /\ rest' = [rest EXCEPT ![s] = payload]
    /\ acknowledged' = acknowledged \cup (IF Sending("sendingAck") THEN {s} ELSE {})
    /\ nacked' = nacked \cup (IF Sending("sendingNack") THEN Missing(s) ELSE {})
    /\ UNCHANGED <<updates, delivery, replying>>

\* The loop of handleDatagram has handled every message.
FinishDatagram(s) ==
    /\ phase[s] = "running"
    /\ rest[s] = <<>>
    /\ phase' = [phase EXCEPT ![s] = "done"]
    /\ UNCHANGED <<nackQueue, ackQueue, acknowledged, nacked, updates, window,
                   delivery, rest, replying>>

\* Seeded fault: any reliable message is in turn.
AnyInTurn(m) == m # Unreliable

\* holeCount is 0.
InTurn(m) == m = lastReliableIndex

\* lastReliableIndex once message m has been handled.
IndexAfter(m) ==
    IF m = Unreliable THEN lastReliableIndex ELSE lastReliableIndex + 1

\* A reliable message in turn is handled and counted; the handler stops
\* between the two when handlePacket awaits its reply, which it does not send
\* in every state of the session.
AcceptReliable(s) ==
    /\ InTurn(Head(rest[s]))
    /\ handled' = Append(handled, Head(rest[s]))
    /\ \/ /\ Head(rest[s]) \in replying
          /\ phase' = [phase EXCEPT ![s] = "awaiting"]
          /\ UNCHANGED <<lastReliableIndex, rest>>
       \/ /\ lastReliableIndex' = IndexAfter(Head(rest[s]))
          /\ rest' = [rest EXCEPT ![s] = Tail(@)]
          /\ UNCHANGED phase

\* A reliable message that is not the expected one is forgotten: the queue
\* that would hold it is commented out.
DropReliable(s) ==
    /\ Head(rest[s]) # Unreliable
    /\ ~InTurn(Head(rest[s]))
    /\ rest' = [rest EXCEPT ![s] = Tail(@)]
    /\ UNCHANGED <<phase, delivery>>

\* A message without an index is handled whatever came before.
AcceptUnreliable(s) ==
    /\ Head(rest[s]) = Unreliable
    /\ \/ /\ Unreliable \in replying
          /\ phase' = [phase EXCEPT ![s] = "awaiting"]
          /\ UNCHANGED rest
       \/ /\ rest' = [rest EXCEPT ![s] = Tail(@)]
          /\ UNCHANGED phase
    /\ UNCHANGED delivery

ReceivePacket(s) ==
    /\ phase[s] = "running"
    /\ rest[s] # <<>>
    /\ AcceptReliable(s) \/ DropReliable(s) \/ AcceptUnreliable(s)
    /\ UNCHANGED <<nackQueue, ackQueue, acknowledged, nacked, updates, window, replying>>

\* The reply was sent: the handler counts the message and goes on.
Resume(s) ==
    /\ ThreadFree
    /\ phase[s] = "awaiting"
    /\ lastReliableIndex' = IndexAfter(Head(rest[s]))
    /\ phase' = [phase EXCEPT ![s] = "running"]
    /\ rest' = [rest EXCEPT ![s] = Tail(@)]
    /\ UNCHANGED <<nackQueue, ackQueue, acknowledged, nacked, updates, window,
                   handled, replying>>

-----------------------------------------------------------------------------
(* The ACK and NACK part of update.                                        *)

\* Second block of update: a snapshot of nackQueue goes out, if there is one.
SendNack(u) ==
    \/ /\ nackQueue # {}
       /\ nacked' = nacked \cup nackQueue
       /\ updates' = [updates EXCEPT ![u] = "sendingNack"]
    \/ /\ nackQueue = {}
       /\ updates' = [updates EXCEPT ![u] = "idle"]
       /\ UNCHANGED nacked

\* The timer starts update: a snapshot of ackQueue goes out first.
StartUpdate(u) ==
    /\ ThreadFree
    /\ updates[u] = "idle"
    /\ \/ /\ ackQueue # {}
          /\ acknowledged' = acknowledged \cup ackQueue
          /\ updates' = [updates EXCEPT ![u] = "sendingAck"]
          /\ UNCHANGED nacked
       \/ /\ ackQueue = {}
          /\ SendNack(u)
          /\ UNCHANGED acknowledged
    /\ UNCHANGED <<nackQueue, ackQueue, window, delivery, handlers, replying>>

\* The ACK left the socket: the whole queue is cleared, also what was added
\* to it since the snapshot.
AckSent(u) ==
    /\ ThreadFree
    /\ updates[u] = "sendingAck"
    /\ ackQueue' = {}
    /\ SendNack(u)
    /\ UNCHANGED <<nackQueue, acknowledged, window, delivery, handlers, replying>>

\* Seeded fault: the other queue is cleared.
AckQueueCleared(u) ==
    /\ ThreadFree
    /\ updates[u] = "sendingNack"
    /\ ackQueue' = {}
    /\ updates' = [updates EXCEPT ![u] = "idle"]
    /\ UNCHANGED <<nackQueue, acknowledged, nacked, window, delivery, handlers, replying>>

NackSent(u) ==
    /\ ThreadFree
    /\ updates[u] = "sendingNack"
    /\ nackQueue' = {}
    /\ updates' = [updates EXCEPT ![u] = "idle"]
    /\ UNCHANGED <<ackQueue, acknowledged, nacked, window, delivery, handlers, replying>>

-----------------------------------------------------------------------------

ReceiveNext ==
    \/ \E s \in Seqs, payload \in Payloads : HandleDatagram(s, payload)
    \/ \E s \in Seqs : FinishDatagram(s) \/ ReceivePacket(s) \/ Resume(s)
    \/ \E u \in Updates : StartUpdate(u) \/ AckSent(u) \/ NackSent(u)

ReceiveSpec == ReceiveInit /\ [][ReceiveNext]_receiveVars

-----------------------------------------------------------------------------
(* Properties.                                                             *)

\* The next NACK never asks again for a datagram that has arrived, although
\* lastSequenceNumber moves backwards when a lost one comes late.
NoFalseNack == nackQueue \cap receivedSeqNumbers = {}

\* Every number below a received one was received or has been put into
\* nackQueue: no gap escapes the search between two consecutive arrivals.
GapNoticed ==
    \A s \in receivedSeqNumbers : \A i \in 0 .. s :
        i \in receivedSeqNumbers \cup noticed

\* Reliable messages reach handlePacket in the order of their indexes.
ReliableOrder ==
    \A i, j \in 1 .. Len(handled) : i <= j => handled[i] <= handled[j]

\* The datagrams with a reliable message that is handled and not yet counted.
Uncounted == {s \in Seqs : phase[s] = "awaiting" /\ Head(rest[s]) # Unreliable}

\* The expected index counts the reliable messages handled, except those whose
\* handler still awaits its reply.
ExpectedIndexCounts == lastReliableIndex + Cardinality(Uncounted) = Len(handled)

\* Reliable messages are handled exactly once, none skipped.
ExactlyOnce == \A k \in 1 .. Len(handled) : handled[k] = k - 1

\* It holds as long as no reliable message is answered while it is handled.
ExactlyOnceUnlessReplying == replying \cap Nat = {} => ExactlyOnce

\* Whatever was received is acknowledged or will be, and every gap is asked for,
\* will be or has closed; except what came while an update was waiting for the
\* socket, which it clears from the queue although its snapshot did not have it.
ForgottenOnlyWhileSending ==
    /\ receivedSeqNumbers \subseteq ackQueue \cup acknowledged
    /\ noticed \subseteq nackQueue \cup nacked \cup receivedSeqNumbers

=============================================================================
