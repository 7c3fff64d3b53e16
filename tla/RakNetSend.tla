------------------------------- MODULE RakNetSend -------------------------------
(***************************************************************************)
(* The sending half of a RakNet session: addToQueue, sendPacketQueue,      *)
(* handleACK, handleNACK and the resending part of update                  *)
(* (packages/raknet/src/Connection.ts).                                    *)
(*                                                                         *)
(* A call of one of these functions runs until it awaits the socket; while *)
(* it waits other calls run and change the same queues.  Datagrams are     *)
(* objects that the queues share, so they have an identity here: their     *)
(* index in datagrams.  Time is abstract: an entry of recoveryQueue may be *)
(* found older than 8 seconds whenever update looks.  So are sizes: a      *)
(* message may or may not fit in a queue that already has one.             *)
(***************************************************************************)
EXTENDS Integers, Sequences, FiniteSets

CONSTANTS Messages,  (* the messages handed to addToQueue                    *)
          Calls,     (* the calls that may be awaiting the socket at a time  *)
          MaxToSend, (* more than that in packetToSend is thrown away: 2048  *)
          NoMessage  (* what a flush started by update queues afterwards     *)

ASSUME SendAssumption ==
    /\ MaxToSend \in Nat
    /\ NoMessage \notin Messages

\* The sequenceNumber of a datagram nobody has numbered: undefined.
NoSeq == -1

VARIABLES
    datagrams,           (* every DataPacket ever created                    *)
    sendQueue,           (* the one NORMAL messages are pushed to            *)
    sendSequenceNumber,  (* the next number to assign                        *)
    recoveryQueue,       (* number -> datagram cached for recovery           *)
    packetToSend,        (* datagrams update will send again                 *)
    calls,               (* what each call is waiting for                    *)
    wire,                (* history: what the peer can read of all datagrams *)
    queued,              (* history: messages given to addToQueue            *)
    quiet,               (* history: those pushed while no flush was waiting *)
    acked                (* history: numbers the peer acknowledged           *)

sendVars == <<datagrams, sendQueue, sendSequenceNumber, recoveryQueue,
              packetToSend, calls, wire, queued, quiet, acked>>

\* One write of a datagram: its number and messages at the time of encode.
Unwritten == [seq |-> NoSeq, msgs |-> <<>>]

NewDatagram == [seq |-> NoSeq, msgs |-> <<>>, first |-> Unwritten]

Idle == [op |-> "idle"]

\* Numbers given so far, and what is encoded and kept under them.
Numbers == NoSeq .. sendSequenceNumber - 1

Writing == [seq : Numbers, msgs : Seq(Messages)]

Datagram == [seq : Numbers, msgs : Seq(Messages), first : Writing]

\* What a call that waits for the socket needs afterwards.
Call ==
    [op : {"idle", "resend"}]
        \cup [op : {"immediate"}, sent : DOMAIN datagrams]
        \cup [op : {"flush"}, then : queued \cup {NoMessage}]
        \cup [op : {"nack"}, key : Numbers]

SendTypeOK ==
    /\ sendSequenceNumber \in Nat
    /\ datagrams \in Seq(Datagram)
    /\ sendQueue \in DOMAIN datagrams
    /\ DOMAIN recoveryQueue \subseteq Numbers
    /\ recoveryQueue \in [DOMAIN recoveryQueue -> DOMAIN datagrams]
    /\ packetToSend \subseteq DOMAIN datagrams
    /\ calls \in [Calls -> Call]
    /\ wire \subseteq Writing
    /\ quiet \subseteq queued /\ queued \subseteq Messages
    /\ acked \subseteq Numbers

SendInit ==
    /\ datagrams = <<NewDatagram>>
    /\ sendQueue = 1
    /\ sendSequenceNumber = 0
    /\ recoveryQueue = <<>>
    /\ packetToSend = {}
    /\ calls = [c \in Calls |-> Idle]
    /\ wire = {}
    /\ queued = {}
    /\ quiet = {}
    /\ acked = {}

-----------------------------------------------------------------------------
(* Operators on datagrams and on the recovery queue.                       *)

\* Seeded fault: encode starts the buffer anew.
EncodeAnew(d) == [d EXCEPT !.first = [seq |-> d.seq, msgs |-> d.msgs]]

\* encode appends to the buffer of the packet and nothing resets it: of a
\* datagram encoded again, the peer still reads the number and the messages
\* first written, and then bytes that are not a message.
Encode(d) == IF d.first.seq = NoSeq
             THEN [d EXCEPT !.first = [seq |-> d.seq, msgs |-> d.msgs]]
             ELSE d

\* sequenceNumber = sendSequenceNumber++, at every place a datagram gets one.
Number(d) == [d EXCEPT !.seq = sendSequenceNumber]

\* Map.set and Map.delete.
Put(k, d) == [i \in DOMAIN recoveryQueue \cup {k} |->
                  IF i = k THEN d ELSE recoveryQueue[i]]

Without(K) == [i \in DOMAIN recoveryQueue \ K |-> recoveryQueue[i]]

Waiting(op) == {c \in Calls : calls[c].op = op}

PushTo(ds, q, m) == [ds EXCEPT ![q].msgs = Append(@, m)]

\* Seeded fault: a datagram with one message does not count.
QueueHasTwo == Len(datagrams[sendQueue].msgs) > 1

QueueHasMessages == datagrams[sendQueue].msgs # <<>>

\* Seeded fault: the queue is not replaced after it was sent.
SameQueue == sendQueue

QueueAfterFlush == Len(datagrams) + 1

\* Seeded fault: the message goes to the queue as it was before the await.
PushBeforeFlush(m) == PushTo(Append(datagrams, NewDatagram), sendQueue, m)

\* addToQueue pushes to what is the queue after the await.
PushAfterFlush(m) == Append(datagrams, [NewDatagram EXCEPT !.msgs = <<m>>])

-----------------------------------------------------------------------------
(* Queueing messages.                                                      *)

\* sendPacketQueue up to its await: the queue gets a number, at every call,
\* and goes out.  What follows the await then pushes message m.
StartFlush(c, m) ==
    /\ datagrams' = [datagrams EXCEPT ![sendQueue] = Encode(Number(@))]
    /\ sendSequenceNumber' = sendSequenceNumber + 1
    /\ wire' = wire \cup {datagrams'[sendQueue].first}
    /\ calls' = [calls EXCEPT ![c] = [op |-> "flush", then |-> m]]

\* addToQueue with IMMEDIATE priority: a datagram of its own.
QueueImmediate(m, c) ==
    LET d == Encode(Number([NewDatagram EXCEPT !.msgs = <<m>>]))
    IN  /\ m \in Messages \ queued
        /\ calls[c] = Idle
        /\ datagrams' = Append(datagrams, d)
        /\ sendSequenceNumber' = sendSequenceNumber + 1
        /\ wire' = wire \cup {d.first}
        /\ calls' = [calls EXCEPT ![c] = [op |-> "immediate", sent |-> Len(datagrams) + 1]]
        /\ queued' = queued \cup {m}
        /\ UNCHANGED <<sendQueue, recoveryQueue, packetToSend, quiet, acked>>

\* The message fits, or the queue is empty and sendPacketQueue does nothing.
QueueNormal(m) ==
    /\ m \in Messages \ queued
    /\ datagrams' = PushTo(datagrams, sendQueue, m)
    /\ queued' = queued \cup {m}
    /\ quiet' = IF Waiting("flush") = {} THEN quiet \cup {m} ELSE quiet
    /\ UNCHANGED <<sendQueue, sendSequenceNumber, recoveryQueue, packetToSend,
                   calls, wire, acked>>

\* The message does not fit: the queue is sent first.
QueueOverflowing(m, c) ==
    /\ m \in Messages \ queued
    /\ calls[c] = Idle
    /\ QueueHasMessages
    /\ StartFlush(c, m)
    /\ queued' = queued \cup {m}
    /\ UNCHANGED <<sendQueue, recoveryQueue, packetToSend, quiet, acked>>

\* The IMMEDIATE datagram left the socket; only now can it be recovered.
ImmediateSent(c) ==
    /\ calls[c].op = "immediate"
    /\ recoveryQueue' = Put(datagrams[calls[c].sent].seq, calls[c].sent)
    /\ calls' = [calls EXCEPT ![c] = Idle]
    /\ UNCHANGED <<datagrams, sendQueue, sendSequenceNumber, packetToSend, wire,
                   queued, quiet, acked>>

\* The queue left the socket: whatever is the queue now is cached, under the
\* number it has now, and replaced; then addToQueue pushes its message.
FlushSent(c) ==
    LET m == calls[c].then
    IN  /\ calls[c].op = "flush"
        /\ recoveryQueue' = Put(datagrams[sendQueue].seq, sendQueue)
        /\ sendQueue' = QueueAfterFlush
        /\ \/ /\ m = NoMessage
              /\ datagrams' = Append(datagrams, NewDatagram)
              /\ UNCHANGED quiet
           \/ /\ m # NoMessage
              /\ datagrams' = PushAfterFlush(m)
              /\ quiet' = IF Waiting("flush") = {c} THEN quiet \cup {m} ELSE quiet
        /\ calls' = [calls EXCEPT ![c] = Idle]
        /\ UNCHANGED <<sendSequenceNumber, packetToSend, wire, queued, acked>>

-----------------------------------------------------------------------------
(* Acknowledgement and recovery.                                           *)

\* The peer acknowledges a number it read on the wire.
HandleAck(k) ==
    /\ k \in {w.seq : w \in wire} \ {NoSeq}
    /\ recoveryQueue' = Without({k})
    /\ acked' = acked \cup {k}
    /\ UNCHANGED <<datagrams, sendQueue, sendSequenceNumber, packetToSend, calls,
                   wire, queued, quiet>>

\* The peer misses a number it did not get: a number below one it read.
HandleNack(k, c) ==
    /\ calls[c] = Idle
    /\ k \in DOMAIN recoveryQueue \ acked
    /\ \E w \in wire : 0 <= k /\ k < w.seq
    /\ datagrams' = [datagrams EXCEPT ![recoveryQueue[k]] = Encode(Number(@))]
    /\ sendSequenceNumber' = sendSequenceNumber + 1
    /\ wire' = wire \cup {datagrams'[recoveryQueue[k]].first}
    /\ calls' = [calls EXCEPT ![c] = [op |-> "nack", key |-> k]]
    /\ UNCHANGED <<sendQueue, recoveryQueue, packetToSend, queued, quiet, acked>>

\* The datagram was sent again; its old entry goes, no new one is made.
NackResent(c) ==
    /\ calls[c].op = "nack"
    /\ recoveryQueue' = Without({calls[c].key})
    /\ calls' = [calls EXCEPT ![c] = Idle]
    /\ UNCHANGED <<datagrams, sendQueue, sendSequenceNumber, packetToSend, wire,
                   queued, quiet, acked>>

\* The end of update: entries found old join the datagrams to send again, and
\* the queue is flushed unless it is empty.
FinishUpdate(c, old, toSend) ==
    /\ packetToSend' = toSend \cup {recoveryQueue[k] : k \in old}
    /\ recoveryQueue' = Without(old)
    /\ \/ /\ QueueHasMessages
          /\ StartFlush(c, NoMessage)
       \/ /\ ~QueueHasMessages
          /\ calls' = [calls EXCEPT ![c] = Idle]
          /\ UNCHANGED <<datagrams, sendSequenceNumber, wire>>
    /\ UNCHANGED <<sendQueue, queued, quiet, acked>>

\* update with nothing to send again.
Update(c, old) ==
    /\ calls[c] = Idle
    /\ packetToSend = {}
    /\ FinishUpdate(c, old, {})

\* update sends all of packetToSend again, under the numbers they have.
UpdateResends(c) ==
    LET seqs == {datagrams[d].seq : d \in packetToSend}
    IN  /\ calls[c] = Idle
        /\ packetToSend # {}
        /\ recoveryQueue' =
              [k \in DOMAIN recoveryQueue \cup seqs |->
                  IF k \in seqs THEN CHOOSE d \in packetToSend : datagrams[d].seq = k
                                ELSE recoveryQueue[k]]
        /\ datagrams' = [d \in 1 .. Len(datagrams) |->
                            IF d \in packetToSend THEN Encode(datagrams[d]) ELSE datagrams[d]]
        /\ wire' = wire \cup {datagrams'[d].first : d \in packetToSend}
        /\ packetToSend' = {}
        /\ calls' = [calls EXCEPT ![c] = [op |-> "resend"]]
        /\ UNCHANGED <<sendQueue, sendSequenceNumber, queued, quiet, acked>>

\* All were sent; what other calls of update added since then is kept, unless
\* it is too much.
ResendSent(c, old) ==
    /\ calls[c].op = "resend"
    /\ FinishUpdate(c, old, IF Cardinality(packetToSend) > MaxToSend THEN {} ELSE packetToSend)

-----------------------------------------------------------------------------

SendNext ==
    \/ \E m \in Messages : QueueNormal(m)
    \/ \E m \in Messages, c \in Calls : QueueImmediate(m, c) \/ QueueOverflowing(m, c)
    \/ \E c \in Calls : ImmediateSent(c) \/ FlushSent(c) \/ NackResent(c) \/ UpdateResends(c)
    \/ \E k \in DOMAIN recoveryQueue, c \in Calls : HandleNack(k, c)
    \/ \E k \in {w.seq : w \in wire} : HandleAck(k)
    \/ \E c \in Calls, old \in SUBSET DOMAIN recoveryQueue :
          Update(c, old) \/ ResendSent(c, old)

\* socket.send calls back.
SocketCalledBack(c) ==
    \/ ImmediateSent(c) \/ FlushSent(c) \/ NackResent(c)
    \/ \E old \in SUBSET DOMAIN recoveryQueue : ResendSent(c, old)

\* The timer starts update.
TimerFires ==
    \E c \in Calls : \/ UpdateResends(c)
                     \/ \E old \in SUBSET DOMAIN recoveryQueue : Update(c, old)

SendSpec == SendInit /\ [][SendNext]_sendVars

FairSpec ==
    /\ SendSpec
    /\ \A c \in Calls : WF_sendVars(SocketCalledBack(c))
    /\ WF_sendVars(TimerFires)

-----------------------------------------------------------------------------
(* Properties.                                                             *)

OnWire == UNION {{w.msgs[i] : i \in 1 .. Len(w.msgs)} : w \in wire}

MessagesOf(d) == {datagrams[d].msgs[i] : i \in 1 .. Len(datagrams[d].msgs)}

\* A number on the wire stands for the same messages in every copy the peer
\* may read, although the datagram behind it is renumbered and grows.
NumberMeansMessages ==
    \A v, w \in wire : v.seq = w.seq /\ v.seq # NoSeq => v.msgs = w.msgs

\* When no flush is waiting, the queue is a datagram that was never written
\* and that no recovery will send behind its back.
QuietQueueIsUnwritten ==
    Waiting("flush") = {} =>
        /\ datagrams[sendQueue].first = Unwritten
        /\ sendQueue \notin packetToSend
        /\ \A k \in DOMAIN recoveryQueue : recoveryQueue[k] # sendQueue

\* A message pushed while no flush is waiting reaches the wire in the first
\* writing of its datagram: until then it is in the queue.
QuietMessageIsNotLost ==
    quiet \subseteq OnWire \cup MessagesOf(sendQueue)

\* A number in recoveryQueue never comes to stand for another datagram.
EntryKeepsDatagram ==
    [][\A k \in DOMAIN recoveryQueue \cap DOMAIN recoveryQueue' :
            k # NoSeq => recoveryQueue'[k] = recoveryQueue[k]]_sendVars

\* The timer gets every such message out.
QuietMessageGoesOut == \A m \in Messages : m \in quiet ~> m \in OnWire

=============================================================================
