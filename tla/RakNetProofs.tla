------------------------------ MODULE RakNetProofs ------------------------------
(***************************************************************************)
(* What the three parts of a Connection and the listener above them        *)
(* guarantee: RakNetReceive for every bound, every set of payloads and any *)
(* number of overlapping updates; RakNetSend for any messages, any number  *)
(* of calls that wait for the socket at once, and any number of            *)
(* resendings; RakNetSplit for any number of large messages of any sizes,  *)
(* over a network that loses and reorders; RakNetListener for any number   *)
(* of addresses, connections and waiting removals: its map is consistent   *)
(* and its events are those of SessionEvents.                              *)
(***************************************************************************)
EXTENDS RakNetReceive, RakNetSend, RakNetSplit, RakNetListener,
        SequenceTheorems, FiniteSetTheorems, TLAPS

-----------------------------------------------------------------------------
(* The receiving half.                                                     *)

\* A handler that awaits a reply still has the message it answers.
AwaitingHasMessage == \A s \in Seqs : phase[s] = "awaiting" => rest[s] # <<>>

\* Types, and what they need to be preserved.
ReceiveTypeInv == ReceiveTypeOK /\ AwaitingHasMessage

\* The last number received is a received one.
LastIsReceived == lastSequenceNumber \in receivedSeqNumbers \cup {-1}

WindowInv == LastIsReceived /\ NoFalseNack /\ GapNoticed

\* No message beyond the expected one was handled.
HandledUpToExpected == \A k \in 1 .. Len(handled) : handled[k] <= lastReliableIndex

ReceiveOrderInv == HandledUpToExpected /\ ReliableOrder

\* Without replies to reliable messages lastReliableIndex counts them all.
OnceInv ==
    /\ lastReliableIndex = Len(handled)
    /\ ExactlyOnce
    /\ \A s \in Seqs : phase[s] = "awaiting" => Head(rest[s]) = Unreliable

-----------------------------------------------------------------------------

\* The variables keep their types: handlers and updates stay at known places,
\* and every queue holds sequence numbers.
LEMMA ReceiveTypeStep == ReceiveTypeInv /\ [ReceiveNext]_receiveVars => ReceiveTypeInv'
<1> SUFFICES ASSUME ReceiveTypeInv, [ReceiveNext]_receiveVars PROVE ReceiveTypeInv'
  OBVIOUS
<1> USE ReceiveAssumption DEF ReceiveTypeInv, ReceiveTypeOK, AwaitingHasMessage, Seqs
<1>1. ASSUME NEW s \in Seqs, NEW payload \in Payloads, HandleDatagram(s, payload)
      PROVE  ReceiveTypeInv'
  <2>1. Missing(s) \subseteq Seqs
    BY DEF Missing
  <2>2. payload \in Seq(Message)
    OBVIOUS
  <2> QED
    BY <1>1, <2>1, <2>2 DEF HandleDatagram, NackQueueAfter, delivery
<1>2. ASSUME NEW s \in Seqs, FinishDatagram(s) PROVE ReceiveTypeInv'
  BY <1>2 DEF FinishDatagram, window, delivery
<1>3. ASSUME NEW s \in Seqs, ReceivePacket(s) PROVE ReceiveTypeInv'
  <2>1. /\ rest[s] \in Seq(Message) /\ rest[s] # <<>>
        /\ Head(rest[s]) \in Message
        /\ Tail(rest[s]) \in Seq(Message)
    BY <1>3 DEF ReceivePacket
  <2>2. CASE AcceptReliable(s)
    <3>1. /\ Head(rest[s]) \in Nat
          /\ handled' = Append(handled, Head(rest[s]))
          /\ lastReliableIndex' \in Nat
      <4>1. Head(rest[s]) = lastReliableIndex /\ lastReliableIndex \in Nat
        BY <2>2 DEF AcceptReliable, InTurn
      <4>2. IndexAfter(Head(rest[s])) \in Nat
        BY <4>1 DEF IndexAfter
      <4> QED
        BY <2>2, <4>1, <4>2 DEF AcceptReliable
    <3>2. handled' \in Seq(Nat)
      BY <3>1
    <3>3. \/ phase' = [phase EXCEPT ![s] = "awaiting"] /\ rest' = rest
          \/ phase' = phase /\ rest' = [rest EXCEPT ![s] = Tail(@)]
      BY <2>2 DEF AcceptReliable
    <3>4. /\ phase' \in [Seqs -> {"none", "running", "awaiting", "done"}]
          /\ rest' \in [Seqs -> Seq(Message)]
          /\ AwaitingHasMessage'
      BY <1>3, <2>1, <3>3 DEF ReceivePacket
    <3> QED
      BY <1>3, <3>1, <3>2, <3>4 DEF ReceivePacket, window
  <2>3. CASE DropReliable(s)
    BY <1>3, <2>1, <2>3 DEF ReceivePacket, DropReliable, window, delivery
  <2>4. CASE AcceptUnreliable(s)
    BY <1>3, <2>1, <2>4 DEF ReceivePacket, AcceptUnreliable, window, delivery
  <2> QED
    BY <1>3, <2>2, <2>3, <2>4 DEF ReceivePacket
<1>4. ASSUME NEW s \in Seqs, Resume(s) PROVE ReceiveTypeInv'
  <2>1. rest[s] # <<>> /\ Tail(rest[s]) \in Seq(Message)
    BY <1>4 DEF Resume
  <2> QED
    BY <1>4, <2>1, SMTT(60) DEF Resume, IndexAfter, window
<1>5. ASSUME NEW u \in Updates, StartUpdate(u) PROVE ReceiveTypeInv'
  BY <1>5 DEF StartUpdate, SendNack, window, delivery, handlers
<1>6. ASSUME NEW u \in Updates, AckSent(u) PROVE ReceiveTypeInv'
  BY <1>6 DEF AckSent, SendNack, window, delivery, handlers
<1>7. ASSUME NEW u \in Updates, NackSent(u) PROVE ReceiveTypeInv'
  BY <1>7 DEF NackSent, window, delivery, handlers
<1>8. CASE UNCHANGED receiveVars
  BY <1>8 DEF receiveVars, window, delivery, handlers
<1> QED
  BY <1>1, <1>2, <1>3, <1>4, <1>5, <1>6, <1>7, <1>8 DEF ReceiveNext

\* The state of the receiving half is always well typed.
THEOREM ReceiveTypeCorrect == ReceiveSpec => []ReceiveTypeInv
<1>1. ReceiveInit => ReceiveTypeInv
  BY ReceiveAssumption DEF ReceiveInit, ReceiveTypeInv, ReceiveTypeOK, AwaitingHasMessage, Seqs
<1> QED
  BY <1>1, ReceiveTypeStep, PTL DEF ReceiveSpec

-----------------------------------------------------------------------------

\* The window is touched by the arrival of a datagram only; the other steps
\* leave it alone or shrink nackQueue.
LEMMA WindowStep == ReceiveTypeInv /\ WindowInv /\ [ReceiveNext]_receiveVars => WindowInv'
<1> SUFFICES ASSUME ReceiveTypeInv, WindowInv, [ReceiveNext]_receiveVars PROVE WindowInv'
  OBVIOUS
<1> USE DEF ReceiveTypeInv, ReceiveTypeOK, WindowInv, LastIsReceived, NoFalseNack, GapNoticed, Seqs
<1>1. ASSUME NEW s \in Seqs, NEW payload \in Payloads, HandleDatagram(s, payload)
      PROVE  WindowInv'
  <2> USE <1>1 DEF HandleDatagram
  <2>1. LastIsReceived'
    OBVIOUS
  <2>2. NoFalseNack'
    <3>1. \A i \in Missing(s) : i \notin receivedSeqNumbers \cup {s}
      BY DEF Missing
    <3> QED
      BY <3>1 DEF NackQueueAfter
  <2>3. ASSUME NEW t \in receivedSeqNumbers', NEW i \in 0 .. t
        PROVE  i \in receivedSeqNumbers' \cup noticed'
    <3>1. CASE t # s
      BY <2>3, <3>1
    <3>2. CASE t = s /\ i <= lastSequenceNumber
      <4>1. lastSequenceNumber \in receivedSeqNumbers /\ i \in 0 .. lastSequenceNumber
        BY <2>3, <3>2
      <4>2. i \in receivedSeqNumbers \cup noticed
        BY <4>1
      <4> QED
        BY <4>2
    <3>3. CASE t = s /\ i > lastSequenceNumber
      BY <2>3, <3>3 DEF Missing
    <3> QED
      BY <2>3, <3>1, <3>2, <3>3
  <2> QED
    BY <2>1, <2>2, <2>3
<1>2. ASSUME NEW s \in Seqs, FinishDatagram(s) \/ ReceivePacket(s) \/ Resume(s)
      PROVE  WindowInv'
  BY <1>2 DEF FinishDatagram, ReceivePacket, Resume, window
<1>3. ASSUME NEW u \in Updates, StartUpdate(u) \/ AckSent(u) \/ NackSent(u)
      PROVE  WindowInv'
  BY <1>3 DEF StartUpdate, AckSent, NackSent, window
<1>4. CASE UNCHANGED receiveVars
  BY <1>4 DEF receiveVars, window
<1> QED
  BY <1>1, <1>2, <1>3, <1>4 DEF ReceiveNext

\* What lies below lastSequenceNumber was received or noticed, and nothing else noticed.
LEMMA WindowCorrect == ReceiveSpec => [](NoFalseNack /\ GapNoticed)
<1>1. ReceiveInit => WindowInv
  BY DEF ReceiveInit, WindowInv, LastIsReceived, NoFalseNack, GapNoticed
<1>2. WindowInv => NoFalseNack /\ GapNoticed
  BY DEF WindowInv
<1> QED
  BY <1>1, <1>2, ReceiveTypeCorrect, WindowStep, PTL DEF ReceiveSpec

\* A NACK never names a datagram that has arrived, in whatever order datagrams
\* come and however updates overlap.
THEOREM NacksCorrect == ReceiveSpec => []NoFalseNack
BY WindowCorrect, PTL

\* No gap below a received datagram goes unnoticed, although lastSequenceNumber
\* moves backwards.
THEOREM GapsCorrect == ReceiveSpec => []GapNoticed
BY WindowCorrect, PTL

-----------------------------------------------------------------------------

\* A message is appended to handled only when it is the expected one, and the
\* expected index only grows.
LEMMA ReceiveOrderStep ==
    ReceiveTypeInv /\ ReceiveOrderInv /\ [ReceiveNext]_receiveVars => ReceiveOrderInv'
<1> SUFFICES ASSUME ReceiveTypeInv, ReceiveOrderInv, [ReceiveNext]_receiveVars
             PROVE  ReceiveOrderInv'
  OBVIOUS
<1> USE DEF ReceiveTypeInv, ReceiveTypeOK, ReceiveOrderInv, HandledUpToExpected,
            ReliableOrder, Message
<1>1. ASSUME NEW s \in Seqs, AcceptReliable(s) PROVE ReceiveOrderInv'
  <2>1. /\ handled' = Append(handled, lastReliableIndex)
        /\ lastReliableIndex' \in {lastReliableIndex, lastReliableIndex + 1}
    BY <1>1 DEF AcceptReliable, InTurn, IndexAfter
  <2>2. /\ Len(handled') = Len(handled) + 1
        /\ \A k \in 1 .. Len(handled) : handled'[k] = handled[k]
        /\ handled'[Len(handled) + 1] = lastReliableIndex
    BY <2>1
  <2>3. \A k \in 1 .. Len(handled') : handled'[k] \in Nat /\ handled'[k] <= lastReliableIndex
    <3> SUFFICES ASSUME NEW k \in 1 .. Len(handled')
                 PROVE  handled'[k] \in Nat /\ handled'[k] <= lastReliableIndex
      OBVIOUS
    <3>1. lastReliableIndex \in Nat /\ Len(handled) \in Nat
      OBVIOUS
    <3>2. CASE k \in 1 .. Len(handled)
      <4>1. handled[k] \in Nat /\ handled[k] <= lastReliableIndex
        BY <3>2
      <4> QED
        BY <2>2, <3>2, <4>1
    <3>3. CASE k = Len(handled) + 1
      BY <2>2, <3>1, <3>3
    <3>4. k \in 1 .. Len(handled) \/ k = Len(handled) + 1
      BY <2>2, <3>1
    <3> QED
      BY <3>2, <3>3, <3>4
  <2>4. HandledUpToExpected'
    BY <2>1, <2>3
  <2>5. ReliableOrder'
    <3> SUFFICES ASSUME NEW i \in 1 .. Len(handled'), NEW j \in 1 .. Len(handled'), i <= j
                 PROVE  handled'[i] <= handled'[j]
      OBVIOUS
    <3>1. CASE j = Len(handled) + 1
      BY <2>2, <2>3, <3>1
    <3>2. CASE i \in 1 .. Len(handled) /\ j \in 1 .. Len(handled)
      BY <2>2, <3>2
    <3> QED
      BY <2>2, <3>1, <3>2
  <2> QED
    BY <2>4, <2>5
<1>2. ASSUME NEW s \in Seqs, NEW payload \in Payloads, HandleDatagram(s, payload)
      PROVE  ReceiveOrderInv'
  BY <1>2 DEF HandleDatagram, delivery
<1>3. ASSUME NEW s \in Seqs, FinishDatagram(s) PROVE ReceiveOrderInv'
  BY <1>3 DEF FinishDatagram, delivery
<1>4. ASSUME NEW s \in Seqs, ReceivePacket(s) PROVE ReceiveOrderInv'
  BY <1>1, <1>4 DEF ReceivePacket, DropReliable, AcceptUnreliable, delivery
<1>5. ASSUME NEW s \in Seqs, Resume(s) PROVE ReceiveOrderInv'
  <2>1. handled' = handled /\ lastReliableIndex' \in {lastReliableIndex, lastReliableIndex + 1}
    BY <1>5 DEF Resume, IndexAfter
  <2> QED
    BY <2>1
<1>6. ASSUME NEW u \in Updates, StartUpdate(u) \/ AckSent(u) \/ NackSent(u)
      PROVE  ReceiveOrderInv'
  BY <1>6 DEF StartUpdate, AckSent, NackSent, delivery
<1>7. CASE UNCHANGED receiveVars
  BY <1>7 DEF receiveVars, delivery
<1> QED
  BY <1>2, <1>3, <1>4, <1>5, <1>6, <1>7 DEF ReceiveNext

\* Reliable messages reach handlePacket in index order, even when handlers
\* suspend and messages are repeated.
THEOREM OrderCorrect == ReceiveSpec => []ReliableOrder
<1>1. ReceiveInit => ReceiveOrderInv
  BY DEF ReceiveInit, ReceiveOrderInv, HandledUpToExpected, ReliableOrder
<1>2. ReceiveOrderInv => ReliableOrder
  BY DEF ReceiveOrderInv
<1> QED
  BY <1>1, <1>2, ReceiveTypeCorrect, ReceiveOrderStep, PTL DEF ReceiveSpec

-----------------------------------------------------------------------------

\* With no reply to reliable messages, a message is counted in the step that
\* handles it.
LEMMA OnceStep ==
    ReceiveTypeInv /\ OnceInv /\ replying \cap Nat = {} /\ [ReceiveNext]_receiveVars => OnceInv'
<1> SUFFICES ASSUME ReceiveTypeInv, OnceInv, replying \cap Nat = {}, [ReceiveNext]_receiveVars
             PROVE  OnceInv'
  OBVIOUS
<1> USE DEF ReceiveTypeInv, ReceiveTypeOK, OnceInv, ExactlyOnce
<1>1. ASSUME NEW s \in Seqs, ReceivePacket(s), AcceptReliable(s) PROVE OnceInv'
  <2>1. Head(rest[s]) = lastReliableIndex /\ lastReliableIndex \in Nat \ replying
    BY <1>1 DEF AcceptReliable, InTurn
  <2>2. /\ handled' = Append(handled, lastReliableIndex)
        /\ lastReliableIndex' = lastReliableIndex + 1
        /\ phase' = phase
        /\ rest' = [rest EXCEPT ![s] = Tail(@)]
    BY <1>1, <2>1 DEF AcceptReliable, IndexAfter, Unreliable
  <2>3. phase[s] = "running"
    BY <1>1 DEF ReceivePacket
  <2>4. \A t \in Seqs : phase'[t] = "awaiting" => Head(rest'[t]) = Unreliable
    BY <2>2, <2>3
  <2>5. lastReliableIndex' = Len(handled') /\ ExactlyOnce'
    <3>1. /\ Len(handled') = Len(handled) + 1
          /\ \A k \in 1 .. Len(handled) : handled'[k] = handled[k]
          /\ handled'[Len(handled) + 1] = lastReliableIndex
      BY <2>1, <2>2
    <3> QED
      BY <2>2, <3>1
  <2> QED
    BY <2>4, <2>5
<1>2. ASSUME NEW s \in Seqs, NEW payload \in Payloads, HandleDatagram(s, payload)
      PROVE  OnceInv'
  BY <1>2 DEF HandleDatagram, delivery
<1>3. ASSUME NEW s \in Seqs, FinishDatagram(s) PROVE OnceInv'
  BY <1>3 DEF FinishDatagram, delivery
<1>4. ASSUME NEW s \in Seqs, ReceivePacket(s) PROVE OnceInv'
  <2>1. CASE DropReliable(s)
    BY <1>4, <2>1 DEF ReceivePacket, DropReliable, delivery
  <2>2. CASE AcceptUnreliable(s)
    <3>1. /\ lastReliableIndex' = lastReliableIndex
          /\ handled' = handled
          /\ phase[s] = "running"
          /\ Head(rest[s]) = Unreliable
      BY <1>4, <2>2 DEF ReceivePacket, AcceptUnreliable, delivery
    <3>2. CASE phase' = [phase EXCEPT ![s] = "awaiting"] /\ rest' = rest
      BY <3>1, <3>2
    <3>3. CASE phase' = phase /\ rest' = [rest EXCEPT ![s] = Tail(@)]
      BY <3>1, <3>3
    <3> QED
      BY <2>2, <3>2, <3>3 DEF AcceptUnreliable
  <2> QED
    BY <1>1, <1>4, <2>1, <2>2 DEF ReceivePacket
<1>5. ASSUME NEW s \in Seqs, Resume(s) PROVE OnceInv'
  BY <1>5 DEF Resume, IndexAfter
<1>6. ASSUME NEW u \in Updates, StartUpdate(u) \/ AckSent(u) \/ NackSent(u)
      PROVE  OnceInv'
  BY <1>6 DEF StartUpdate, AckSent, NackSent, delivery, handlers
<1>7. CASE UNCHANGED receiveVars
  BY <1>7 DEF receiveVars, delivery, handlers
<1> QED
  BY <1>2, <1>3, <1>4, <1>5, <1>6, <1>7 DEF ReceiveNext

\* What a message contains does not change on the way.
LEMMA ReplyingStep == [ReceiveNext]_receiveVars => replying' = replying
BY DEF ReceiveNext, HandleDatagram, FinishDatagram, ReceivePacket, Resume, StartUpdate,
       AckSent, NackSent, receiveVars

\* If no reliable message is answered while it is handled, each one is handled
\* exactly once and none is skipped.
THEOREM OnceCorrect == ReceiveSpec => []ExactlyOnceUnlessReplying
<1> DEFINE Once == replying \cap Nat = {} => OnceInv
<1>1. ReceiveInit => Once
  BY DEF ReceiveInit, OnceInv, ExactlyOnce
<1>2. ReceiveTypeInv /\ Once /\ [ReceiveNext]_receiveVars => Once'
  BY OnceStep, ReplyingStep
<1>3. Once => ExactlyOnceUnlessReplying
  BY DEF OnceInv, ExactlyOnceUnlessReplying
<1> QED
  BY <1>1, <1>2, <1>3, ReceiveTypeCorrect, PTL DEF ReceiveSpec

-----------------------------------------------------------------------------

\* No handler runs for a datagram that was not received.
QuietUntilReceived == \A s \in Seqs \ receivedSeqNumbers : phase[s] = "none"

CountInv == QuietUntilReceived /\ ExpectedIndexCounts

\* How the size of Uncounted follows a datagram that enters or leaves it.
LEMMA UncountedSize ==
    ASSUME ReceiveTypeInv
    PROVE  /\ Cardinality(Uncounted) \in Nat
           /\ \A s : s \notin Uncounted =>
                  Cardinality(Uncounted \cup {s}) = Cardinality(Uncounted) + 1
           /\ \A s \in Uncounted :
                  Cardinality(Uncounted \ {s}) = Cardinality(Uncounted) - 1
<1>1. IsFiniteSet(Uncounted)
  <2>1. IsFiniteSet(Seqs)
    BY FS_Interval, ReceiveAssumption DEF Seqs
  <2> QED
    BY <2>1, FS_Subset DEF Uncounted
<1> QED
  BY <1>1, FS_CardinalityType, FS_AddElement, FS_RemoveElement

\* A handler that suspends on a reliable message enters Uncounted as the
\* message enters handled, and leaves it as lastReliableIndex advances.
LEMMA CountStep == ReceiveTypeInv /\ CountInv /\ [ReceiveNext]_receiveVars => CountInv'
<1> SUFFICES ASSUME ReceiveTypeInv, CountInv, [ReceiveNext]_receiveVars PROVE CountInv'
  OBVIOUS
<1> USE DEF ReceiveTypeInv, ReceiveTypeOK, CountInv, QuietUntilReceived, ExpectedIndexCounts
<1>1. ASSUME NEW s \in Seqs, NEW payload \in Payloads, HandleDatagram(s, payload)
      PROVE  CountInv'
  <2>1. phase[s] = "none" /\ phase' = [phase EXCEPT ![s] = "running"]
    BY <1>1 DEF HandleDatagram
  <2>2. rest' = [rest EXCEPT ![s] = payload]
    BY <1>1 DEF HandleDatagram
  <2>3. Uncounted' = Uncounted
    BY <2>1, <2>2 DEF Uncounted
  <2> QED
    BY <1>1, <2>1, <2>3 DEF HandleDatagram, delivery
<1>2. ASSUME NEW s \in Seqs, FinishDatagram(s) PROVE CountInv'
  <2>1. Uncounted' = Uncounted
    BY <1>2 DEF FinishDatagram, Uncounted
  <2> QED
    BY <1>2, <2>1 DEF FinishDatagram, window, delivery
<1>3. ASSUME NEW s \in Seqs, ReceivePacket(s) PROVE CountInv'
  <2>1. QuietUntilReceived' /\ phase[s] = "running" /\ s \notin Uncounted
    BY <1>3 DEF ReceivePacket, AcceptReliable, DropReliable, AcceptUnreliable,
                window, Uncounted
  <2>2. CASE AcceptReliable(s)
    <3>1. /\ Head(rest[s]) = lastReliableIndex
          /\ Head(rest[s]) # Unreliable
          /\ Len(handled') = Len(handled) + 1
      BY <2>2 DEF AcceptReliable, InTurn, Unreliable
    <3>2. CASE phase' = [phase EXCEPT ![s] = "awaiting"] /\ UNCHANGED <<lastReliableIndex, rest>>
      <4>1. Uncounted' = Uncounted \cup {s}
        BY <3>1, <3>2 DEF Uncounted
      <4>2. Cardinality(Uncounted \cup {s}) = Cardinality(Uncounted) + 1
        BY <2>1, UncountedSize
      <4> QED
        BY <2>1, <3>1, <3>2, <4>1, <4>2, UncountedSize
    <3>3. CASE /\ lastReliableIndex' = IndexAfter(Head(rest[s]))
               /\ rest' = [rest EXCEPT ![s] = Tail(@)]
               /\ UNCHANGED phase
      <4>1. Uncounted' = Uncounted
        BY <2>1, <3>3 DEF Uncounted
      <4>2. lastReliableIndex' = lastReliableIndex + 1
        BY <3>1, <3>3 DEF IndexAfter
      <4> QED
        BY <2>1, <3>1, <4>1, <4>2, UncountedSize
    <3> QED
      BY <2>2, <3>2, <3>3 DEF AcceptReliable
  <2>3. CASE DropReliable(s)
    <3>1. Uncounted' = Uncounted
      BY <2>1, <2>3 DEF DropReliable, Uncounted
    <3> QED
      BY <2>1, <2>3, <3>1 DEF DropReliable, delivery
  <2>4. CASE AcceptUnreliable(s)
    <3>1. Uncounted' = Uncounted
      BY <2>1, <2>4 DEF AcceptUnreliable, Uncounted
    <3> QED
      BY <2>1, <2>4, <3>1 DEF AcceptUnreliable, delivery
  <2> QED
    BY <1>3, <2>2, <2>3, <2>4 DEF ReceivePacket
<1>4. ASSUME NEW s \in Seqs, Resume(s) PROVE CountInv'
  <2>1. /\ phase[s] = "awaiting"
        /\ phase' = [phase EXCEPT ![s] = "running"]
        /\ rest' = [rest EXCEPT ![s] = Tail(@)]
        /\ lastReliableIndex' = IndexAfter(Head(rest[s]))
        /\ UNCHANGED <<handled, receivedSeqNumbers>>
    BY <1>4 DEF Resume, window
  <2>2. QuietUntilReceived'
    BY <2>1
  <2>3. CASE Head(rest[s]) = Unreliable
    <3>1. Uncounted' = Uncounted
      BY <2>1, <2>3 DEF Uncounted
    <3> QED
      BY <2>1, <2>2, <2>3, <3>1 DEF IndexAfter
  <2>4. CASE Head(rest[s]) # Unreliable
    <3>1. Uncounted' = Uncounted \ {s} /\ s \in Uncounted
      BY <2>1, <2>4 DEF Uncounted
    <3>2. Cardinality(Uncounted') = Cardinality(Uncounted) - 1
      BY <3>1, UncountedSize
    <3>3. lastReliableIndex' = lastReliableIndex + 1
      BY <2>1, <2>4 DEF IndexAfter
    <3> QED
      BY <2>1, <2>2, <3>2, <3>3, UncountedSize
  <2> QED
    BY <2>3, <2>4
<1>5. ASSUME NEW u \in Updates, StartUpdate(u) \/ AckSent(u) \/ NackSent(u)
      PROVE  CountInv'
  BY <1>5 DEF StartUpdate, AckSent, NackSent, window, delivery, handlers, Uncounted
<1>6. CASE UNCHANGED receiveVars
  BY <1>6 DEF receiveVars, window, delivery, handlers, Uncounted
<1> QED
  BY <1>1, <1>2, <1>3, <1>4, <1>5, <1>6 DEF ReceiveNext

\* lastReliableIndex is the number of reliable messages handled, less those
\* whose handlers are still awaiting: suspended handlers are the only reason
\* for the index to lag behind.
THEOREM CountCorrect == ReceiveSpec => []ExpectedIndexCounts
<1>1. ReceiveInit => CountInv
  <2> SUFFICES ASSUME ReceiveInit PROVE CountInv
    OBVIOUS
  <2>1. Uncounted = {}
    BY DEF ReceiveInit, Uncounted
  <2> QED
    BY <2>1, FS_EmptySet DEF ReceiveInit, CountInv, QuietUntilReceived, ExpectedIndexCounts
<1>2. CountInv => ExpectedIndexCounts
  BY DEF CountInv
<1> QED
  BY <1>1, <1>2, ReceiveTypeCorrect, CountStep, PTL DEF ReceiveSpec

-----------------------------------------------------------------------------

\* An update that waits for the socket sends, or has recorded, all the queue
\* holds now: clearing it afterwards loses nothing else.
SnapshotInv ==
    /\ \A u \in Updates : updates[u] = "sendingAck" => ackQueue \subseteq acknowledged
    /\ \A u \in Updates : updates[u] = "sendingNack" => nackQueue \subseteq nacked
    /\ ForgottenOnlyWhileSending

\* A queue grows with its record while an update waits, and is cleared only by
\* an update that waited.
LEMMA SnapshotStep == ReceiveTypeInv /\ SnapshotInv /\ [ReceiveNext]_receiveVars => SnapshotInv'
<1> SUFFICES ASSUME ReceiveTypeInv, SnapshotInv, [ReceiveNext]_receiveVars PROVE SnapshotInv'
  OBVIOUS
<1> USE DEF ReceiveTypeInv, ReceiveTypeOK, SnapshotInv, ForgottenOnlyWhileSending
<1>1. ASSUME NEW s \in Seqs, NEW payload \in Payloads, HandleDatagram(s, payload)
      PROVE  SnapshotInv'
  BY <1>1 DEF HandleDatagram, NackQueueAfter, Sending
<1>2. ASSUME NEW s \in Seqs, FinishDatagram(s) \/ ReceivePacket(s) \/ Resume(s)
      PROVE  SnapshotInv'
  BY <1>2 DEF FinishDatagram, ReceivePacket, Resume, window
<1>3. ASSUME NEW u \in Updates, StartUpdate(u) PROVE SnapshotInv'
  BY <1>3 DEF StartUpdate, SendNack, window
<1>4. ASSUME NEW u \in Updates, AckSent(u) PROVE SnapshotInv'
  BY <1>4 DEF AckSent, SendNack, window
<1>5. ASSUME NEW u \in Updates, NackSent(u) PROVE SnapshotInv'
  BY <1>5 DEF NackSent, window
<1>6. CASE UNCHANGED receiveVars
  BY <1>6 DEF receiveVars, window
<1> QED
  BY <1>1, <1>2, <1>3, <1>4, <1>5, <1>6 DEF ReceiveNext

\* What update forgets when it clears a queue after its await came while it
\* was waiting: however many updates overlap, nothing else stays without an
\* acknowledgement or a request.
THEOREM ForgetfulnessBounded == ReceiveSpec => []ForgottenOnlyWhileSending
<1>1. ReceiveInit => SnapshotInv
  BY DEF ReceiveInit, SnapshotInv, ForgottenOnlyWhileSending
<1>2. SnapshotInv => ForgottenOnlyWhileSending
  BY DEF SnapshotInv
<1> QED
  BY <1>1, <1>2, ReceiveTypeCorrect, SnapshotStep, PTL DEF ReceiveSpec

-----------------------------------------------------------------------------
(* The sending half.                                                       *)

\* Encoding a datagram under the next number: the number is its own, and the
\* first writing stays when there was one.
LEMMA EncodeNumbered ==
    ASSUME SendTypeOK, NEW d \in Datagram
    PROVE  LET e == Encode(Number(d))
           IN  /\ e.seq = sendSequenceNumber
               /\ e.msgs = d.msgs
               /\ e.first = IF d.first.seq = NoSeq
                            THEN [seq |-> sendSequenceNumber, msgs |-> d.msgs] ELSE d.first
               /\ DOMAIN e = {"seq", "msgs", "first"}
               /\ e = [seq |-> e.seq, msgs |-> e.msgs, first |-> e.first]
BY DEF SendTypeOK, Encode, Number, Datagram, Writing, NoSeq, Numbers

\* Numbers are given in order and datagrams are never discarded: what was well
\* typed stays so.
LEMMA Monotone ==
    ASSUME sendSequenceNumber \in Nat, sendSequenceNumber' \in Nat,
           sendSequenceNumber <= sendSequenceNumber',
           DOMAIN datagrams \subseteq DOMAIN datagrams', queued \subseteq queued'
    PROVE  /\ Numbers \subseteq Numbers'
           /\ Writing \subseteq Writing'
           /\ Datagram \subseteq Datagram'
           /\ Call \subseteq Call'
<1>1. Numbers \subseteq Numbers'
  <2>1. Numbers = {i \in Int : NoSeq <= i /\ i <= sendSequenceNumber - 1}
    BY DEF Numbers, NoSeq
  <2>2. Numbers' = {i \in Int : NoSeq <= i /\ i <= sendSequenceNumber' - 1}
    BY DEF Numbers, NoSeq
  <2> QED
    BY <2>1, <2>2
<1>2. Writing \subseteq Writing'
  BY <1>1 DEF Writing
<1>3. Datagram \subseteq Datagram'
  BY <1>1, <1>2 DEF Datagram
<1>4. Call \subseteq Call'
  BY <1>1 DEF Call
<1> QED
  BY <1>1, <1>2, <1>3, <1>4

\* A datagram that is sent gets the next number, which is a new one.
LEMMA NumberedType ==
    ASSUME SendTypeOK, NEW q \in DOMAIN datagrams,
           datagrams' = [datagrams EXCEPT ![q] = Encode(Number(@))],
           sendSequenceNumber' = sendSequenceNumber + 1,
           queued \subseteq queued'
    PROVE  /\ datagrams' \in Seq(Datagram)'
           /\ DOMAIN datagrams' = DOMAIN datagrams
           /\ datagrams'[q].first \in Writing'
           /\ Numbers \subseteq Numbers'
           /\ Writing \subseteq Writing'
           /\ Call \subseteq Call'
<1>1. DOMAIN datagrams' = DOMAIN datagrams /\ Len(datagrams') = Len(datagrams)
  BY DEF SendTypeOK
<1>2. /\ Numbers \subseteq Numbers' /\ sendSequenceNumber \in Numbers'
      /\ Writing \subseteq Writing'
      /\ Datagram \subseteq Datagram'
      /\ Call \subseteq Call'
  BY <1>1, Monotone DEF SendTypeOK, Numbers, NoSeq
<1>3. datagrams[q] \in Datagram
  BY DEF SendTypeOK
<1>4. Encode(Number(datagrams[q])) \in Datagram' /\ Encode(Number(datagrams[q])).first \in Writing'
  <2> DEFINE e == Encode(Number(datagrams[q]))
  <2>1. /\ e = [seq |-> e.seq, msgs |-> e.msgs, first |-> e.first]
        /\ e.seq = sendSequenceNumber
        /\ e.msgs = datagrams[q].msgs
        /\ e.first = IF datagrams[q].first.seq = NoSeq
                     THEN [seq |-> sendSequenceNumber, msgs |-> datagrams[q].msgs]
                     ELSE datagrams[q].first
    BY <1>3, EncodeNumbered
  <2>2. datagrams[q].msgs \in Seq(Messages) /\ datagrams[q].first \in Writing
    BY <1>3 DEF Datagram
  <2>3. e.first \in Writing'
    BY <1>2, <2>1, <2>2 DEF Writing
  <2> HIDE DEF e
  <2>4. e \in Datagram'
    BY <1>2, <2>1, <2>2, <2>3 DEF Datagram
  <2> QED
    BY <2>3, <2>4 DEF e
<1>5. datagrams' \in Seq(Datagram)'
  <2>1. datagrams \in Seq(Datagram')
    BY <1>2 DEF SendTypeOK
  <2> QED
    BY <2>1, <1>4
<1> QED
  BY <1>1, <1>2, <1>4, <1>5

\* A fresh datagram, with or without its first message.
LEMMA FreshType ==
    ASSUME SendTypeOK
    PROVE  /\ NewDatagram \in Datagram
           /\ \A m \in Messages :
                  [NewDatagram EXCEPT !.msgs = <<m>>] \in Datagram
<1>1. NoSeq \in Numbers
  BY DEF SendTypeOK, Numbers, NoSeq
<1>2. <<>> \in Seq(Messages) /\ \A m \in Messages : <<m>> \in Seq(Messages)
  OBVIOUS
<1>3. Unwritten \in Writing
  BY <1>1, <1>2 DEF Unwritten, Writing
<1>4. NewDatagram \in Datagram
  BY <1>1, <1>2, <1>3 DEF NewDatagram, Datagram
<1>5. \A m \in Messages : [NewDatagram EXCEPT !.msgs = <<m>>] \in Datagram
  BY <1>1, <1>2, <1>3 DEF NewDatagram, Datagram
<1> QED
  BY <1>4, <1>5

-----------------------------------------------------------------------------

\* A flush starts: the queue is numbered and goes out.
LEMMA StartFlushType ==
    ASSUME SendTypeOK, NEW c \in Calls, NEW m \in queued' \cup {NoMessage}, StartFlush(c, m),
           queued \subseteq queued'
    PROVE  /\ datagrams' \in Seq(Datagram)'
           /\ sendSequenceNumber' \in Nat
           /\ DOMAIN datagrams' = DOMAIN datagrams
           /\ Numbers \subseteq Numbers'
           /\ wire' \subseteq Writing'
           /\ calls' \in [Calls -> Call']
<1>1. /\ datagrams' = [datagrams EXCEPT ![sendQueue] = Encode(Number(@))]
      /\ sendSequenceNumber' = sendSequenceNumber + 1
      /\ sendQueue \in DOMAIN datagrams
  BY DEF StartFlush, SendTypeOK
<1>2. /\ datagrams' \in Seq(Datagram)'
      /\ DOMAIN datagrams' = DOMAIN datagrams
      /\ datagrams'[sendQueue].first \in Writing'
      /\ Numbers \subseteq Numbers' /\ Writing \subseteq Writing' /\ Call \subseteq Call'
  BY <1>1, NumberedType
<1>3. wire' \subseteq Writing'
  BY <1>2 DEF StartFlush, SendTypeOK
<1>4. [op |-> "flush", then |-> m] \in Call'
  BY DEF Call
<1>5. calls' \in [Calls -> Call']
  BY <1>2, <1>4 DEF StartFlush, SendTypeOK
<1> QED
  BY <1>1, <1>2, <1>3, <1>5 DEF SendTypeOK

\* The end of update keeps the types of what it touches.
LEMMA FinishUpdateType ==
    ASSUME SendTypeOK, NEW c \in Calls, NEW old \in SUBSET DOMAIN recoveryQueue,
           NEW toSend \in SUBSET DOMAIN datagrams, FinishUpdate(c, old, toSend)
    PROVE  SendTypeOK'
<1>1. \A k \in old : recoveryQueue[k] \in DOMAIN datagrams
  BY DEF SendTypeOK
<1>2. packetToSend' \subseteq DOMAIN datagrams
  BY <1>1 DEF FinishUpdate
<1>3. /\ recoveryQueue' = Without(old)
      /\ DOMAIN recoveryQueue' \subseteq DOMAIN recoveryQueue
      /\ recoveryQueue' \in [DOMAIN recoveryQueue' -> DOMAIN datagrams]
  BY DEF FinishUpdate, Without, SendTypeOK
<1>4. CASE StartFlush(c, NoMessage)
  <2>1. NoMessage \in queued' \cup {NoMessage} /\ queued' = queued
    BY DEF FinishUpdate
  <2>2. /\ datagrams' \in Seq(Datagram)' /\ sendSequenceNumber' \in Nat
        /\ DOMAIN datagrams' = DOMAIN datagrams /\ Numbers \subseteq Numbers'
        /\ wire' \subseteq Writing' /\ calls' \in [Calls -> Call']
    BY <1>4, <2>1, StartFlushType
  <2> QED
    BY <1>2, <1>3, <2>2 DEF FinishUpdate, SendTypeOK
<1>5. CASE calls' = [calls EXCEPT ![c] = Idle] /\ UNCHANGED <<datagrams, sendSequenceNumber, wire>>
  <2>1. Idle \in Call
    BY DEF Idle, Call
  <2>2. calls' \in [Calls -> Call] /\ Call' = Call
    BY <1>5, <2>1 DEF SendTypeOK, Call, Numbers, FinishUpdate
  <2>3. Datagram' = Datagram /\ Writing' = Writing /\ Numbers' = Numbers
    BY <1>5 DEF Datagram, Writing, Numbers
  <2> QED
    BY <1>2, <1>3, <1>5, <2>2, <2>3 DEF FinishUpdate, SendTypeOK
<1> QED
  BY <1>4, <1>5 DEF FinishUpdate

\* A datagram and what was written of it.
LEMMA DatagramFields ==
    ASSUME SendTypeOK, NEW d \in DOMAIN datagrams
    PROVE  /\ datagrams[d] \in Datagram
           /\ datagrams[d].seq \in Numbers
           /\ datagrams[d].msgs \in Seq(Messages)
           /\ datagrams[d].first \in Writing
           /\ datagrams[d].first.seq \in Numbers
<1>1. datagrams[d] \in Datagram
  BY DEF SendTypeOK
<1>2. datagrams[d].first \in Writing
  BY <1>1 DEF Datagram
<1>3. datagrams[d].first.seq \in Numbers
  BY <1>2 DEF Writing
<1> QED
  BY <1>1, <1>2, <1>3 DEF Datagram

\* What a call that waits knows of what it waits for.
LEMMA CallFields ==
    ASSUME SendTypeOK, NEW c \in Calls
    PROVE  /\ calls[c].op = "immediate" => calls[c].sent \in DOMAIN datagrams
           /\ calls[c].op = "flush" => calls[c].then \in queued \cup {NoMessage}
BY DEF SendTypeOK, Call

\* Entries set and deleted.
LEMMA RecoveryType ==
    ASSUME SendTypeOK
    PROVE  /\ \A k \in Numbers, d \in DOMAIN datagrams :
                  /\ DOMAIN Put(k, d) \subseteq Numbers
                  /\ Put(k, d) \in [DOMAIN Put(k, d) -> DOMAIN datagrams]
           /\ \A K : /\ DOMAIN Without(K) \subseteq Numbers
                     /\ Without(K) \in [DOMAIN Without(K) -> DOMAIN datagrams]
BY DEF SendTypeOK, Put, Without

\* An entry that was set, and those that were there before.
LEMMA PutEntries ==
    ASSUME NEW k, NEW d
    PROVE  \A i \in DOMAIN Put(k, d) :
               \/ i = k /\ Put(k, d)[i] = d
               \/ i # k /\ i \in DOMAIN recoveryQueue /\ Put(k, d)[i] = recoveryQueue[i]
BY DEF Put

\* A call that is done is idle again.
LEMMA IdleType ==
    ASSUME SendTypeOK, NEW c \in Calls
    PROVE  [calls EXCEPT ![c] = Idle] \in [Calls -> Call]
BY DEF SendTypeOK, Call, Idle

\* Nothing is typed differently while numbers and datagrams stay.
LEMMA SameTypes ==
    ASSUME UNCHANGED <<sendSequenceNumber, queued>>, DOMAIN datagrams' = DOMAIN datagrams
    PROVE  /\ Numbers' = Numbers /\ Writing' = Writing
           /\ Datagram' = Datagram /\ Call' = Call
BY DEF Numbers, Writing, Datagram, Call

\* Every step keeps the types: a number in use was given, and whatever names a
\* datagram names one that exists.
LEMMA SendTypeStep == SendTypeOK /\ [SendNext]_sendVars => SendTypeOK'
<1> SUFFICES ASSUME SendTypeOK, [SendNext]_sendVars PROVE SendTypeOK'
  OBVIOUS
<1>1. ASSUME NEW m \in Messages, QueueNormal(m) PROVE SendTypeOK'
  <2>1. datagrams' \in Seq(Datagram) /\ DOMAIN datagrams' = DOMAIN datagrams
    <3>1. datagrams[sendQueue] \in Datagram
      BY DEF SendTypeOK
    <3>2. [datagrams[sendQueue] EXCEPT !.msgs = Append(@, m)] \in Datagram
      BY <3>1 DEF Datagram
    <3> QED
      BY <1>1, <3>2 DEF QueueNormal, PushTo, SendTypeOK
  <2>2. /\ Numbers' = Numbers /\ Writing' = Writing /\ Datagram' = Datagram
        /\ Call \subseteq Call'
    BY <1>1, <2>1 DEF QueueNormal, Numbers, Writing, Datagram, Call
  <2> QED
    BY <1>1, <2>1, <2>2 DEF QueueNormal, SendTypeOK
<1>2. ASSUME NEW m \in Messages, NEW c \in Calls, QueueImmediate(m, c) PROVE SendTypeOK'
  <2> DEFINE new == [NewDatagram EXCEPT !.msgs = <<m>>]
             d == Encode(Number(new))
  <2>1. /\ datagrams' = Append(datagrams, d)
        /\ sendSequenceNumber' = sendSequenceNumber + 1
        /\ wire' = wire \cup {d.first}
        /\ calls' = [calls EXCEPT ![c] = [op |-> "immediate", sent |-> Len(datagrams) + 1]]
    BY <1>2 DEF QueueImmediate
  <2>2. /\ d = [seq |-> d.seq, msgs |-> d.msgs, first |-> d.first]
        /\ d.seq = sendSequenceNumber /\ d.msgs = <<m>>
        /\ d.first = [seq |-> sendSequenceNumber, msgs |-> <<m>>]
    <3>1. new \in Datagram /\ new.msgs = <<m>> /\ new.first.seq = NoSeq
      BY FreshType DEF NewDatagram, Unwritten
    <3> HIDE DEF new
    <3> QED
      BY <3>1, EncodeNumbered
  <2> HIDE DEF d
  <2>3. DOMAIN datagrams \subseteq DOMAIN datagrams' /\ Len(datagrams) + 1 \in DOMAIN datagrams'
    BY <2>1 DEF SendTypeOK
  <2>4. /\ Numbers \subseteq Numbers' /\ sendSequenceNumber \in Numbers'
        /\ Writing \subseteq Writing' /\ Datagram \subseteq Datagram' /\ Call \subseteq Call'
    BY <1>2, <2>1, <2>3, Monotone DEF QueueImmediate, SendTypeOK, Numbers, NoSeq
  <2>5. d.first \in Writing' /\ d \in Datagram'
    <3>1. <<m>> \in Seq(Messages')
      OBVIOUS
    <3>2. d.first \in Writing'
      BY <2>2, <2>4, <3>1 DEF Writing
    <3> QED
      BY <2>2, <2>4, <3>1, <3>2 DEF Datagram
  <2>6. datagrams' \in Seq(Datagram')
    <3>1. datagrams \in Seq(Datagram')
      BY <2>4 DEF SendTypeOK
    <3> QED
      BY <2>1, <2>5, <3>1
  <2>7. [op |-> "immediate", sent |-> Len(datagrams) + 1] \in Call'
    BY <2>3 DEF Call
  <2>8. calls' \in [Calls -> Call']
    BY <2>1, <2>4, <2>7 DEF SendTypeOK
  <2> QED
    <3>1. wire' \subseteq Writing' /\ acked' \subseteq Numbers' /\ sendSequenceNumber' \in Nat
      BY <1>2, <2>1, <2>4, <2>5 DEF QueueImmediate, SendTypeOK
    <3>2. /\ sendQueue' \in DOMAIN datagrams' /\ packetToSend' \subseteq DOMAIN datagrams'
          /\ DOMAIN recoveryQueue' \subseteq Numbers'
          /\ recoveryQueue' \in [DOMAIN recoveryQueue' -> DOMAIN datagrams']
      BY <1>2, <2>3, <2>4 DEF QueueImmediate, SendTypeOK
    <3>3. quiet' \subseteq queued' /\ queued' \subseteq Messages
      BY <1>2 DEF QueueImmediate, SendTypeOK
    <3> QED
      BY <2>6, <2>8, <3>1, <3>2, <3>3 DEF SendTypeOK
<1>3. ASSUME NEW m \in Messages, NEW c \in Calls, QueueOverflowing(m, c) PROVE SendTypeOK'
  <2>1. StartFlush(c, m) /\ m \in queued' /\ queued \subseteq queued'
    BY <1>3 DEF QueueOverflowing
  <2>2. /\ datagrams' \in Seq(Datagram)' /\ sendSequenceNumber' \in Nat
        /\ DOMAIN datagrams' = DOMAIN datagrams /\ Numbers \subseteq Numbers'
        /\ wire' \subseteq Writing' /\ calls' \in [Calls -> Call']
    BY <2>1, StartFlushType
  <2> QED
    BY <1>3, <2>2 DEF QueueOverflowing, SendTypeOK
<1>4. ASSUME NEW c \in Calls, ImmediateSent(c) PROVE SendTypeOK'
  <2>1. calls[c].sent \in DOMAIN datagrams /\ datagrams[calls[c].sent].seq \in Numbers
    BY <1>4, CallFields, DatagramFields DEF ImmediateSent
  <2>2. /\ DOMAIN recoveryQueue' \subseteq Numbers
        /\ recoveryQueue' \in [DOMAIN recoveryQueue' -> DOMAIN datagrams]
    BY <1>4, <2>1, RecoveryType DEF ImmediateSent
  <2>3. calls' \in [Calls -> Call]
    BY <1>4, IdleType DEF ImmediateSent
  <2> QED
    BY <1>4, <2>2, <2>3, SameTypes DEF ImmediateSent, SendTypeOK
<1>5. ASSUME NEW c \in Calls, FlushSent(c) PROVE SendTypeOK'
  <2>1. PICK d \in Datagram : datagrams' = Append(datagrams, d)
    <3>1. CASE datagrams' = Append(datagrams, NewDatagram)
      BY <3>1, FreshType
    <3>2. CASE datagrams' = PushAfterFlush(calls[c].then) /\ calls[c].then # NoMessage
      BY <1>5, <3>2, CallFields, FreshType DEF FlushSent, PushAfterFlush, SendTypeOK
    <3> QED
      BY <1>5, <3>1, <3>2 DEF FlushSent
  <2>2. /\ datagrams' \in Seq(Datagram) /\ DOMAIN datagrams \subseteq DOMAIN datagrams'
        /\ Len(datagrams) + 1 \in DOMAIN datagrams'
    BY <2>1 DEF SendTypeOK
  <2>3. /\ sendSequenceNumber' = sendSequenceNumber
        /\ Numbers' = Numbers /\ Writing' = Writing /\ Datagram' = Datagram
        /\ Call \subseteq Call'
    BY <1>5, <2>2 DEF FlushSent, Numbers, Writing, Datagram, Call
  <2>4. datagrams[sendQueue].seq \in Numbers /\ sendQueue \in DOMAIN datagrams
    BY DatagramFields DEF SendTypeOK
  <2>5. /\ DOMAIN recoveryQueue' \subseteq Numbers
        /\ recoveryQueue' \in [DOMAIN recoveryQueue' -> DOMAIN datagrams]
    BY <1>5, <2>4, RecoveryType DEF FlushSent
  <2>6. calls' \in [Calls -> Call']
    <3>1. calls' = [calls EXCEPT ![c] = Idle]
      BY <1>5 DEF FlushSent
    <3> QED
      BY <2>3, <3>1, IdleType
  <2>7. quiet' \subseteq queued'
    BY <1>5, CallFields DEF FlushSent, SendTypeOK
  <2> QED
    <3>1. /\ sendQueue' \in DOMAIN datagrams' /\ packetToSend' \subseteq DOMAIN datagrams'
          /\ DOMAIN recoveryQueue' \subseteq Numbers'
          /\ recoveryQueue' \in [DOMAIN recoveryQueue' -> DOMAIN datagrams']
      BY <1>5, <2>2, <2>3, <2>5 DEF FlushSent, QueueAfterFlush, SendTypeOK
    <3>2. /\ wire' \subseteq Writing' /\ acked' \subseteq Numbers' /\ queued' \subseteq Messages
          /\ sendSequenceNumber' \in Nat
      BY <1>5, <2>3 DEF FlushSent, SendTypeOK
    <3> QED
      BY <2>2, <2>3, <2>6, <2>7, <3>1, <3>2 DEF SendTypeOK
<1>6. ASSUME NEW c \in Calls, NackResent(c) PROVE SendTypeOK'
  <2>1. /\ DOMAIN recoveryQueue' \subseteq Numbers
        /\ recoveryQueue' \in [DOMAIN recoveryQueue' -> DOMAIN datagrams]
    BY <1>6, RecoveryType DEF NackResent
  <2>2. calls' \in [Calls -> Call]
    BY <1>6, IdleType DEF NackResent
  <2> QED
    BY <1>6, <2>1, <2>2, SameTypes DEF NackResent, SendTypeOK
<1>7. ASSUME NEW c \in Calls, UpdateResends(c) PROVE SendTypeOK'
  <2>1. /\ Len(datagrams) \in Nat
        /\ DOMAIN datagrams = 1 .. Len(datagrams)
        /\ datagrams' = [d \in 1 .. Len(datagrams) |->
               IF d \in packetToSend THEN Encode(datagrams[d]) ELSE datagrams[d]]
    BY <1>7 DEF UpdateResends, SendTypeOK
  <2>2. \A d \in DOMAIN datagrams : Encode(datagrams[d]) \in Datagram
    BY DatagramFields DEF Encode, Datagram, Writing
  <2>3. \A d \in DOMAIN datagrams : datagrams'[d] \in Datagram
    BY <2>1, <2>2, DatagramFields
  <2>4. datagrams' \in Seq(Datagram) /\ DOMAIN datagrams' = DOMAIN datagrams
    BY <2>1, <2>3
  <2>5. Numbers' = Numbers /\ Writing' = Writing /\ Datagram' = Datagram /\ Call' = Call
    BY <1>7, <2>4, SameTypes DEF UpdateResends
  <2>6. wire' \subseteq Writing
    <3>1. \A d \in packetToSend : datagrams'[d].first \in Writing
      BY <2>3 DEF Datagram, SendTypeOK
    <3> QED
      BY <1>7, <3>1 DEF UpdateResends, SendTypeOK
  <2>7. /\ DOMAIN recoveryQueue' \subseteq Numbers
        /\ recoveryQueue' \in [DOMAIN recoveryQueue' -> DOMAIN datagrams]
    <3> DEFINE seqs == {datagrams[d].seq : d \in packetToSend}
               sent(k) == CHOOSE d \in packetToSend : datagrams[d].seq = k
    <3>1. seqs \subseteq Numbers
      BY DatagramFields DEF SendTypeOK
    <3>2. \A k \in seqs : sent(k) \in DOMAIN datagrams
      BY DEF SendTypeOK
    <3>3. recoveryQueue' = [k \in DOMAIN recoveryQueue \cup seqs |->
                                IF k \in seqs THEN sent(k) ELSE recoveryQueue[k]]
      BY <1>7 DEF UpdateResends
    <3> HIDE DEF seqs, sent
    <3> QED
      BY <3>1, <3>2, <3>3 DEF SendTypeOK
  <2>8. calls' \in [Calls -> Call]
    BY <1>7 DEF UpdateResends, SendTypeOK, Call
  <2> QED
    BY <1>7, <2>4, <2>5, <2>6, <2>7, <2>8 DEF UpdateResends, SendTypeOK
<1>8. ASSUME NEW k \in DOMAIN recoveryQueue, NEW c \in Calls, HandleNack(k, c) PROVE SendTypeOK'
  <2>1. /\ recoveryQueue[k] \in DOMAIN datagrams /\ k \in Numbers
        /\ datagrams' = [datagrams EXCEPT ![recoveryQueue[k]] = Encode(Number(@))]
        /\ sendSequenceNumber' = sendSequenceNumber + 1
        /\ queued' = queued
    BY <1>8 DEF HandleNack, SendTypeOK
  <2>2. /\ datagrams' \in Seq(Datagram)'
        /\ DOMAIN datagrams' = DOMAIN datagrams
        /\ datagrams'[recoveryQueue[k]].first \in Writing'
        /\ Numbers \subseteq Numbers' /\ Writing \subseteq Writing' /\ Call \subseteq Call'
    BY <2>1, NumberedType
  <2>3. calls' \in [Calls -> Call']
    <3>1. [op |-> "nack", key |-> k] \in Call'
      BY <2>1, <2>2 DEF Call
    <3> QED
      BY <1>8, <2>2, <3>1 DEF HandleNack, SendTypeOK
  <2> QED
    BY <1>8, <2>1, <2>2, <2>3 DEF HandleNack, SendTypeOK
<1>9. ASSUME NEW k \in {w.seq : w \in wire}, HandleAck(k) PROVE SendTypeOK'
  <2>1. /\ DOMAIN recoveryQueue' \subseteq Numbers
        /\ recoveryQueue' \in [DOMAIN recoveryQueue' -> DOMAIN datagrams]
    BY <1>9, RecoveryType DEF HandleAck
  <2>2. k \in Numbers
    BY DEF SendTypeOK, Writing
  <2> QED
    BY <1>9, <2>1, <2>2, SameTypes DEF HandleAck, SendTypeOK
<1>10. ASSUME NEW c \in Calls, NEW old \in SUBSET DOMAIN recoveryQueue, Update(c, old)
       PROVE  SendTypeOK'
  BY <1>10, FinishUpdateType DEF Update
<1>11. ASSUME NEW c \in Calls, NEW old \in SUBSET DOMAIN recoveryQueue, ResendSent(c, old)
       PROVE  SendTypeOK'
  <2>1. PICK toSend \in {{}, packetToSend} : FinishUpdate(c, old, toSend)
    BY <1>11 DEF ResendSent
  <2>2. toSend \in SUBSET DOMAIN datagrams
    BY DEF SendTypeOK
  <2> QED
    BY <2>1, <2>2, FinishUpdateType
<1>12. CASE UNCHANGED sendVars
  BY <1>12, SameTypes DEF sendVars, SendTypeOK
<1> QED
  BY <1>1, <1>2, <1>3, <1>4, <1>5, <1>6, <1>7, <1>8, <1>9, <1>10, <1>11, <1>12 DEF SendNext

\* The sending half keeps its types: whatever is called while other calls wait
\* for the socket, no queue and no call names a datagram that does not exist,
\* or a number that was not given.
THEOREM SendTypeCorrect == SendSpec => []SendTypeOK
<1>1. SendInit => SendTypeOK
  BY DEF SendInit, SendTypeOK, Call, Idle, Datagram, Writing, NewDatagram, Unwritten, Numbers, NoSeq
<1> QED
  BY <1>1, SendTypeStep, PTL DEF SendSpec

-----------------------------------------------------------------------------

\* A number is written once at most, in the first writing of one datagram, and
\* a datagram with a number was written.
WireInv ==
    /\ \A d \in DOMAIN datagrams : datagrams[d].first.seq = NoSeq => datagrams[d].seq = NoSeq
    /\ \A d, e \in DOMAIN datagrams :
          datagrams[d].first.seq # NoSeq /\ datagrams[d].first.seq = datagrams[e].first.seq => d = e
    /\ \A w \in wire : w.seq # NoSeq => \E d \in DOMAIN datagrams : datagrams[d].first = w

\* What happens to a datagram that is numbered and sent.
LEMMA NumberedEffect ==
    ASSUME SendTypeOK, NEW q \in DOMAIN datagrams,
           datagrams' = [datagrams EXCEPT ![q] = Encode(Number(@))]
    PROVE  /\ DOMAIN datagrams' = DOMAIN datagrams
           /\ \A d \in DOMAIN datagrams : d # q => datagrams'[d] = datagrams[d]
           /\ datagrams'[q].seq = sendSequenceNumber
           /\ datagrams'[q].msgs = datagrams[q].msgs
           /\ datagrams'[q].first =
                  IF datagrams[q].first.seq = NoSeq
                  THEN [seq |-> sendSequenceNumber, msgs |-> datagrams[q].msgs]
                  ELSE datagrams[q].first
<1>1. datagrams[q] \in Datagram
  BY DatagramFields
<1>2. datagrams'[q] = Encode(Number(datagrams[q]))
  BY DEF SendTypeOK
<1> QED
  BY <1>1, <1>2, EncodeNumbered DEF SendTypeOK

\* A step keeps WireInv when it writes one datagram at most under the next
\* number, and puts only first writings on the wire.
LEMMA WireKept ==
    ASSUME SendTypeOK, WireInv, DOMAIN datagrams \subseteq DOMAIN datagrams',
           NEW fresh \in DOMAIN datagrams',
           \A d \in DOMAIN datagrams :
               datagrams[d].first.seq # NoSeq => datagrams'[d].first = datagrams[d].first,
           \A d \in DOMAIN datagrams' :
               \/ datagrams'[d].first.seq = NoSeq /\ datagrams'[d].seq = NoSeq
               \/ d \in DOMAIN datagrams /\ datagrams'[d].first = datagrams[d].first
                  /\ (datagrams'[d].first.seq = NoSeq => datagrams'[d].seq = NoSeq)
               \/ d = fresh /\ datagrams'[d].first.seq = sendSequenceNumber,
           wire' \subseteq wire \cup {datagrams'[d].first : d \in DOMAIN datagrams'}
    PROVE  WireInv'
<1>1. sendSequenceNumber # NoSeq /\ sendSequenceNumber \notin Numbers
  BY DEF SendTypeOK, Numbers, NoSeq
<1>2. \A d \in DOMAIN datagrams : datagrams[d].first.seq # sendSequenceNumber
  BY <1>1, DatagramFields
<1>3. \A d \in DOMAIN datagrams' : datagrams'[d].first.seq = NoSeq => datagrams'[d].seq = NoSeq
  BY <1>1
<1>4. ASSUME NEW d \in DOMAIN datagrams', NEW e \in DOMAIN datagrams',
             datagrams'[d].first.seq # NoSeq,
             datagrams'[d].first.seq = datagrams'[e].first.seq
      PROVE  d = e
  BY <1>2, <1>4 DEF WireInv
<1>5. ASSUME NEW w \in wire', w.seq # NoSeq
      PROVE  \E d \in DOMAIN datagrams' : datagrams'[d].first = w
  <2>1. CASE w \in wire
    <3>1. PICK d \in DOMAIN datagrams : datagrams[d].first = w
      BY <1>5, <2>1 DEF WireInv
    <3>2. d \in DOMAIN datagrams' /\ datagrams'[d].first = w
      BY <1>5, <3>1
    <3> QED
      BY <3>2
  <2> QED
    BY <1>5, <2>1
<1> QED
  BY <1>3, <1>4, <1>5 DEF WireInv

\* A datagram that is numbered and sent is written under the new number, or was
\* written before.
LEMMA WireNumbered ==
    ASSUME SendTypeOK, WireInv, NEW q \in DOMAIN datagrams,
           datagrams' = [datagrams EXCEPT ![q] = Encode(Number(@))],
           wire' = wire \cup {datagrams'[q].first}
    PROVE  WireInv'
<1>1. /\ DOMAIN datagrams' = DOMAIN datagrams
      /\ \A d \in DOMAIN datagrams : d # q => datagrams'[d] = datagrams[d]
      /\ datagrams'[q].first = IF datagrams[q].first.seq = NoSeq
                              THEN [seq |-> sendSequenceNumber, msgs |-> datagrams[q].msgs]
                              ELSE datagrams[q].first
  BY NumberedEffect
<1>2. datagrams'[q].first.seq = sendSequenceNumber \/ datagrams'[q].first = datagrams[q].first
  BY <1>1
<1>3. datagrams'[q].first.seq # NoSeq
  BY <1>1 DEF SendTypeOK, NoSeq
<1> QED
  BY <1>1, <1>2, <1>3, WireKept DEF WireInv

\* A new datagram is unwritten, or written under the next number.
LEMMA WireAppended ==
    ASSUME SendTypeOK, WireInv, NEW d, datagrams' = Append(datagrams, d),
           \/ d.first.seq = NoSeq /\ d.seq = NoSeq /\ wire' = wire
           \/ d.first.seq = sendSequenceNumber /\ wire' = wire \cup {d.first}
    PROVE  WireInv'
<1>1. /\ DOMAIN datagrams = 1 .. Len(datagrams) /\ Len(datagrams) \in Nat
      /\ DOMAIN datagrams' = 1 .. Len(datagrams) + 1
      /\ \A e \in DOMAIN datagrams : datagrams'[e] = datagrams[e]
      /\ datagrams'[Len(datagrams) + 1] = d
  BY DEF SendTypeOK
<1> DEFINE fresh == Len(datagrams) + 1
<1>2. fresh \in DOMAIN datagrams' /\ DOMAIN datagrams \subseteq DOMAIN datagrams'
  BY <1>1
<1>3. \A e \in DOMAIN datagrams' :
          \/ datagrams'[e].first.seq = NoSeq /\ datagrams'[e].seq = NoSeq
          \/ e \in DOMAIN datagrams /\ datagrams'[e].first = datagrams[e].first
             /\ (datagrams'[e].first.seq = NoSeq => datagrams'[e].seq = NoSeq)
          \/ e = fresh /\ datagrams'[e].first.seq = sendSequenceNumber
  BY <1>1 DEF WireInv
<1>4. wire' \subseteq wire \cup {datagrams'[e].first : e \in DOMAIN datagrams'}
  BY <1>1, <1>2
<1> QED
  BY <1>1, <1>2, <1>3, <1>4, WireKept

\* Every number on the wire is a new one when it is written first.
LEMMA WireStep == SendTypeOK /\ WireInv /\ [SendNext]_sendVars => WireInv'
<1> SUFFICES ASSUME SendTypeOK, WireInv, [SendNext]_sendVars PROVE WireInv'
  OBVIOUS
<1>1. ASSUME NEW c \in Calls, NEW m, StartFlush(c, m) PROVE WireInv'
  BY <1>1, WireNumbered DEF StartFlush, SendTypeOK
<1>2. ASSUME UNCHANGED <<datagrams, wire>> PROVE WireInv'
  BY <1>2 DEF WireInv
<1>3. ASSUME NEW m \in Messages, QueueNormal(m) PROVE WireInv'
  <2>1. /\ DOMAIN datagrams' = DOMAIN datagrams /\ wire' = wire
        /\ \A d \in DOMAIN datagrams :
               datagrams'[d].first = datagrams[d].first /\ datagrams'[d].seq = datagrams[d].seq
    BY <1>3, DatagramFields DEF QueueNormal, PushTo, SendTypeOK, Datagram
  <2> QED
    BY <2>1 DEF WireInv
<1>4. ASSUME NEW m \in Messages, NEW c \in Calls, QueueImmediate(m, c) PROVE WireInv'
  <2> DEFINE new == [NewDatagram EXCEPT !.msgs = <<m>>]
             d == Encode(Number(new))
  <2>1. datagrams' = Append(datagrams, d) /\ wire' = wire \cup {d.first}
    BY <1>4 DEF QueueImmediate
  <2>2. new \in Datagram /\ new.first.seq = NoSeq
    <3>1. new \in Datagram
      BY FreshType
    <3>2. new.first.seq = NoSeq
      BY DEF NewDatagram, Unwritten
    <3> QED
      BY <3>1, <3>2
  <2> HIDE DEF new
  <2>3. d.first.seq = sendSequenceNumber
    <3>1. d.first = [seq |-> sendSequenceNumber, msgs |-> new.msgs]
      BY <2>2, EncodeNumbered
    <3> HIDE DEF d
    <3> QED
      BY <3>1
  <2> QED
    BY <2>1, <2>3, WireAppended
<1>5. ASSUME NEW c \in Calls, FlushSent(c) PROVE WireInv'
  <2>1. PICK msgs : datagrams' = Append(datagrams, [NewDatagram EXCEPT !.msgs = msgs])
    BY <1>5 DEF FlushSent, PushAfterFlush, NewDatagram
  <2> DEFINE d == [NewDatagram EXCEPT !.msgs = msgs]
  <2>2. d.first.seq = NoSeq /\ d.seq = NoSeq /\ wire' = wire
    BY <1>5 DEF FlushSent, NewDatagram, Unwritten
  <2> QED
    BY <2>1, <2>2, WireAppended
<1>6. ASSUME NEW c \in Calls, UpdateResends(c) PROVE WireInv'
  <2>1. /\ DOMAIN datagrams' = DOMAIN datagrams
        /\ \A d \in DOMAIN datagrams :
               datagrams'[d] = IF d \in packetToSend THEN Encode(datagrams[d]) ELSE datagrams[d]
        /\ wire' = wire \cup {datagrams'[d].first : d \in packetToSend}
        /\ packetToSend \subseteq DOMAIN datagrams
    BY <1>6 DEF UpdateResends, SendTypeOK
  <2>2. \A d \in DOMAIN datagrams :
            /\ datagrams'[d].seq = datagrams[d].seq
            /\ datagrams'[d].first = datagrams[d].first \/ datagrams'[d].first.seq = datagrams[d].seq
            /\ datagrams[d].first.seq # NoSeq => datagrams'[d].first = datagrams[d].first
    BY <2>1, DatagramFields DEF Encode, Datagram
  <2>3. \A d \in DOMAIN datagrams' :
            \/ datagrams'[d].first.seq = NoSeq /\ datagrams'[d].seq = NoSeq
            \/ d \in DOMAIN datagrams /\ datagrams'[d].first = datagrams[d].first
               /\ (datagrams'[d].first.seq = NoSeq => datagrams'[d].seq = NoSeq)
    BY <2>1, <2>2 DEF WireInv
  <2>4. sendQueue \in DOMAIN datagrams'
    BY <2>1 DEF SendTypeOK
  <2>5. wire' \subseteq wire \cup {datagrams'[d].first : d \in DOMAIN datagrams'}
    BY <2>1
  <2> QED
    BY <2>1, <2>2, <2>3, <2>4, <2>5, WireKept
<1>7. ASSUME NEW k \in DOMAIN recoveryQueue, NEW c \in Calls, HandleNack(k, c) PROVE WireInv'
  BY <1>7, WireNumbered DEF HandleNack, SendTypeOK
<1>8. ASSUME NEW c \in Calls, NEW old, NEW toSend, FinishUpdate(c, old, toSend) PROVE WireInv'
  BY <1>1, <1>2, <1>8 DEF FinishUpdate
<1>9. ASSUME NEW m \in Messages, NEW c \in Calls, QueueOverflowing(m, c) PROVE WireInv'
  BY <1>1, <1>9 DEF QueueOverflowing
<1>10. ASSUME NEW c \in Calls, ImmediateSent(c) \/ NackResent(c) PROVE WireInv'
  BY <1>2, <1>10 DEF ImmediateSent, NackResent
<1>11. ASSUME NEW k, HandleAck(k) PROVE WireInv'
  BY <1>2, <1>11 DEF HandleAck
<1>12. ASSUME NEW c \in Calls, NEW old, Update(c, old) \/ ResendSent(c, old) PROVE WireInv'
  BY <1>8, <1>12 DEF Update, ResendSent
<1>13. CASE UNCHANGED sendVars
  BY <1>2, <1>13 DEF sendVars
<1> QED
  BY <1>3, <1>4, <1>5, <1>6, <1>7, <1>9, <1>10, <1>11, <1>12, <1>13 DEF SendNext

\* Every copy of a number the peer may read has the same messages, although
\* datagrams are renumbered by NACKs, grow while they are sent, and are sent
\* again by overlapping updates.
THEOREM NumbersCorrect == SendSpec => []NumberMeansMessages
<1>1. SendInit => WireInv
  BY DEF SendInit, WireInv, NewDatagram, Unwritten
<1>2. WireInv => NumberMeansMessages
  BY DEF WireInv, NumberMeansMessages
<1> QED
  BY <1>1, <1>2, SendTypeCorrect, WireStep, PTL DEF SendSpec

-----------------------------------------------------------------------------

\* While no flush waits, the queue is unwritten and holds what is not yet on
\* the wire; while one waits, all that was pushed before it is on the wire.  No
\* IMMEDIATE datagram is ever the queue.
QueueInv ==
    /\ \A c \in Calls : calls[c].op = "immediate" => calls[c].sent # sendQueue
    /\ QuietQueueIsUnwritten
    /\ Waiting("flush") = {} => quiet \subseteq OnWire \cup MessagesOf(sendQueue)
    /\ Waiting("flush") # {} => quiet \subseteq OnWire

\* What is on the wire stays there.
LEMMA WireGrows ==
    ASSUME wire \subseteq wire'
    PROVE  /\ OnWire \subseteq OnWire'
           /\ \A w \in wire' : \A i \in 1 .. Len(w.msgs) : w.msgs[i] \in OnWire'
BY DEF OnWire

\* Which calls wait for a flush after one of them changed.
LEMMA WaitingAfter ==
    ASSUME SendTypeOK, NEW c \in Calls, NEW x, calls' = [calls EXCEPT ![c] = x]
    PROVE  /\ x.op = "flush" => Waiting("flush")' = Waiting("flush") \cup {c}
           /\ x.op # "flush" => Waiting("flush")' = Waiting("flush") \ {c}
BY DEF SendTypeOK, Waiting

\* A step that starts no flush and ends none, and keeps away from the queue.
LEMMA QueueKept ==
    ASSUME SendTypeOK, QueueInv, Waiting("flush")' = Waiting("flush"),
           UNCHANGED <<sendQueue, quiet>>, wire \subseteq wire',
           \A c \in Calls : calls'[c].op = "immediate" =>
               \/ calls[c].op = "immediate" /\ calls'[c].sent = calls[c].sent
               \/ calls'[c].sent # sendQueue,
           Waiting("flush") = {} =>
               /\ datagrams'[sendQueue] = datagrams[sendQueue]
               /\ sendQueue \notin packetToSend'
               /\ \A k \in DOMAIN recoveryQueue' : recoveryQueue'[k] # sendQueue
    PROVE  QueueInv'
<1>1. OnWire \subseteq OnWire'
  BY WireGrows
<1>2. Waiting("flush") = {} => MessagesOf(sendQueue)' = MessagesOf(sendQueue)
  BY DEF MessagesOf
<1>3. QuietQueueIsUnwritten'
  BY DEF QueueInv, QuietQueueIsUnwritten
<1> QED
  BY <1>1, <1>2, <1>3 DEF QueueInv

\* A flush writes what the queue holds if no other was waiting; if one was,
\* nothing quiet was added since.
LEMMA QueueFlushed ==
    ASSUME SendTypeOK, QueueInv, NEW c \in Calls, NEW m, StartFlush(c, m),
           UNCHANGED <<sendQueue, quiet>>
    PROVE  QueueInv'
<1>1. calls' = [calls EXCEPT ![c] = [op |-> "flush", then |-> m]]
  BY DEF StartFlush
<1>2. Waiting("flush")' # {}
  <2>1. [op |-> "flush", then |-> m].op = "flush"
    OBVIOUS
  <2> QED
    BY <1>1, <2>1, WaitingAfter
<1>3. \A e \in Calls : calls'[e].op = "immediate" => calls'[e].sent # sendQueue'
  BY <1>1 DEF QueueInv, SendTypeOK
<1>4. quiet \subseteq OnWire'
  <2>1. wire \subseteq wire' /\ datagrams'[sendQueue].first \in wire'
    BY DEF StartFlush
  <2>2. CASE Waiting("flush") # {}
    BY <2>1, <2>2, WireGrows DEF QueueInv
  <2>3. CASE Waiting("flush") = {}
    <3>1. datagrams[sendQueue].first.seq = NoSeq
      BY <2>3 DEF QueueInv, QuietQueueIsUnwritten, Unwritten
    <3>2. datagrams'[sendQueue].first =
              [seq |-> sendSequenceNumber, msgs |-> datagrams[sendQueue].msgs]
      BY <3>1, NumberedEffect DEF StartFlush, SendTypeOK
    <3>3. datagrams'[sendQueue].first.msgs = datagrams[sendQueue].msgs
      BY <3>2
    <3>4. MessagesOf(sendQueue) \subseteq OnWire'
      BY <2>1, <3>3, WireGrows DEF MessagesOf
    <3> QED
      BY <2>1, <2>3, <3>4, WireGrows DEF QueueInv
  <2> QED
    BY <2>2, <2>3
<1> QED
  BY <1>2, <1>3, <1>4 DEF QueueInv, QuietQueueIsUnwritten

\* What a sequence holds.
Elements(s) == {s[i] : i \in 1 .. Len(s)}

\* One element more.
LEMMA AppendElements ==
    ASSUME NEW S, NEW s \in Seq(S), NEW e \in S
    PROVE  Append(s, e) \in Seq(S) /\ Elements(Append(s, e)) = Elements(s) \cup {e}
<1> DEFINE t == Append(s, e)
           n == Len(s)
<1>1. t \in Seq(S) /\ n \in Nat /\ Len(t) = n + 1 /\ t[n + 1] = e /\ \A i \in 1 .. n : t[i] = s[i]
  BY AppendProperties
<1> HIDE DEF t, n
<1>2. \A i : i \in 1 .. n + 1 <=> i \in 1 .. n \/ i = n + 1
  BY <1>1
<1>3. {t[i] : i \in 1 .. n + 1} = {s[i] : i \in 1 .. n} \cup {e}
  BY <1>1, <1>2
<1>4. Elements(t) = {t[i] : i \in 1 .. n + 1} /\ Elements(s) = {s[i] : i \in 1 .. n}
  BY <1>1 DEF Elements, n
<1> QED
  BY <1>1, <1>3, <1>4 DEF t

\* The steps of the sending half keep the queue's promise: only a new datagram
\* becomes the queue, and nothing but a flush sends it.
LEMMA QueueStep == SendTypeOK /\ QueueInv /\ [SendNext]_sendVars => QueueInv'
<1> SUFFICES ASSUME SendTypeOK, QueueInv, [SendNext]_sendVars PROVE QueueInv'
  OBVIOUS
<1>1. ASSUME NEW m \in Messages, QueueNormal(m) PROVE QueueInv'
  <2>1. /\ datagrams'[sendQueue].first = datagrams[sendQueue].first
        /\ datagrams'[sendQueue].msgs = Append(datagrams[sendQueue].msgs, m)
        /\ datagrams[sendQueue].msgs \in Seq(Messages)
    BY <1>1, DatagramFields DEF QueueNormal, PushTo, SendTypeOK, Datagram
  <2>2. MessagesOf(sendQueue)' = MessagesOf(sendQueue) \cup {m}
    <3>1. MessagesOf(sendQueue) = Elements(datagrams[sendQueue].msgs)
      BY DEF MessagesOf, Elements
    <3>2. MessagesOf(sendQueue)' = Elements(datagrams'[sendQueue].msgs)
      BY <1>1 DEF QueueNormal, MessagesOf, Elements
    <3> QED
      BY <2>1, <3>1, <3>2, AppendElements
  <2>3. Waiting("flush")' = Waiting("flush") /\ OnWire' = OnWire
    BY <1>1 DEF QueueNormal, Waiting, OnWire
  <2>4. QuietQueueIsUnwritten'
    BY <1>1, <2>1, <2>3 DEF QueueNormal, QueueInv, QuietQueueIsUnwritten
  <2> QED
    BY <1>1, <2>2, <2>3, <2>4 DEF QueueNormal, QueueInv
<1>2. ASSUME NEW m \in Messages, NEW c \in Calls, QueueImmediate(m, c) PROVE QueueInv'
  <2> DEFINE x == [op |-> "immediate", sent |-> Len(datagrams) + 1]
  <2>1. /\ calls[c] = Idle /\ calls' = [calls EXCEPT ![c] = x]
        /\ wire \subseteq wire'
        /\ UNCHANGED <<sendQueue, recoveryQueue, packetToSend, quiet>>
    BY <1>2 DEF QueueImmediate
  <2>2. /\ sendQueue \in 1 .. Len(datagrams) /\ Len(datagrams) \in Nat
        /\ datagrams'[sendQueue] = datagrams[sendQueue]
    BY <1>2 DEF QueueImmediate, SendTypeOK
  <2>3. c \notin Waiting("flush") /\ x.op # "flush" /\ x.sent # sendQueue
    BY <2>1, <2>2 DEF Waiting, Idle
  <2>4. Waiting("flush")' = Waiting("flush")
    BY <2>1, <2>3, WaitingAfter
  <2>5. \A e \in Calls : calls'[e].op = "immediate" =>
            \/ calls[e].op = "immediate" /\ calls'[e].sent = calls[e].sent
            \/ calls'[e].sent # sendQueue
    BY <2>1, <2>3 DEF SendTypeOK
  <2> QED
    BY <2>1, <2>2, <2>4, <2>5, QueueKept DEF QueueInv, QuietQueueIsUnwritten
<1>3. ASSUME NEW m \in Messages, NEW c \in Calls, QueueOverflowing(m, c) PROVE QueueInv'
  BY <1>3, QueueFlushed DEF QueueOverflowing
<1>4. ASSUME NEW c \in Calls, calls[c].op \notin {"flush"}, calls' = [calls EXCEPT ![c] = Idle]
      PROVE  /\ Waiting("flush")' = Waiting("flush")
             /\ \A e \in Calls : calls'[e].op = "immediate" =>
                    calls[e].op = "immediate" /\ calls'[e].sent = calls[e].sent
  BY <1>4, WaitingAfter DEF Waiting, Idle, SendTypeOK
<1>5. ASSUME NEW c \in Calls, ImmediateSent(c) PROVE QueueInv'
  <2>1. \A k \in DOMAIN recoveryQueue' :
            \/ recoveryQueue'[k] = calls[c].sent
            \/ k \in DOMAIN recoveryQueue /\ recoveryQueue'[k] = recoveryQueue[k]
    BY <1>5, PutEntries DEF ImmediateSent
  <2>2. calls[c].sent # sendQueue
    BY <1>5 DEF ImmediateSent, QueueInv
  <2>3. calls[c].op # "flush" /\ calls' = [calls EXCEPT ![c] = Idle]
        /\ UNCHANGED <<datagrams, sendQueue, packetToSend, wire, quiet>>
    BY <1>5 DEF ImmediateSent
  <2> QED
    BY <1>4, <2>1, <2>2, <2>3, QueueKept DEF QueueInv, QuietQueueIsUnwritten
<1>6. ASSUME NEW c \in Calls, NackResent(c) PROVE QueueInv'
  <2>1. /\ calls[c].op # "flush" /\ calls' = [calls EXCEPT ![c] = Idle]
        /\ UNCHANGED <<datagrams, sendQueue, packetToSend, wire, quiet>>
        /\ \A k \in DOMAIN recoveryQueue' :
               k \in DOMAIN recoveryQueue /\ recoveryQueue'[k] = recoveryQueue[k]
    BY <1>6 DEF NackResent, Without
  <2> QED
    BY <1>4, <2>1, QueueKept DEF QueueInv, QuietQueueIsUnwritten
<1>7. ASSUME NEW k, HandleAck(k) PROVE QueueInv'
  <2>1. /\ UNCHANGED <<datagrams, sendQueue, packetToSend, calls, wire, quiet>>
        /\ \A i \in DOMAIN recoveryQueue' :
               i \in DOMAIN recoveryQueue /\ recoveryQueue'[i] = recoveryQueue[i]
    BY <1>7 DEF HandleAck, Without
  <2>2. Waiting("flush")' = Waiting("flush")
    BY <2>1 DEF Waiting
  <2> QED
    BY <2>1, <2>2, QueueKept DEF QueueInv, QuietQueueIsUnwritten
<1>8. ASSUME NEW k \in DOMAIN recoveryQueue, NEW c \in Calls, HandleNack(k, c) PROVE QueueInv'
  <2> DEFINE x == [op |-> "nack", key |-> k]
  <2>1. /\ calls[c] = Idle /\ calls' = [calls EXCEPT ![c] = x] /\ wire \subseteq wire'
        /\ datagrams' = [datagrams EXCEPT ![recoveryQueue[k]] = Encode(Number(@))]
        /\ UNCHANGED <<sendQueue, recoveryQueue, packetToSend, quiet>>
    BY <1>8 DEF HandleNack
  <2>2. Waiting("flush")' = Waiting("flush")
    <3>1. x.op # "flush" /\ c \notin Waiting("flush")
      BY <2>1 DEF Waiting, Idle
    <3> QED
      BY <2>1, <3>1, WaitingAfter
  <2>3. \A e \in Calls : calls'[e].op = "immediate" =>
            calls[e].op = "immediate" /\ calls'[e].sent = calls[e].sent
    BY <2>1 DEF SendTypeOK
  <2>4. Waiting("flush") = {} => datagrams'[sendQueue] = datagrams[sendQueue]
    BY <2>1 DEF QueueInv, QuietQueueIsUnwritten, SendTypeOK
  <2> QED
    BY <2>1, <2>2, <2>3, <2>4, QueueKept DEF QueueInv, QuietQueueIsUnwritten
<1>9. ASSUME NEW c \in Calls, FlushSent(c) PROVE QueueInv'
  <2> DEFINE m == calls[c].then
  <2>1. /\ calls[c].op = "flush" /\ calls' = [calls EXCEPT ![c] = Idle]
        /\ sendQueue' = Len(datagrams) + 1
        /\ UNCHANGED <<packetToSend, wire>>
    BY <1>9 DEF FlushSent, QueueAfterFlush
  <2>2. c \in Waiting("flush") /\ Waiting("flush")' = Waiting("flush") \ {c}
    <3>1. Idle.op # "flush"
      BY DEF Idle
    <3>2. Waiting("flush")' = Waiting("flush") \ {c}
      BY <2>1, <3>1, WaitingAfter
    <3> QED
      BY <2>1, <3>2 DEF Waiting
  <2>3. quiet \subseteq OnWire /\ OnWire' = OnWire
    BY <2>1, <2>2 DEF QueueInv, OnWire
  <2>4. /\ Len(datagrams) \in Nat /\ DOMAIN datagrams = 1 .. Len(datagrams)
        /\ Len(datagrams) + 1 \notin DOMAIN datagrams
    BY DEF SendTypeOK
  <2>5. \A e \in Calls : calls'[e].op = "immediate" => calls'[e].sent # sendQueue'
    BY <2>1, <2>4, CallFields DEF SendTypeOK, Idle
  <2>6. \A k \in DOMAIN recoveryQueue' : recoveryQueue'[k] # sendQueue'
    <3>1. recoveryQueue' = Put(datagrams[sendQueue].seq, sendQueue)
      BY <1>9 DEF FlushSent
    <3>2. sendQueue # sendQueue' /\ \A k \in DOMAIN recoveryQueue : recoveryQueue[k] # sendQueue'
      BY <2>1, <2>4 DEF SendTypeOK
    <3> QED
      BY <3>1, <3>2, PutEntries
  <2>7. sendQueue' \notin packetToSend'
    BY <2>1, <2>4 DEF SendTypeOK
  <2>8. CASE m = NoMessage
    <3>1. quiet' = quiet /\ datagrams' = Append(datagrams, NewDatagram)
      BY <1>9, <2>8 DEF FlushSent
    <3>2. datagrams'[sendQueue'].first = Unwritten
      BY <2>1, <2>4, <3>1 DEF SendTypeOK, NewDatagram
    <3> QED
      BY <2>3, <2>5, <2>6, <2>7, <3>1, <3>2 DEF QueueInv, QuietQueueIsUnwritten
  <2>9. CASE m # NoMessage
    <3>1. /\ datagrams' = Append(datagrams, [NewDatagram EXCEPT !.msgs = <<m>>])
          /\ quiet' = IF Waiting("flush") = {c} THEN quiet \cup {m} ELSE quiet
      BY <1>9, <2>9 DEF FlushSent, PushAfterFlush
    <3>2. datagrams'[sendQueue'] = [NewDatagram EXCEPT !.msgs = <<m>>]
      BY <2>1, <2>4, <3>1 DEF SendTypeOK
    <3>3. datagrams'[sendQueue'].first = Unwritten /\ datagrams'[sendQueue'].msgs = <<m>>
      BY <3>2 DEF NewDatagram
    <3>4. m \in MessagesOf(sendQueue)'
      BY <3>3 DEF MessagesOf
    <3>5. Waiting("flush")' = {} => quiet' \subseteq OnWire' \cup MessagesOf(sendQueue)'
      BY <2>3, <3>1, <3>4
    <3>6. Waiting("flush")' # {} => quiet' \subseteq OnWire'
      BY <2>2, <2>3, <3>1
    <3> QED
      BY <2>5, <2>6, <2>7, <3>3, <3>5, <3>6 DEF QueueInv, QuietQueueIsUnwritten
  <2> QED
    BY <2>8, <2>9
<1>10. ASSUME NEW c \in Calls, UpdateResends(c) PROVE QueueInv'
  <2>1. /\ calls[c] = Idle /\ calls' = [calls EXCEPT ![c] = [op |-> "resend"]]
        /\ packetToSend' = {} /\ wire \subseteq wire'
        /\ UNCHANGED <<sendQueue, quiet>>
    BY <1>10 DEF UpdateResends
  <2>2. Waiting("flush")' = Waiting("flush")
    BY <2>1, WaitingAfter DEF Waiting, Idle
  <2>3. \A e \in Calls : calls'[e].op = "immediate" =>
            calls[e].op = "immediate" /\ calls'[e].sent = calls[e].sent
    BY <2>1 DEF SendTypeOK
  <2>4. sendQueue \notin packetToSend => datagrams'[sendQueue] = datagrams[sendQueue]
    BY <1>10 DEF UpdateResends, SendTypeOK
  <2>5. \A k \in DOMAIN recoveryQueue' :
            \/ recoveryQueue'[k] \in packetToSend
            \/ k \in DOMAIN recoveryQueue /\ recoveryQueue'[k] = recoveryQueue[k]
    <3> DEFINE seqs == {datagrams[d].seq : d \in packetToSend}
               sent(k) == CHOOSE d \in packetToSend : datagrams[d].seq = k
    <3>1. \A k \in seqs : sent(k) \in packetToSend
      OBVIOUS
    <3>2. recoveryQueue' = [k \in DOMAIN recoveryQueue \cup seqs |->
                                IF k \in seqs THEN sent(k) ELSE recoveryQueue[k]]
      BY <1>10 DEF UpdateResends
    <3> SUFFICES ASSUME NEW k \in DOMAIN recoveryQueue'
                 PROVE  \/ recoveryQueue'[k] \in packetToSend
                        \/ k \in DOMAIN recoveryQueue /\ recoveryQueue'[k] = recoveryQueue[k]
      OBVIOUS
    <3>3. CASE k \in seqs
      <4>1. recoveryQueue'[k] = sent(k)
        BY <3>2, <3>3
      <4> QED
        BY <3>1, <3>3, <4>1
    <3>4. CASE k \notin seqs
      BY <3>2, <3>4
    <3> QED
      BY <3>3, <3>4
  <2> QED
    BY <2>1, <2>2, <2>3, <2>4, <2>5, QueueKept DEF QueueInv, QuietQueueIsUnwritten
<1>11. ASSUME NEW c \in Calls, NEW old \in SUBSET DOMAIN recoveryQueue,
              NEW toSend \in {{}, packetToSend}, FinishUpdate(c, old, toSend),
              calls[c].op # "flush"
       PROVE  QueueInv'
  <2>1. CASE StartFlush(c, NoMessage)
    BY <1>11, <2>1, QueueFlushed DEF FinishUpdate
  <2>2. CASE calls' = [calls EXCEPT ![c] = Idle] /\ UNCHANGED <<datagrams, wire>>
    <3>1. /\ packetToSend' = toSend \cup {recoveryQueue[k] : k \in old}
          /\ \A k \in DOMAIN recoveryQueue' :
                 k \in DOMAIN recoveryQueue /\ recoveryQueue'[k] = recoveryQueue[k]
          /\ UNCHANGED <<sendQueue, quiet>>
      BY <1>11 DEF FinishUpdate, Without
    <3> QED
      BY <1>4, <1>11, <2>2, <3>1, QueueKept DEF QueueInv, QuietQueueIsUnwritten
  <2> QED
    BY <1>11, <2>1, <2>2 DEF FinishUpdate
<1>12. ASSUME NEW c \in Calls, NEW old \in SUBSET DOMAIN recoveryQueue,
              Update(c, old) \/ ResendSent(c, old)
       PROVE  QueueInv'
  <2>1. CASE Update(c, old)
    BY <1>11, <2>1 DEF Update, Idle
  <2>2. CASE ResendSent(c, old)
    BY <1>11, <2>2 DEF ResendSent
  <2> QED
    BY <1>12, <2>1, <2>2
<1>13. CASE UNCHANGED sendVars
  BY <1>13 DEF sendVars, QueueInv, QuietQueueIsUnwritten, Waiting, OnWire, MessagesOf
<1> QED
  BY <1>1, <1>2, <1>3, <1>5, <1>6, <1>7, <1>8, <1>9, <1>10, <1>12, <1>13 DEF SendNext

\* The queue between two flushes, and the messages in it.
LEMMA QueueCorrect == SendSpec => [](QuietQueueIsUnwritten /\ QuietMessageIsNotLost)
<1>1. SendInit => QueueInv
  BY DEF SendInit, QueueInv, QuietQueueIsUnwritten, Waiting, Idle, NewDatagram
<1>2. QueueInv => QuietQueueIsUnwritten /\ QuietMessageIsNotLost
  BY DEF QueueInv, QuietMessageIsNotLost
<1> QED
  BY <1>1, <1>2, SendTypeCorrect, QueueStep, PTL DEF SendSpec

\* When no flush waits the queue is a datagram nobody has sent or may send
\* again, however many calls of addToQueue and update overlap.
THEOREM QueueUnwritten == SendSpec => []QuietQueueIsUnwritten
BY QueueCorrect, PTL

\* What was pushed to the queue at such a time reaches the wire with it.
THEOREM MessagesKept == SendSpec => []QuietMessageIsNotLost
BY QueueCorrect, PTL

-----------------------------------------------------------------------------

\* No two datagrams have one number, and when a datagram has the number of an
\* entry it is the one the entry holds; it may have been renumbered since.
EntryInv ==
    /\ \A d, e \in DOMAIN datagrams :
          datagrams[d].seq # NoSeq /\ datagrams[d].seq = datagrams[e].seq => d = e
    /\ \A k \in DOMAIN recoveryQueue : \A e \in DOMAIN datagrams :
          k # NoSeq /\ datagrams[e].seq = k => recoveryQueue[k] = e

EntriesKept ==
    \A k \in DOMAIN recoveryQueue \cap DOMAIN recoveryQueue' :
        k # NoSeq => recoveryQueue'[k] = recoveryQueue[k]

\* A step that gives the next number to one datagram at most, and sets entries
\* only under the numbers datagrams have.
LEMMA EntryKept ==
    ASSUME SendTypeOK, EntryInv, NEW fresh,
           \A d \in DOMAIN datagrams' :
               \/ datagrams'[d].seq = NoSeq
               \/ d \in DOMAIN datagrams /\ datagrams'[d].seq = datagrams[d].seq
               \/ d = fresh /\ datagrams'[d].seq = sendSequenceNumber,
           \A k \in DOMAIN recoveryQueue' :
               \/ k \in DOMAIN recoveryQueue /\ recoveryQueue'[k] = recoveryQueue[k]
               \/ recoveryQueue'[k] \in DOMAIN datagrams /\ datagrams[recoveryQueue'[k]].seq = k
    PROVE  EntryInv' /\ EntriesKept
<1>1. sendSequenceNumber # NoSeq /\ sendSequenceNumber \notin Numbers
  BY DEF SendTypeOK, Numbers, NoSeq
<1>2. \A d \in DOMAIN datagrams : datagrams[d].seq # sendSequenceNumber
  BY <1>1, DatagramFields
<1>3. ASSUME NEW d \in DOMAIN datagrams', NEW e \in DOMAIN datagrams',
             datagrams'[d].seq # NoSeq, datagrams'[d].seq = datagrams'[e].seq
      PROVE  d = e
  BY <1>2, <1>3 DEF EntryInv
<1>4. ASSUME NEW k \in DOMAIN recoveryQueue', NEW e \in DOMAIN datagrams',
             k # NoSeq, datagrams'[e].seq = k
      PROVE  recoveryQueue'[k] = e
  <2>1. k # sendSequenceNumber
    BY <1>1, <1>2 DEF SendTypeOK
  <2>2. e \in DOMAIN datagrams /\ datagrams[e].seq = k
    BY <1>4, <2>1
  <2> QED
    BY <1>4, <2>2 DEF EntryInv
<1>5. EntriesKept
  BY DEF EntriesKept, EntryInv
<1> QED
  BY <1>3, <1>4, <1>5 DEF EntryInv

\* A datagram numbered and sent; no entry is set.
LEMMA EntryNumbered ==
    ASSUME SendTypeOK, EntryInv, NEW q \in DOMAIN datagrams,
           datagrams' = [datagrams EXCEPT ![q] = Encode(Number(@))],
           \A k \in DOMAIN recoveryQueue' :
               k \in DOMAIN recoveryQueue /\ recoveryQueue'[k] = recoveryQueue[k]
    PROVE  EntryInv' /\ EntriesKept
<1>1. \A d \in DOMAIN datagrams' :
          \/ d \in DOMAIN datagrams /\ datagrams'[d].seq = datagrams[d].seq
          \/ d = q /\ datagrams'[d].seq = sendSequenceNumber
  BY NumberedEffect
<1> QED
  BY <1>1, EntryKept

\* A new datagram, with the next number or none.
LEMMA EntryAppended ==
    ASSUME SendTypeOK, EntryInv, NEW d, datagrams' = Append(datagrams, d),
           d.seq \in {NoSeq, sendSequenceNumber},
           \A k \in DOMAIN recoveryQueue' :
               \/ k \in DOMAIN recoveryQueue /\ recoveryQueue'[k] = recoveryQueue[k]
               \/ recoveryQueue'[k] \in DOMAIN datagrams /\ datagrams[recoveryQueue'[k]].seq = k
    PROVE  EntryInv' /\ EntriesKept
<1>1. /\ DOMAIN datagrams = 1 .. Len(datagrams) /\ Len(datagrams) \in Nat
      /\ DOMAIN datagrams' = 1 .. Len(datagrams) + 1
      /\ \A e \in DOMAIN datagrams : datagrams'[e] = datagrams[e]
      /\ datagrams'[Len(datagrams) + 1] = d
  BY DEF SendTypeOK
<1>2. \A e \in DOMAIN datagrams' :
          \/ datagrams'[e].seq = NoSeq
          \/ e \in DOMAIN datagrams /\ datagrams'[e].seq = datagrams[e].seq
          \/ e = Len(datagrams) + 1 /\ datagrams'[e].seq = sendSequenceNumber
  BY <1>1
<1> QED
  BY <1>2, EntryKept, SMTT(60)

\* Numbers stay where they are given.
LEMMA EntryStep == SendTypeOK /\ EntryInv /\ [SendNext]_sendVars => EntryInv' /\ EntriesKept
<1> SUFFICES ASSUME SendTypeOK, EntryInv, [SendNext]_sendVars PROVE EntryInv' /\ EntriesKept
  OBVIOUS
<1>1. ASSUME DOMAIN datagrams' = DOMAIN datagrams,
             \A d \in DOMAIN datagrams : datagrams'[d].seq = datagrams[d].seq,
             \A k \in DOMAIN recoveryQueue' :
                 \/ k \in DOMAIN recoveryQueue /\ recoveryQueue'[k] = recoveryQueue[k]
                 \/ recoveryQueue'[k] \in DOMAIN datagrams /\ datagrams[recoveryQueue'[k]].seq = k
      PROVE  EntryInv' /\ EntriesKept
  BY <1>1, EntryKept
<1>2. ASSUME NEW m \in Messages, QueueNormal(m) PROVE EntryInv' /\ EntriesKept
  <2>1. /\ DOMAIN datagrams' = DOMAIN datagrams /\ recoveryQueue' = recoveryQueue
        /\ \A d \in DOMAIN datagrams : datagrams'[d].seq = datagrams[d].seq
    BY <1>2, DatagramFields DEF QueueNormal, PushTo, SendTypeOK, Datagram
  <2> QED
    BY <1>1, <2>1
<1>3. ASSUME NEW m \in Messages, NEW c \in Calls, QueueImmediate(m, c)
      PROVE  EntryInv' /\ EntriesKept
  <2> DEFINE new == [NewDatagram EXCEPT !.msgs = <<m>>]
             d == Encode(Number(new))
  <2>1. datagrams' = Append(datagrams, d) /\ recoveryQueue' = recoveryQueue
    BY <1>3 DEF QueueImmediate
  <2>2. new \in Datagram
    BY FreshType
  <2> HIDE DEF new
  <2>3. d.seq = sendSequenceNumber
    BY <2>2, EncodeNumbered
  <2> QED
    BY <2>1, <2>3, EntryAppended
<1>4. ASSUME NEW c \in Calls, NEW m, StartFlush(c, m),
             \A k \in DOMAIN recoveryQueue' :
                 k \in DOMAIN recoveryQueue /\ recoveryQueue'[k] = recoveryQueue[k]
      PROVE  EntryInv' /\ EntriesKept
  BY <1>4, EntryNumbered DEF StartFlush, SendTypeOK
<1>5. ASSUME NEW m \in Messages, NEW c \in Calls, QueueOverflowing(m, c)
      PROVE  EntryInv' /\ EntriesKept
  BY <1>4, <1>5 DEF QueueOverflowing
<1>6. ASSUME NEW c \in Calls, ImmediateSent(c) PROVE EntryInv' /\ EntriesKept
  <2>1. /\ recoveryQueue' = Put(datagrams[calls[c].sent].seq, calls[c].sent)
        /\ datagrams' = datagrams /\ calls[c].sent \in DOMAIN datagrams
    BY <1>6, CallFields DEF ImmediateSent
  <2>2. \A k \in DOMAIN recoveryQueue' :
            \/ k \in DOMAIN recoveryQueue /\ recoveryQueue'[k] = recoveryQueue[k]
            \/ recoveryQueue'[k] \in DOMAIN datagrams /\ datagrams[recoveryQueue'[k]].seq = k
    BY <2>1, PutEntries
  <2> QED
    BY <1>1, <2>1, <2>2
<1>7. ASSUME NEW c \in Calls, FlushSent(c) PROVE EntryInv' /\ EntriesKept
  <2>1. PICK msgs : datagrams' = Append(datagrams, [NewDatagram EXCEPT !.msgs = msgs])
    BY <1>7 DEF FlushSent, PushAfterFlush, NewDatagram
  <2>2. [NewDatagram EXCEPT !.msgs = msgs].seq = NoSeq
    BY DEF NewDatagram
  <2>3. recoveryQueue' = Put(datagrams[sendQueue].seq, sendQueue) /\ sendQueue \in DOMAIN datagrams
    BY <1>7 DEF FlushSent, SendTypeOK
  <2>4. \A k \in DOMAIN recoveryQueue' :
            \/ k \in DOMAIN recoveryQueue /\ recoveryQueue'[k] = recoveryQueue[k]
            \/ recoveryQueue'[k] \in DOMAIN datagrams /\ datagrams[recoveryQueue'[k]].seq = k
    BY <2>3, PutEntries
  <2> QED
    BY <2>1, <2>2, <2>4, EntryAppended
<1>8. ASSUME NEW c \in Calls, UpdateResends(c) PROVE EntryInv' /\ EntriesKept
  <2>1. /\ DOMAIN datagrams' = DOMAIN datagrams
        /\ \A d \in DOMAIN datagrams :
               datagrams'[d] = IF d \in packetToSend THEN Encode(datagrams[d]) ELSE datagrams[d]
    BY <1>8 DEF UpdateResends, SendTypeOK
  <2>2. \A d \in DOMAIN datagrams : datagrams'[d].seq = datagrams[d].seq
    BY <2>1, DatagramFields DEF Encode, Datagram
  <2>3. ASSUME NEW k \in DOMAIN recoveryQueue'
        PROVE  \/ k \in DOMAIN recoveryQueue /\ recoveryQueue'[k] = recoveryQueue[k]
               \/ recoveryQueue'[k] \in DOMAIN datagrams /\ datagrams[recoveryQueue'[k]].seq = k
    <3> DEFINE seqs == {datagrams[d].seq : d \in packetToSend}
               sent == CHOOSE d \in packetToSend : datagrams[d].seq = k
    <3>1. /\ k \in DOMAIN recoveryQueue \cup seqs
          /\ recoveryQueue'[k] = IF k \in seqs THEN sent ELSE recoveryQueue[k]
      BY <1>8, <2>3 DEF UpdateResends
    <3>2. k \in seqs => sent \in packetToSend /\ datagrams[sent].seq = k
      OBVIOUS
    <3>3. packetToSend \subseteq DOMAIN datagrams
      BY DEF SendTypeOK
    <3> HIDE DEF seqs, sent
    <3> QED
      BY <3>1, <3>2, <3>3
  <2> QED
    BY <1>1, <2>1, <2>2, <2>3
<1>9. ASSUME NEW k \in DOMAIN recoveryQueue, NEW c \in Calls, HandleNack(k, c)
      PROVE  EntryInv' /\ EntriesKept
  BY <1>9, EntryNumbered DEF HandleNack, SendTypeOK
<1>10. ASSUME NEW c \in Calls, NackResent(c) PROVE EntryInv' /\ EntriesKept
  BY <1>1, <1>10 DEF NackResent, Without
<1>11. ASSUME NEW k, HandleAck(k) PROVE EntryInv' /\ EntriesKept
  BY <1>1, <1>11 DEF HandleAck, Without
<1>12. ASSUME NEW c \in Calls, NEW old, NEW toSend, FinishUpdate(c, old, toSend)
       PROVE  EntryInv' /\ EntriesKept
  <2>1. \A k \in DOMAIN recoveryQueue' :
            k \in DOMAIN recoveryQueue /\ recoveryQueue'[k] = recoveryQueue[k]
    BY <1>12 DEF FinishUpdate, Without
  <2> QED
    BY <1>1, <1>4, <1>12, <2>1 DEF FinishUpdate
<1>13. ASSUME NEW c \in Calls, NEW old, Update(c, old) \/ ResendSent(c, old)
       PROVE  EntryInv' /\ EntriesKept
  BY <1>12, <1>13 DEF Update, ResendSent
<1>14. CASE UNCHANGED sendVars
  BY <1>1, <1>14 DEF sendVars
<1> QED
  BY <1>2, <1>3, <1>5, <1>6, <1>7, <1>8, <1>9, <1>10, <1>11, <1>13, <1>14 DEF SendNext

\* A number that is cached for recovery never comes to stand for another
\* datagram, although the queue may be replaced while it is being sent and
\* datagrams are renumbered while their old entries remain.
THEOREM EntriesCorrect == SendSpec => EntryKeepsDatagram
<1>1. SendInit => EntryInv
  BY DEF SendInit, EntryInv
<1>2. SendTypeOK /\ EntryInv /\ [SendNext]_sendVars =>
          EntryInv' /\ [\A k \in DOMAIN recoveryQueue \cap DOMAIN recoveryQueue' :
                            k # NoSeq => recoveryQueue'[k] = recoveryQueue[k]]_sendVars
  BY EntryStep DEF EntriesKept
<1> QED
  BY <1>1, <1>2, SendTypeCorrect, PTL DEF SendSpec, EntryKeepsDatagram

-----------------------------------------------------------------------------
(* Fragmentation.                                                          *)

\* A sequence without one of its elements.
LEMMA RemoveAtElements ==
    ASSUME NEW S, NEW s \in Seq(S), NEW i \in 1 .. Len(s)
    PROVE  /\ RemoveAt(s, i) \in Seq(S) /\ Elements(RemoveAt(s, i)) \subseteq Elements(s)
           /\ Len(RemoveAt(s, i)) = Len(s) - 1
           /\ \A j \in 1 .. Len(s) - 1 : RemoveAt(s, i)[j] = IF j < i THEN s[j] ELSE s[j + 1]
<1> DEFINE a == SubSeq(s, 1, i - 1)
           b == SubSeq(s, i + 1, Len(s))
<1>1. \A j \in 1 .. Len(s) : s[j] \in S
  BY ElementOfSeq
<1>2. /\ a \in Seq(S) /\ \A j \in 1 .. Len(a) : a[j] = s[j]
      /\ b \in Seq(S) /\ \A j \in 1 .. Len(b) : b[j] = s[i + j]
  BY <1>1, SubSeqProperties, LenProperties
<1>3. /\ a \o b \in Seq(S)
      /\ Len(a \o b) = Len(a) + Len(b)
      /\ \A j \in 1 .. Len(a) + Len(b) : (a \o b)[j] = IF j <= Len(a) THEN a[j] ELSE b[j - Len(a)]
  BY <1>2, ConcatProperties
<1>4. Len(a) = i - 1 /\ Len(b) = Len(s) - i /\ Len(s) \in Nat
  BY <1>1, SubSeqProperties, LenProperties
<1> HIDE DEF a, b
<1>5. ASSUME NEW j \in 1 .. Len(a) + Len(b)
      PROVE  (a \o b)[j] \in Elements(s)
  <2>1. CASE j <= Len(a)
    BY <1>2, <1>3, <1>4, <2>1 DEF Elements
  <2>2. CASE j > Len(a)
    <3>1. (a \o b)[j] = s[i + (j - Len(a))]
      BY <1>2, <1>3, <1>4, <2>2, SMTT(60)
    <3>2. i + (j - Len(a)) \in 1 .. Len(s)
      BY <1>4, <2>2
    <3> QED
      BY <3>1, <3>2 DEF Elements
  <2> QED
    BY <1>4, <2>1, <2>2
<1>6. RemoveAt(s, i) = a \o b
  BY DEF RemoveAt, a, b
<1>7. ASSUME NEW j \in 1 .. Len(s) - 1
      PROVE  (a \o b)[j] = IF j < i THEN s[j] ELSE s[j + 1]
  <2>1. CASE j <= Len(a)
    BY <1>2, <1>3, <1>4, <2>1
  <2>2. CASE j > Len(a)
    <3>1. (a \o b)[j] = b[j - Len(a)] /\ j - Len(a) \in 1 .. Len(b)
      BY <1>3, <1>4, <2>2, SMTT(60)
    <3>2. b[j - Len(a)] = s[i + (j - Len(a))] /\ i + (j - Len(a)) = j + 1
      BY <1>2, <1>4, <3>1, SMTT(60)
    <3> QED
      BY <1>4, <2>2, <3>1, <3>2
  <2> QED
    BY <1>4, <2>1, <2>2
<1>8. Len(a \o b) = Len(s) - 1
  BY <1>3, <1>4
<1>9. Elements(a \o b) \subseteq Elements(s)
  BY <1>3, <1>5 DEF Elements
<1> QED
  BY <1>3, <1>6, <1>7, <1>8, <1>9

\* As many different numbers below n as there are places are all of them.
LEMMA AllIndexes ==
    ASSUME NEW n \in Nat, NEW f \in [1 .. n -> 0 .. n - 1],
           \A i, j \in 1 .. n : f[i] = f[j] => i = j
    PROVE  {f[i] : i \in 1 .. n} = 0 .. n - 1
<1>1. f \in Injection(1 .. n, 0 .. n - 1)
  BY DEF Injection, IsInjective
<1>2. IsFiniteSet(0 .. n - 1) /\ Cardinality(0 .. n - 1) = Cardinality(1 .. n)
  BY FS_Interval
<1>3. f \in Surjection(1 .. n, 0 .. n - 1)
  BY <1>1, <1>2, FS_Injection
<1> QED
  BY <1>3 DEF Surjection

-----------------------------------------------------------------------------
(* Types                                                                   *)

\* No index comes twice.
Distinct(fs) == \A i, j \in 1 .. Len(fs) : fs[i].index = fs[j].index => i = j

\* What Map.set makes of the fragments held for a message.
LEMMA StoredIs ==
    ASSUME NEW f \in Fragments, Held(f.id) \in Seq(Fragments), Distinct(Held(f.id))
    PROVE  /\ Stored(f) \in Seq(Fragments) /\ Stored(f) # <<>>
           /\ Distinct(Stored(f))
           /\ Elements(Stored(f)) \subseteq Elements(Held(f.id)) \cup {f}
<1> DEFINE held == Held(f.id)
           same == {i \in 1 .. Len(held) : held[i].index = f.index}
<1>1. held \in Seq(Fragments) /\ Distinct(held)
  OBVIOUS
<1>2. Stored(f) = IF same = {} THEN Append(held, f)
                  ELSE [i \in 1 .. Len(held) |-> IF i \in same THEN f ELSE held[i]]
  BY DEF Stored
<1> HIDE DEF held
<1>3. CASE same = {}
  <2>1. /\ Append(held, f) \in Seq(Fragments) /\ Append(held, f) # <<>>
        /\ Len(Append(held, f)) = Len(held) + 1
        /\ \A i \in 1 .. Len(held) : Append(held, f)[i] = held[i]
        /\ Append(held, f)[Len(held) + 1] = f
    BY <1>1, AppendProperties
  <2>2. Distinct(Append(held, f))
    BY <1>1, <1>3, <2>1 DEF Distinct
  <2>3. Elements(Append(held, f)) = Elements(held) \cup {f}
    BY <1>1, AppendElements
  <2> QED
    BY <1>2, <1>3, <2>1, <2>2, <2>3 DEF held
<1>4. CASE same # {}
  <2>1. PICK k \in 1 .. Len(held) : k \in same
    BY <1>4
  <2>2. same = {k}
    BY <1>1, <2>1 DEF Distinct
  <2> DEFINE new == [held EXCEPT ![k] = f]
  <2>3. Stored(f) = new
    BY <1>1, <1>2, <1>4, <2>2, LenProperties
  <2>4. new \in Seq(Fragments) /\ Len(new) = Len(held)
        /\ \A j \in 1 .. Len(held) : new[j] = IF j = k THEN f ELSE held[j]
    BY <1>1, ExceptSeq
  <2> HIDE DEF new
  <2>5. Distinct(new)
    BY <1>1, <2>1, <2>2, <2>4 DEF Distinct
  <2>6. new # <<>> /\ Elements(new) \subseteq Elements(held) \cup {f}
    BY <1>1, <2>4, LenProperties, EmptySeq DEF Elements
  <2> QED
    BY <2>3, <2>4, <2>5, <2>6 DEF held
<1> QED
  BY <1>3, <1>4

\* The fragments held for one id have that id, and no index comes twice.
Sorted ==
    \A id \in DOMAIN splitPackets :
        Distinct(splitPackets[id]) /\ \A f \in Elements(splitPackets[id]) : f.id = id

SplitTypeInv == SplitTypeOK /\ Sorted

LEMMA HeldIs ==
    ASSUME SplitTypeInv, NEW id
    PROVE  /\ Held(id) \in Seq(Fragments) /\ Distinct(Held(id))
           /\ \A f \in Elements(Held(id)) : f.id = id /\ id \in DOMAIN splitPackets
<1>1. CASE id \in DOMAIN splitPackets
  BY <1>1 DEF SplitTypeInv, SplitTypeOK, Sorted, Held
<1>2. CASE id \notin DOMAIN splitPackets
  <2>1. Held(id) = <<>>
    BY <1>2 DEF Held
  <2>2. <<>> \in Seq(Fragments) /\ Len(<<>>) = 0
    BY EmptySeq
  <2> QED
    BY <2>1, <2>2 DEF Distinct, Elements
<1> QED
  BY <1>1, <1>2

LEMMA FragmentType ==
    ASSUME SplitTypeOK, NEW p \in Packets, NEW i \in Nat
    PROVE  Fragment(p, i) \in Fragments
BY SplitAssumption DEF SplitTypeOK, Fragment, Fragments

\* What came is put with the others of its id, or is the last of them.
LEMMA HandleSplitIs ==
    ASSUME SplitTypeInv, NEW i \in 1 .. Len(network), HandleSplit(i)
    PROVE  LET f == network[i]
           IN  /\ f \in Fragments /\ f \in Elements(network)
               /\ network' = RemoveAt(network, i)
               /\ Stored(f) \in Seq(Fragments) /\ Stored(f) # <<>> /\ Distinct(Stored(f))
               /\ Elements(Stored(f)) \subseteq Elements(Held(f.id)) \cup {f}
               /\ \/ /\ Len(Stored(f)) = f.count
                     /\ assembled' = Append(assembled, Stored(f))
                     /\ splitPackets' = Forget(f.id)
                  \/ /\ splitPackets' = SetHeld(f.id, Stored(f))
                     /\ UNCHANGED assembled
               /\ UNCHANGED <<next, splitId, sendReliableIndex, overlapped>>
<1>1. network[i] \in Fragments /\ network[i] \in Elements(network)
  BY ElementOfSeq DEF SplitTypeInv, SplitTypeOK, Elements
<1>2. Held(network[i].id) \in Seq(Fragments) /\ Distinct(Held(network[i].id))
  BY HeldIs
<1> QED
  BY <1>1, <1>2, StoredIs DEF HandleSplit, Complete

LEMMA SplitTypeStep == SplitTypeInv /\ [SplitNext]_splitVars => SplitTypeInv'
<1> SUFFICES ASSUME SplitTypeInv, [SplitNext]_splitVars PROVE SplitTypeInv'
  OBVIOUS
<1>0. SplitTypeOK /\ Sorted /\ \A p \in Packets : Size[p] \in Nat \ {0}
  BY SplitAssumption DEF SplitTypeInv
<1>1. ASSUME NEW p \in Packets, StartSplit(p) PROVE SplitTypeInv'
  <2>1. network' \in Seq(Fragments)
    BY <1>0, <1>1, FragmentType, AppendElements DEF StartSplit, SplitTypeOK
  <2>2. /\ next' = [next EXCEPT ![p] = 1] /\ overlapped' \in BOOLEAN /\ sendReliableIndex' \in Nat
        /\ UNCHANGED <<splitId, splitPackets, assembled, reordered>>
    BY <1>0, <1>1 DEF StartSplit, SplitTypeOK
  <2> QED
    BY <1>0, <2>1, <2>2 DEF SplitTypeInv, SplitTypeOK, Sorted
<1>2. ASSUME NEW p \in Packets, QueueFragment(p) PROVE SplitTypeInv'
  <2>1. next[p] \in Nat
    BY <1>0 DEF SplitTypeOK
  <2>2. network' \in Seq(Fragments)
    BY <1>0, <1>2, <2>1, FragmentType, AppendElements DEF QueueFragment, SplitTypeOK
  <2>3. /\ next' = [next EXCEPT ![p] = @ + 1] /\ next[p] < Size[p] /\ sendReliableIndex' \in Nat
        /\ UNCHANGED <<splitId, splitPackets, assembled, overlapped, reordered>>
    BY <1>0, <1>2, <2>1 DEF QueueFragment, SplitTypeOK
  <2> QED
    BY <1>0, <2>2, <2>3 DEF SplitTypeInv, SplitTypeOK, Sorted
<1>3. ASSUME NEW p \in Packets, FinishSplit(p) PROVE SplitTypeInv'
  BY <1>0, <1>3 DEF FinishSplit, SplitIdAfter, SplitTypeInv, SplitTypeOK, Sorted
<1>4. ASSUME NEW i \in 1 .. Len(network), HandleSplit(i) PROVE SplitTypeInv'
  <2> DEFINE f == network[i]
  <2>1. /\ f \in Fragments /\ network' = RemoveAt(network, i)
        /\ Stored(f) \in Seq(Fragments) /\ Distinct(Stored(f))
        /\ Elements(Stored(f)) \subseteq Elements(Held(f.id)) \cup {f}
        /\ UNCHANGED <<next, splitId, sendReliableIndex, overlapped>>
    BY <1>4, HandleSplitIs
  <2>2. network' \in Seq(Fragments)
    BY <1>0, <2>1, RemoveAtElements DEF SplitTypeOK
  <2>3. assembled' \in Seq(Seq(Fragments)) /\ reordered' \in BOOLEAN
    <3>1. assembled' = Append(assembled, Stored(f)) \/ UNCHANGED assembled
      BY <1>4, HandleSplitIs
    <3>2. reordered' = (reordered \/ i # 1)
      BY <1>4 DEF HandleSplit
    <3>3. assembled \in Seq(Seq(Fragments))
      BY <1>0 DEF SplitTypeOK
    <3>4. assembled' \in Seq(Seq(Fragments))
      <4> DEFINE x == Stored(f)
      <4>1. x \in Seq(Fragments) /\ (assembled' = Append(assembled, x) \/ assembled' = assembled)
        BY <2>1, <3>1
      <4> HIDE DEF x
      <4>2. Append(assembled, x) \in Seq(Seq(Fragments))
        BY <3>3, <4>1, AppendElements
      <4> QED
        BY <3>3, <4>1, <4>2
    <3> QED
      BY <3>2, <3>4
  <2>4. \A g \in Elements(Stored(f)) : g.id = f.id
    BY <2>1, HeldIs
  <2>5. splitPackets' = Forget(f.id) \/ splitPackets' = SetHeld(f.id, Stored(f))
    BY <1>4, HandleSplitIs
  <2> HIDE DEF f
  <2>6. \A id \in DOMAIN splitPackets' :
            \/ id = f.id /\ splitPackets'[id] = Stored(f)
            \/ id \in DOMAIN splitPackets /\ splitPackets'[id] = splitPackets[id]
    BY <2>5 DEF Forget, SetHeld
  <2>7. (\A id \in DOMAIN splitPackets : splitPackets[id] \in Seq(Fragments))'
    BY <1>0, <2>1, <2>6 DEF SplitTypeOK
  <2>8. Sorted'
    BY <1>0, <2>1, <2>4, <2>6 DEF Sorted
  <2> QED
    BY <1>0, <2>1, <2>2, <2>3, <2>7, <2>8 DEF SplitTypeInv, SplitTypeOK
<1>5. ASSUME NEW i \in 1 .. Len(network), Lose(i) PROVE SplitTypeInv'
  <2>1. network' \in Seq(Fragments)
    BY <1>0, <1>5, RemoveAtElements DEF Lose, SplitTypeOK
  <2> QED
    BY <1>0, <1>5, <2>1 DEF Lose, SplitTypeInv, SplitTypeOK, Sorted
<1>6. CASE UNCHANGED splitVars
  BY <1>6 DEF splitVars, SplitTypeInv, SplitTypeOK, Sorted
<1> QED
  BY <1>1, <1>2, <1>3, <1>4, <1>5, <1>6 DEF SplitNext

LEMMA EmptyIs == Len(<<>>) = 0 /\ DOMAIN <<>> = {}
<1>1. <<>> \in Seq({}) /\ Len(<<>>) = 0
  BY EmptySeq
<1>2. DOMAIN <<>> = 1 .. Len(<<>>)
  BY <1>1, LenProperties
<1> QED
  BY <1>1, <1>2

LEMMA InitType == SplitInit => SplitTypeInv
<1> SUFFICES ASSUME SplitInit PROVE SplitTypeInv
  OBVIOUS
<1>1. network \in Seq(Fragments) /\ assembled \in Seq(Seq(Fragments))
  BY EmptySeq DEF SplitInit
<1>2. DOMAIN splitPackets = {}
  BY EmptyIs DEF SplitInit
<1>3. next \in [Packets -> Nat] /\ \A p \in Packets : next[p] <= Size[p] + 1
  BY SplitAssumption DEF SplitInit
<1>4. splitId \in Nat /\ sendReliableIndex \in Nat /\ overlapped \in BOOLEAN /\ reordered \in BOOLEAN
  BY DEF SplitInit
<1> QED
  BY <1>1, <1>2, <1>3, <1>4 DEF SplitTypeInv, SplitTypeOK, Sorted

\* Sender, network and receiver keep their types, and the fragments held for an
\* id have different indexes, whatever comes and in whatever order.
THEOREM SplitTypeCorrect == SplitSpec => []SplitTypeOK
<1>1. SplitInit => SplitTypeInv
  BY InitType
<1>2. SplitTypeInv => SplitTypeOK
  BY DEF SplitTypeInv
<1> QED
  BY <1>1, <1>2, SplitTypeStep, PTL DEF SplitSpec

-----------------------------------------------------------------------------
(* Fragments of one message.  OwnFragments is not inductive: what is put   *)
(* together now was on its way or held before, and one message follows     *)
(* another under a new id only because its fragments are all queued before *)
(* the counter goes on.                                                    *)

Abroad == Elements(network) \cup UNION {Elements(splitPackets[id]) : id \in DOMAIN splitPackets}

\* A fragment is what its message was cut into, under an id already given.
Cut(f) == f.count = Size[f.packet] /\ f.index \in 0 .. Size[f.packet] - 1 /\ f.id <= splitId

\* The counter's present value is of the one message that is being queued.
OneOwner ==
    /\ \A p, q \in UnderWay : p = q
    /\ \A f \in Abroad : f.id = splitId => f.packet \in UnderWay
    /\ \A f, g \in Abroad : f.id = g.id => f.packet = g.packet

Own(fs) ==
    /\ {fs[i].packet : i \in 1 .. Len(fs)} = {fs[1].packet}
    /\ {fs[i].index : i \in 1 .. Len(fs)} = 0 .. Size[fs[1].packet] - 1

OwnInv ==
    /\ \A f \in Abroad : Cut(f)
    /\ ~overlapped => OneOwner /\ \A k \in 1 .. Len(assembled) : Own(assembled[k])

LEMMA AbroadType == SplitTypeOK => Abroad \subseteq Fragments
BY ElementOfSeq DEF SplitTypeOK, Abroad, Elements

\* Nothing comes to the receiver that was not on its way.
LEMMA NothingNew ==
    ASSUME SplitTypeInv, NEW i \in 1 .. Len(network), HandleSplit(i) \/ Lose(i)
    PROVE  Abroad' \subseteq Abroad
<1>1. Elements(network') \subseteq Elements(network)
  <2>1. network' = RemoveAt(network, i) /\ network \in Seq(Fragments)
    BY DEF HandleSplit, Lose, SplitTypeInv, SplitTypeOK
  <2> QED
    BY <2>1, RemoveAtElements
<1>2. CASE HandleSplit(i)
  <2> DEFINE f == network[i]
  <2>1. /\ f \in Elements(network)
        /\ Elements(Stored(f)) \subseteq Elements(Held(f.id)) \cup {f}
        /\ splitPackets' = Forget(f.id) \/ splitPackets' = SetHeld(f.id, Stored(f))
    BY <1>2, HandleSplitIs
  <2>2. Elements(Held(f.id)) \subseteq Abroad
    <3>1. CASE f.id \in DOMAIN splitPackets
      BY <3>1 DEF Held, Abroad
    <3>2. CASE f.id \notin DOMAIN splitPackets
      BY <3>2, HeldIs
    <3> QED
      BY <3>1, <3>2
  <2>3. Elements(Stored(f)) \subseteq Abroad
    BY <2>1, <2>2 DEF Abroad
  <2> HIDE DEF f
  <2>4. \A id \in DOMAIN splitPackets' :
            \/ id = f.id /\ splitPackets'[id] = Stored(f)
            \/ id \in DOMAIN splitPackets /\ splitPackets'[id] = splitPackets[id]
    BY <2>1 DEF Forget, SetHeld
  <2>5. \A id \in DOMAIN splitPackets' : Elements(splitPackets'[id]) \subseteq Abroad
    BY <2>3, <2>4 DEF Abroad
  <2> QED
    BY <1>1, <2>5 DEF Abroad, Elements
<1>3. CASE Lose(i)
  BY <1>1, <1>3 DEF Lose, Abroad, Elements
<1> QED
  BY <1>2, <1>3

\* A message that is queued adds a fragment of its own.
LEMMA Queued ==
    ASSUME SplitTypeOK, NEW p \in Packets, NEW i \in Nat, i < Size[p],
           network' = Append(network, Fragment(p, i)), UNCHANGED <<splitId, splitPackets>>,
           \A f \in Abroad : Cut(f)
    PROVE  /\ Abroad' = Abroad \cup {Fragment(p, i)}
           /\ Fragment(p, i).id = splitId /\ Fragment(p, i).packet = p
           /\ (\A f \in Abroad : Cut(f))'
<1>1. Elements(network') = Elements(network) \cup {Fragment(p, i)}
  BY FragmentType, AppendElements DEF SplitTypeOK
<1>2. Abroad' = Abroad \cup {Fragment(p, i)}
  BY <1>1 DEF Abroad, Elements
<1>3. Fragment(p, i).id = splitId /\ Fragment(p, i).packet = p
  BY DEF Fragment
<1>4. Fragment(p, i).count = Size[p] /\ Fragment(p, i).index \in 0 .. Size[p] - 1 /\ splitId <= splitId
  BY SplitAssumption DEF Fragment, SplitTypeOK
<1>5. \A f \in Abroad' : Cut(f)'
  BY <1>2, <1>3, <1>4 DEF Cut
<1> QED
  BY <1>2, <1>3, <1>5

\* What is complete and of one message is all of it.
LEMMA CompleteIsOwn ==
    ASSUME NEW fs \in Seq(Fragments), fs # <<>>, Distinct(fs), NEW p \in Packets,
           \A f \in Elements(fs) : f.packet = p /\ f.index \in 0 .. Size[p] - 1,
           Len(fs) = Size[p]
    PROVE  Own(fs)
<1>1. Size[p] \in Nat \ {0} /\ Len(fs) = Size[p]
  BY SplitAssumption
<1>2. \A i \in 1 .. Size[p] : fs[i].packet = p /\ fs[i].index \in 0 .. Size[p] - 1
  BY <1>1 DEF Elements
<1> DEFINE n == Size[p]
           g == [i \in 1 .. n |-> fs[i].index]
<1>3. g \in [1 .. n -> 0 .. n - 1] /\ \A i, j \in 1 .. n : g[i] = g[j] => i = j
  BY <1>1, <1>2 DEF Distinct
<1>4. {g[i] : i \in 1 .. n} = 0 .. n - 1
  <2> HIDE DEF g
  <2> QED
    BY <1>1, <1>3, AllIndexes
<1>5. {fs[i].index : i \in 1 .. n} = {g[i] : i \in 1 .. n}
  OBVIOUS
<1>6. fs[1].packet = p /\ 1 \in 1 .. n
  BY <1>1, <1>2
<1>7. {fs[i].packet : i \in 1 .. n} = {p}
  BY <1>2, <1>6
<1> QED
  BY <1>1, <1>4, <1>5, <1>6, <1>7 DEF Own

LEMMA OwnStep == SplitTypeInv /\ OwnInv /\ [SplitNext]_splitVars => OwnInv'
<1> SUFFICES ASSUME SplitTypeInv, OwnInv, [SplitNext]_splitVars PROVE OwnInv'
  OBVIOUS
<1>0. /\ SplitTypeOK /\ \A p \in Packets : Size[p] \in Nat \ {0} /\ next[p] \in Nat
      /\ next \in [Packets -> Nat] /\ splitId \in Nat
      /\ \A f \in Abroad : Cut(f)
      /\ \A f \in Abroad : f.id \in Nat
      /\ overlapped \in BOOLEAN
  BY SplitAssumption, AbroadType DEF SplitTypeInv, SplitTypeOK, OwnInv, Fragments
<1>00. ~overlapped => OneOwner /\ \A k \in 1 .. Len(assembled) : Own(assembled[k])
  BY DEF OwnInv
<1>1. ASSUME NEW p \in Packets, StartSplit(p) PROVE OwnInv'
  <2>1. /\ next[p] = 0 /\ next' = [next EXCEPT ![p] = 1] /\ network' = Append(network, Fragment(p, 0))
        /\ overlapped' = (overlapped \/ UnderWay # {})
        /\ UNCHANGED <<splitId, splitPackets, assembled>>
    BY <1>1 DEF StartSplit
  <2>2. /\ Abroad' = Abroad \cup {Fragment(p, 0)}
        /\ Fragment(p, 0).id = splitId /\ Fragment(p, 0).packet = p
        /\ (\A f \in Abroad : Cut(f))'
    BY <1>0, <2>1, Queued
  <2>3. ASSUME ~overlapped'
        PROVE  OneOwner' /\ ~overlapped
    <3>1. ~overlapped /\ UnderWay = {}
      BY <2>1, <2>3
    <3>2. UnderWay' = {p}
      BY <1>0, <2>1, <3>1 DEF UnderWay
    <3>3. \A f \in Abroad : f.id # splitId
      BY <1>00, <3>1 DEF OneOwner
    <3> QED
      BY <1>00, <2>1, <2>2, <3>1, <3>2, <3>3 DEF OneOwner
  <2>4. ASSUME ~overlapped', NEW k \in 1 .. Len(assembled)
        PROVE  Own(assembled[k])
    BY <1>00, <2>3, <2>4
  <2>5. \A k \in 1 .. Len(assembled) : Own(assembled[k])' <=> Own(assembled[k])
    BY <2>1 DEF Own
  <2>6. ~overlapped' => OneOwner' /\ (\A k \in 1 .. Len(assembled) : Own(assembled[k]))'
    BY <2>1, <2>3, <2>4, <2>5
  <2> QED
    BY <2>2, <2>6 DEF OwnInv
<1>2. ASSUME NEW p \in Packets, QueueFragment(p) PROVE OwnInv'
  <2>1. /\ next[p] \in 1 .. Size[p] - 1 /\ next' = [next EXCEPT ![p] = @ + 1]
        /\ network' = Append(network, Fragment(p, next[p]))
        /\ UNCHANGED <<splitId, splitPackets, assembled, overlapped>>
    BY <1>2 DEF QueueFragment
  <2>2. next[p] \in Nat /\ next[p] < Size[p]
    BY <1>0, <2>1
  <2>3. /\ Abroad' = Abroad \cup {Fragment(p, next[p])}
        /\ Fragment(p, next[p]).id = splitId /\ Fragment(p, next[p]).packet = p
        /\ (\A f \in Abroad : Cut(f))'
    BY <1>0, <2>1, <2>2, Queued
  <2>4. UnderWay' = UnderWay /\ p \in UnderWay
    BY <1>0, <2>1 DEF UnderWay
  <2>5. ASSUME ~overlapped PROVE OneOwner'
    BY <1>00, <2>1, <2>3, <2>4, <2>5 DEF OneOwner
  <2>6. \A k \in 1 .. Len(assembled) : Own(assembled[k])' <=> Own(assembled[k])
    BY <2>1 DEF Own
  <2>7. ~overlapped' => OneOwner' /\ (\A k \in 1 .. Len(assembled) : Own(assembled[k]))'
    BY <1>00, <2>1, <2>5, <2>6
  <2> QED
    BY <2>3, <2>7 DEF OwnInv
<1>3. ASSUME NEW p \in Packets, FinishSplit(p) PROVE OwnInv'
  <2>1. /\ next[p] = Size[p] /\ next' = [next EXCEPT ![p] = @ + 1] /\ splitId' = splitId + 1
        /\ UNCHANGED <<network, splitPackets, assembled, overlapped>>
    BY <1>3 DEF FinishSplit, SplitIdAfter
  <2>2. Abroad' = Abroad
    BY <2>1 DEF Abroad, Elements
  <2>3. \A f \in Abroad : Cut(f)' /\ f.id # splitId'
    BY <1>0, <2>1 DEF Cut
  <2>4. UnderWay' \subseteq UnderWay
    BY <1>0, <2>1 DEF UnderWay
  <2>5. ASSUME ~overlapped PROVE OneOwner'
    BY <1>00, <2>2, <2>3, <2>4, <2>5 DEF OneOwner
  <2> QED
    BY <1>00, <2>1, <2>2, <2>3, <2>5, ZenonT(90) DEF OwnInv, Own
<1>4. ASSUME NEW i \in 1 .. Len(network), HandleSplit(i) \/ Lose(i) PROVE OwnInv'
  <2>1. Abroad' \subseteq Abroad /\ UNCHANGED <<next, splitId, overlapped>>
    BY <1>4, NothingNew DEF HandleSplit, Lose
  <2>2. (\A f \in Abroad : Cut(f))'
    BY <1>0, <2>1 DEF Cut
  <2>3. ~overlapped => OneOwner'
    BY <1>00, <2>1 DEF OneOwner, UnderWay
  <2>4. ASSUME ~overlapped, NEW k \in 1 .. Len(assembled')
        PROVE  Own(assembled'[k])
    <3>1. CASE UNCHANGED assembled
      BY <1>00, <2>4, <3>1
    <3>2. CASE HandleSplit(i) /\ ~UNCHANGED assembled
      <4> DEFINE f == network[i]
                 fs == Stored(f)
      <4>1. /\ f \in Fragments /\ f \in Elements(network)
            /\ fs \in Seq(Fragments) /\ fs # <<>> /\ Distinct(fs)
            /\ Elements(fs) \subseteq Elements(Held(f.id)) \cup {f}
            /\ Len(fs) = f.count /\ assembled' = Append(assembled, fs)
        BY <3>2, HandleSplitIs
      <4>2. f \in Abroad /\ Elements(Held(f.id)) \subseteq Abroad /\ \A g \in Elements(Held(f.id)) : g.id = f.id
        <5>1. \A g \in Elements(Held(f.id)) : g.id = f.id /\ f.id \in DOMAIN splitPackets
          BY HeldIs
        <5>2. f.id \in DOMAIN splitPackets => Held(f.id) = splitPackets[f.id]
          BY DEF Held
        <5> QED
          BY <4>1, <5>1, <5>2 DEF Abroad
      <4> HIDE DEF f, fs
      <4>3. \A g \in Elements(fs) : g \in Abroad /\ g.id = f.id
        BY <4>1, <4>2
      <4>4. \A g \in Elements(fs) : g.packet = f.packet /\ Cut(g)
        BY <1>0, <1>00, <2>4, <4>2, <4>3 DEF OneOwner
      <4>5. f.packet \in Packets /\ f.count = Size[f.packet]
        BY <1>0, <4>1, <4>2 DEF Fragments, Cut
      <4>6. \A g \in Elements(fs) : g.packet = f.packet /\ g.index \in 0 .. Size[f.packet] - 1
        BY <4>4 DEF Cut
      <4>7. Own(fs)
        BY <4>1, <4>5, <4>6, CompleteIsOwn
      <4>8. assembled \in Seq(Seq(Fragments))
        BY <1>0 DEF SplitTypeOK
      <4>9. /\ Len(assembled') = Len(assembled) + 1
            /\ \A j \in 1 .. Len(assembled) : assembled'[j] = assembled[j]
            /\ assembled'[Len(assembled) + 1] = fs
        BY <4>1, <4>8, AppendProperties
      <4>10. k \in 1 .. Len(assembled) \/ k = Len(assembled) + 1
        BY <2>4, <4>8, <4>9, LenProperties
      <4> QED
        BY <1>00, <2>4, <4>7, <4>9, <4>10
    <3> QED
      BY <1>4, <3>1, <3>2 DEF Lose
  <2> QED
    BY <2>1, <2>2, <2>3, <2>4 DEF OwnInv, Own
<1>5. CASE UNCHANGED splitVars
  <2>1. UNCHANGED <<next, splitId, network, splitPackets, assembled, overlapped>>
    BY <1>5 DEF splitVars
  <2>2. Abroad' = Abroad /\ UnderWay' = UnderWay
    BY <2>1 DEF Abroad, Elements, UnderWay
  <2>3. (\A f \in Abroad : Cut(f))'
    BY <1>0, <2>1, <2>2 DEF Cut
  <2>4. ~overlapped => OneOwner'
    BY <1>00, <2>1, <2>2 DEF OneOwner
  <2>5. \A k \in 1 .. Len(assembled) : Own(assembled[k])' <=> Own(assembled[k])
    BY <2>1 DEF Own
  <2>6. ~overlapped' => OneOwner' /\ (\A k \in 1 .. Len(assembled) : Own(assembled[k]))'
    BY <1>00, <2>1, <2>4, <2>5
  <2> QED
    BY <2>3, <2>6 DEF OwnInv
<1> QED
  BY <1>1, <1>2, <1>3, <1>4, <1>5 DEF SplitNext

LEMMA InitOwn == SplitInit => SplitTypeInv /\ OwnInv
<1> SUFFICES ASSUME SplitInit PROVE SplitTypeInv /\ OwnInv
  OBVIOUS
<1>1. SplitTypeInv
  BY InitType
<1>2. /\ network = <<>> /\ splitPackets = <<>> /\ assembled = <<>> /\ \A p \in Packets : next[p] = 0
  BY DEF SplitInit
<1>3. Elements(network) = {} /\ DOMAIN splitPackets = {} /\ Len(assembled) = 0
  BY <1>2, EmptyIs DEF Elements
<1>4. Abroad = {}
  BY <1>3 DEF Abroad
<1>5. UnderWay = {}
  BY <1>2 DEF UnderWay
<1> QED
  BY <1>1, <1>3, <1>4, <1>5 DEF OwnInv, OneOwner

\* Large messages that do not overlap are never mixed: what handleSplit puts
\* together is of one message, each index once.
THEOREM OwnCorrect == SplitSpec => []OwnFragments
<1>1. SplitInit => SplitTypeInv /\ OwnInv
  BY InitOwn
<1>2. OwnInv => OwnFragments
  BY DEF OwnInv, OwnFragments, Own
<1> QED
  BY <1>1, <1>2, SplitTypeStep, OwnStep, PTL DEF SplitSpec

-----------------------------------------------------------------------------
(* The original order.  Induction on the fragments of a message is avoided *)
(* by an invariant on any two of them: their indexes differ by at least as *)
(* much as their places.                                                   *)

\* One fragment was queued before the other.
Before(f, g) == f.id < g.id \/ (f.id = g.id /\ f.index < g.index)

Spread(fs) == \A i, j \in 1 .. Len(fs) : i <= j => fs[j].index >= fs[i].index + (j - i)

InOrder ==
    /\ \A i, j \in 1 .. Len(network) : i < j => Before(network[i], network[j])
    /\ \A id \in DOMAIN splitPackets : Spread(splitPackets[id])
    /\ \A f \in UNION {Elements(splitPackets[id]) : id \in DOMAIN splitPackets} :
          \A g \in Elements(network) : f.id = g.id => f.index < g.index
    /\ \A f \in Abroad : f.id = splitId => f.index < next[f.packet]
    /\ AssembledIsOriginal

SplitOrderInv == ~overlapped /\ ~reordered => InOrder

\* Taking one fragment away keeps the order of the others.
LEMMA StaysInOrder ==
    ASSUME SplitTypeOK, InOrder, NEW i \in 1 .. Len(network), network' = RemoveAt(network, i)
    PROVE  (\A j, k \in 1 .. Len(network) : j < k => Before(network[j], network[k]))'
<1>1. /\ Len(network) \in Nat /\ Len(network') = Len(network) - 1
      /\ \A j \in 1 .. Len(network) - 1 : network'[j] = IF j < i THEN network[j] ELSE network[j + 1]
  BY RemoveAtElements, LenProperties DEF SplitTypeOK
<1> SUFFICES ASSUME NEW j \in 1 .. Len(network'), NEW k \in 1 .. Len(network'), j < k
             PROVE  Before(network'[j], network'[k])
  BY DEF Before
<1> DEFINE jj == IF j < i THEN j ELSE j + 1
           kk == IF k < i THEN k ELSE k + 1
<1>2. /\ jj \in 1 .. Len(network) /\ kk \in 1 .. Len(network) /\ jj < kk
      /\ network'[j] = network[jj] /\ network'[k] = network[kk]
  BY <1>1
<1> HIDE DEF jj, kk
<1> QED
  BY <1>2 DEF InOrder

\* A fragment that comes after those held is put last.
LEMMA StoredInOrder ==
    ASSUME NEW f \in Fragments, Held(f.id) \in Seq(Fragments), Spread(Held(f.id)),
           \A g \in Elements(Held(f.id)) : g.index < f.index
    PROVE  Spread(Stored(f))
<1> DEFINE held == Held(f.id)
           new == Append(held, f)
<1>1. {i \in 1 .. Len(held) : held[i].index = f.index} = {}
  <2> SUFFICES ASSUME NEW i \in 1 .. Len(held) PROVE held[i].index # f.index
    OBVIOUS
  <2>1. held[i] \in Fragments /\ held[i].index < f.index
    BY ElementOfSeq DEF Elements
  <2> QED
    BY <2>1 DEF Fragments
<1>2. Stored(f) = new
  BY <1>1 DEF Stored
<1> HIDE DEF held
<1>3. /\ Len(held) \in Nat /\ Len(new) = Len(held) + 1
      /\ \A i \in 1 .. Len(held) : new[i] = held[i] /\ held[i] \in Fragments
      /\ new[Len(held) + 1] = f
  BY AppendProperties, LenProperties, ElementOfSeq DEF held
<1>4. /\ \A i \in 1 .. Len(held) : held[i].index \in Nat /\ held[i].index < f.index
      /\ \A i, j \in 1 .. Len(held) : i <= j => held[j].index >= held[i].index + (j - i)
      /\ f.index \in Nat
  BY <1>3 DEF held, Elements, Spread, Fragments
<1> HIDE DEF new
<1>5. ASSUME NEW i \in 1 .. Len(held) + 1, NEW j \in 1 .. Len(held) + 1, i <= j
      PROVE  new[j].index >= new[i].index + (j - i)
  <2>1. CASE j \in 1 .. Len(held)
    <3>1. i \in 1 .. Len(held)
      BY <1>3, <1>5, <2>1
    <3> QED
      BY <1>3, <1>4, <1>5, <2>1, <3>1
  <2>2. CASE j = Len(held) + 1 /\ i = j
    BY <1>3, <1>4, <2>2
  <2>3. CASE j = Len(held) + 1 /\ i < j
    <3>1. i \in 1 .. Len(held) /\ Len(held) \in 1 .. Len(held) /\ i <= Len(held)
      BY <1>3, <2>3
    <3>2. /\ held[Len(held)].index >= held[i].index + (Len(held) - i)
          /\ held[Len(held)].index < f.index
          /\ held[Len(held)].index \in Nat /\ held[i].index \in Nat
      BY <1>4, <3>1
    <3>3. new[j].index = f.index /\ new[i].index = held[i].index
      BY <1>3, <2>3, <3>1
    <3> QED
      BY <1>3, <1>4, <2>3, <3>2, <3>3, SMTT(60)
  <2> QED
    BY <1>3, <1>5, <2>1, <2>2, <2>3
<1> QED
  BY <1>2, <1>3, <1>5 DEF Spread

LEMMA Squeezed ==
    ASSUME NEW n \in Nat, NEW i \in 1 .. n, NEW a \in 0 .. n - 1, NEW b \in 0 .. n - 1, NEW c \in 0 .. n - 1,
           b >= a + (i - 1), c >= b + (n - i)
    PROVE  b = i - 1
OBVIOUS

\* What is complete, of one message and in order is the original.
LEMMA CompleteIsOriginal ==
    ASSUME NEW fs \in Seq(Fragments), fs # <<>>, Spread(fs), NEW p \in Packets,
           \A f \in Elements(fs) : f.packet = p /\ f.index \in 0 .. Size[p] - 1,
           Len(fs) = Size[p]
    PROVE  IsOriginal(fs)
<1>1. Size[p] \in Nat \ {0}
  BY SplitAssumption
<1>2. \A i \in 1 .. Size[p] : fs[i].packet = p /\ fs[i].index \in 0 .. Size[p] - 1
  BY <1>1 DEF Elements
<1>3. \A i, j \in 1 .. Size[p] : i <= j => fs[j].index >= fs[i].index + (j - i)
  BY DEF Spread
<1>4. ASSUME NEW i \in 1 .. Size[p]
      PROVE  fs[i].index = i - 1
  <2>1. 1 \in 1 .. Size[p] /\ Size[p] \in 1 .. Size[p]
    BY <1>1
  <2>2. /\ fs[1].index \in 0 .. Size[p] - 1 /\ fs[i].index \in 0 .. Size[p] - 1
        /\ fs[Size[p]].index \in 0 .. Size[p] - 1
    BY <1>2, <2>1
  <2>3. fs[i].index >= fs[1].index + (i - 1) /\ fs[Size[p]].index >= fs[i].index + (Size[p] - i)
    BY <1>1, <1>3, <2>1
  <2> QED
    BY <1>1, <2>2, <2>3, Squeezed
<1>5. fs[1].packet = p
  BY <1>1, <1>2
<1> QED
  BY <1>1, <1>2, <1>4, <1>5 DEF IsOriginal

LEMMA SplitOrderStep ==
    SplitTypeInv /\ OwnInv /\ SplitOrderInv /\ [SplitNext]_splitVars => SplitOrderInv'
<1> SUFFICES ASSUME SplitTypeInv, OwnInv, SplitOrderInv, [SplitNext]_splitVars, ~overlapped', ~reordered'
             PROVE  InOrder'
  BY DEF SplitOrderInv
<1>0. /\ SplitTypeOK /\ \A p \in Packets : Size[p] \in Nat \ {0} /\ next[p] \in Nat
      /\ next \in [Packets -> Nat] /\ splitId \in Nat
      /\ network \in Seq(Fragments) /\ Len(network) \in Nat
      /\ \A f \in Abroad : f \in Fragments /\ Cut(f)
      /\ \A f \in Abroad : f.id \in Nat /\ f.index \in Nat /\ f.packet \in Packets
  BY SplitAssumption, AbroadType, LenProperties DEF SplitTypeInv, SplitTypeOK, OwnInv, Fragments
<1>1. ~overlapped /\ ~reordered
  <2>1. ASSUME NEW p \in Packets, StartSplit(p) \/ QueueFragment(p) \/ FinishSplit(p)
        PROVE  ~overlapped /\ ~reordered
    <3>1. /\ reordered' = reordered
          /\ overlapped' = overlapped \/ overlapped' = (overlapped \/ UnderWay # {})
      BY <2>1 DEF StartSplit, QueueFragment, FinishSplit
    <3>2. ~overlapped
      BY <3>1
    <3> QED
      BY <3>1, <3>2
  <2>2. ASSUME NEW i \in 1 .. Len(network), HandleSplit(i) \/ Lose(i)
        PROVE  ~overlapped /\ ~reordered
    <3>1. /\ overlapped' = overlapped
          /\ reordered' = reordered \/ reordered' = (reordered \/ i # 1)
      BY <2>2 DEF HandleSplit, Lose
    <3>2. ~reordered
      BY <3>1
    <3> QED
      BY <3>1, <3>2
  <2>3. CASE UNCHANGED splitVars
    BY <2>3 DEF splitVars
  <2> QED
    BY <2>1, <2>2, <2>3 DEF SplitNext
<1>2. InOrder /\ OneOwner
  BY <1>1 DEF SplitOrderInv, OwnInv
<1>3. ASSUME NEW p \in Packets, NEW i \in Nat, i < Size[p], next[p] = i,
             network' = Append(network, Fragment(p, i)), UNCHANGED <<splitId, splitPackets, assembled>>,
             next' = [next EXCEPT ![p] = i + 1],
             \A f \in Abroad : f.id = splitId => f.packet = p
      PROVE  InOrder'
  <2> DEFINE new == Fragment(p, i)
  <2>1. new \in Fragments /\ new.id = splitId /\ new.index = i /\ new.packet = p
    BY <1>0, <1>3, FragmentType DEF Fragment
  <2> HIDE DEF new
  <2>2. /\ Len(network') = Len(network) + 1
        /\ \A j \in 1 .. Len(network) : network'[j] = network[j] /\ network[j] \in Abroad
        /\ network'[Len(network) + 1] = new
    BY <1>0, <1>3, <2>1, AppendProperties DEF new, Abroad, Elements
  <2>3. \A f \in Abroad : Before(f, new)
    <3> SUFFICES ASSUME NEW f \in Abroad PROVE Before(f, new)
      OBVIOUS
    <3>1. f.id <= splitId /\ f.id \in Nat
      BY <1>0 DEF Cut
    <3>2. f.id = splitId => f.index < i
      BY <1>2, <1>3 DEF InOrder
    <3> QED
      BY <1>0, <2>1, <3>1, <3>2 DEF Before
  <2>4. ASSUME NEW j \in 1 .. Len(network'), NEW k \in 1 .. Len(network'), j < k
        PROVE  Before(network'[j], network'[k])
    <3>1. CASE k = Len(network) + 1
      BY <1>0, <2>2, <2>3, <2>4, <3>1
    <3>2. CASE k \in 1 .. Len(network)
      <4>1. j \in 1 .. Len(network)
        BY <1>0, <2>4, <3>2
      <4> QED
        BY <1>2, <2>2, <2>4, <3>2, <4>1 DEF InOrder
    <3>3. Len(network) \in Nat /\ k \in 1 .. Len(network) + 1
      BY <1>0, <2>2
    <3> QED
      BY <3>1, <3>2, <3>3
  <2>5. Elements(network') = Elements(network) \cup {new} /\ Abroad' = Abroad \cup {new}
    <3>1. Elements(network') = Elements(network) \cup {new}
      BY <1>0, <1>3, <2>1, AppendElements DEF new
    <3>2. \A f \in Abroad : Cut(f)
      BY <1>0
    <3> QED
      BY <1>0, <1>3, <3>1, <3>2, Queued DEF new
  <2>6. ASSUME NEW f \in UNION {Elements(splitPackets[id]) : id \in DOMAIN splitPackets},
               NEW g \in Elements(network'), f.id = g.id
        PROVE  f.index < g.index
    <3>1. f \in Abroad
      BY <2>6 DEF Abroad
    <3>2. CASE g = new
      BY <1>0, <2>3, <2>6, <3>1, <3>2 DEF Before
    <3>3. CASE g \in Elements(network)
      BY <1>2, <2>6, <3>3 DEF InOrder
    <3> QED
      BY <2>5, <2>6, <3>2, <3>3
  <2>7. \A f \in Abroad' : f.id = splitId => f.index < next'[f.packet]
    <3> SUFFICES ASSUME NEW f \in Abroad', f.id = splitId PROVE f.index < next'[f.packet]
      OBVIOUS
    <3>1. next'[p] = i + 1
      BY <1>0, <1>3
    <3>2. CASE f = new
      BY <1>0, <1>3, <2>1, <3>1, <3>2
    <3>3. CASE f \in Abroad
      <4>1. f.packet = p /\ f.index < i /\ f.index \in Nat
        BY <1>0, <1>2, <1>3, <3>3 DEF InOrder
      <4> QED
        BY <1>3, <3>1, <4>1
    <3> QED
      BY <2>5, <3>2, <3>3
  <2>8. (\A id \in DOMAIN splitPackets : Spread(splitPackets[id]))' /\ AssembledIsOriginal'
    BY <1>2, <1>3 DEF InOrder, Spread, AssembledIsOriginal, IsOriginal
  <2>9. (\A f \in UNION {Elements(splitPackets[id]) : id \in DOMAIN splitPackets} :
           \A g \in Elements(network) : f.id = g.id => f.index < g.index)'
    BY <1>3, <2>6 DEF Elements
  <2>10. (\A j, k \in 1 .. Len(network) : j < k => Before(network[j], network[k]))'
    BY <2>4 DEF Before
  <2>11. (\A f \in Abroad : f.id = splitId => f.index < next[f.packet])'
    BY <1>3, <2>7
  <2> QED
    BY <2>8, <2>9, <2>10, <2>11 DEF InOrder
<1>4. ASSUME NEW p \in Packets, StartSplit(p) PROVE InOrder'
  <2>1. UnderWay = {} /\ next[p] = 0
    BY <1>4 DEF StartSplit
  <2>2. \A f \in Abroad : f.id = splitId => f.packet = p
    BY <1>2, <2>1 DEF OneOwner
  <2>3. 0 \in Nat /\ 0 < Size[p] /\ network' = Append(network, Fragment(p, 0))
        /\ UNCHANGED <<splitId, splitPackets, assembled>> /\ next' = [next EXCEPT ![p] = 0 + 1]
    BY <1>0, <1>4 DEF StartSplit
  <2> QED
    BY <1>3, <2>1, <2>2, <2>3
<1>5. ASSUME NEW p \in Packets, QueueFragment(p) PROVE InOrder'
  <2>1. next[p] \in 1 .. Size[p] - 1 /\ network' = Append(network, Fragment(p, next[p]))
        /\ UNCHANGED <<splitId, splitPackets, assembled>> /\ next' = [next EXCEPT ![p] = next[p] + 1]
    BY <1>5 DEF QueueFragment
  <2>2. p \in UnderWay
    BY <1>0, <2>1 DEF UnderWay
  <2>3. \A f \in Abroad : f.id = splitId => f.packet = p
    BY <1>2, <2>2 DEF OneOwner
  <2>4. next[p] \in Nat /\ next[p] < Size[p]
    BY <1>0, <2>1
  <2> QED
    BY <1>3, <2>1, <2>3, <2>4
<1>6. ASSUME NEW p \in Packets, FinishSplit(p) PROVE InOrder'
  <2>1. splitId' = splitId + 1 /\ UNCHANGED <<network, splitPackets, assembled>>
    BY <1>6 DEF FinishSplit, SplitIdAfter
  <2>2. Abroad' = Abroad
    BY <2>1 DEF Abroad, Elements
  <2>3. \A f \in Abroad : f.id # splitId'
    BY <1>0, <2>1 DEF Cut
  <2>4. (\A f \in Abroad : f.id = splitId => f.index < next[f.packet])'
    BY <2>2, <2>3
  <2> QED
    BY <1>2, <2>1, <2>4, SMTT(60) DEF InOrder, Before, Spread, AssembledIsOriginal, IsOriginal, Elements
<1>7. ASSUME NEW i \in 1 .. Len(network), HandleSplit(i) PROVE InOrder'
  <2> DEFINE f == network[i]
             fs == Stored(f)
  <2>1. i = 1
    BY <1>7 DEF HandleSplit
  <2>2. /\ f \in Fragments /\ f \in Elements(network) /\ f \in Abroad
        /\ network' = RemoveAt(network, i)
        /\ fs \in Seq(Fragments) /\ fs # <<>> /\ Distinct(fs)
        /\ Elements(fs) \subseteq Elements(Held(f.id)) \cup {f}
        /\ UNCHANGED <<next, splitId>>
    BY <1>7, HandleSplitIs DEF Abroad
  <2>3. /\ Held(f.id) \in Seq(Fragments)
        /\ \A g \in Elements(Held(f.id)) : g.id = f.id /\ f.id \in DOMAIN splitPackets
    BY HeldIs
  <2>4. /\ Spread(Held(f.id)) /\ \A g \in Elements(Held(f.id)) : g \in Abroad /\ g.index < f.index
    <3>1. CASE f.id \in DOMAIN splitPackets
      <4>1. Held(f.id) = splitPackets[f.id]
        BY <3>1 DEF Held
      <4> QED
        BY <1>2, <2>2, <2>3, <3>1, <4>1 DEF InOrder, Abroad
    <3>2. CASE f.id \notin DOMAIN splitPackets
      <4>1. Held(f.id) = <<>> /\ Len(<<>>) = 0
        BY <3>2, EmptyIs DEF Held
      <4> QED
        BY <4>1 DEF Spread, Elements
    <3> QED
      BY <3>1, <3>2
  <2>5. Spread(fs)
    BY <2>2, <2>3, <2>4, StoredInOrder
  <2>6. /\ Len(network') = Len(network) - 1
        /\ \A j \in 1 .. Len(network) - 1 : network'[j] = network[j + 1]
    <3>1. /\ Len(RemoveAt(network, i)) = Len(network) - 1
          /\ \A j \in 1 .. Len(network) - 1 :
                RemoveAt(network, i)[j] = IF j < i THEN network[j] ELSE network[j + 1]
      BY <1>0, RemoveAtElements
    <3>2. network' = RemoveAt(network, i)
      BY <2>2
    <3> HIDE DEF f, fs
    <3>3. \A j \in 1 .. Len(network) - 1 : ~(j < i)
      BY <1>0, <2>1
    <3> QED
      BY <3>1, <3>2, <3>3
  <2>7. \A g \in Elements(network') : g \in Elements(network) /\ (f.id = g.id => f.index < g.index)
    <3> SUFFICES ASSUME NEW j \in 1 .. Len(network')
                 PROVE  network'[j] \in Elements(network)
                        /\ (f.id = network'[j].id => f.index < network'[j].index)
      BY DEF Elements
    <3>1. j + 1 \in 1 .. Len(network) /\ 1 < j + 1 /\ network'[j] = network[j + 1]
      BY <1>0, <2>6
    <3>2. Before(network[1], network[j + 1])
      BY <1>2, <2>1, <3>1 DEF InOrder
    <3>3. network[j + 1] \in Abroad
      BY <3>1 DEF Abroad, Elements
    <3> QED
      BY <1>0, <2>1, <2>2, <3>1, <3>2, <3>3 DEF Before, Elements
  <2>8. (\A j, k \in 1 .. Len(network) : j < k => Before(network[j], network[k]))'
    BY <1>0, <1>2, <2>2, StaysInOrder
  <2>9. \/ /\ Len(fs) = f.count /\ assembled' = Append(assembled, fs) /\ splitPackets' = Forget(f.id)
        \/ splitPackets' = SetHeld(f.id, fs) /\ UNCHANGED assembled
    BY <1>7, HandleSplitIs
  <2>10. \A g \in Elements(fs) : g \in Abroad /\ g.id = f.id
    BY <2>2, <2>3, <2>4
  <2> HIDE DEF f, fs
  <2>11. \A id \in DOMAIN splitPackets' :
            \/ id = f.id /\ splitPackets'[id] = fs
            \/ id \in DOMAIN splitPackets /\ splitPackets'[id] = splitPackets[id]
    BY <2>9 DEF Forget, SetHeld
  <2>12. (\A id \in DOMAIN splitPackets : Spread(splitPackets[id]))'
    <3>1. \A id \in DOMAIN splitPackets' : Spread(splitPackets'[id])
      BY <1>2, <2>5, <2>11 DEF InOrder
    <3> QED
      BY <3>1 DEF Spread
  <2>13. (\A g \in UNION {Elements(splitPackets[id]) : id \in DOMAIN splitPackets} :
             \A h \in Elements(network) : g.id = h.id => g.index < h.index)'
    <3> SUFFICES ASSUME NEW id \in DOMAIN splitPackets', NEW g \in Elements(splitPackets'[id]),
                        NEW h \in Elements(network'), g.id = h.id
                 PROVE  g.index < h.index
      BY DEF Elements
    <3>1. CASE id = f.id /\ splitPackets'[id] = fs
      <4>1. h \in Elements(network) /\ (f.id = h.id => f.index < h.index)
        BY <2>7
      <4>2. CASE g = f
        BY <4>1, <4>2
      <4>3. CASE g \in Elements(Held(f.id))
        <5>1. f.id \in DOMAIN splitPackets /\ Held(f.id) = splitPackets[f.id]
          BY <2>3, <4>3 DEF Held
        <5> QED
          BY <1>2, <4>1, <4>3, <5>1 DEF InOrder
      <4> QED
        BY <2>2, <3>1, <4>2, <4>3
    <3>2. CASE id \in DOMAIN splitPackets /\ splitPackets'[id] = splitPackets[id]
      BY <1>2, <2>7, <3>2 DEF InOrder
    <3> QED
      BY <2>11, <3>1, <3>2
  <2>14. (\A g \in Abroad : g.id = splitId => g.index < next[g.packet])'
    <3>1. Abroad' \subseteq Abroad
      BY <1>7, NothingNew
    <3> QED
      BY <1>2, <2>2, <3>1 DEF InOrder
  <2>15. AssembledIsOriginal'
    <3>1. CASE UNCHANGED assembled
      BY <1>2, <3>1 DEF InOrder, AssembledIsOriginal, IsOriginal
    <3>2. CASE Len(fs) = f.count /\ assembled' = Append(assembled, fs)
      <4>1. \A g \in Elements(fs) : g.packet = f.packet /\ Cut(g)
        BY <1>0, <1>2, <2>2, <2>10 DEF OneOwner
      <4>2. f.packet \in Packets /\ f.count = Size[f.packet]
        BY <1>0, <2>2 DEF Cut
      <4>3. \A g \in Elements(fs) : g.packet = f.packet /\ g.index \in 0 .. Size[f.packet] - 1
        BY <4>1 DEF Cut
      <4>4. IsOriginal(fs)
        BY <2>2, <2>5, <3>2, <4>2, <4>3, CompleteIsOriginal
      <4>5. assembled \in Seq(Seq(Fragments)) /\ Len(assembled) \in Nat
        BY <1>0, LenProperties DEF SplitTypeOK
      <4>6. /\ Len(assembled') = Len(assembled) + 1
            /\ \A j \in 1 .. Len(assembled) : assembled'[j] = assembled[j]
            /\ assembled'[Len(assembled) + 1] = fs
        BY <2>2, <3>2, <4>5, AppendProperties
      <4>7. ASSUME NEW k \in 1 .. Len(assembled') PROVE IsOriginal(assembled'[k])
        <5>1. k \in 1 .. Len(assembled) \/ k = Len(assembled) + 1
          BY <4>5, <4>6
        <5> QED
          BY <1>2, <4>4, <4>6, <5>1 DEF InOrder, AssembledIsOriginal
      <4> QED
        BY <4>7 DEF AssembledIsOriginal, IsOriginal
    <3> QED
      BY <2>9, <3>1, <3>2
  <2> QED
    BY <2>8, <2>12, <2>13, <2>14, <2>15 DEF InOrder
<1>8. ASSUME NEW i \in 1 .. Len(network), Lose(i) PROVE InOrder'
  <2>1. network' = RemoveAt(network, i) /\ UNCHANGED <<next, splitId, splitPackets, assembled>>
    BY <1>8 DEF Lose
  <2>2. (\A j, k \in 1 .. Len(network) : j < k => Before(network[j], network[k]))'
    BY <1>0, <1>2, <2>1, StaysInOrder
  <2>3. Abroad' \subseteq Abroad /\ Elements(network') \subseteq Elements(network)
    BY <1>0, <1>8, <2>1, NothingNew, RemoveAtElements
  <2>4. (\A f \in Abroad : f.id = splitId => f.index < next[f.packet])'
    BY <1>2, <2>1, <2>3 DEF InOrder
  <2>5. (\A id \in DOMAIN splitPackets : Spread(splitPackets[id]))' /\ AssembledIsOriginal'
    BY <1>2, <2>1 DEF InOrder, Spread, AssembledIsOriginal, IsOriginal
  <2>6. \A f \in UNION {Elements(splitPackets[id]) : id \in DOMAIN splitPackets} :
            \A g \in Elements(network') : f.id = g.id => f.index < g.index
    BY <1>2, <2>3 DEF InOrder
  <2>7. (\A f \in UNION {Elements(splitPackets[id]) : id \in DOMAIN splitPackets} :
            \A g \in Elements(network) : f.id = g.id => f.index < g.index)'
    BY <2>1, <2>6 DEF Elements
  <2> QED
    BY <2>2, <2>4, <2>5, <2>7 DEF InOrder
<1>9. CASE UNCHANGED splitVars
  <2>1. UNCHANGED <<next, splitId, network, splitPackets, assembled>>
    BY <1>9 DEF splitVars
  <2>2. Abroad' = Abroad
    BY <2>1 DEF Abroad, Elements
  <2> QED
    BY <1>2, <2>1, <2>2, SMTT(60) DEF InOrder, Before, Spread, Elements, AssembledIsOriginal, IsOriginal
<1> QED
  BY <1>4, <1>5, <1>6, <1>7, <1>8, <1>9 DEF SplitNext

\* A network that keeps the order of the fragments of messages sent one at a time
\* brings the originals, however many fragments it loses.
THEOREM OriginalCorrect == SplitSpec => []OriginalWhenOrdered
<1>1. SplitInit => SplitTypeInv /\ OwnInv /\ SplitOrderInv
  <2> SUFFICES ASSUME SplitInit PROVE SplitOrderInv
    BY InitType, InitOwn
  <2>1. network = <<>> /\ splitPackets = <<>> /\ assembled = <<>>
    BY DEF SplitInit
  <2>2. Elements(network) = {} /\ Len(network) = 0 /\ DOMAIN splitPackets = {} /\ Len(assembled) = 0
    BY <2>1, EmptyIs DEF Elements
  <2>3. Abroad = {}
    BY <2>2 DEF Abroad
  <2> QED
    BY <2>2, <2>3 DEF SplitOrderInv, InOrder, AssembledIsOriginal
<1>2. SplitOrderInv => OriginalWhenOrdered
  BY DEF SplitOrderInv, InOrder, OriginalWhenOrdered
<1> QED
  BY <1>1, <1>2, SplitTypeStep, OwnStep, SplitOrderStep, PTL DEF SplitSpec

-----------------------------------------------------------------------------
(* The listener and its sessions.                                          *)

\* A connection that does not exist yet will start as connecting.
FreshConnecting == \A c \in Conns : c > Len(tokenOf) => state[c] = "connecting"

\* What the refinement needs of a state.
MapInv == TypeOK /\ ConnectionAtOwnAddress /\ FreshConnecting

-----------------------------------------------------------------------------

\* A call of removeConnection keeps the types.
LEMMA StartRemovalTypes ==
    ASSUME TypeOK, NEW r \in Removals, NEW c \in Created, StartRemoval(r, c)
    PROVE  /\ removals' \in [Removals -> [conn : Created \cup {None}]]
           /\ emitted' \in Events
<1>1. tokenOf[c] \in Tokens
  BY DEF TypeOK, Created
<1> QED
  BY <1>1 DEF TypeOK, StartRemoval, Events, Event, NoEvent

\* Receive marks the connection and keeps the rest.
LEMMA ReceiveTypes ==
    ASSUME TypeOK, NEW t \in Tokens, Receive(t)
    PROVE  /\ active' \in [Conns -> BOOLEAN] /\ late' \in [Conns -> BOOLEAN]
           /\ packets' \in 0 .. MaxPackets
           /\ connections[t] \in Created /\ connections[t] \in Conns
           /\ UNCHANGED <<connections, tokenOf, kill>>
  BY ListenerAssumption DEF TypeOK, Receive, Packet, Created, Conns

\* Every variable keeps its type.
LEMMA TypeStep == TypeOK /\ [Next]_vars => TypeOK'
<1> SUFFICES ASSUME TypeOK, [Next]_vars PROVE TypeOK'
  OBVIOUS
<1> USE ListenerAssumption
<1>0. Created \subseteq Conns /\ Len(tokenOf) \in Nat
  BY DEF TypeOK, Created, Conns
<1>e. /\ NoEvent \in Events
      /\ \A t \in Tokens : /\ Event("open", t) \in Events
                           /\ Event("close", t) \in Events
                           /\ Event("encapsulated", t) \in Events
  BY DEF Events
<1>1. ASSUME NEW t \in Tokens, HandleOpenConnectionRequest2(t) PROVE TypeOK'
  <2>1. tokenOf' \in Seq(Tokens) /\ Len(tokenOf') = Len(tokenOf) + 1
    BY <1>1 DEF HandleOpenConnectionRequest2, TypeOK
  <2>2. Created \subseteq Created' /\ NextConn \in Created' /\ Len(tokenOf') <= MaxConn
    BY <1>0, <1>1, <2>1 DEF HandleOpenConnectionRequest2, Created, NextConn
  <2>3. connections' \in [Tokens -> Created' \cup {None}]
    BY <1>1, <2>2 DEF HandleOpenConnectionRequest2, TypeOK
  <2>4. packets' \in 0 .. MaxPackets
    BY <1>1 DEF HandleOpenConnectionRequest2, Packet, TypeOK
  <2>5. deferred' \subseteq Created' /\ removals' \in [Removals -> [conn : Created' \cup {None}]]
    BY <1>1, <2>2 DEF HandleOpenConnectionRequest2, TypeOK
  <2> QED
    BY <1>1, <1>e, <2>1, <2>2, <2>3, <2>4, <2>5 DEF HandleOpenConnectionRequest2, TypeOK
<1>2. ASSUME NEW t \in Tokens,
             ReceiveOther(t) \/ ReceiveGameData(t) \/ ReceivePingThenDisconnect(t)
      PROVE  TypeOK'
  <2>1. Receive(t)
    BY <1>2 DEF ReceiveOther, ReceiveGameData, ReceivePingThenDisconnect
  <2>2. emitted' \in Events /\ UNCHANGED <<state, removals>>
    BY <1>2, <1>e DEF ReceiveOther, ReceiveGameData, ReceivePingThenDisconnect
  <2>3. deferred' \subseteq Created
    BY <1>2, <2>1, ReceiveTypes
       DEF ReceiveOther, ReceiveGameData, ReceivePingThenDisconnect, TypeOK
  <2> QED
    BY <2>1, <2>2, <2>3, ReceiveTypes DEF TypeOK, Created
<1>3. ASSUME NEW t \in Tokens, ReceiveNewIncomingConnection(t) PROVE TypeOK'
  <2>1. Receive(t) /\ UNCHANGED <<deferred, removals>>
    BY <1>3 DEF ReceiveNewIncomingConnection
  <2>2. emitted' \in Events /\ state' \in [Conns -> {"connecting", "connected"}]
    BY <1>3, <1>e DEF ReceiveNewIncomingConnection, TypeOK
  <2> QED
    BY <2>1, <2>2, ReceiveTypes DEF TypeOK, Created
<1>4. ASSUME NEW t \in Tokens, NEW r \in Removals, ReceiveDisconnectNotification(t, r)
      PROVE  TypeOK'
  <2>1. /\ Receive(t) /\ StartRemoval(r, connections[t])
        /\ UNCHANGED <<state, deferred>>
    BY <1>4 DEF ReceiveDisconnectNotification
  <2>2. connections[t] \in Created
    BY <2>1, ReceiveTypes
  <2> QED
    BY <2>1, <2>2, ReceiveTypes, StartRemovalTypes DEF TypeOK, Created
<1>5. ASSUME NEW t \in Tokens, NEW r \in Removals, UpdateTimesOut(t, r) PROVE TypeOK'
  <2>1. connections[t] \in Created /\ StartRemoval(r, connections[t])
    BY <1>5 DEF UpdateTimesOut, TypeOK
  <2> QED
    BY <1>5, <2>1, StartRemovalTypes DEF UpdateTimesOut, conns, TypeOK, Created
<1>6. ASSUME NEW t \in Tokens, UpdateInTime(t) PROVE TypeOK'
  BY <1>6, <1>e DEF UpdateInTime, ActiveReset, TypeOK, Created
<1>7. ASSUME NEW r \in Removals, FinishRemoval(r) PROVE TypeOK'
  <2>1. tokenOf[removals[r].conn] \in Tokens
    <3>1. removals[r] \in [conn : Created \cup {None}] /\ removals[r] # [conn |-> None]
      BY <1>7 DEF FinishRemoval, TypeOK, NoRemoval
    <3>2. removals[r].conn \in Created
      BY <3>1
    <3> QED
      BY <3>2 DEF TypeOK, Created
  <2> QED
    BY <1>7, <1>e, <2>1 DEF FinishRemoval, ConnectionsWithout, conns, NoRemoval, TypeOK, Created
<1>8. ASSUME NEW r \in Removals, NEW c \in deferred, ResumeDisconnect(c, r) PROVE TypeOK'
  <2>1. c \in Created /\ StartRemoval(r, c)
    BY <1>8 DEF ResumeDisconnect, TypeOK
  <2> QED
    BY <1>8, <2>1, StartRemovalTypes DEF ResumeDisconnect, TypeOK, Created
<1>9. ASSUME NEW c \in Conns, TimePasses(c) PROVE TypeOK'
  BY <1>9, <1>e DEF TimePasses, TypeOK, Created
<1>10. CASE Kill \/ KillEnds
  BY <1>10, <1>e DEF Kill, KillEnds, conns, TypeOK, Created
<1>11. CASE UNCHANGED vars
  BY <1>11 DEF vars, conns, TypeOK, Created
<1> QED
  BY <1>1, <1>2, <1>3, <1>4, <1>5, <1>6, <1>7, <1>8, <1>9, <1>10, <1>11
     DEF Next, FromClient, Timer

\* The variables of the listener keep their types.
THEOREM TypeCorrect == Spec => []TypeOK
<1>1. Init => TypeOK
  BY ListenerAssumption DEF Init, TypeOK, Created, NoRemoval, Events
<1> QED
  BY <1>1, TypeStep, PTL DEF Spec

-----------------------------------------------------------------------------

\* The steps that neither create nor remove a connection, nor open a session.
Quiet == UNCHANGED <<connections, tokenOf, state>>

\* Which action is which, for the map.
LEMMA StepKinds ==
    ASSUME TypeOK, [Next]_vars
    PROVE  \/ \E t \in Tokens : HandleOpenConnectionRequest2(t)
           \/ \E t \in Tokens : ReceiveNewIncomingConnection(t)
           \/ \E r \in Removals : FinishRemoval(r)
           \/ Quiet
<1> USE DEF Quiet
<1>1. ASSUME NEW t \in Tokens, NEW r \in Removals, ReceiveDisconnectNotification(t, r)
      PROVE  Quiet
  BY <1>1 DEF ReceiveDisconnectNotification, Receive
<1>2. ASSUME NEW t \in Tokens, ReceiveOther(t) \/ ReceiveGameData(t) \/ ReceivePingThenDisconnect(t)
      PROVE  Quiet
  BY <1>2 DEF ReceiveOther, ReceiveGameData, ReceivePingThenDisconnect, Receive
<1>3. ASSUME NEW t \in Tokens, UpdateInTime(t) PROVE Quiet
  BY <1>3 DEF UpdateInTime
<1>4. ASSUME NEW t \in Tokens, NEW r \in Removals, UpdateTimesOut(t, r) PROVE Quiet
  BY <1>4 DEF UpdateTimesOut, conns
<1>5. ASSUME NEW c \in deferred, NEW r \in Removals, ResumeDisconnect(c, r) PROVE Quiet
  BY <1>5 DEF ResumeDisconnect
<1>6. ASSUME NEW c \in Conns, TimePasses(c) PROVE Quiet
  BY <1>6 DEF TimePasses
<1>7. CASE Kill \/ KillEnds \/ UNCHANGED vars
  BY <1>7 DEF Kill, KillEnds, conns, vars
<1> QED
  BY <1>1, <1>2, <1>3, <1>4, <1>5, <1>6, <1>7 DEF Next, FromClient, Timer

\* The map stays consistent.
LEMMA MapStep == MapInv /\ [Next]_vars => ConnectionAtOwnAddress' /\ FreshConnecting'
<1> SUFFICES ASSUME MapInv, [Next]_vars
             PROVE  ConnectionAtOwnAddress' /\ FreshConnecting'
  OBVIOUS
<1> USE ListenerAssumption
<1>0. TypeOK
  BY DEF MapInv
<1>1. ASSUME NEW t \in Tokens, HandleOpenConnectionRequest2(t)
      PROVE  ConnectionAtOwnAddress' /\ FreshConnecting'
  <2>1. /\ Len(tokenOf') = Len(tokenOf) + 1
        /\ tokenOf'[NextConn] = t
        /\ \A c \in Created : tokenOf'[c] = tokenOf[c]
    BY <1>0, <1>1 DEF HandleOpenConnectionRequest2, NextConn, Created, TypeOK
  <2>2. FreshConnecting'
    BY <1>0, <1>1, <2>1 DEF HandleOpenConnectionRequest2, MapInv, FreshConnecting, Conns, TypeOK
  <2>3. ConnectionAtOwnAddress'
    <3> SUFFICES ASSUME NEW s \in Tokens, connections'[s] # None
                 PROVE  tokenOf'[connections'[s]] = s
      BY DEF ConnectionAtOwnAddress
    <3>1. CASE s = t
      BY <1>0, <1>1, <2>1, <3>1 DEF HandleOpenConnectionRequest2, TypeOK
    <3>2. CASE s # t
      <4>1. connections'[s] = connections[s] /\ connections[s] \in Created
        BY <1>0, <1>1, <3>2 DEF HandleOpenConnectionRequest2, TypeOK
      <4> QED
        BY <2>1, <4>1 DEF MapInv, ConnectionAtOwnAddress
    <3> QED
      BY <3>1, <3>2
  <2> QED
    BY <2>2, <2>3
<1>2. ASSUME NEW t \in Tokens, ReceiveNewIncomingConnection(t)
      PROVE  ConnectionAtOwnAddress' /\ FreshConnecting'
  <2>1. connections[t] \in Created /\ UNCHANGED <<connections, tokenOf>>
    BY <1>0, <1>2, ReceiveTypes DEF ReceiveNewIncomingConnection
  <2>2. \/ state' = [state EXCEPT ![connections[t]] = "connected"]
        \/ state' = state
    BY <1>2 DEF ReceiveNewIncomingConnection
  <2> QED
    BY <1>0, <2>1, <2>2
       DEF MapInv, ConnectionAtOwnAddress, FreshConnecting, Created, Conns, TypeOK
<1>3. ASSUME NEW r \in Removals, FinishRemoval(r)
      PROVE  ConnectionAtOwnAddress' /\ FreshConnecting'
  BY <1>0, <1>3 DEF FinishRemoval, ConnectionsWithout, conns, MapInv, ConnectionAtOwnAddress,
                    FreshConnecting, TypeOK
<1>4. CASE Quiet
  BY <1>4 DEF Quiet, MapInv, ConnectionAtOwnAddress, FreshConnecting
<1> QED
  BY <1>0, <1>1, <1>2, <1>3, <1>4, StepKinds

\* The connection at an address was made for it, whatever clients send and
\* however many removals wait.
THEOREM MapCorrect == Spec => []ConnectionAtOwnAddress
<1>1. Init => MapInv
  BY ListenerAssumption DEF Init, MapInv, TypeOK, Created, NoRemoval, Events, ConnectionAtOwnAddress,
                            FreshConnecting
<1>2. MapInv /\ [Next]_vars => MapInv'
  BY TypeStep, MapStep DEF MapInv
<1>3. MapInv => ConnectionAtOwnAddress
  BY DEF MapInv
<1> QED
  BY <1>1, <1>2, <1>3, PTL DEF Spec

-----------------------------------------------------------------------------
(* The refinement: every step is one of SessionEvents.                     *)

\* A step that keeps map and states keeps the open sessions.
LEMMA QuietKeepsOpen == Quiet => Open' = Open
  BY DEF Quiet, Open

\* The events of the listener are the events of the abstract specification.
LEMMA SameEvents ==
    /\ NoEvent = Sessions!NoEvent
    /\ \A type, t : Event(type, t) = Sessions!Event(type, t)
  BY DEF NoEvent, Event, Sessions!NoEvent, Sessions!Event

\* A removal that starts emits a close or nothing, and opens nothing.
LEMMA StartRemovalImplements ==
    ASSUME TypeOK, NEW r \in Removals, NEW c \in Created, StartRemoval(r, c), Quiet
    PROVE  Sessions!Next
<1>1. tokenOf[c] \in Tokens
  BY DEF TypeOK, Created
<1>2. Open' = Open
  BY QuietKeepsOpen
<1>3. CASE emitted' = NoEvent
  BY <1>2, <1>3, SameEvents DEF Sessions!Next, Sessions!Silence
<1>4. CASE connections[tokenOf[c]] = None /\ emitted' = Event("close", tokenOf[c])
  <2>1. tokenOf[c] \notin Open
    BY <1>4 DEF Open
  <2>2. Sessions!CloseSession(tokenOf[c])
    BY <1>2, <1>4, <2>1, SameEvents DEF Sessions!CloseSession
  <2> QED
    BY <1>1, <2>2 DEF Sessions!Next
<1> QED
  BY <1>3, <1>4 DEF StartRemoval

\* Every step of the listener is a step of SessionEvents.
LEMMA StepImplements == MapInv /\ [Next]_vars => [Sessions!Next]_<<Open, emitted>>
<1> SUFFICES ASSUME MapInv, [Next]_vars PROVE [Sessions!Next]_<<Open, emitted>>
  OBVIOUS
<1> USE ListenerAssumption
<1>0. TypeOK
  BY DEF MapInv
<1>s. Open' = Open /\ emitted' = NoEvent => Sessions!Next
  BY SameEvents DEF Sessions!Next, Sessions!Silence
<1>1. ASSUME NEW t \in Tokens, HandleOpenConnectionRequest2(t) PROVE Sessions!Next
  <2>1. state[NextConn] = "connecting"
    BY <1>0, <1>1 DEF HandleOpenConnectionRequest2, MapInv, FreshConnecting, NextConn, Conns, TypeOK
  <2>2. Open' = Open
    BY <1>0, <1>1, <2>1 DEF HandleOpenConnectionRequest2, Open, TypeOK
  <2> QED
    BY <1>1, <1>s, <2>2 DEF HandleOpenConnectionRequest2
<1>2. ASSUME NEW t \in Tokens, ReceiveNewIncomingConnection(t) PROVE Sessions!Next
  <2> DEFINE c == connections[t]
  <2>1. /\ c \in Created /\ c \in Conns /\ c # None
        /\ UNCHANGED <<connections, tokenOf>>
    BY <1>0, <1>2, ReceiveTypes DEF ReceiveNewIncomingConnection, Receive
  <2>2. CASE /\ Opens(c)
             /\ state' = [state EXCEPT ![c] = "connected"]
             /\ emitted' = Event("open", t)
    <3>1. t \notin Open
      BY <2>2 DEF Opens, Open
    <3>2. ASSUME NEW s \in Tokens, s # t, connections[s] # None PROVE connections[s] # c
      BY <2>1, <3>2 DEF MapInv, ConnectionAtOwnAddress
    <3>3. \A s \in Tokens : s # t => (s \in Open' <=> s \in Open)
      BY <1>0, <2>1, <2>2, <3>2 DEF Open, TypeOK
    <3>4. t \in Open'
      BY <1>0, <2>1, <2>2 DEF Open, TypeOK
    <3>5. Open' = Open \cup {t}
      BY <3>3, <3>4 DEF Open
    <3>6. Sessions!OpenSession(t)
      BY <2>2, <3>1, <3>5, SameEvents DEF Sessions!OpenSession
    <3> QED
      BY <3>6 DEF Sessions!Next
  <2>3. CASE emitted' = NoEvent /\ UNCHANGED state
    BY <1>s, <2>1, <2>3 DEF Open
  <2> QED
    BY <1>2, <2>2, <2>3 DEF ReceiveNewIncomingConnection
<1>3. ASSUME NEW r \in Removals, FinishRemoval(r) PROVE Sessions!Next
  <2> DEFINE t == tokenOf[removals[r].conn]
  <2>1. t \in Tokens
    <3>1. removals[r] \in [conn : Created \cup {None}] /\ removals[r] # [conn |-> None]
      BY <1>0, <1>3 DEF FinishRemoval, TypeOK, NoRemoval
    <3>2. removals[r].conn \in Created
      BY <3>1
    <3> QED
      BY <1>0, <3>2 DEF TypeOK, Created
  <2>2. /\ connections' = [connections EXCEPT ![t] = None]
        /\ emitted' = Event("close", t)
        /\ state' = state
    BY <1>3 DEF FinishRemoval, ConnectionsWithout, conns
  <2>3. Open' = Open \ {t}
    BY <1>0, <2>1, <2>2 DEF Open, TypeOK
  <2>4. Sessions!CloseSession(t)
    BY <2>2, <2>3, SameEvents DEF Sessions!CloseSession
  <2> QED
    BY <2>1, <2>4 DEF Sessions!Next
<1>4. ASSUME NEW t \in Tokens, ReceiveOther(t) \/ ReceivePingThenDisconnect(t) PROVE Sessions!Next
  <2>1. Quiet /\ emitted' = NoEvent
    BY <1>4 DEF ReceiveOther, ReceivePingThenDisconnect, Receive, Quiet
  <2> QED
    BY <1>s, <2>1, QuietKeepsOpen
<1>5. ASSUME NEW t \in Tokens, ReceiveGameData(t) PROVE Sessions!Next
  <2>1. Quiet /\ emitted' = Event("encapsulated", t) /\ t \in Open
    BY <1>5 DEF ReceiveGameData, Receive, Delivers, Quiet, Open
  <2>2. Sessions!Deliver(t)
    BY <2>1, QuietKeepsOpen, SameEvents DEF Sessions!Deliver
  <2> QED
    BY <2>2 DEF Sessions!Next
<1>6. ASSUME NEW t \in Tokens, NEW r \in Removals,
             ReceiveDisconnectNotification(t, r) \/ UpdateTimesOut(t, r)
      PROVE  Sessions!Next
  <2>1. connections[t] \in Created /\ StartRemoval(r, connections[t]) /\ Quiet
    BY <1>0, <1>6 DEF ReceiveDisconnectNotification, UpdateTimesOut, Receive, conns, Quiet, TypeOK
  <2> QED
    BY <1>0, <2>1, StartRemovalImplements
<1>7. ASSUME NEW c \in deferred, NEW r \in Removals, ResumeDisconnect(c, r) PROVE Sessions!Next
  <2>1. c \in Created /\ StartRemoval(r, c) /\ Quiet
    BY <1>0, <1>7 DEF ResumeDisconnect, Quiet, TypeOK
  <2> QED
    BY <1>0, <2>1, StartRemovalImplements
<1>8. ASSUME NEW t \in Tokens, UpdateInTime(t) PROVE Sessions!Next
  <2>1. Quiet /\ emitted' = NoEvent
    BY <1>8 DEF UpdateInTime, Quiet
  <2> QED
    BY <1>s, <2>1, QuietKeepsOpen
<1>11. ASSUME NEW c \in Conns, TimePasses(c) PROVE Sessions!Next
  <2>1. Quiet /\ emitted' = NoEvent
    BY <1>11 DEF TimePasses, Quiet
  <2> QED
    BY <1>s, <2>1, QuietKeepsOpen
<1>9. CASE Kill \/ KillEnds
  <2>1. Quiet /\ emitted' = NoEvent
    BY <1>9 DEF Kill, KillEnds, conns, Quiet
  <2> QED
    BY <1>s, <2>1, QuietKeepsOpen
<1>10. CASE UNCHANGED vars
  BY <1>10 DEF vars, conns, Open
<1> QED
  BY <1>1, <1>2, <1>3, <1>4, <1>5, <1>6, <1>7, <1>8, <1>9, <1>10, <1>11 DEF Next, FromClient, Timer

\* The server is told of sessions in order: an address opens once, delivers
\* only while it is open, and each of its ends is told (SessionEvents).
THEOREM ListenerImplementsSessions == Spec => ImplementsSessions
<1>1. Init => MapInv
  BY ListenerAssumption DEF Init, MapInv, TypeOK, Created, NoRemoval, Events, ConnectionAtOwnAddress,
                            FreshConnecting
<1>2. MapInv /\ [Next]_vars => MapInv'
  BY TypeStep, MapStep DEF MapInv
<1>3. Init => Sessions!Init
  BY SameEvents DEF Init, Open, Sessions!Init
<1> QED
  BY <1>1, <1>2, <1>3, StepImplements, PTL DEF Spec, ImplementsSessions, Sessions!Spec

=============================================================================
