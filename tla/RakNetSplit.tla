------------------------------ MODULE RakNetSplit ------------------------------
(***************************************************************************)
(* Fragmentation and reassembly of messages larger than the MTU:           *)
(* Connection.addEncapsulatedToQueue at one end and handleSplit at the     *)
(* other (packages/raknet/src/Connection.ts).                              *)
(*                                                                         *)
(* The sender hands fragments to addToQueue one by one and awaits each, so *)
(* the calls for two large messages may interleave.  A fragment is on its  *)
(* way as soon as it is built, as with IMMEDIATE priority; a NORMAL one    *)
(* waits in a queue first, which a slow network covers.  The network       *)
(* delivers every fragment at most once (duplicates are dropped by         *)
(* sequence number), in order or not.                                      *)
(***************************************************************************)
EXTENDS Integers, Sequences, SequencesExt

CONSTANTS Packets,     (* the large messages to send                         *)
          Size,        (* how many fragments each is cut into                *)
          Reliable     (* those sent with a reliable reliability             *)

ASSUME SplitAssumption ==
    /\ Size \in [Packets -> Nat \ {0}]
    /\ Reliable \subseteq Packets

VARIABLES
    next,               (* fragments queued so far; Size + 1: call over      *)
    splitId,            (* the counter of the sender                         *)
    sendReliableIndex,  (* the next reliable message index                   *)
    network,            (* fragments on their way, in the order sent         *)
    splitPackets,       (* splitId -> fragments in the order they came       *)
    assembled,          (* history: the messages put together, in order      *)
    overlapped,         (* history: two calls were under way at a time       *)
    reordered           (* history: a fragment overtook another              *)

splitVars == <<next, splitId, sendReliableIndex, network, splitPackets, assembled,
               overlapped, reordered>>

\* A fragment: the id and the count the receiver goes by, and what it is of.
Fragments == [id : Nat, count : Nat, index : Nat, packet : Packets]

SplitTypeOK ==
    /\ next \in [Packets -> Nat]
    /\ \A p \in Packets : next[p] <= Size[p] + 1
    /\ splitId \in Nat
    /\ sendReliableIndex \in Nat
    /\ network \in Seq(Fragments)
    /\ \A id \in DOMAIN splitPackets : splitPackets[id] \in Seq(Fragments)
    /\ assembled \in Seq(Seq(Fragments))
    /\ overlapped \in BOOLEAN
    /\ reordered \in BOOLEAN

SplitInit ==
    /\ next = [p \in Packets |-> 0]
    /\ splitId = 0
    /\ sendReliableIndex = 0
    /\ network = <<>>
    /\ splitPackets = <<>>
    /\ assembled = <<>>
    /\ overlapped = FALSE
    /\ reordered = FALSE

-----------------------------------------------------------------------------
(* The sender.                                                             *)

\* The calls that await addToQueue: each has queued next[p] fragments.
UnderWay == {p \in Packets : next[p] \in 1 .. Size[p]}

\* A fragment carries the splitId of the moment it is built.
Fragment(p, i) == [id |-> splitId, count |-> Size[p], index |-> i, packet |-> p]

\* addEncapsulatedToQueue up to its first await: a reliable message takes an
\* index, which its fragments do not use, and the first fragment is queued.
StartSplit(p) ==
    /\ next[p] = 0
    /\ next' = [next EXCEPT ![p] = 1]
    /\ network' = Append(network, Fragment(p, 0))
    /\ sendReliableIndex' = sendReliableIndex + (IF p \in Reliable THEN 1 ELSE 0)
    /\ overlapped' = (overlapped \/ UnderWay # {})
    /\ UNCHANGED <<splitId, splitPackets, assembled, reordered>>

\* The loop goes on after an await.  Every fragment but the first takes a
\* reliable index, whatever the reliability.
QueueFragment(p) ==
    /\ next[p] \in 1 .. Size[p] - 1
    /\ next' = [next EXCEPT ![p] = @ + 1]
    /\ network' = Append(network, Fragment(p, next[p]))
    /\ sendReliableIndex' = sendReliableIndex + 1
    /\ UNCHANGED <<splitId, splitPackets, assembled, overlapped, reordered>>

\* Seeded fault: the counter stays where it is.
SplitIdSame == splitId

SplitIdAfter == splitId + 1

\* The last await is over.
FinishSplit(p) ==
    /\ next[p] = Size[p]
    /\ next' = [next EXCEPT ![p] = @ + 1]
    /\ splitId' = SplitIdAfter
    /\ UNCHANGED <<sendReliableIndex, network, splitPackets, assembled, overlapped,
                   reordered>>

-----------------------------------------------------------------------------
(* The receiver.                                                           *)

Held(id) == IF id \in DOMAIN splitPackets THEN splitPackets[id] ELSE <<>>

\* Seeded fault: the fragment that came last is put first.
StoredFirst(f) == <<f>> \o Held(f.id)

\* Map.set: a fragment with an index already there takes its place, a new one
\* comes last.
Stored(f) ==
    LET held == Held(f.id)
        same == {i \in 1 .. Len(held) : held[i].index = f.index}
    IN  IF same = {} THEN Append(held, f)
        ELSE [i \in 1 .. Len(held) |-> IF i \in same THEN f ELSE held[i]]

\* As many fragments as the one that just came says.
Complete(f) == Len(Stored(f)) = f.count

SetHeld(id, fs) == [i \in DOMAIN splitPackets \cup {id} |->
                       IF i = id THEN fs ELSE splitPackets[i]]

Forget(id) == [i \in DOMAIN splitPackets \ {id} |-> splitPackets[i]]

HandleSplit(i) ==
    LET f == network[i]
    IN  /\ network' = RemoveAt(network, i)
        /\ reordered' = (reordered \/ i # 1)
        /\ \/ /\ Complete(f)
              /\ assembled' = Append(assembled, Stored(f))
              /\ splitPackets' = Forget(f.id)
           \/ /\ ~Complete(f)
              /\ splitPackets' = SetHeld(f.id, Stored(f))
              /\ UNCHANGED assembled
        /\ UNCHANGED <<next, splitId, sendReliableIndex, overlapped>>

\* A datagram is lost with its fragment, and server packets are unreliable.
Lose(i) ==
    /\ network' = RemoveAt(network, i)
    /\ UNCHANGED <<next, splitId, sendReliableIndex, splitPackets, assembled,
                   overlapped, reordered>>

SplitNext ==
    \/ \E p \in Packets : StartSplit(p) \/ QueueFragment(p) \/ FinishSplit(p)
    \/ \E i \in 1 .. Len(network) : HandleSplit(i) \/ Lose(i)

SplitSpec == SplitInit /\ [][SplitNext]_splitVars

-----------------------------------------------------------------------------
(* Properties.                                                             *)

\* The fragments of one message, all of them, in the order they were cut.
IsOriginal(fs) ==
    /\ fs # <<>>
    /\ Len(fs) = Size[fs[1].packet]
    /\ \A i \in 1 .. Len(fs) : fs[i].packet = fs[1].packet /\ fs[i].index = i - 1

\* What is put together is one of the messages sent.
AssembledIsOriginal == \A k \in 1 .. Len(assembled) : IsOriginal(assembled[k])

\* So it is as long as large messages were sent one at a time and the network
\* kept their order, however many fragments it lost.
OriginalWhenOrdered == ~overlapped /\ ~reordered => AssembledIsOriginal

\* Whatever the order, a message sent alone is put together from fragments of
\* its own, each index once: a counter shared by all messages tells them apart.
OwnFragments ==
    ~overlapped =>
        \A k \in 1 .. Len(assembled) :
            LET fs == assembled[k]
            IN  /\ {fs[i].packet : i \in 1 .. Len(fs)} = {fs[1].packet}
                /\ {fs[i].index : i \in 1 .. Len(fs)} = 0 .. Size[fs[1].packet] - 1

=============================================================================
