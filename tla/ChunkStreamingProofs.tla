-------------------------- MODULE ChunkStreamingProofs --------------------------
(***************************************************************************)
(* What ChunkStreaming guarantees for any cells, worlds, view distances    *)
(* and numbers of moves.                                                   *)
(***************************************************************************)
EXTENDS ChunkStreaming, SequenceTheorems, TLAPS

\* A chunk that is added to the queue is in it, and nothing leaves it.
LEMMA WithProperties ==
    ASSUME NEW q \in Seq(Chunks), NEW chunk \in Chunks
    PROVE  /\ With(q, chunk) \in Seq(Chunks)
           /\ \E i \in DOMAIN With(q, chunk) : With(q, chunk)[i] = chunk
           /\ \A j \in DOMAIN q : \E i \in DOMAIN With(q, chunk) : With(q, chunk)[i] = q[j]
<1>1. CASE Contains(q, chunk)
  BY <1>1 DEF With, Contains
<1>2. CASE ~Contains(q, chunk)
  <2>1. With(q, chunk) = Append(q, chunk)
    BY <1>2 DEF With
  <2>2. /\ Append(q, chunk) \in Seq(Chunks) /\ Len(Append(q, chunk)) = Len(q) + 1
        /\ DOMAIN Append(q, chunk) = 1 .. Len(q) + 1 /\ DOMAIN q = 1 .. Len(q)
        /\ Append(q, chunk)[Len(q) + 1] = chunk
        /\ \A j \in 1 .. Len(q) : Append(q, chunk)[j] = q[j]
    OBVIOUS
  <2> QED
    BY <2>1, <2>2
<1> QED
  BY <1>1, <1>2

\* A chunk that is taken out of the queue leaves the others in it.
LEMMA WithoutProperties ==
    ASSUME NEW q \in Seq(Chunks), NEW chunk
    PROVE  /\ Without(q, chunk) \in Seq(Chunks)
           /\ \A j \in DOMAIN q : q[j] # chunk =>
                  \E i \in DOMAIN Without(q, chunk) : Without(q, chunk)[i] = q[j]
<1>1. CASE ~Contains(q, chunk)
  BY <1>1 DEF Without
<1>2. CASE Contains(q, chunk)
  <2> DEFINE k == CHOOSE i \in 1 .. Len(q) : q[i] = chunk
             before == SubSeq(q, 1, k - 1)
             after == SubSeq(q, k + 1, Len(q))
  <2>1. k \in 1 .. Len(q) /\ q[k] = chunk
    BY <1>2 DEF Contains
  <2>2. Without(q, chunk) = before \o after
    BY <1>2 DEF Without, RemoveAt
  <2> HIDE DEF k
  <2>3. before \in Seq(Chunks) /\ Len(before) = k - 1 /\ \A j \in 1 .. k - 1 : before[j] = q[j]
    BY <2>1
  <2>4. /\ after \in Seq(Chunks) /\ Len(after) = Len(q) - k
        /\ \A j \in 1 .. Len(q) - k : after[j] = q[k + j]
    BY <2>1
  <2> HIDE DEF before, after
  <2>5. /\ before \o after \in Seq(Chunks) /\ Len(before \o after) = Len(q) - 1
        /\ \A j \in 1 .. k - 1 : (before \o after)[j] = q[j]
        /\ \A j \in k .. Len(q) - 1 : (before \o after)[j] = q[j + 1]
    <3>1. before \o after \in Seq(Chunks) /\ Len(before \o after) = Len(q) - 1
      <4>1. before \o after \in Seq(Chunks) /\ Len(before \o after) = Len(before) + Len(after)
        BY <2>3, <2>4, ConcatProperties
      <4>2. Len(q) \in Nat /\ k \in Int
        BY <2>1
      <4> QED
        BY <2>3, <2>4, <4>1, <4>2
    <3>2. ASSUME NEW j \in 1 .. k - 1 PROVE (before \o after)[j] = q[j]
      BY <2>1, <2>3, <2>4, <3>2, ConcatProperties
    <3>3. ASSUME NEW j \in k .. Len(q) - 1 PROVE (before \o after)[j] = q[j + 1]
      <4>1. j - (k - 1) \in 1 .. Len(q) - k
        BY <2>1, <3>3
      <4>2. after[j - (k - 1)] = q[k + (j - (k - 1))]
        BY <2>4, <4>1
      <4> QED
        <5>1. \A i \in 1 .. Len(before) + Len(after) :
                  (before \o after)[i] = IF i <= Len(before) THEN before[i] ELSE after[i - Len(before)]
          BY <2>3, <2>4, ConcatProperties
        <5>2. j \in 1 .. Len(before) + Len(after) /\ ~(j <= Len(before)) /\ j - Len(before) = j - (k - 1)
          BY <2>1, <2>3, <2>4, <3>3
        <5>3. (before \o after)[j] = after[j - (k - 1)]
          BY <5>1, <5>2, Zenon
        <5>4. k + (j - (k - 1)) = j + 1
          BY <2>1, <3>3
        <5> QED
          BY <4>2, <5>3, <5>4
    <3> QED
      BY <3>1, <3>2, <3>3
  <2>6. ASSUME NEW j \in DOMAIN q, q[j] # chunk
        PROVE  \E i \in DOMAIN (before \o after) : (before \o after)[i] = q[j]
    <3>1. DOMAIN (before \o after) = 1 .. Len(q) - 1
      BY <2>5
    <3>2. CASE j < k
      <4>1. j \in 1 .. k - 1 /\ j \in 1 .. Len(q) - 1
        BY <2>1, <2>6, <3>2
      <4>2. (before \o after)[j] = q[j]
        BY <2>5, <4>1
      <4> QED
        BY <3>1, <4>1, <4>2
    <3>3. CASE j > k
      <4>1. j - 1 \in k .. Len(q) - 1
        BY <2>1, <2>6, <3>3
      <4>2. (before \o after)[j - 1] = q[j] /\ j - 1 \in 1 .. Len(q) - 1
        BY <2>1, <2>5, <4>1
      <4> QED
        BY <3>1, <4>2
    <3> QED
      BY <2>1, <2>6, <3>2, <3>3
  <2> QED
    BY <2>2, <2>5, <2>6
<1> QED
  BY <1>1, <1>2

\* The first chunk of the queue leaves it alone.
LEMMA TailProperties ==
    ASSUME NEW q \in Seq(Chunks), q # <<>>
    PROVE  /\ Head(q) \in Chunks /\ Tail(q) \in Seq(Chunks)
           /\ \A j \in DOMAIN q : q[j] # Head(q) =>
                  \E i \in DOMAIN Tail(q) : Tail(q)[i] = q[j]
<1>1. /\ Head(q) \in Chunks /\ Head(q) = q[1] /\ Tail(q) \in Seq(Chunks)
      /\ DOMAIN Tail(q) = 1 .. Len(q) - 1
      /\ \A i \in 1 .. Len(q) - 1 : Tail(q)[i] = q[i + 1]
  BY HeadTailProperties
<1>2. ASSUME NEW j \in DOMAIN q, q[j] # Head(q)
      PROVE  \E i \in DOMAIN Tail(q) : Tail(q)[i] = q[j]
  <2>1. j - 1 \in 1 .. Len(q) - 1
    BY <1>1, <1>2
  <2> QED
    BY <1>1, <2>1
<1> QED
  BY <1>1, <1>2

-----------------------------------------------------------------------------
(* Types                                                                   *)

\* A step that sends or asks for nothing new.
LEMMA FrameType ==
    ASSUME TypeOK, place' \in Cells, world' \in Worlds, radius' \in Distances,
           loaded' \subseteq Cells, loading' \subseteq Cells, late' \subseteq Cells,
           ticking' \in {"idle", "queue", "walk"}, moves' \in 0 .. MaxMoves,
           change' \in {"no", "blank", "clear", "walk", "enable"},
           walks' \in [{"tick", "change"} -> Walks],
           client' \in [Cells -> Worlds \cup {"nothing", "blank"}],
           UNCHANGED <<queue, sending>>
    PROVE  TypeOK'
BY DEF TypeOK

\* A walk begins with cells that are in view.
LEMMA WalkType == ASSUME TypeOK, NEW known PROVE Walk(known) \in Walks
BY DEF TypeOK, Walk, Walks, InView

\* The steps of the queue.
LEMMA QueueType == TypeOK /\ (SendNext \/ ChunkSent) => TypeOK'
<1> SUFFICES ASSUME TypeOK, SendNext \/ ChunkSent PROVE TypeOK'
  OBVIOUS
<1>1. CASE SendNext
  <2>1. queue \in Seq(Chunks) /\ queue # <<>>
    BY <1>1 DEF SendNext, TypeOK
  <2>2. Head(queue) \in Chunks /\ Tail(queue) \in Seq(Chunks)
    BY <2>1, TailProperties
  <2>3. sending' \in Chunks /\ queue' \in Seq(Chunks)
    BY <1>1, <2>1, <2>2 DEF SendNext
  <2>4. Head(queue)[1] \in Worlds /\ CellOf(Head(queue)) \in Cells
    BY <2>2 DEF Chunks, CellOf
  <2>5. client' \in [Cells -> Worlds \cup {"nothing", "blank"}]
    BY <1>1, <2>4 DEF SendNext, TypeOK
  <2> QED
    BY <1>1, <2>3, <2>5 DEF SendNext, TypeOK
<1>2. CASE ChunkSent
  <2>1. sending \in Chunks /\ CellOf(sending) \in Cells
    BY <1>2 DEF ChunkSent, TypeOK, Chunks, CellOf
  <2>2. queue' \in Seq(Chunks)
    BY <1>2, WithoutProperties DEF ChunkSent, TypeOK
  <2> QED
    BY <1>2, <2>1, <2>2 DEF ChunkSent, Sent, TypeOK
<1> QED
  BY <1>1, <1>2

\* The steps of the two walks.
LEMMA WalksType ==
    \A w \in {"tick", "change"} : TypeOK /\ (Ask(w) \/ Arrive(w) \/ EndWalk(w)) => TypeOK'
<1> SUFFICES ASSUME NEW w \in {"tick", "change"}, TypeOK, Ask(w) \/ Arrive(w) \/ EndWalk(w)
             PROVE  TypeOK'
  OBVIOUS
<1>0. walks[w] \in Walks
  BY DEF TypeOK
<1>1. CASE Ask(w)
  <2>1. PICK c \in walks[w].left :
            /\ loading' = loading \cup {c}
            /\ walks' = [walks EXCEPT ![w].asked = ChunkAt(world, c), ![w].left = @ \ {c}]
    BY <1>1 DEF Ask
  <2>2. c \in Cells /\ ChunkAt(world, c) \in Chunks /\ walks[w].left \ {c} \in SUBSET Cells
    BY <1>0 DEF TypeOK, Walks, ChunkAt, Chunks
  <2>3. walks' \in [{"tick", "change"} -> Walks]
    BY <1>0, <2>1, <2>2 DEF TypeOK, Walks
  <2>4. loading' \subseteq Cells
    BY <2>1, <2>2 DEF TypeOK
  <2> QED
    BY <1>1, <2>3, <2>4, FrameType DEF Ask, TypeOK
<1>2. CASE Arrive(w)
  <2>1. walks[w].asked \in Chunks
    BY <1>0, <1>2 DEF Arrive, Walks
  <2>2. queue' \in Seq(Chunks)
    BY <1>2, <2>1, WithProperties DEF Arrive, TypeOK
  <2>3. walks' \in [{"tick", "change"} -> Walks]
    BY <1>0, <1>2 DEF Arrive, TypeOK, Walks
  <2> QED
    BY <1>2, <2>2, <2>3 DEF Arrive, TypeOK
<1>3. CASE EndWalk(w)
  <2>1. NoWalk \in Walks
    BY StreamingAssumption DEF NoWalk, Walks, Distances
  <2>2. walks' \in [{"tick", "change"} -> Walks]
    BY <1>3, <2>1 DEF EndWalk, TypeOK
  <2>3. loaded' \subseteq Cells /\ loading' \subseteq Cells
    BY <1>3 DEF EndWalk, Kept, TypeOK
  <2>4. ticking' \in {"idle", "queue", "walk"}
        /\ change' \in {"no", "blank", "clear", "walk", "enable"}
    BY <1>3 DEF EndWalk, TypeOK
  <2>5. UNCHANGED <<place, world, radius, queue, sending, client, late, moves>>
    BY <1>3 DEF EndWalk
  <2> QED
    BY <2>2, <2>3, <2>4, <2>5 DEF TypeOK
<1> QED
  BY <1>1, <1>2, <1>3

\* The other steps of the server, and those of the client.
LEMMA OthersType ==
    TypeOK /\ (TickStarts \/ TickWalks \/ SendBlanks \/ ClearChunks \/ EnableInWorld \/ Client)
        => TypeOK'
<1> SUFFICES ASSUME TypeOK, TickStarts \/ TickWalks \/ SendBlanks \/ ClearChunks
                                \/ EnableInWorld \/ Client
             PROVE  TypeOK'
  OBVIOUS
<1>1. CASE TickStarts
  BY <1>1, FrameType DEF TickStarts, sets, TypeOK
<1>2. CASE TickWalks
  <2>1. walks' \in [{"tick", "change"} -> Walks]
    BY <1>2, WalkType DEF TickWalks, TypeOK
  <2> QED
    BY <1>2, <2>1, FrameType DEF TickWalks, sets, TypeOK
<1>3. CASE SendBlanks
  <2>1. client' \in [Cells -> Worlds \cup {"nothing", "blank"}]
    BY <1>3 DEF SendBlanks, TypeOK
  <2> QED
    BY <1>3, <2>1, FrameType DEF SendBlanks, sets, TypeOK
<1>4. CASE ClearChunks
  <2>1. walks' \in [{"tick", "change"} -> Walks]
    BY <1>4, WalkType DEF ClearChunks, TypeOK
  <2>2. \A i \in DOMAIN queue : CellOf(queue[i]) \in Cells
    BY DEF TypeOK, CellOf, Chunks
  <2>3. late' \subseteq Cells
    BY <1>4, <2>2 DEF ClearChunks, TypeOK
  <2>4. loaded' \subseteq Cells /\ loading' \subseteq Cells
    BY <1>4 DEF ClearChunks, Cleared
  <2> QED
    BY <1>4, <2>1, <2>3, <2>4, FrameType DEF ClearChunks, sets, TypeOK
<1>5. CASE EnableInWorld
  BY <1>5, FrameType DEF EnableInWorld, sets, TypeOK
<1>6. CASE Client
  <2>1. moves < MaxMoves => moves + 1 \in 0 .. MaxMoves
    BY StreamingAssumption DEF TypeOK
  <2>2. ASSUME NEW c \in Cells, Move(c) PROVE TypeOK'
    BY <2>1, <2>2, FrameType DEF Move, sets, TypeOK
  <2>3. ASSUME NEW r \in Radii, RequestChunkRadius(r) PROVE TypeOK'
    <3>1. radius' \in Distances
      BY <2>3 DEF RequestChunkRadius, Distances
    <3> QED
      BY <2>1, <2>3, <3>1, FrameType DEF RequestChunkRadius, sets, TypeOK
  <2>4. ASSUME NEW w \in Worlds, SetWorld(w) PROVE TypeOK'
    BY <2>1, <2>4, StreamingAssumption, FrameType DEF SetWorld, sets, TypeOK
  <2> QED
    BY <1>6, <2>2, <2>3, <2>4 DEF Client
<1> QED
  BY <1>1, <1>2, <1>3, <1>4, <1>5, <1>6

\* The queue holds chunks and the sets cells, whatever the player does.
THEOREM TypeCorrect == Spec => []TypeOK
<1>1. Init => TypeOK
  <2> SUFFICES ASSUME Init PROVE TypeOK
    OBVIOUS
  <2>1. NoWalk \in Walks
    BY StreamingAssumption DEF NoWalk, Walks, Distances
  <2>2. walks \in [{"tick", "change"} -> Walks] /\ client \in [Cells -> Worlds \cup {"nothing", "blank"}]
    BY <2>1 DEF Init
  <2> QED
    BY <2>2, StreamingAssumption DEF Init, Distances, TypeOK
<1>2. TypeOK /\ [Next]_vars => TypeOK'
  <2>1. TypeOK /\ UNCHANGED vars => TypeOK'
    BY DEF vars, sets, TypeOK
  <2> QED
    BY <2>1, QueueType, WalksType, OthersType DEF Next, Server
<1> QED
  BY <1>1, <1>2, PTL DEF Spec

-----------------------------------------------------------------------------
(* Loading is on its way                                                   *)

\* LoadingIsOnItsWay alone is not inductive: a walk that begins in place of one
\* that waits would forget the chunk that one waits for.  A tick walks once its
\* last walk is over.
TickWalksOnce == ticking # "walk" => ~walks["tick"].on /\ walks["tick"].asked = NoChunk

LEMMA TickWalksOnceStep == TypeOK /\ TickWalksOnce /\ [Next]_vars => TickWalksOnce'
<1> SUFFICES ASSUME TypeOK, TickWalksOnce, [Next]_vars PROVE TickWalksOnce'
  OBVIOUS
<1>1. CASE TickStarts \/ SendNext \/ ChunkSent \/ SendBlanks \/ EnableInWorld \/ UNCHANGED vars
  BY <1>1 DEF TickStarts, SendNext, ChunkSent, SendBlanks, EnableInWorld, vars, TickWalksOnce
<1>2. CASE TickWalks
  BY <1>2 DEF TickWalks, TickWalksOnce
<1>3. ASSUME NEW w \in {"tick", "change"}, Ask(w) \/ Arrive(w) \/ EndWalk(w) PROVE TickWalksOnce'
  <2>1. CASE w = "tick"
    <3>1. CASE Ask(w)
      BY <2>1, <3>1 DEF Ask, TickWalksOnce
    <3>2. CASE Arrive(w)
      BY <2>1, <3>2 DEF Arrive, TypeOK, Walks, TickWalksOnce
    <3>3. CASE EndWalk(w)
      BY <2>1, <3>3 DEF EndWalk, NoWalk, TypeOK, TickWalksOnce
    <3> QED
      BY <1>3, <3>1, <3>2, <3>3
  <2>2. CASE w = "change"
    <3>1. walks'["tick"] = walks["tick"] /\ ticking' = ticking
      BY <1>3, <2>2 DEF Ask, Arrive, EndWalk, TypeOK
    <3> QED
      BY <3>1 DEF TickWalksOnce
  <2> QED
    BY <2>1, <2>2
<1>4. CASE ClearChunks
  <2>1. walks'["tick"] = walks["tick"] /\ ticking' = ticking
    BY <1>4 DEF ClearChunks, TypeOK
  <2> QED
    BY <2>1 DEF TickWalksOnce
<1>5. CASE Client
  BY <1>5 DEF Client, Move, RequestChunkRadius, SetWorld, TickWalksOnce
<1> QED
  BY <1>1, <1>2, <1>3, <1>4, <1>5 DEF Next, Server

\* The three ways a cell may be on its way.
AskedFor(c) == \E w \in {"tick", "change"} : walks[w].asked # NoChunk /\ CellOf(walks[w].asked) = c
Queued(c) == \E i \in DOMAIN queue : CellOf(queue[i]) = c
BeingSent(c) == sending # NoChunk /\ CellOf(sending) = c

LEMMA OnItsWay ==
    LoadingIsOnItsWay <=> \A c \in loading : AskedFor(c) \/ Queued(c) \/ BeingSent(c)
BY DEF LoadingIsOnItsWay, AskedFor, Queued, BeingSent

\* A step that takes nothing off its way and loads nothing.
LEMMA FrameOnItsWay ==
    ASSUME LoadingIsOnItsWay, loading' \subseteq loading,
           \A c \in loading' : AskedFor(c) => AskedFor(c)',
           UNCHANGED <<queue, sending>>
    PROVE  LoadingIsOnItsWay'
BY DEF LoadingIsOnItsWay, AskedFor

LEMMA SendNextOnItsWay == ASSUME TypeOK, LoadingIsOnItsWay, SendNext PROVE LoadingIsOnItsWay'
<1> SUFFICES ASSUME NEW c \in loading
             PROVE  AskedFor(c)' \/ Queued(c)' \/ BeingSent(c)'
  BY DEF LoadingIsOnItsWay, AskedFor, Queued, BeingSent, SendNext
<1>1. AskedFor(c) \/ Queued(c)
  BY OnItsWay DEF BeingSent, SendNext
<1>2. CASE AskedFor(c)
  BY <1>2 DEF AskedFor, SendNext
<1>3. CASE Queued(c)
  <2>1. PICK j \in DOMAIN queue : CellOf(queue[j]) = c
    BY <1>3 DEF Queued
  <2>2. CASE CellOf(Head(queue)) \in loading
    BY <1>3, <2>2 DEF SendNext, Queued
  <2>3. CASE CellOf(Head(queue)) \notin loading
    <3>1. queue[j] # Head(queue)
      BY <2>1, <2>3
    <3>2. \E i \in DOMAIN Tail(queue) : Tail(queue)[i] = queue[j]
      BY <3>1, TailProperties DEF TypeOK, SendNext
    <3> QED
      BY <2>1, <2>3, <3>2 DEF SendNext, Queued
  <2> QED
    BY <2>2, <2>3
<1> QED
  BY <1>1, <1>2, <1>3

LEMMA ChunkSentOnItsWay == ASSUME TypeOK, LoadingIsOnItsWay, ChunkSent PROVE LoadingIsOnItsWay'
<1> SUFFICES ASSUME NEW c \in loading \ {CellOf(sending)}
             PROVE  AskedFor(c)' \/ Queued(c)'
  BY DEF LoadingIsOnItsWay, AskedFor, Queued, ChunkSent, Sent
<1>1. AskedFor(c) \/ Queued(c)
  BY OnItsWay DEF BeingSent
<1>2. CASE AskedFor(c)
  BY <1>2 DEF AskedFor, ChunkSent
<1>3. CASE Queued(c)
  <2>1. PICK j \in DOMAIN queue : CellOf(queue[j]) = c
    BY <1>3 DEF Queued
  <2>2. queue[j] # sending /\ queue \in Seq(Chunks)
    BY <2>1 DEF TypeOK
  <2>3. \E i \in DOMAIN Without(queue, sending) : Without(queue, sending)[i] = queue[j]
    BY <2>2, WithoutProperties
  <2> QED
    BY <2>1, <2>3 DEF ChunkSent, Queued
<1> QED
  BY <1>1, <1>2, <1>3

LEMMA AskOnItsWay ==
    ASSUME TypeOK, LoadingIsOnItsWay, NEW w \in {"tick", "change"}, Ask(w)
    PROVE  LoadingIsOnItsWay'
<1>1. PICK c \in walks[w].left :
          /\ loading' = loading \cup {c}
          /\ walks' = [walks EXCEPT ![w].asked = ChunkAt(world, c), ![w].left = @ \ {c}]
  BY DEF Ask
<1>2. walks'[w].asked = ChunkAt(world, c) /\ \A v \in {"tick", "change"} \ {w} : walks'[v] = walks[v]
  BY <1>1 DEF TypeOK, Walks
<1>3. ChunkAt(world, c) # NoChunk /\ CellOf(ChunkAt(world, c)) = c
  BY DEF ChunkAt, NoChunk, CellOf
<1>4. AskedFor(c)'
  BY <1>2, <1>3 DEF AskedFor
<1>5. \A d : AskedFor(d) => AskedFor(d)'
  BY <1>2 DEF AskedFor, Ask
<1>6. UNCHANGED <<queue, sending>>
  BY DEF Ask
<1> QED
  BY <1>1, <1>4, <1>5, <1>6 DEF LoadingIsOnItsWay, AskedFor

LEMMA ArriveOnItsWay ==
    ASSUME TypeOK, LoadingIsOnItsWay, NEW w \in {"tick", "change"}, Arrive(w)
    PROVE  LoadingIsOnItsWay'
<1>1. walks[w].asked \in Chunks /\ queue \in Seq(Chunks)
  BY DEF Arrive, TypeOK, Walks
<1>2. /\ \E i \in DOMAIN queue' : queue'[i] = walks[w].asked
      /\ \A j \in DOMAIN queue : \E i \in DOMAIN queue' : queue'[i] = queue[j]
  BY <1>1, WithProperties DEF Arrive
<1>3. \A v \in {"tick", "change"} \ {w} : walks'[v] = walks[v]
  BY DEF Arrive, TypeOK
<1>4. UNCHANGED <<loading, sending>>
  BY DEF Arrive
<1> SUFFICES ASSUME NEW c \in loading
             PROVE  AskedFor(c)' \/ Queued(c)' \/ BeingSent(c)'
  BY <1>4 DEF LoadingIsOnItsWay, AskedFor, Queued, BeingSent
<1>5. CASE AskedFor(c)
  <2>1. PICK v \in {"tick", "change"} : walks[v].asked # NoChunk /\ CellOf(walks[v].asked) = c
    BY <1>5 DEF AskedFor
  <2>2. CASE v = w
    BY <1>2, <2>1, <2>2 DEF Queued
  <2>3. CASE v # w
    BY <1>3, <2>1, <2>3 DEF AskedFor
  <2> QED
    BY <2>2, <2>3
<1>6. CASE Queued(c)
  BY <1>2, <1>6 DEF Queued
<1>7. CASE BeingSent(c)
  BY <1>4, <1>7 DEF BeingSent
<1> QED
  BY <1>5, <1>6, <1>7, OnItsWay

LEMMA EndWalkOnItsWay ==
    ASSUME TypeOK, LoadingIsOnItsWay, NEW w \in {"tick", "change"}, EndWalk(w)
    PROVE  LoadingIsOnItsWay'
<1>1. walks[w].asked = NoChunk /\ \A v \in {"tick", "change"} \ {w} : walks'[v] = walks[v]
  BY DEF EndWalk, TypeOK
<1>2. \A c : AskedFor(c) => AskedFor(c)'
  BY <1>1 DEF AskedFor
<1>3. loading' \subseteq loading /\ UNCHANGED <<queue, sending>>
  BY DEF EndWalk, Kept
<1> QED
  BY <1>2, <1>3, FrameOnItsWay

\* No chunk is ever left in loadingChunks with nobody to send it, whatever the
\* player does and however the tick and a change of world interleave.
THEOREM LoadingOnItsWay == Spec => []LoadingIsOnItsWay
<1>1. Init => LoadingIsOnItsWay
  BY DEF Init, LoadingIsOnItsWay
<1>2. TypeOK /\ TickWalksOnce /\ LoadingIsOnItsWay /\ [Next]_vars => LoadingIsOnItsWay'
  <2> SUFFICES ASSUME TypeOK, TickWalksOnce, LoadingIsOnItsWay, [Next]_vars
               PROVE  LoadingIsOnItsWay'
    OBVIOUS
  <2>1. CASE TickStarts \/ SendBlanks \/ EnableInWorld \/ UNCHANGED vars
    BY <2>1, FrameOnItsWay
       DEF TickStarts, SendBlanks, EnableInWorld, vars, sets, AskedFor
  <2>2. CASE Client
    BY <2>2, FrameOnItsWay DEF Client, Move, RequestChunkRadius, SetWorld, sets, AskedFor
  <2>3. CASE ClearChunks
    BY <2>3 DEF ClearChunks, LoadingIsOnItsWay
  <2>4. CASE TickWalks
    <3>1. UNCHANGED <<queue, loading, sending>>
      BY <2>4 DEF TickWalks, sets
    <3>2. walks'["change"] = walks["change"]
      BY <2>4 DEF TickWalks, TypeOK
    <3>3. walks["tick"].asked = NoChunk
      BY <2>4 DEF TickWalks, TickWalksOnce
    <3> QED
      BY <3>1, <3>2, <3>3, FrameOnItsWay DEF AskedFor
  <2> QED
    BY <2>1, <2>2, <2>3, <2>4, SendNextOnItsWay, ChunkSentOnItsWay, AskOnItsWay,
       ArriveOnItsWay, EndWalkOnItsWay DEF Next, Server
<1>3. Init => TickWalksOnce
  BY DEF Init, NoWalk, TickWalksOnce
<1> QED
  BY <1>1, <1>2, <1>3, TickWalksOnceStep, TypeCorrect, PTL DEF Spec

=============================================================================
