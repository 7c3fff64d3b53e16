------------------------------- MODULE MCCodecs -------------------------------
(***************************************************************************)
(* Every packet class in every variant with all, all but one or none of    *)
(* its fields zero and lists of up to two elements; trees of tags of depth *)
(* two, with all types of tags and of elements; chunks with palettes       *)
(* around every change of the word layout; lists of two commands; and      *)
(* every acknowledgement queue of MaxQueue numbers up to MaxNumber.        *)
(***************************************************************************)
EXTENDS AcknowledgeCodec, ChunkCodec, CommandCodec, NbtCodec, Codecs, TLC

\* Packets.  Fields(layout) are the calls with a name, those of list elements not
\* included.
Calls(layout) == {layout[i] : i \in DOMAIN layout}
Fields(layout) == {c \in Calls(layout) : c.name # ""}
Names(layout) == {c.name : c \in Fields(layout)}
AllCalls(class) ==
    LET layout == WriteLayout(class)
    IN  Calls(layout) \cup UNION {Calls(c.body) : c \in Calls(layout)}
AllNames(class) == {c.name : c \in AllCalls(class)} \ {""}

\* The fields that conditions are about, and the values they tell apart.
Guards(class) == UNION {c.guards : c \in AllCalls(class)}
Selectors(class) == {g.name : g \in Guards(class)}
Values(class, name) == {<<>>, <<name>>} \cup UNION {g.set : g \in {h \in Guards(class) : h.name = name}}

\* The value of a field: selected, zero, or a text of its own.
FieldValue(name, pick, zero, i) ==
    CASE name \in DOMAIN pick -> pick[name]
      [] name \in zero -> <<>>
      [] OTHER -> <<name, i>>

Scalar(names, pick, zero, i) == [name \in names |-> FieldValue(name, pick, zero, i)]

Sample(layout, pick, zero, n) ==
    LET lists == {c \in Fields(layout) : c.op = "each"}
        own == Scalar(Names(layout) \ {c.name : c \in lists}, pick, zero, 0)
        body(name) == (CHOOSE c \in lists : c.name = name).body
    IN  [name \in {c.name : c \in lists} |-> [k \in 1 .. n |-> Scalar(Names(body(name)), pick, zero, k) @@ own]] @@ own

Picks(class) == {f \in [Selectors(class) -> UNION {Values(class, s) : s \in Selectors(class)}] :
                    \A s \in Selectors(class) : f[s] \in Values(class, s)}

\* A datagram that is split has a count.
Zeros(class) ==
    LET all == AllNames(class)
    IN  {{}} \cup (IF class = "Encapsulated" THEN {{name} : name \in all \ {"splitCount"}} ELSE {all} \cup {{name} : name \in all})

MCPacketMessages ==
    UNION {{[class |-> class, fields |-> Sample(WriteLayout(class), pick, zero, n)] :
               pick \in Picks(class), zero \in Zeros(class),
               n \in IF \E c \in Calls(WriteLayout(class)) : c.op = "each" THEN 0 .. 2 ELSE {0}} :
           class \in Classes}

\* Trees of tags.
SomeArrays == {Tag("intArray", v) : v \in {<<>>, <<0>>, <<1>>, <<5, 6>>}}
Elements == {<<>>, <<Tag("intArray", <<>>)>>, <<Tag("intArray", <<1>>), Tag("intArray", <<5, 6>>)>>,
             <<Tag("byte", <<7>>)>>, <<Tag("intArray", <<>>), Tag("byteArray", <<3>>)>>, <<Container("compound", <<>>)>>}
Leaves ==
    {Tag(t, <<7>>) : t \in Scalars} \cup SomeArrays \cup {Tag("byteArray", v) : v \in {<<>>, <<3>>}}
        \cup {Container("list", [i \in DOMAIN e |-> Part("", e[i])]) : e \in Elements}
Inner == Leaves \cup {Container("compound", <<>>)} \cup {Container("compound", <<Part("x", t)>>) : t \in Leaves}
MCTrees ==
    {Container("compound", <<>>)} \cup {Container("compound", <<Part("x", t)>>) : t \in Inner}
        \cup {Container("compound", <<Part("x", t), Part("y", u)>>) : t, u \in Inner}
MCTags == MCTrees \cup Inner \cup UNION {{e[i] : i \in DOMAIN e} : e \in Elements}

\* Chunks: layers of a palette of n, above k empty sub-chunks.
Storage(n) == [palette |-> [i \in 1 .. n |-> 10 + i], blocks |-> [i \in 0 .. Blocks - 1 |-> (i + 1) % n]]
Above(k, layers) == [y \in 1 .. MAX_SUBCHUNKS |-> IF y = k + 1 THEN layers ELSE <<>>]
MCChunks ==
    {[chunk |-> Above(0, <<Storage(n)>>), forceAll |-> TRUE] : n \in {1, 2, 3, 5, 8, 9, 17, 33, 64, 65, 129, 256, 257}}
        \cup {[chunk |-> Above(k, <<Storage(2), Storage(5)>>), forceAll |-> f] : k \in {0, 1, 3, 15, 16}, f \in BOOLEAN}

\* Lists of two commands of one parameter or two, with enums that share values
\* and one that shares its name.
AnEnum(name, values) == [name |-> name, values |-> values]
SomeEnums == {<<>>, <<AnEnum("first", <<"a", "b">>)>>, <<AnEnum("second", <<"b", "c">>)>>, <<AnEnum("first", <<"c">>)>>}
SomeParameters == {[enum |-> e, postfix |-> p, type |-> "Int"] : e \in SomeEnums, p \in {<<>>, <<"L">>}}
SomeCommands(name) ==
    {[name |-> name, aliases |-> a, overloads |-> <<o>>] :
        a \in {<<>>, <<AnEnum(name, <<"a", name>>)>>},
        o \in {<<>>} \cup {<<p>> : p \in SomeParameters} \cup
             {<<p, [enum |-> <<>>, postfix |-> <<"H">>, type |-> "Int"]>> : p \in SomeParameters}}
MCCommandLists == {<<c, d>> : c \in SomeCommands("one"), d \in SomeCommands("two")}

-----------------------------------------------------------------------------

\* The five have no variable in common: each runs from all its messages while
\* the others have none.
AckIdle == packets = {} /\ records = <<>> /\ remaining = 0 /\ offset = 0 /\ decoded = {} /\ stage = "decoded"
ChunkIdle == stored = <<>> /\ serialized = <<>> /\ reread = <<>>
CommandIdle == commandData = <<>> /\ written = <<>> /\ resolved = <<>>
CodecIdle ==
    /\ message = <<>> /\ packetStage = "start" /\ place = <<>> /\ stream = <<>> /\ cursor = 0
    /\ fieldsRead = <<>> /\ got = <<>> /\ meant = <<>> /\ path = <<>>
NbtIdle ==
    /\ tree = <<>> /\ nbtStage = "start" /\ writing = <<>> /\ output = <<>> /\ reading = <<>>
    /\ position = 0 /\ parsed = <<>> /\ met = {} /\ trail = <<>>

MCInit ==
    \/ AckInit /\ ChunkIdle /\ CommandIdle /\ CodecIdle /\ NbtIdle
    \/ ChunkInit /\ AckIdle /\ CommandIdle /\ CodecIdle /\ NbtIdle
    \/ CommandInit /\ AckIdle /\ ChunkIdle /\ CodecIdle /\ NbtIdle
    \/ CodecInit /\ AckIdle /\ ChunkIdle /\ CommandIdle /\ NbtIdle
    \/ NbtInit /\ AckIdle /\ ChunkIdle /\ CommandIdle /\ CodecIdle

MCNext ==
    \/ AckNext /\ UNCHANGED <<chunkVars, commandVars, codecVars, nbtVars>>
    \/ stored # <<>> /\ ChunkNext /\ UNCHANGED <<ackVars, commandVars, codecVars, nbtVars>>
    \/ commandData # <<>> /\ CommandNext /\ UNCHANGED <<ackVars, chunkVars, codecVars, nbtVars>>
    \/ message # <<>> /\ CodecNext /\ UNCHANGED <<ackVars, chunkVars, commandVars, nbtVars>>
    \/ tree # <<>> /\ NbtNext /\ UNCHANGED <<ackVars, chunkVars, commandVars, codecVars>>

MCSpec == MCInit /\ [][MCNext]_<<ackVars, chunkVars, commandVars, codecVars, nbtVars>>

=============================================================================
