------------------------------ MODULE NbtCodec ------------------------------
(***************************************************************************)
(* NBTWriter.writeCompound and NBTReader.parse (packages/nbt/src): a tree  *)
(* of tags is written to a stream and read back from it.  The calls that   *)
(* both make of themselves, one for each list or compound inside another,  *)
(* are the frames of a stack; a step writes or reads one tag, or enters or *)
(* leaves a list or compound.                                              *)
(***************************************************************************)
EXTENDS NbtTags, SequencesExt

CONSTANTS Tags,   (* tags and all that is inside of them                   *)
          Trees   (* the compounds that are written                        *)

ASSUME TagsAssumption == \A t \in Tags : IsTag(t, Tags)
ASSUME TreesAssumption == Trees \subseteq {t \in Tags : t.type = "compound"}

VARIABLES
    tree,      (* the compound that is written                             *)
    nbtStage,  (* "start", "writing", "thrown"; "written", "reading",      *)
               (* "outOfStep", "read"                                      *)
    writing,   (* calls of the writer: the tag and which part comes next   *)
    output,    (* the tokens written                                       *)
    reading,   (* calls of the reader: what was read so far                *)
    position,  (* the tokens read                                          *)
    parsed,    (* the parts of the root that was read                      *)
    met,       (* history: the tags of compounds the writer met            *)
    trail      (* history: where the writer was before and after each step *)

nbtVars == <<tree, nbtStage, writing, output, reading, position, parsed, met, trail>>

NbtInit ==
    /\ tree \in Trees
    /\ nbtStage = "start"
    /\ writing = <<>> /\ output = <<>>
    /\ reading = <<>> /\ position = 0 /\ parsed = <<>>
    /\ met = {} /\ trail = <<>>

-----------------------------------------------------------------------------
(* NBTWriter                                                               *)

Frame(tag) == [tag |-> tag, at |-> 1]
AtEnd(f) == f.at > Len(f.tag.parts)
Current(f) == f.tag.parts[f.at]

\* An element that is no array has no forEach.
Throws(f) == f.tag.type = "list" /\ ~AtEnd(f) /\ Current(f).tag.type \notin Arrays

Enters(f) == f.tag.type = "compound" /\ ~AtEnd(f) /\ Current(f).tag.type \in Containers

\* What the call at f writes next.
Emitted(f) ==
    CASE f.tag.type = "compound" /\ ~AtEnd(f) ->
             WriteTagHeader(Current(f).tag.type, Current(f).name) \o WriteValue(Current(f).tag)
      [] f.tag.type = "compound" /\ AtEnd(f) -> Write("tag", "end")
      [] f.tag.type = "list" /\ ~AtEnd(f) -> WriteIntegerArrayValue(Current(f).tag.numbers)
      [] f.tag.type = "list" /\ AtEnd(f) -> <<>>

\* The next part of the innermost call.
Advanced(calls) == [calls EXCEPT ![Len(calls)].at = @ + 1]
Returned(calls) == IF Len(calls) = 1 THEN <<>> ELSE Advanced(Front(calls))

Writes(tokens, calls, tags) ==
    /\ output' = output \o tokens
    /\ writing' = calls
    /\ met' = met \cup tags
    /\ trail' = Append(trail, [calls |-> calls, position |-> Len(output'), met |-> met'])
    /\ UNCHANGED <<tree, reading, position, parsed>>

WriteCompound ==
    /\ nbtStage = "start"
    /\ Writes(WriteTagHeader("compound", ""), <<Frame(tree)>>, {})
    /\ nbtStage' = "writing"

\* The tag that a compound comes to.
Meets(f) == IF f.tag.type = "compound" /\ ~AtEnd(f) THEN {Current(f).tag} ELSE {}

WritePart ==
    /\ nbtStage = "writing"
    /\ LET f == Last(writing)
       IN  ~AtEnd(f) /\ ~Throws(f) /\ ~Enters(f) /\ Writes(Emitted(f), Advanced(writing), Meets(f))
    /\ UNCHANGED nbtStage

EnterPart ==
    /\ nbtStage = "writing"
    /\ LET f == Last(writing)
       IN  Enters(f) /\ Writes(Emitted(f), Append(writing, Frame(Current(f).tag)), Meets(f))
    /\ UNCHANGED nbtStage

LeavePart ==
    /\ nbtStage = "writing"
    /\ AtEnd(Last(writing))
    /\ Writes(Emitted(Last(writing)), Returned(writing), {})
    /\ nbtStage' = IF Len(writing) = 1 THEN "written" ELSE "writing"

ThrowAtPart ==
    /\ nbtStage = "writing"
    /\ Throws(Last(writing))
    /\ nbtStage' = "thrown"
    /\ UNCHANGED <<tree, writing, output, reading, position, parsed, met, trail>>

-----------------------------------------------------------------------------
(* NBTReader                                                               *)

\* Whether the token after n others has this kind.
Has(kind, n) == n < Len(output) /\ output[n + 1].kind = kind
ValueAfter(n) == output[n + 1].value

\* Whether a value can be read after n tokens, the value and where it ends.
HasValue(type, n) ==
    CASE type \in Scalars -> Has(type, n)
      [] type = "byteArray" -> Has("int", n) /\ Has("bytes", n + 1) /\ Len(ValueAfter(n + 1)) = ValueAfter(n)
      [] type = "intArray" -> Has("int", n) /\ \A i \in 1 .. ValueAfter(n) : Has("int", n + i)
      [] OTHER -> FALSE

ReadValue(type, n) ==
    CASE type \in Scalars -> ValueAfter(n)
      [] type = "byteArray" -> ValueAfter(n + 1)
      [] type = "intArray" -> [i \in 1 .. ValueAfter(n) |-> ValueAfter(n + i)]

EndOfValue(type, n) ==
    CASE type \in Scalars -> n + 1
      [] type = "byteArray" -> n + 2
      [] type = "intArray" -> IF ValueAfter(n) > 0 THEN n + 1 + ValueAfter(n) ELSE n + 1

\* A call of readTagCompoundValue, or of readTagListValue for elements of a type.
CompoundCall(name) == [type |-> "compound", name |-> name, parts |-> <<>>, of |-> "end", count |-> 0]
ListCall(name, of, count) == [type |-> "list", name |-> name, parts |-> <<>>, of |-> of, count |-> count]

\* The call has read all it has to.
Over(r) ==
    IF r.type = "list" THEN Len(r.parts) = r.count ELSE Has("tag", position) /\ ValueAfter(position) = "end"

\* The type and name of what the call reads next; a list has them from its
\* head, and reads the elements of a list of bytes as shorts.
HasHeader(r) == r.type = "list" \/ (Has("tag", position) /\ Has("string", position + 1))
NextType(r) ==
    CASE r.type = "list" /\ r.of = "byte" -> "short"
      [] r.type = "list" /\ r.of # "byte" -> r.of
      [] r.type = "compound" -> ValueAfter(position)
NextName(r) == IF r.type = "list" THEN "" ELSE ValueAfter(position + 1)
AfterHeader(r) == IF r.type = "list" THEN position ELSE position + 2

\* What was read is added by the innermost call.
WithPart(r, name, tag) ==
    [r EXCEPT !.parts = IF r.type = "list" THEN Append(@, Part(name, tag)) ELSE AddValue(@, name, tag)]
Adds(calls, name, tag) == [calls EXCEPT ![Len(calls)] = WithPart(@, name, tag)]

Reads(calls, n) ==
    /\ reading' = calls
    /\ position' = n
    /\ UNCHANGED <<tree, writing, output, met, trail>>

Parse ==
    /\ nbtStage = "written"
    /\ Reads(<<CompoundCall(ValueAfter(1))>>, 2)
    /\ nbtStage' = IF Has("tag", 0) /\ ValueAfter(0) = "compound" /\ Has("string", 1) THEN "reading" ELSE "outOfStep"
    /\ UNCHANGED parsed

\* A tag that is no container.
CanRead(r) == HasHeader(r) /\ HasValue(NextType(r), AfterHeader(r))

ReadPart ==
    /\ nbtStage = "reading"
    /\ LET r == Last(reading)
           type == NextType(r)
           n == AfterHeader(r)
       IN  /\ ~Over(r) /\ CanRead(r)
           /\ Reads(Adds(reading, NextName(r), Tag(type, ReadValue(type, n))), EndOfValue(type, n))
    /\ UNCHANGED <<nbtStage, parsed>>

CanEnterCompound(r) == HasHeader(r) /\ NextType(r) = "compound"

ReadCompoundHead ==
    /\ nbtStage = "reading"
    /\ LET r == Last(reading)
       IN  ~Over(r) /\ CanEnterCompound(r) /\ Reads(Append(reading, CompoundCall(NextName(r))), AfterHeader(r))
    /\ UNCHANGED <<nbtStage, parsed>>

\* A list has a head: the type and the number of its elements.
CanEnterList(r) ==
    HasHeader(r) /\ NextType(r) = "list" /\ Has("tag", AfterHeader(r)) /\ Has("int", AfterHeader(r) + 1)

ReadListHead ==
    /\ nbtStage = "reading"
    /\ LET r == Last(reading)
           of == ValueAfter(AfterHeader(r))
           count == IF of = "end" THEN 0 ELSE ValueAfter(AfterHeader(r) + 1)
       IN  /\ ~Over(r) /\ CanEnterList(r)
           /\ Reads(Append(reading, ListCall(NextName(r), of, count)), AfterHeader(r) + 2)
    /\ UNCHANGED <<nbtStage, parsed>>

ReadEnd ==
    /\ nbtStage = "reading"
    /\ LET r == Last(reading)
           n == IF r.type = "list" THEN position ELSE position + 1
       IN  /\ Over(r)
           /\ IF Len(reading) = 1
              THEN Reads(<<>>, n) /\ parsed' = r.parts /\ nbtStage' = "read"
              ELSE /\ Reads(Adds(Front(reading), r.name, Container(r.type, r.parts)), n)
                   /\ UNCHANGED <<nbtStage, parsed>>

FallOutOfStep ==
    /\ nbtStage = "reading"
    /\ LET r == Last(reading) IN ~Over(r) /\ ~CanRead(r) /\ ~CanEnterCompound(r) /\ ~CanEnterList(r)
    /\ nbtStage' = "outOfStep"
    /\ UNCHANGED <<tree, writing, output, reading, position, parsed, met, trail>>

NbtNext ==
    \/ WriteCompound \/ WritePart \/ EnterPart \/ LeavePart \/ ThrowAtPart
    \/ Parse \/ ReadPart \/ ReadCompoundHead \/ ReadListHead \/ ReadEnd \/ FallOutOfStep

NbtSpec == NbtInit /\ [][NbtNext]_nbtVars

-----------------------------------------------------------------------------
(* Properties.                                                             *)

\* The tags of a compound that are read back as they were written: an int
\* array has no numbers outside of a list, and a list has nothing but int
\* arrays.
Kept(tag) ==
    /\ tag.type = "intArray" => tag.numbers = <<>>
    /\ tag.type = "list" => \A i \in DOMAIN tag.parts : tag.parts[i].tag.type = "intArray"

\* A tree of tags is read back as it was written, to the end of the stream,
\* exactly when all its compounds have only tags that are kept; whatever else
\* is in it, the writer throws, the reader falls out of step or what is read
\* differs (NBTWriter, NBTReader).
WrittenTagsAreRead ==
    nbtStage \in {"thrown", "outOfStep", "read"} =>
        ((\A t \in met : Kept(t)) <=> nbtStage = "read" /\ parsed = tree.parts /\ position = Len(output))

=============================================================================
