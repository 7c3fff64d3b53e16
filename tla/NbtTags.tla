------------------------------- MODULE NbtTags -------------------------------
(***************************************************************************)
(* Trees of NBT tags and what NBTWriter (packages/nbt/src) makes of one    *)
(* tag of them.                                                            *)
(*                                                                         *)
(* A tag is [type, numbers, parts]: the number or text of a scalar, as a   *)
(* tuple of one, and those of a byte or int array; the parts [name, tag]   *)
(* of a compound and, without names, the elements of a list (a Set keeps   *)
(* the order of insertion).  Byte order and varints are agreed upon by     *)
(* both ends and left out: a token has a kind and a value, and the byte of *)
(* a tag's type is of the kind "tag".                                      *)
(***************************************************************************)
EXTENDS Integers, Sequences

Scalars == {"byte", "short", "int", "long", "float", "double", "string"}
Arrays == {"byteArray", "intArray"}
Containers == {"list", "compound"}

Tag(type, numbers) == [type |-> type, numbers |-> numbers, parts |-> <<>>]
Part(name, tag) == [name |-> name, tag |-> tag]
Container(type, parts) == [type |-> type, numbers |-> <<>>, parts |-> parts]

\* The parts of a compound are a Map: a name that is set again keeps its place.
AddValue(parts, name, tag) ==
    IF \E i \in DOMAIN parts : parts[i].name = name
    THEN [i \in DOMAIN parts |-> IF parts[i].name = name THEN Part(name, tag) ELSE parts[i]]
    ELSE Append(parts, Part(name, tag))

\* A tag whose parts are among tags.
IsTag(t, tags) ==
    /\ \/ t.type \in Scalars /\ t = Tag(t.type, t.numbers)
       \/ t.type \in Arrays /\ t = Tag(t.type, t.numbers) /\ t.numbers \in Seq(Int)
       \/ t.type \in Containers /\ t = Container(t.type, t.parts)
    /\ t.parts \in Seq([name : STRING, tag : tags])
    /\ t.type = "compound" => \A i, j \in DOMAIN t.parts : t.parts[i].name = t.parts[j].name => i = j
    /\ t.type = "list" => \A i \in DOMAIN t.parts : t.parts[i].name = "" /\ t.parts[i].tag.type # "list"

-----------------------------------------------------------------------------
(* NBTWriter                                                               *)

\* A token of one number, a type or a name.
Write(kind, value) == <<[kind |-> kind, value |-> value]>>

WriteTagHeader(type, name) == Write("tag", type) \o Write("string", name)

WriteIntegerArrayValue(numbers) ==
    Write("int", Len(numbers)) \o [i \in DOMAIN numbers |-> [kind |-> "int", value |-> numbers[i]]]

\* Seeded fault: a byte array is written without its length.
WriteByteArrayShort(bytes) == Write("int", 0) \o Write("bytes", bytes)

WriteByteArrayValue(bytes) == Write("int", Len(bytes)) \o Write("bytes", bytes)

\* An array where a number is expected: what JavaScript makes of it.
WriteArrayAsInteger(numbers) == Write("int", IF Len(numbers) = 1 THEN numbers[1] ELSE 0)

\* The head of a list.  entries() of a Set yields pairs, which are arrays: the
\* type of a list is always that of an int array.
WriteListValue(elements) ==
    IF elements = <<>> THEN Write("tag", "byte") \o Write("int", 0)
    ELSE Write("tag", "intArray") \o Write("int", Len(elements))

\* The value of a tag of a compound, without the parts of a container.
WriteValue(tag) ==
    CASE tag.type \in Scalars -> Write(tag.type, tag.numbers)
      [] tag.type = "byteArray" -> WriteByteArrayValue(tag.numbers)
      [] tag.type = "intArray" -> WriteArrayAsInteger(tag.numbers)
      [] tag.type = "list" -> WriteListValue(tag.parts)
      [] tag.type = "compound" -> <<>>

=============================================================================
