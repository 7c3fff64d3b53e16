----------------------------- MODULE WireLayouts -----------------------------
(***************************************************************************)
(* The language the layouts of packets are written in: a layout is the     *)
(* sequence of write calls of an encodePayload, or of read calls of a      *)
(* decodePayload, each with the conditions it stands under.                *)
(*                                                                         *)
(* A stream is a sequence of tokens, each with the kind of its encoding; a *)
(* reader that asks for another kind than it meets is out of step, and the *)
(* packet is lost.  A value is a tuple: <<>> is zero, false or the empty   *)
(* string, and a count is a tuple of its length.                           *)
(***************************************************************************)
EXTENDS Integers, Sequences

Zero == <<>>

Call(op, kind, name) == [op |-> op, kind |-> kind, name |-> name, guards |-> {}, body |-> <<>>]

UVarInt(name)  == Call("field", "UnsignedVarInt", name)
VarInt(name)   == Call("field", "VarInt", name)
UVarLong(name) == Call("field", "UnsignedVarLong", name)
VarLong(name)  == Call("field", "VarLong", name)
Byte(name)     == Call("field", "Byte", name)
Bits(name)     == Call("field", "Bits", name)
Bool(name)     == Call("field", "Bool", name)
Short(name)    == Call("field", "Short", name)
LShort(name)   == Call("field", "LShort", name)
LTriad(name)   == Call("field", "LTriad", name)
Int32(name)    == Call("field", "Int", name)
LInt(name)     == Call("field", "LInt", name)
Long(name)     == Call("field", "Long", name)
LLong(name)    == Call("field", "LLong", name)
LFloat(name)   == Call("field", "LFloat", name)
String(name)   == Call("field", "String", name)
Bytes(name)    == Call("field", "Bytes", name)
Address(name)  == Call("field", "Address", name)
Compound(name) == Call("field", "Compound", name)

\* Written as a constant and skipped by the reader.
Skipped(kind) == Call("skipped", kind, "")

\* value || default.
OrDefault(call) == [call EXCEPT !.op = "default"]

\* body when the field has, or has not, one of these values.
Guarded(guard, body) == [i \in DOMAIN body |-> [body[i] EXCEPT !.guards = @ \cup {guard}]]
When(name, set, body) == Guarded([name |-> name, set |-> set, holds |-> TRUE], body)
Unless(name, set, body) == Guarded([name |-> name, set |-> set, holds |-> FALSE], body)

\* A count, and body for each element.
Each(kind, name, body) == [Call("each", kind, name) EXCEPT !.body = body]

\* A loop whose condition reads the count again before every element.
EachRecounted(kind, name, body) == [Each(kind, name, body) EXCEPT !.op = "recounted"]

Throws == Call("throws", "Nothing", "")

Vector(x, y, z) == <<LFloat(x), LFloat(y), LFloat(z)>>

Both(layout) == [write |-> layout, read |-> layout]

-----------------------------------------------------------------------------
(* A place in a layout is one of its calls and, while inner is not 0, a    *)
(* call of the body of a list at its element of that number, of count.     *)

Start == [call |-> 1, element |-> 0, inner |-> 0, count |-> 0]
Following(p) == [Start EXCEPT !.call = p.call + 1]
Over(layout, p) == p.call > Len(layout)
AtElement(p, n, count) == [call |-> p.call, element |-> n, inner |-> 1, count |-> count]
CallAt(layout, p) == IF p.inner = 0 THEN layout[p.call] ELSE layout[p.call].body[p.inner]

\* After a call that is not made, or that is no loop.
MoreInBody(layout, p) == p.inner # 0 /\ p.inner < Len(layout[p.call].body)
LastInBody(layout, p) == p.inner # 0 /\ ~(p.inner < Len(layout[p.call].body))
Passed(layout, p) ==
    CASE MoreInBody(layout, p) -> [p EXCEPT !.inner = @ + 1]
      [] LastInBody(layout, p) /\ layout[p.call].op = "recounted" -> [p EXCEPT !.inner = 0]
      [] LastInBody(layout, p) /\ layout[p.call].op # "recounted" /\ p.element < p.count ->
             AtElement(p, p.element + 1, p.count)
      [] OTHER -> Following(p)

\* After a call that wrote or read this value, a count for the loops.
Loops(call) == call.op \in {"each", "recounted"}
GoesOn(p, value) == p.element < Len(value)
NextPlace(layout, p, value) ==
    IF ~Loops(CallAt(layout, p)) THEN Passed(layout, p)
    ELSE IF GoesOn(p, value) THEN AtElement(p, p.element + 1, Len(value))
    ELSE Following(p)

-----------------------------------------------------------------------------

\* fields[name] is the value of a field; of a list, the tuple of its elements,
\* each a function of the same form that also holds the fields around it.  A
\* field that was not assigned is undefined.
Field(fields, name) == IF name \in DOMAIN fields THEN fields[name] ELSE Zero
FieldsAt(layout, p, fields) == IF p.inner = 0 THEN fields ELSE fields[layout[p.call].name][p.element]

Made(call, fields) == \A g \in call.guards : (Field(fields, g.name) \in g.set) = g.holds

Unary(n) == [i \in 1 .. n |-> "1"]

\* What a call is given to write, and what it writes.
Meant(call, fields) == IF call.op = "each" THEN Unary(Len(Field(fields, call.name))) ELSE Field(fields, call.name)
Written(call, fields) ==
    LET v == Meant(call, fields)
    IN  [kind |-> call.kind,
         value |-> CASE call.op = "skipped" -> Zero
                     [] call.op = "default" /\ v = Zero -> <<"default">>
                     [] OTHER -> v]

\* The fields as they were given to the writer, or got by the reader, in order.
\* A loop that counts again is known to be over when it stops.
Noted(call, value) == IF call.name = "" THEN <<>> ELSE <<<<call.name, value>>>>
Taken(call, p, value) ==
    IF call.op # "recounted" THEN Noted(call, value)
    ELSE IF GoesOn(p, value) THEN <<>>
    ELSE Noted(call, Unary(p.element))

\* The fields of the packet after a value was read.
Assigned(fields, name, value) ==
    [n \in DOMAIN fields \cup {name} |-> IF n = name THEN value ELSE Field(fields, n)]

=============================================================================
