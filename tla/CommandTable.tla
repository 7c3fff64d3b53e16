----------------------------- MODULE CommandTable -----------------------------
(***************************************************************************)
(* AvailableCommandsPacket.encodePayload (packages/prismarine/src/network/ *)
(* packet): the enums of the commands are written once, as indexes into a  *)
(* table of all their values, and parameters refer to them by index.       *)
(*                                                                         *)
(* A command is [name, aliases, overloads]; aliases is <<>> or <<enum>>,   *)
(* an overload a sequence of parameters [enum, postfix, type] of which     *)
(* enum and postfix are <<>> or a tuple of one; an enum is [name, values]. *)
(* The width of a value index depends on the size of the table and is left *)
(* out.                                                                    *)
(*                                                                         *)
(* The loops of encodePayload meet names, values and postfixes at places   *)
(* <<command, overload, parameter, value>>, in the order of these numbers; *)
(* the aliases of a command are its overload 0, and what is no value is at *)
(* value 0.  What they put into a Map is a function from places to keys.   *)
(***************************************************************************)
EXTENDS Integers, Sequences, FiniteSets

Before(a, b) == \E n \in DOMAIN a : a[n] < b[n] /\ \A m \in 1 .. n - 1 : a[m] = b[m]

\* The entries of the Map: a key that is set again keeps its place.
Entries(met) == {a \in DOMAIN met : \A b \in DOMAIN met : met[b] = met[a] => ~Before(b, a)}

\* The size of the Map when the entry was made.
Index(met, a) == Cardinality({b \in Entries(met) : Before(b, a)})

Entry(met, k) == CHOOSE a \in Entries(met) : Index(met, a) = k - 1

KeysInOrder(met) == [k \in 1 .. Cardinality(Entries(met)) |-> met[Entry(met, k)]]

\* The number kept for a key; -1 is the code's default.
IndexOf(met, key) ==
    IF \E a \in Entries(met) : met[a] = key THEN Index(met, CHOOSE a \in Entries(met) : met[a] = key) ELSE -1

-----------------------------------------------------------------------------
(* The loops                                                               *)

ParameterPlaces(commands) ==
    UNION {UNION {{<<c, o, p, 0>> : p \in DOMAIN commands[c].overloads[o]} : o \in DOMAIN commands[c].overloads} :
           c \in DOMAIN commands}

ParameterAt(commands, a) == commands[a[1]].overloads[a[2]][a[3]]

\* addEnumFn is called for the aliases of a command, then for its parameters.
EnumPlaces(commands) ==
    {<<c, 0, 0, 0>> : c \in {d \in DOMAIN commands : commands[d].aliases # <<>>}}
        \cup {a \in ParameterPlaces(commands) : ParameterAt(commands, a).enum # <<>>}

EnumAt(commands, a) == IF a[2] = 0 THEN commands[a[1]].aliases[1] ELSE ParameterAt(commands, a).enum[1]

ValuePlaces(commands) ==
    UNION {{<<a[1], a[2], a[3], v>> : v \in DOMAIN EnumAt(commands, a).values} : a \in EnumPlaces(commands)}

EnumNames(commands) == [a \in EnumPlaces(commands) |-> EnumAt(commands, a).name]
EnumValues(commands) == [a \in ValuePlaces(commands) |-> EnumAt(commands, a).values[a[4]]]
Postfixes(commands) ==
    [a \in {b \in ParameterPlaces(commands) : ParameterAt(commands, b).postfix # <<>>} |->
        ParameterAt(commands, a).postfix[1]]

-----------------------------------------------------------------------------
(* The packet                                                              *)

\* writeEnum.
WrittenEnum(commands, enum) ==
    [name |-> enum.name, values |-> [i \in DOMAIN enum.values |-> IndexOf(EnumValues(commands), enum.values[i])]]

\* Seeded fault: a postfix hides the enum of a parameter.
ParameterTypePostfix(commands, p) ==
    CASE p.postfix # <<>> -> [kind |-> "postfix", index |-> IndexOf(Postfixes(commands), p.postfix[1])]
      [] p.postfix = <<>> /\ p.enum # <<>> -> [kind |-> "enum", index |-> IndexOf(EnumNames(commands), p.enum[1].name)]
      [] OTHER -> [kind |-> p.type, index |-> 0]

ParameterType(commands, p) ==
    CASE p.enum # <<>> -> [kind |-> "enum", index |-> IndexOf(EnumNames(commands), p.enum[1].name)]
      [] p.enum = <<>> /\ p.postfix # <<>> -> [kind |-> "postfix", index |-> IndexOf(Postfixes(commands), p.postfix[1])]
      [] OTHER -> [kind |-> p.type, index |-> 0]

\* writeCommandData.
WrittenCommand(commands, command) ==
    [name |-> command.name,
     aliases |-> IF command.aliases = <<>> THEN -1 ELSE IndexOf(EnumNames(commands), command.aliases[1].name),
     overloads |-> [i \in DOMAIN command.overloads |->
         [j \in DOMAIN command.overloads[i] |-> ParameterType(commands, command.overloads[i][j])]]]

\* The first enum of a name is the one that is kept.
EncodeCommands(commands) ==
    LET names == EnumNames(commands)
    IN  [enumValues |-> KeysInOrder(EnumValues(commands)),
         postfixes |-> KeysInOrder(Postfixes(commands)),
         enums |-> [k \in DOMAIN KeysInOrder(names) |-> WrittenEnum(commands, EnumAt(commands, Entry(names, k)))],
         commands |-> [i \in DOMAIN commands |-> WrittenCommand(commands, commands[i])]]

-----------------------------------------------------------------------------

\* The client resolves the references.
ResolvedEnum(packet, index) ==
    LET e == packet.enums[index + 1]
    IN  [name |-> e.name, values |-> [i \in DOMAIN e.values |-> packet.enumValues[e.values[i] + 1]]]

ResolvedParameter(packet, p) ==
    CASE p.kind = "enum" -> [enum |-> <<ResolvedEnum(packet, p.index)>>, postfix |-> <<>>]
      [] p.kind = "postfix" -> [enum |-> <<>>, postfix |-> <<packet.postfixes[p.index + 1]>>]
      [] OTHER -> [enum |-> <<>>, postfix |-> <<>>]

ResolvedCommand(packet, c) ==
    [name |-> c.name,
     aliases |-> IF c.aliases = -1 THEN <<>> ELSE <<ResolvedEnum(packet, c.aliases)>>,
     overloads |-> [i \in DOMAIN c.overloads |->
         [j \in DOMAIN c.overloads[i] |-> ResolvedParameter(packet, c.overloads[i][j])]]]

DecodeCommands(packet) == [i \in DOMAIN packet.commands |-> ResolvedCommand(packet, packet.commands[i])]

=============================================================================
