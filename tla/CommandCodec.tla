---------------------------- MODULE CommandCodec ----------------------------
(***************************************************************************)
(* The commands of the server are sent to a client in an                   *)
(* AvailableCommandsPacket, and the client resolves what they refer to.    *)
(* The tables themselves are CommandTable.                                 *)
(***************************************************************************)
EXTENDS CommandTable

CONSTANT CommandLists  (* sequences of commands                            *)

\* A list of one, or of none for null.
Optional(S) == {s \in Seq(S) : Len(s) <= 1}

Enum == [name : STRING, values : Seq(STRING)]
Parameter == [enum : Optional(Enum), postfix : Optional(STRING), type : STRING \ {"enum", "postfix"}]
Command == [name : STRING, aliases : Optional(Enum), overloads : Seq(Seq(Parameter))]

ASSUME CommandAssumption == CommandLists \subseteq Seq(Command)

VARIABLES
    commandData,  (* the commands                                          *)
    written,      (* what came of writing them                             *)
    resolved      (* what came of resolving that                           *)

commandVars == <<commandData, written, resolved>>

\* written and resolved hold nothing, or a tuple of one.
CommandInit ==
    /\ commandData \in CommandLists
    /\ written = <<>>
    /\ resolved = <<>>

EncodeAvailableCommands ==
    /\ written = <<>>
    /\ written' = <<EncodeCommands(commandData)>>
    /\ UNCHANGED <<commandData, resolved>>

ResolveAvailableCommands ==
    /\ written # <<>>
    /\ resolved = <<>>
    /\ resolved' = <<DecodeCommands(written[1])>>
    /\ UNCHANGED <<commandData, written>>

CommandNext == EncodeAvailableCommands \/ ResolveAvailableCommands

CommandSpec == CommandInit /\ [][CommandNext]_commandVars

-----------------------------------------------------------------------------
(* Properties.                                                             *)

\* No two enums of one name differ.
OneEnumPerName(commands) ==
    \A a, b \in EnumPlaces(commands) :
        EnumAt(commands, a).name = EnumAt(commands, b).name => EnumAt(commands, a) = EnumAt(commands, b)

\* What a parameter is for the client: its enum, or else its postfix.
Shown(p) == [enum |-> p.enum, postfix |-> IF p.enum = <<>> THEN p.postfix ELSE <<>>]

\* However commands share enums, values and postfixes, the client resolves
\* every reference to what the command was registered with
\* (AvailableCommandsPacket), as long as no two enums of one name differ.
CommandsResolve ==
    resolved # <<>> /\ OneEnumPerName(commandData) =>
        resolved[1] = [i \in DOMAIN commandData |->
            [commandData[i] EXCEPT !.overloads = [o \in DOMAIN @ |-> [p \in DOMAIN @[o] |-> Shown(@[o][p])]]]]

=============================================================================
