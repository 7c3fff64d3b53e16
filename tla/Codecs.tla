-------------------------------- MODULE Codecs --------------------------------
(***************************************************************************)
(* Writing and reading back packets: one end encodes a message to a stream *)
(* of tokens, call by call of encodePayload (DataPacket.encode), the other *)
(* decodes the stream, call by call of decodePayload (DataPacket.decode).  *)
(* Each token has the kind of its encoding; a reader that asks for another *)
(* kind than it meets is out of step, and the packet is lost.              *)
(*                                                                         *)
(* Chunks are in ChunkCodec, the lists of commands in CommandCodec, trees  *)
(* of NBT tags in NbtCodec; the acknowledgement packets, whose payload is  *)
(* kept byte by byte, are in AcknowledgeCodec.                             *)
(***************************************************************************)
EXTENDS Integers, Sequences

Packets == INSTANCE PacketLayouts

Classes == DOMAIN Packets!Layouts
WriteLayout(class) == Packets!Layouts[class].write
ReadLayout(class) == Packets!Layouts[class].read

CONSTANT PacketMessages  (* packets: [class, fields]                        *)

\* The classes whose writer and reader make different calls.
UnevenClasses ==
    {"PlayerAction", "Item", "CreativeContent", "ResourcePackResponse", "SetScore", "SetScoreboardIdentity"}

\* Call s of a layout is always made, and no other one assigns its field.
Opens(layout, s) ==
    /\ layout[s].op = "field" /\ layout[s].guards = {}
    /\ \A i \in 1 .. Len(layout) :
           /\ i # s => layout[i].name # layout[s].name
           /\ \A j \in 1 .. Len(layout[i].body) : layout[i].body[j].name # layout[s].name

\* Every condition is about a field that was written before it; bodies have none.
IsScoped(layout) ==
    /\ Len(layout) \in Nat
    /\ \A i \in 1 .. Len(layout) :
           /\ \A g \in layout[i].guards : \E s \in 1 .. i - 1 : layout[s].name = g.name /\ Opens(layout, s)
           /\ layout[i].op \in {"field", "default", "skipped", "each", "throws"}
           /\ layout[i].name = "" <=> layout[i].op \in {"skipped", "throws"}
           /\ layout[i].op = "default" => layout[i].guards = {}
           /\ layout[i].op = "each" => Len(layout[i].body) \in Nat \ {0}
           /\ \A j \in 1 .. Len(layout[i].body) :
                  LET call == layout[i].body[j]
                  IN  call.op = "field" /\ call.guards = {} /\ call.name # ""

ASSUME LayoutsAssumption == \A class \in Classes \ UnevenClasses : IsScoped(WriteLayout(class))

\* The lists of a packet are arrays.
ASSUME PacketMessagesAssumption ==
    \A m \in PacketMessages :
        /\ m.class \in Classes
        /\ \A i \in 1 .. Len(WriteLayout(m.class)) :
               WriteLayout(m.class)[i].op = "each" => Len(Packets!Field(m.fields, WriteLayout(m.class)[i].name)) \in Nat

VARIABLES
    message,      (* what is encoded                                        *)
    packetStage,  (* "encoding", "thrown", "decoding", "decoded" or "lost"  *)
    place,        (* the next call of the writer, then of the reader        *)
    stream,       (* the tokens written                                     *)
    cursor,       (* how many of them were read                             *)
    fieldsRead,   (* the fields of the packet that is decoded               *)
    got,          (* history: the same, in the order of reading             *)
    meant,        (* history: the fields written, in order                  *)
    path          (* history: where the writer was at each of its calls     *)

codecVars == <<message, packetStage, place, stream, cursor, fieldsRead, got, meant, path>>

WriterHere == [place |-> place, position |-> Len(stream), named |-> Len(meant)]

CodecInit ==
    /\ message \in PacketMessages
    /\ packetStage = "encoding"
    /\ place = Packets!Start
    /\ stream = <<>> /\ cursor = 0 /\ fieldsRead = <<>> /\ got = <<>> /\ meant = <<>>
    /\ path = <<WriterHere>>

-----------------------------------------------------------------------------
(* The writer.                                                             *)

WriterCalls == WriteLayout(message.class)
WriteCall == Packets!CallAt(WriterCalls, place)
FieldsHere == Packets!FieldsAt(WriterCalls, place, message.fields)
IsWriting == packetStage = "encoding" /\ ~Packets!Over(WriterCalls, place)

\* A call under a condition that does not hold.
SkipWriteCall ==
    /\ IsWriting
    /\ ~Packets!Made(WriteCall, FieldsHere)
    /\ place' = Packets!Passed(WriterCalls, place)
    /\ UNCHANGED <<message, packetStage, stream, cursor, fieldsRead, got, meant>>
    /\ path' = Append(path, WriterHere')

MakeWriteCall ==
    /\ IsWriting
    /\ Packets!Made(WriteCall, FieldsHere)
    /\ WriteCall.op # "throws"
    /\ LET token == Packets!Written(WriteCall, FieldsHere)
       IN  /\ stream' = Append(stream, token)
           /\ place' = Packets!NextPlace(WriterCalls, place, token.value)
    /\ meant' = meant \o Packets!Noted(WriteCall, Packets!Meant(WriteCall, FieldsHere))
    /\ UNCHANGED <<message, packetStage, cursor, fieldsRead, got>>
    /\ path' = Append(path, WriterHere')

\* encodePayload throws: nothing is sent.
EncodeThrows ==
    /\ IsWriting
    /\ Packets!Made(WriteCall, FieldsHere)
    /\ WriteCall.op = "throws"
    /\ packetStage' = "thrown"
    /\ UNCHANGED <<message, place, stream, cursor, fieldsRead, got, meant, path>>

\* The stream is complete, and the other end starts to decode it.
Transmit ==
    /\ packetStage = "encoding"
    /\ Packets!Over(WriterCalls, place)
    /\ packetStage' = "decoding"
    /\ place' = Packets!Start
    /\ UNCHANGED <<message, stream, cursor, fieldsRead, got, meant, path>>

-----------------------------------------------------------------------------
(* The reader.                                                             *)

ReaderCalls == ReadLayout(message.class)
ReadCall == Packets!CallAt(ReaderCalls, place)
IsReading == packetStage = "decoding" /\ ~Packets!Over(ReaderCalls, place)

SkipReadCall ==
    /\ IsReading
    /\ ~Packets!Made(ReadCall, fieldsRead)
    /\ place' = Packets!Passed(ReaderCalls, place)
    /\ UNCHANGED <<message, packetStage, stream, cursor, fieldsRead, got, meant, path>>

Comes(kind) == cursor < Len(stream) /\ stream[cursor + 1].kind = kind

MakeReadCall ==
    /\ IsReading
    /\ Packets!Made(ReadCall, fieldsRead)
    /\ ReadCall.op # "throws"
    /\ Comes(ReadCall.kind)
    /\ LET value == stream[cursor + 1].value
       IN  /\ cursor' = cursor + 1
           /\ fieldsRead' = IF ReadCall.op = "skipped" THEN fieldsRead
                            ELSE Packets!Assigned(fieldsRead, ReadCall.name, value)
           /\ got' = got \o Packets!Taken(ReadCall, place, value)
           /\ place' = Packets!NextPlace(ReaderCalls, place, value)
    /\ UNCHANGED <<message, packetStage, stream, meant, path>>

\* decodePayload throws, or reads bytes as what they are not.
DecodeFails ==
    /\ IsReading
    /\ Packets!Made(ReadCall, fieldsRead)
    /\ ReadCall.op = "throws" \/ ~Comes(ReadCall.kind)
    /\ packetStage' = "lost"
    /\ UNCHANGED <<message, place, stream, cursor, fieldsRead, got, meant, path>>

EndDecode ==
    /\ packetStage = "decoding"
    /\ Packets!Over(ReaderCalls, place)
    /\ packetStage' = "decoded"
    /\ UNCHANGED <<message, place, stream, cursor, fieldsRead, got, meant, path>>

CodecNext ==
    \/ SkipWriteCall \/ MakeWriteCall \/ EncodeThrows \/ Transmit
    \/ SkipReadCall \/ MakeReadCall \/ DecodeFails \/ EndDecode

CodecSpec == CodecInit /\ [][CodecNext]_codecVars

-----------------------------------------------------------------------------
(* Properties.                                                             *)

\* A zero that is written as the default of its field.
IsDefaulted(class, fields) ==
    \E i \in 1 .. Len(WriteLayout(class)) :
        WriteLayout(class)[i].op = "default" /\ Packets!Field(fields, WriteLayout(class)[i].name) = Packets!Zero

\* The packets whose classes lose part of them: the Z of a BlockPosition, the
\* amount of an item, zero times of a title, and every list whose reader does
\* not read what its writer writes.
Lossy(class, fields) ==
    LET IsEmpty(list) == Len(Packets!Field(fields, list)) = 0
    IN  CASE class = "PlayerAction" -> TRUE
          [] class = "Item" -> Packets!Field(fields, "id") # Packets!Zero
          [] class = "CreativeContent" -> ~IsEmpty("entries")
          [] class = "ResourcePackResponse" -> ~IsEmpty("packIds")
          [] class = "SetScore" -> ~IsEmpty("scoreEntries")
          [] class = "SetScoreboardIdentity" -> ~IsEmpty("scoreboardIdentityEntries")
          [] OTHER -> IsDefaulted(class, fields)

\* Every field of a packet arrives as it was sent, in every variant of its
\* layout (DataPacket.encode and decode), but for the packets of Lossy, which
\* never arrive whole.
PacketsArrive ==
    packetStage \in {"decoded", "lost"} =>
        (packetStage = "decoded" /\ got = meant <=> ~Lossy(message.class, message.fields))

=============================================================================
