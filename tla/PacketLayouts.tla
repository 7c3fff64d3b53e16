---------------------------- MODULE PacketLayouts ----------------------------
(***************************************************************************)
(* The layout of every packet class that both writes and reads its payload *)
(* (packages/prismarine/src/network/packet and packages/raknet/src/        *)
(* protocol): write is the sequence of calls of encodePayload, read that   *)
(* of decodePayload.  Fields have the names they have in the class.        *)
(***************************************************************************)
EXTENDS WireLayouts

\* Vector3.networkSerialize and networkDeserialize.
Position == Vector("position.x", "position.y", "position.z")

\* BlockPosition.networkSerialize writes X in the place of Z.
BlockPosition ==
    [write |-> <<VarInt("position.x"), UVarInt("position.y"), VarInt("position.x")>>,
     read  |-> <<VarInt("position.x"), UVarInt("position.y"), VarInt("position.z")>>]

\* UUID.networkSerialize.
UUID == <<LInt("parts[1]"), LInt("parts[0]"), LInt("parts[3]"), LInt("parts[2]")>>

\* Item and ContainerEntry: the number packs meta and amount.  An air item is
\* its id; the NBT an item announces is not written.
Item ==
    [write |-> <<VarInt("id")>> \o Unless("id", {Zero},
                  <<Bits("meta"), Bits("amount"), LShort("nbt")>> \o When("nbt", {<<"nbt">>}, <<Skipped("Byte")>>)
                  \o <<Skipped("VarInt"), Skipped("VarInt")>>),
     read  |-> <<VarInt("id")>> \o Unless("id", {Zero},
                  <<Bits("meta"), Skipped("Bits"), LShort("nbt")>>
                  \o When("nbt", {<<"nbt">>}, <<Skipped("Byte"), Compound("nbt tag")>>)
                  \o <<Skipped("VarInt"), Skipped("VarInt")>>)]

-----------------------------------------------------------------------------
(* Game packets                                                            *)

ActorFallPacket == Both(<<UVarLong("runtimeEntityId"), LFloat("fallDistance"), Bool("inVoid")>>)

AdventureSettingsPacket ==
    Both(<<UVarInt("flags"), UVarInt("commandPermission"), UVarInt("flags2"), UVarInt("playerPermission"),
           UVarInt("customFlags"), LLong("entityId")>>)

\* "rowing" stands for the actions with bit 0x80.
AnimatePacket ==
    Both(<<VarInt("action"), UVarLong("runtimeEntityId")>> \o When("action", {<<"rowing">>}, <<LFloat("boatRowingTime")>>))

ChangeDimensionPacket == Both(<<VarInt("dimension")>> \o Position \o <<Bool("respawn")>>)

ChunkRadiusUpdatedPacket == Both(<<VarInt("radius")>>)

CommandBlockUpdatePacket ==
    Both(<<Bool("isBlock")>>
         \o When("isBlock", {<<"isBlock">>}, Position \o <<UVarInt("mode"), Bool("needsRedstone"), Bool("conditional")>>)
         \o When("isBlock", {Zero}, <<Long("minecartEntityRuntimeID")>>)
         \o <<String("command"), String("lastOutput"), String("name"), Bool("shouldTrackOutput"), LInt("tickDelay"),
              Bool("executeOnFirstTick")>>)

ContainerClosePacket == Both(<<Byte("windowId"), Skipped("Byte")>>)

ContainerOpenPacket ==
    Both(<<Byte("windowId"), Byte("containerType"), VarInt("containerPos.x"), VarInt("containerPos.y"),
           VarInt("containerPos.z"), VarLong("containerEntityId")>>)

\* The reader asks for the count again before every entry.
CreativeContentPacket ==
    [write |-> <<Each("UnsignedVarInt", "entries", <<VarInt("entryId")>> \o Item.write)>>,
     read  |-> <<EachRecounted("UnsignedVarInt", "entries", <<VarInt("entryId")>> \o Item.read)>>]

\* Seeded fault: the reader expects the message when the window is hidden.
DisconnectPacketHidden ==
    [write |-> <<Bool("hideDisconnectionWindow")>> \o When("hideDisconnectionWindow", {Zero}, <<String("message")>>),
     read  |-> <<Bool("hideDisconnectionWindow")>> \o Unless("hideDisconnectionWindow", {Zero}, <<String("message")>>)]

DisconnectPacket ==
    Both(<<Bool("hideDisconnectionWindow")>> \o When("hideDisconnectionWindow", {Zero}, <<String("message")>>))

EmoteListPacket == Both(<<UVarInt("runtimeId"), Each("UnsignedVarInt", "emoteIds", UUID)>>)

InteractPacket ==
    Both(<<Byte("action"), UVarLong("target")>> \o When("action", {<<"MouseOver">>}, Vector("x", "y", "z")))

LevelSoundEventPacket ==
    Both(<<UVarInt("sound")>> \o Vector("positionX", "positionY", "positionZ")
         \o <<VarInt("extraData"), String("entityType"), Bool("isBabyMob"), Bool("disableRelativeVolume")>>)

ModalFormRequestPacket == Both(<<UVarInt("formId"), String("formData")>>)

ModalFormResponsePacket == Both(<<UVarInt("formId"), String("formData")>>)

MovePlayerPacket ==
    Both(<<UVarLong("runtimeEntityId")>> \o Vector("positionX", "positionY", "positionZ")
         \o <<LFloat("pitch"), LFloat("yaw"), LFloat("headYaw"), Byte("mode"), Bool("onGround"),
              UVarLong("ridingEntityRuntimeId")>>
         \o When("mode", {<<"Teleport">>}, <<LInt("teleportCause"), LInt("teleportItemId")>>) \o <<UVarLong("tick")>>)

OnScreenTextureAnimationPacket == Both(<<LInt("animationType")>>)

PacketViolationWarningPacket == Both(<<VarInt("type"), VarInt("severity"), VarInt("packetId"), String("message")>>)

PlayStatusPacket == Both(<<Int32("status")>>)

PlayerActionPacket ==
    [write |-> <<UVarLong("runtimeEntityId"), VarInt("action")>> \o BlockPosition.write \o <<VarInt("face")>>,
     read  |-> <<UVarLong("runtimeEntityId"), VarInt("action")>> \o BlockPosition.read \o <<VarInt("face")>>]

RemoveObjectivePacket == Both(<<String("objectiveId")>>)

RequestChunkRadiusPacket == Both(<<VarInt("radius")>>)

\* The writer puts a zero before the count.
ResourcePackResponsePacket ==
    [write |-> <<Byte("status"), Skipped("LShort"), Each("LShort", "packIds", <<String("id")>>)>>,
     read  |-> <<Byte("status"), Each("LShort", "packIds", <<String("id")>>)>>]

SetDefaultGameTypePacket == Both(<<VarInt("gamemode")>>)

SetDisplayObjectivePacket ==
    Both(<<String("displaySlot"), String("objectiveId"), String("displayName"), String("criteria"), VarInt("sortOrder")>>)

SetHealthPacket == Both(<<VarInt("health")>>)

SetPlayerGameTypePacket == Both(<<VarInt("gamemode")>>)

\* The reader assigns to a field of an entry that is undefined.
SetScorePacket ==
    [write |-> <<Byte("action"),
                 Each("UnsignedVarInt", "scoreEntries",
                    <<VarLong("entryID"), String("objectiveName"), LInt("score")>>
                    \o Unless("action", {<<"Remove">>},
                         <<Byte("identityType")>> \o Unless("identityType", {<<"FakePlayer">>}, <<VarLong("entityUniqueID")>>)
                         \o When("identityType", {<<"FakePlayer">>}, <<String("displayName")>>)))>>,
     read  |-> <<Byte("action"), Each("UnsignedVarInt", "scoreEntries", <<VarLong("entryID"), Throws>>)>>]

SetScoreboardIdentityPacket ==
    [write |-> <<Byte("action"),
                 Each("UnsignedVarInt", "scoreboardIdentityEntries",
                    <<VarLong("entryID")>> \o When("action", {Zero}, <<VarLong("entityUniqueID")>>))>>,
     read  |-> <<Byte("action"), Each("UnsignedVarInt", "scoreboardIdentityEntries", <<VarLong("entryID"), Throws>>)>>]

SetTimePacket == Both(<<VarInt("time")>>)

SetTitlePacket ==
    Both(<<VarInt("type"), String("text"), OrDefault(VarInt("fadeInTime")), OrDefault(VarInt("stayTime")),
           OrDefault(VarInt("fadeOutTime"))>>)

ShowCreditsPacket == Both(<<VarLong("runtimeEntityID"), VarInt("status")>>)

ShowProfilePacket == Both(<<String("xuid")>>)

ShowStoreOfferPacket == Both(<<String("offerId"), Bool("showAll")>>)

SpawnParticleEffectPacket ==
    Both(<<Byte("dimensionId"), VarLong("uniqueEntityId")>> \o Position \o <<String("identifier")>>)

\* Zero is TextType.Raw.
Sourced == {<<"Chat">>, <<"Whisper">>, <<"Announcement">>}
Plain == {Zero, <<"Tip">>, <<"System">>, <<"JsonWhisper">>, <<"Json">>}
Parameterised == {<<"Translation">>, <<"Popup">>, <<"JukeboxPopup">>}

TextPacket ==
    Both(<<Byte("type"), Bool("needsTranslation")>>
         \o When("type", Sourced, <<String("sourceName")>>)
         \o When("type", Sourced \cup Plain, <<String("message")>>)
         \o When("type", Parameterised, <<String("message"), Each("UnsignedVarInt", "parameters", <<String("parameter")>>)>>)
         \o Unless("type", Sourced \cup Plain \cup Parameterised, <<Throws>>)
         \o <<String("xuid"), String("platformChatId")>>)

TickSyncPacket == Both(<<LLong("clientRequestTimestamp"), LLong("serverReceptionTimestamp")>>)

TransferPacket == Both(<<String("address"), LShort("port")>>)

UpdateBlockPacket ==
    Both(<<VarInt("x"), UVarInt("y"), VarInt("z"), UVarInt("blockRuntimeId"), UVarInt("flags"), UVarInt("layer")>>)

WorldEventPacket == Both(<<VarInt("eventId")>> \o Vector("x", "y", "z") \o <<VarInt("data")>>)

-----------------------------------------------------------------------------
(* RakNet packets                                                          *)

Magic == Skipped("Magic")
Addresses(n) == [i \in 1 .. n |-> Skipped("Address")]

ConnectedPing == Both(<<Long("clientTimestamp")>>)

ConnectionRequest == Both(<<Long("clientGUID"), Long("requestTimestamp"), Skipped("Byte")>>)

ConnectionRequestAccepted ==
    Both(<<Address("clientAddress"), Skipped("Short")>> \o Addresses(20)
         \o <<Long("requestTimestamp"), Long("acceptedTimestamp")>>)

NewIncomingConnection ==
    Both(<<Address("address")>> \o Addresses(20) \o <<Long("requestTimestamp"), Long("acceptedTimestamp")>>)

OpenConnectionReply1 == Both(<<Magic, Long("serverGUID"), Skipped("Byte"), Short("mtuSize")>>)

OpenConnectionReply2 ==
    Both(<<Magic, Long("serverGUID"), Address("clientAddress"), Short("mtuSize"), Skipped("Byte")>>)

OpenConnectionRequest2 == Both(<<Magic, Address("serverAddress"), Short("mtuSize"), Long("clientGUID")>>)

UnconnectedPing == Both(<<Long("sendTimestamp"), Magic, Long("clientGUID")>>)

UnconnectedPong == Both(<<Long("sendTimestamp"), Long("serverGUID"), Magic, String("serverName")>>)

\* PacketReliability, up to the greatest that fits the three bits of the
\* header; zero is UNRELIABLE.
IsReliable == {<<"RELIABLE">>, <<"RELIABLE_SEQUENCED">>, <<"RELIABLE_ORDERED">>, <<"RELIABLE_WITH_ACK_RECEIPT">>}
IsSequenced == {<<"UNRELIABLE_SEQUENCED">>, <<"RELIABLE_SEQUENCED">>}
IsSequencedOrOrdered == IsSequenced \cup {<<"RELIABLE_ORDERED">>}

\* split is the bit of the header; the length in bits and the buffer are one
\* token.
EncapsulatedPacket ==
    Both(<<Bits("reliability"), Bits("split")>>
         \o When("reliability", IsReliable, <<LTriad("messageIndex")>>)
         \o When("reliability", IsSequenced, <<LTriad("sequenceIndex")>>)
         \o When("reliability", IsSequencedOrOrdered, <<LTriad("orderIndex"), Byte("orderChannel")>>)
         \o When("split", {<<"split">>}, <<Int32("splitCount"), Short("splitId"), Int32("splitIndex")>>)
         \o <<Bytes("buffer")>>)

-----------------------------------------------------------------------------

Layouts ==
    [ActorFall |-> ActorFallPacket, AdventureSettings |-> AdventureSettingsPacket, Animate |-> AnimatePacket,
     ChangeDimension |-> ChangeDimensionPacket, ChunkRadiusUpdated |-> ChunkRadiusUpdatedPacket,
     CommandBlockUpdate |-> CommandBlockUpdatePacket, ContainerClose |-> ContainerClosePacket,
     ContainerOpen |-> ContainerOpenPacket, CreativeContent |-> CreativeContentPacket,
     Disconnect |-> DisconnectPacket, EmoteList |-> EmoteListPacket, Interact |-> InteractPacket, Item |-> Item,
     LevelSoundEvent |-> LevelSoundEventPacket, ModalFormRequest |-> ModalFormRequestPacket,
     ModalFormResponse |-> ModalFormResponsePacket, MovePlayer |-> MovePlayerPacket,
     OnScreenTextureAnimation |-> OnScreenTextureAnimationPacket,
     PacketViolationWarning |-> PacketViolationWarningPacket, PlayStatus |-> PlayStatusPacket,
     PlayerAction |-> PlayerActionPacket, RemoveObjective |-> RemoveObjectivePacket,
     RequestChunkRadius |-> RequestChunkRadiusPacket, ResourcePackResponse |-> ResourcePackResponsePacket,
     SetDefaultGameType |-> SetDefaultGameTypePacket, SetDisplayObjective |-> SetDisplayObjectivePacket,
     SetHealth |-> SetHealthPacket, SetPlayerGameType |-> SetPlayerGameTypePacket, SetScore |-> SetScorePacket,
     SetScoreboardIdentity |-> SetScoreboardIdentityPacket, SetTime |-> SetTimePacket, SetTitle |-> SetTitlePacket,
     ShowCredits |-> ShowCreditsPacket, ShowProfile |-> ShowProfilePacket, ShowStoreOffer |-> ShowStoreOfferPacket,
     SpawnParticleEffect |-> SpawnParticleEffectPacket, Text |-> TextPacket, TickSync |-> TickSyncPacket,
     Transfer |-> TransferPacket, UpdateBlock |-> UpdateBlockPacket, WorldEvent |-> WorldEventPacket,
     ConnectedPing |-> ConnectedPing, ConnectionRequest |-> ConnectionRequest,
     ConnectionRequestAccepted |-> ConnectionRequestAccepted, NewIncomingConnection |-> NewIncomingConnection,
     OpenConnectionReply1 |-> OpenConnectionReply1, OpenConnectionReply2 |-> OpenConnectionReply2,
     OpenConnectionRequest2 |-> OpenConnectionRequest2, UnconnectedPing |-> UnconnectedPing,
     UnconnectedPong |-> UnconnectedPong, Encapsulated |-> EncapsulatedPacket]

=============================================================================
