----------------------------- MODULE ServerSessions -----------------------------
(***************************************************************************)
(* Who is on the server: the players of the server while RakNet sessions   *)
(* open and close under them (packages/prismarine/src/Server.ts,           *)
(* player/PlayerManager.ts, the list part of player/PlayerConnection.ts    *)
(* and the handlers of the login sequence).                                *)
(*                                                                         *)
(* The sessions are those of SessionEvents, the abstract listener.  Every  *)
(* event starts an asynchronous handler, which goes on after each await    *)
(* with the Player it looked up before it.                                 *)
(***************************************************************************)
EXTENDS Integers, Sequences, FiniteSets

CONSTANTS Tokens,     (* client addresses, "ip:port"                         *)
          Users,      (* accounts: a name, its uuid and its xuid             *)
          MaxPlayers, (* bound on the Player objects created                 *)
          Leavings    (* the raknetDisconnect handlers that may be waiting   *)

\* A player without a name and uuid.
NoUser == "none"

ASSUME SessionsAssumption == MaxPlayers \in Nat /\ NoUser \notin Users

VARIABLES
    open, event, (* of SessionEvents                                         *)
    players,     (* PlayerManager.players: address -> Player, or None        *)
    address,     (* the address of every Player created                      *)
    stage,       (* how far its handlers and its client got with the login   *)
    wanted,      (* the account its Login packet names                       *)
    user,        (* the account of its name and uuid, or NoUser              *)
    connected,   (* Player.connected                                         *)
    playerList,  (* PlayerManager.playerList: account -> the Player of its   *)
                 (* entry, or None                                           *)
    entities,    (* the players among the entities of the world              *)
    joining,     (* players whose raknetConnect handler waits for plugins    *)
    leaving,     (* the player each raknetDisconnect handler waits with      *)
    waited       (* history: what handlers have waited for so far            *)

login == <<stage, wanted, user, connected>>
vars  == <<open, event, players, address, login, playerList, entities, joining,
          leaving, waited>>

Listener == INSTANCE SessionEvents

None == 0
PlayerIds == 1 .. MaxPlayers
Created == 1 .. Len(address)

(* "kicking", "loading" and "spawning" are the awaits of the handlers; a   *)
(* "refused" client got no LoginSuccess.                                   *)
Stages == {"new", "kicking", "loading", "refused", "online", "spawning", "spawned"}

(* A send waits when it finds the send queue full, a connect when a plugin *)
(* that handles playerConnect takes its time.                              *)
Waits == {"plugin", "leave", "kick", "spawn"}

WaitsFor(w) == waited' = waited \cup {w}

TypeOK ==
    /\ open \subseteq Tokens
    /\ players \in [Tokens -> Created \cup {None}]
    /\ address \in Seq(Tokens) /\ Len(address) <= MaxPlayers
    /\ stage \in [PlayerIds -> Stages]
    /\ wanted \in [PlayerIds -> Users \cup {NoUser}]
    /\ user \in [PlayerIds -> Users \cup {NoUser}]
    /\ connected \in [PlayerIds -> BOOLEAN]
    /\ playerList \in [Users -> Created \cup {None}]
    /\ entities \subseteq Created
    /\ joining \subseteq Created
    /\ leaving \in [Leavings -> Created \cup {None}]
    /\ waited \subseteq Waits

Init ==
    /\ Listener!Init
    /\ players = [t \in Tokens |-> None]
    /\ address = <<>>
    /\ stage = [p \in PlayerIds |-> "new"]
    /\ wanted = [p \in PlayerIds |-> NoUser]
    /\ user = [p \in PlayerIds |-> NoUser]
    /\ connected = [p \in PlayerIds |-> FALSE]
    /\ playerList = [u \in Users |-> None]
    /\ entities = {}
    /\ joining = {}
    /\ leaving = [l \in Leavings |-> None]
    /\ waited = {}

-----------------------------------------------------------------------------
(* raknetConnect.                                                          *)

\* new Player.
NextPlayer == Len(address) + 1

\* world.addEntity is not reached when addPlayer throws.
EntitiesWith(t, p) == IF players[t] = None THEN entities \cup {p} ELSE entities

\* addPlayer throws, "Player already exists", when the address has a player.
PlayersWith(t, p) == IF players[t] = None THEN [players EXCEPT ![t] = p] ELSE players

Connect(t) ==
    /\ Listener!OpenSession(t)
    /\ Len(address) < MaxPlayers
    /\ address' = Append(address, t)
    /\ \/ /\ players' = PlayersWith(t, NextPlayer)
          /\ entities' = EntitiesWith(t, NextPlayer)
          /\ UNCHANGED <<joining, waited>>
       \/ /\ WaitsFor("plugin")
          /\ joining' = joining \cup {NextPlayer}
          /\ UNCHANGED <<players, entities>>
    /\ UNCHANGED <<login, playerList, leaving>>

\* The plugins are done, and may have cancelled.
ResumeConnect(p) ==
    /\ p \in joining
    /\ joining' = joining \ {p}
    /\ \/ /\ players' = PlayersWith(address[p], p)
          /\ entities' = EntitiesWith(address[p], p)
       \/ UNCHANGED <<players, entities>>
    /\ UNCHANGED <<open, event, address, login, playerList, leaving, waited>>

-----------------------------------------------------------------------------
(* raknetDisconnect.                                                       *)

\* Seeded fault: the list keeps its entry.
ListKept(p) == playerList

\* removeFromPlayerList, for a player with a uuid.
ListWithout(p) == IF user[p] = NoUser THEN playerList ELSE [playerList EXCEPT ![user[p]] = None]

\* Seeded fault: removePlayer is forgotten.
PlayersKept(t) == players

\* removePlayer: whoever is at the address.
PlayersWithout(t) == [players EXCEPT ![t] = None]

\* Seeded fault: only a player that got through the login is removed.
RemoveIfOnline(p) ==
    \/ /\ connected[p]
       /\ connected' = [connected EXCEPT ![p] = FALSE]
       /\ entities' = entities \ {p}
       /\ players' = PlayersWithout(address[p])
    \/ ~connected[p] /\ UNCHANGED <<connected, entities, players>>

\* What the handler does once its sends are done.
Remove(p) ==
    /\ connected' = [connected EXCEPT ![p] = FALSE]
    /\ entities' = entities \ {p}
    /\ players' = PlayersWithout(address[p])

OnlinePlayers == {q \in PlayerIds : connected[q] /\ \E t \in Tokens : players[t] = q}

\* Whether the handler sends anything: the list and despawn packets to online
\* players, and the message that a player with a name has left to everyone.
SendsOnLeaving(p) == user[p] # NoUser \/ OnlinePlayers # {}

\* Without a player getPlayer throws.
Disconnect(t) ==
    LET p == players[t]
    IN  /\ Listener!CloseSession(t)
        /\ \/ /\ p = None
              /\ UNCHANGED <<players, connected, playerList, entities, leaving, waited>>
           \/ /\ p # None
              /\ playerList' = ListWithout(p)
              /\ \/ Remove(p) /\ UNCHANGED <<leaving, waited>>
                 \/ /\ SendsOnLeaving(p)
                    /\ WaitsFor("leave")
                    /\ \E l \in Leavings :
                          leaving[l] = None /\ leaving' = [leaving EXCEPT ![l] = p]
                    /\ UNCHANGED <<connected, entities, players>>
        /\ UNCHANGED <<address, stage, wanted, user, joining>>

\* Seeded fault: the same, after the await only.
ResumeDisconnectIfOnline(l) ==
    /\ leaving[l] # None
    /\ RemoveIfOnline(leaving[l])
    /\ leaving' = [leaving EXCEPT ![l] = None]
    /\ UNCHANGED <<open, event, address, stage, wanted, user, playerList, joining,
                   waited>>

ResumeDisconnect(l) ==
    /\ leaving[l] # None
    /\ Remove(leaving[l])
    /\ leaving' = [leaving EXCEPT ![l] = None]
    /\ UNCHANGED <<open, event, address, stage, wanted, user, playerList, joining,
                   waited>>

-----------------------------------------------------------------------------
(* raknetEncapsulatedPacket.  A packet from an address without a player is *)
(* dropped.  A client goes on when it has the answer it waits for.         *)

\* A packet for player p arrives, whose client got as far as s.
Packet(t, p, s) ==
    /\ Listener!Deliver(t)
    /\ players[t] = p /\ p # None
    /\ stage[p] = s

\* The name and uuid are taken.  Without an xuid the client is refused,
\* otherwise Player.onEnable reads its data and may wait for the spawn chunk.
Identify(p, u) ==
    /\ user' = [user EXCEPT ![p] = u]
    /\ \/ /\ stage' = [stage EXCEPT ![p] = "refused"]
          /\ UNCHANGED connected
       \/ /\ stage' = [stage EXCEPT ![p] = "loading"]
          /\ UNCHANGED connected
       \/ /\ stage' = [stage EXCEPT ![p] = "online"]
          /\ connected' = [connected EXCEPT ![p] = TRUE]

\* getPlayerByExactName.
OnlinePlayersOf(u) == {q \in OnlinePlayers : user[q] = u}

\* An old player of the account is sent a DisconnectPacket, which may wait;
\* it is for its client to leave.
Login(t, p, u) ==
    /\ Packet(t, p, "new")
    /\ wanted' = [wanted EXCEPT ![p] = u]
    /\ \/ Identify(p, u) /\ UNCHANGED waited
       \/ /\ OnlinePlayersOf(u) # {}
          /\ WaitsFor("kick")
          /\ stage' = [stage EXCEPT ![p] = "kicking"]
          /\ UNCHANGED <<user, connected>>
    /\ UNCHANGED <<players, address, playerList, entities, joining, leaving>>

ResumeKick(p) ==
    /\ stage[p] = "kicking"
    /\ Identify(p, wanted[p])
    /\ UNCHANGED <<open, event, players, address, wanted, playerList, entities,
                   joining, leaving, waited>>

ResumeLoading(p) ==
    /\ stage[p] = "loading"
    /\ stage' = [stage EXCEPT ![p] = "online"]
    /\ connected' = [connected EXCEPT ![p] = TRUE]
    /\ UNCHANGED <<open, event, players, address, wanted, user, playerList, entities,
                   joining, leaving, waited>>

\* addToPlayerList.
ListWith(p) == [playerList EXCEPT ![user[p]] = p]

\* The packets sent before addToPlayerList are larger than a datagram.
ResourcePackCompleted(t, p) ==
    /\ Packet(t, p, "online")
    /\ \/ /\ stage' = [stage EXCEPT ![p] = "spawned"]
          /\ playerList' = ListWith(p)
          /\ UNCHANGED waited
       \/ /\ WaitsFor("spawn")
          /\ stage' = [stage EXCEPT ![p] = "spawning"]
          /\ UNCHANGED playerList
    /\ UNCHANGED <<players, address, wanted, user, connected, entities, joining, leaving>>

ResumeSpawning(p) ==
    /\ stage[p] = "spawning"
    /\ stage' = [stage EXCEPT ![p] = "spawned"]
    /\ playerList' = ListWith(p)
    /\ UNCHANGED <<open, event, players, address, wanted, user, connected, entities,
                   joining, leaving, waited>>

-----------------------------------------------------------------------------

SessionEvent(t) ==
    \/ Connect(t)
    \/ Disconnect(t)
    \/ \E p \in Created : ResourcePackCompleted(t, p) \/ \E u \in Users : Login(t, p, u)

Resume ==
    \/ \E p \in Created :
          ResumeConnect(p) \/ ResumeKick(p) \/ ResumeLoading(p) \/ ResumeSpawning(p)
    \/ \E l \in Leavings : ResumeDisconnect(l)

Next == Resume \/ \E t \in Tokens : SessionEvent(t)

\* Sockets, disks and plugins call back; clients owe nothing.
Fairness ==
    /\ \A l \in Leavings : WF_vars(ResumeDisconnect(l))
    /\ \A p \in PlayerIds : WF_vars(ResumeConnect(p) \/ ResumeKick(p) \/ ResumeLoading(p) \/ ResumeSpawning(p))

Spec == Init /\ [][Next]_vars

FairSpec == Spec /\ Fairness

-----------------------------------------------------------------------------
(* Properties.                                                             *)

\* No handler is waiting.
Settled ==
    /\ joining = {}
    /\ \A l \in Leavings : leaving[l] = None
    /\ \A p \in Created : stage[p] \notin {"kicking", "loading", "spawning"}

\* The player of the last session of an address.
LastPlayer(t) ==
    LET own == {p \in Created : address[p] = t}
    IN  IF own = {} THEN None ELSE CHOOSE p \in own : \A q \in own : q <= p

\* Whoever is in the player map was created for its address and is among the
\* entities of the world, whatever handlers overlap (Server.ts 163-171,
\* 198-200).
PlayersAreInWorld ==
    \A t \in Tokens :
        players[t] # None => address[players[t]] = t /\ players[t] \in entities

\* As long as no plugin delays a connect, a session that is closed loses its
\* player: none stays in the map for good, also when sends wait.
ClosedSessionsEmpty ==
    \A t \in Tokens :
        t \notin open ~> players[t] = None \/ t \in open \/ "plugin" \in waited

\* Once nothing waits, an open session has its own player, the one its
\* raknetConnect handler created, and a closed one has none; so it is as long
\* as neither a connect nor a disconnect had to wait.
SessionHasPlayer ==
    Settled /\ waited \cap {"plugin", "leave"} = {} =>
        \A t \in Tokens : players[t] = IF t \in open THEN LastPlayer(t) ELSE None

\* Once nothing waits, the list names players that are on the server only:
\* what removeFromPlayerList took out does not come back.  So it is as long as
\* nothing but the kick of an older login had to wait.
ListedIsPresent ==
    Settled /\ waited \subseteq {"kick"} =>
        \A u \in Users :
            playerList[u] # None => players[address[playerList[u]]] = playerList[u]

=============================================================================
