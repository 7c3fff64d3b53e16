-------------------------- MODULE ServerSessionsProofs --------------------------
(***************************************************************************)
(* What ServerSessions guarantees for any number of addresses, accounts,   *)
(* players and waiting handlers, with plugins and full send queues.        *)
(***************************************************************************)
EXTENDS ServerSessions, FiniteSetTheorems, WellFoundedInduction, NaturalsInduction, TLAPS

\* The player map and the world, whoever waits.
MapInv == TypeOK /\ PlayersAreInWorld

-----------------------------------------------------------------------------

\* A packet of the login sequence leaves the map and the world alone.
LEMMA PacketsKeepTypes ==
    ASSUME TypeOK, NEW p \in PlayerIds,
           UNCHANGED <<players, address, entities, joining, leaving>>,
           stage' \in [PlayerIds -> Stages],
           wanted' \in [PlayerIds -> Users \cup {NoUser}],
           user' \in [PlayerIds -> Users \cup {NoUser}],
           connected' \in [PlayerIds -> BOOLEAN],
           playerList' \in [Users -> Created \cup {None}],
           open' \subseteq Tokens, waited' \subseteq Waits
    PROVE  TypeOK'
  BY DEF TypeOK, Created, PlayerIds

\* Identify keeps the types of what it writes.
LEMMA IdentifyTypes ==
    ASSUME TypeOK, NEW p \in PlayerIds, NEW u \in Users \cup {NoUser}, Identify(p, u)
    PROVE  /\ stage' \in [PlayerIds -> Stages]
           /\ user' \in [PlayerIds -> Users \cup {NoUser}]
           /\ connected' \in [PlayerIds -> BOOLEAN]
  BY DEF Identify, TypeOK, Stages

\* What handlers have waited for is one of four things.
LEMMA WaitedStep == TypeOK /\ [Next]_vars => waited' \subseteq Waits
<1> SUFFICES ASSUME TypeOK, [Next]_vars PROVE waited' \subseteq Waits
  OBVIOUS
<1> USE DEF TypeOK, Waits, WaitsFor
<1>1. ASSUME NEW t \in Tokens, Connect(t) PROVE waited' \subseteq Waits
  BY <1>1 DEF Connect
<1>2. ASSUME NEW t \in Tokens, Disconnect(t) PROVE waited' \subseteq Waits
  BY <1>2 DEF Disconnect
<1>3. ASSUME NEW t \in Tokens, NEW p \in Created, ResourcePackCompleted(t, p)
      PROVE  waited' \subseteq Waits
  BY <1>3 DEF ResourcePackCompleted
<1>4. ASSUME NEW t \in Tokens, NEW p \in Created, NEW u \in Users, Login(t, p, u)
      PROVE  waited' \subseteq Waits
  BY <1>4 DEF Login
<1>5. CASE Resume
  BY <1>5 DEF Resume, ResumeConnect, ResumeKick, ResumeLoading, ResumeSpawning,
              ResumeDisconnect
<1>6. CASE UNCHANGED vars
  BY <1>6 DEF vars
<1> QED
  BY <1>1, <1>2, <1>3, <1>4, <1>5, <1>6 DEF Next, SessionEvent

\* Every variable keeps its type.
LEMMA TypeStep == TypeOK /\ [Next]_vars => TypeOK'
<1> SUFFICES ASSUME TypeOK, [Next]_vars PROVE TypeOK'
  OBVIOUS
<1> USE SessionsAssumption
<1>0. Created \subseteq PlayerIds /\ Len(address) \in Nat
  BY DEF TypeOK, Created, PlayerIds
<1>11. waited' \subseteq Waits
  BY WaitedStep
<1>1. ASSUME NEW t \in Tokens, Connect(t) PROVE TypeOK'
  <2>1. address' \in Seq(Tokens) /\ Len(address') = Len(address) + 1
    BY <1>1 DEF Connect, TypeOK
  <2>2. Created \subseteq Created' /\ NextPlayer \in Created' /\ Len(address') <= MaxPlayers
    BY <1>1, <1>0, <2>1 DEF Connect, Created, NextPlayer
  <2>3. players' \in [Tokens -> Created' \cup {None}]
    BY <1>1, <2>2 DEF Connect, PlayersWith, TypeOK
  <2>4. entities' \subseteq Created' /\ joining' \subseteq Created'
    BY <1>1, <2>2 DEF Connect, EntitiesWith, TypeOK
  <2>5. open' \subseteq Tokens
    BY <1>1 DEF Connect, Listener!OpenSession, TypeOK
  <2>6. UNCHANGED <<stage, wanted, user, connected, playerList, leaving>>
    BY <1>1 DEF Connect, login
  <2> QED
    BY <1>11, <2>1, <2>2, <2>3, <2>4, <2>5, <2>6 DEF TypeOK
<1>2. ASSUME NEW t \in Tokens, Disconnect(t) PROVE TypeOK'
  <2> DEFINE p == players[t]
  <2>1. open' \subseteq Tokens
    BY <1>2 DEF Disconnect, Listener!CloseSession, TypeOK
  <2>2. UNCHANGED <<address, stage, wanted, user, joining>>
    BY <1>2 DEF Disconnect
  <2>3. CASE p = None
    BY <1>2, <1>11, <2>1, <2>2, <2>3 DEF Disconnect, TypeOK, Created
  <2>4. CASE p # None
    <3>1. p \in Created /\ p \in PlayerIds
      BY <1>0, <2>4 DEF TypeOK
    <3>2. playerList' \in [Users -> Created \cup {None}]
      BY <1>2, <2>4, <3>1 DEF Disconnect, ListWithout, TypeOK
    <3>3. CASE Remove(p) /\ UNCHANGED leaving
      BY <1>11, <2>1, <2>2, <3>1, <3>2, <3>3 DEF Remove, PlayersWithout, TypeOK, Created
    <3>4. CASE /\ \E l \in Leavings : leaving' = [leaving EXCEPT ![l] = p]
               /\ UNCHANGED <<connected, entities, players>>
      BY <1>11, <2>1, <2>2, <3>1, <3>2, <3>4 DEF TypeOK, Created
    <3> QED
      BY <1>2, <2>4, <3>3, <3>4 DEF Disconnect
  <2> QED
    BY <2>3, <2>4
<1>3. ASSUME NEW t \in Tokens, NEW p \in Created, ResourcePackCompleted(t, p) PROVE TypeOK'
  <2>1. p \in PlayerIds
    BY <1>0
  <2>2. stage' \in [PlayerIds -> Stages] /\ playerList' \in [Users -> Created \cup {None}]
    BY <1>3, <2>1 DEF ResourcePackCompleted, ListWith, TypeOK, Stages
  <2>3. open' \subseteq Tokens
    BY <1>3 DEF ResourcePackCompleted, Packet, Listener!Deliver, TypeOK
  <2> QED
    BY <1>3, <1>11, <2>1, <2>2, <2>3, PacketsKeepTypes DEF ResourcePackCompleted, TypeOK
<1>4. ASSUME NEW t \in Tokens, NEW p \in Created, NEW u \in Users, Login(t, p, u) PROVE TypeOK'
  <2>1. p \in PlayerIds
    BY <1>0
  <2>2. /\ stage' \in [PlayerIds -> Stages]
        /\ user' \in [PlayerIds -> Users \cup {NoUser}]
        /\ connected' \in [PlayerIds -> BOOLEAN]
    <3>1. CASE Identify(p, u)
      BY <2>1, <3>1, IdentifyTypes
    <3>2. CASE stage' = [stage EXCEPT ![p] = "kicking"] /\ UNCHANGED <<user, connected>>
      BY <2>1, <3>2 DEF TypeOK, Stages
    <3> QED
      BY <1>4, <3>1, <3>2 DEF Login
  <2>3. wanted' \in [PlayerIds -> Users \cup {NoUser}]
    BY <1>4, <2>1 DEF Login, TypeOK
  <2>4. open' \subseteq Tokens
    BY <1>4 DEF Login, Packet, Listener!Deliver, TypeOK
  <2>5. UNCHANGED <<players, address, entities, joining, leaving, playerList>>
    BY <1>4 DEF Login
  <2> QED
    BY <1>11, <2>1, <2>2, <2>3, <2>4, <2>5, PacketsKeepTypes DEF TypeOK
<1>5. ASSUME NEW p \in Created, ResumeConnect(p) PROVE TypeOK'
  <2>1. address[p] \in Tokens
    BY DEF TypeOK, Created
  <2> QED
    BY <1>5, <1>11, <2>1 DEF ResumeConnect, PlayersWith, EntitiesWith, TypeOK, Created, login
<1>6. ASSUME NEW p \in Created, ResumeKick(p) PROVE TypeOK'
  <2>1. p \in PlayerIds /\ wanted[p] \in Users \cup {NoUser}
    BY <1>0 DEF TypeOK
  <2>2. Identify(p, wanted[p])
    BY <1>6 DEF ResumeKick
  <2>3. /\ stage' \in [PlayerIds -> Stages]
        /\ user' \in [PlayerIds -> Users \cup {NoUser}]
        /\ connected' \in [PlayerIds -> BOOLEAN]
    BY <2>1, <2>2, IdentifyTypes
  <2> QED
    BY <1>6, <1>11, <2>1, <2>3, PacketsKeepTypes DEF ResumeKick, TypeOK
<1>7. ASSUME NEW p \in Created, ResumeLoading(p) PROVE TypeOK'
  BY <1>0, <1>7, <1>11, PacketsKeepTypes DEF ResumeLoading, TypeOK, Stages
<1>8. ASSUME NEW p \in Created, ResumeSpawning(p) PROVE TypeOK'
  BY <1>0, <1>8, <1>11, PacketsKeepTypes DEF ResumeSpawning, ListWith, TypeOK, Stages
<1>9. ASSUME NEW l \in Leavings, ResumeDisconnect(l) PROVE TypeOK'
  <2>1. leaving[l] \in Created
    BY <1>9 DEF ResumeDisconnect, TypeOK
  <2> QED
    BY <1>9, <1>11, <2>1 DEF ResumeDisconnect, Remove, PlayersWithout, TypeOK, Created
<1>10. CASE UNCHANGED vars
  BY <1>10, <1>11 DEF vars, login, TypeOK, Created
<1> QED
  BY <1>1, <1>2, <1>3, <1>4, <1>5, <1>6, <1>7, <1>8, <1>9, <1>10 DEF Next, SessionEvent, Resume

\* The variables of the server keep their types.
THEOREM TypeCorrect == Spec => []TypeOK
<1>1. Init => TypeOK
  BY SessionsAssumption DEF Init, Listener!Init, TypeOK, Created, Stages, Waits
<1> QED
  BY <1>1, TypeStep, PTL DEF Spec

-----------------------------------------------------------------------------

\* Remove takes a player out of the map and the world together.
LEMMA RemoveKeepsMap ==
    ASSUME MapInv, NEW p \in Created, Remove(p), address' = address
    PROVE  PlayersAreInWorld'
<1> SUFFICES ASSUME NEW t \in Tokens, players'[t] # None
             PROVE  address'[players'[t]] = t /\ players'[t] \in entities'
  BY DEF PlayersAreInWorld
<1>1. t # address[p] /\ players'[t] = players[t]
  BY DEF MapInv, TypeOK, Remove, PlayersWithout
<1>2. address[players[t]] = t /\ players[t] \in entities /\ players[t] # p
  BY <1>1 DEF MapInv, PlayersAreInWorld
<1> QED
  BY <1>1, <1>2 DEF Remove

\* addPlayer and addEntity act together, or addPlayer throws.
LEMMA AddKeepsMap ==
    ASSUME MapInv, NEW t \in Tokens, NEW p, p # None,
           players' = PlayersWith(t, p), entities' = EntitiesWith(t, p),
           address'[p] = t, \A q \in Created : address'[q] = address[q]
    PROVE  PlayersAreInWorld'
<1> SUFFICES ASSUME NEW s \in Tokens, players'[s] # None
             PROVE  address'[players'[s]] = s /\ players'[s] \in entities'
  BY DEF PlayersAreInWorld
<1>1. CASE players'[s] = players[s]
  <2>1. players[s] \in Created /\ address[players[s]] = s /\ players[s] \in entities
    BY <1>1 DEF MapInv, TypeOK, PlayersAreInWorld
  <2> QED
    BY <1>1, <2>1 DEF EntitiesWith
<1>2. CASE players'[s] # players[s]
  <2>1. s = t /\ players'[s] = p /\ players[t] = None
    BY <1>2 DEF MapInv, TypeOK, PlayersWith
  <2> QED
    BY <2>1 DEF EntitiesWith
<1> QED
  BY <1>1, <1>2

\* The map and the world agree after every step.
LEMMA MapStep == MapInv /\ [Next]_vars => PlayersAreInWorld'
<1> SUFFICES ASSUME MapInv, [Next]_vars PROVE PlayersAreInWorld'
  OBVIOUS
<1>0. UNCHANGED <<players, address, entities>> => PlayersAreInWorld'
  BY DEF MapInv, PlayersAreInWorld
<1>1. ASSUME NEW t \in Tokens, Connect(t) PROVE PlayersAreInWorld'
  <2>1. /\ NextPlayer # None
        /\ address'[NextPlayer] = t
        /\ \A q \in Created : address'[q] = address[q]
    BY <1>1 DEF Connect, MapInv, TypeOK, NextPlayer, None, Created
  <2>2. CASE players' = PlayersWith(t, NextPlayer) /\ entities' = EntitiesWith(t, NextPlayer)
    BY <2>1, <2>2, AddKeepsMap
  <2>3. CASE UNCHANGED <<players, entities>>
    <3> SUFFICES ASSUME NEW s \in Tokens, players'[s] # None
                 PROVE  address'[players'[s]] = s /\ players'[s] \in entities'
      BY DEF PlayersAreInWorld
    <3>1. players[s] \in Created /\ address[players[s]] = s /\ players[s] \in entities
      BY <2>3 DEF MapInv, TypeOK, PlayersAreInWorld
    <3> QED
      BY <2>1, <2>3, <3>1
  <2> QED
    BY <1>1, <2>2, <2>3 DEF Connect
<1>2. ASSUME NEW t \in Tokens, Disconnect(t) PROVE PlayersAreInWorld'
  <2>1. address' = address
    BY <1>2 DEF Disconnect
  <2>2. CASE UNCHANGED <<players, entities>>
    BY <1>0, <2>1, <2>2
  <2>3. CASE players[t] # None /\ Remove(players[t])
    <3>1. players[t] \in Created
      BY <2>3 DEF MapInv, TypeOK
    <3> QED
      BY <2>1, <2>3, <3>1, RemoveKeepsMap
  <2> QED
    BY <1>2, <2>2, <2>3 DEF Disconnect
<1>3. ASSUME NEW p \in Created, ResumeConnect(p) PROVE PlayersAreInWorld'
  <2>1. address[p] \in Tokens /\ address' = address /\ p # None
    BY <1>3 DEF ResumeConnect, MapInv, TypeOK, Created, None
  <2>2. CASE players' = PlayersWith(address[p], p) /\ entities' = EntitiesWith(address[p], p)
    BY <2>1, <2>2, AddKeepsMap
  <2>3. CASE UNCHANGED <<players, entities>>
    BY <1>0, <2>1, <2>3
  <2> QED
    BY <1>3, <2>2, <2>3 DEF ResumeConnect
<1>4. ASSUME NEW l \in Leavings, ResumeDisconnect(l) PROVE PlayersAreInWorld'
  <2>1. leaving[l] \in Created /\ address' = address
    BY <1>4 DEF ResumeDisconnect, MapInv, TypeOK
  <2> QED
    BY <1>4, <2>1, RemoveKeepsMap DEF ResumeDisconnect
<1>5. ASSUME NEW t \in Tokens, NEW p \in Created, NEW u \in Users, Login(t, p, u)
      PROVE  PlayersAreInWorld'
  BY <1>0, <1>5 DEF Login
<1>6. ASSUME NEW p \in Created, ResumeKick(p) \/ ResumeLoading(p) \/ ResumeSpawning(p)
      PROVE  PlayersAreInWorld'
  BY <1>0, <1>6 DEF ResumeKick, ResumeLoading, ResumeSpawning
<1>7. CASE UNCHANGED vars
  BY <1>0, <1>7 DEF vars
<1>8. ASSUME NEW t \in Tokens, NEW p \in Created, ResourcePackCompleted(t, p)
      PROVE  PlayersAreInWorld'
  BY <1>0, <1>8 DEF ResourcePackCompleted
<1> QED
  BY <1>1, <1>2, <1>3, <1>4, <1>5, <1>6, <1>7, <1>8 DEF Next, SessionEvent, Resume

\* Whoever is in the player map was created for its address and is in the
\* world, however many handlers overlap.
THEOREM PlayersCorrect == Spec => []PlayersAreInWorld
<1>1. Init => PlayersAreInWorld
  BY DEF Init, PlayersAreInWorld
<1>2. TypeOK /\ PlayersAreInWorld /\ [Next]_vars => PlayersAreInWorld'
  BY MapStep DEF MapInv
<1> QED
  BY <1>1, <1>2, TypeCorrect, PTL DEF Spec

-----------------------------------------------------------------------------
(* Sessions and their players.  SessionHasPlayer speaks of the moments     *)
(* when no handler waits; what every step keeps is that, as long as no     *)
(* connect and no disconnect ever had to wait, none does.                  *)

Unhurried == waited \cap {"plugin", "leave"} = {}

HasPlayers ==
    /\ joining = {} /\ \A l \in Leavings : leaving[l] = None
    /\ \A t \in Tokens : players[t] = IF t \in open THEN LastPlayer(t) ELSE None

HasInv == Unhurried => HasPlayers

\* The players created for an address, and the last of some players.
Own(t) == {p \in Created : address[p] = t}
LastOf(ps) == IF ps = {} THEN None ELSE CHOOSE p \in ps : \A q \in ps : q <= p

LEMMA LastPlayerIsLastOf == \A t : LastPlayer(t) = LastOf(Own(t))
BY DEF LastPlayer, LastOf, Own

\* The player created last for an address is the last player of it, and those of
\* the other addresses stay.
LEMMA LastPlayerAfterConnect ==
    ASSUME TypeOK, NEW t \in Tokens, address' = Append(address, t)
    PROVE  /\ LastPlayer(t)' = NextPlayer
           /\ \A s \in Tokens \ {t} : LastPlayer(s)' = LastPlayer(s)
<1>1. /\ Created' = Created \cup {NextPlayer} /\ NextPlayer \notin Created
      /\ \A q \in Created : q < NextPlayer
      /\ NextPlayer \in Nat /\ Created \subseteq Nat
  <2>1. Len(address') = Len(address) + 1 /\ Len(address) \in Nat
    BY DEF TypeOK
  <2> QED
    BY <2>1 DEF Created, NextPlayer
<1>2. address'[NextPlayer] = t /\ \A q \in Created : address'[q] = address[q]
  BY DEF TypeOK, NextPlayer, Created
<1>3. \A s \in Tokens \ {t} : Own(s)' = Own(s)
  BY <1>1, <1>2 DEF Own
<1>4. \A s \in Tokens \ {t} : LastPlayer(s)' = LastPlayer(s)
  <2>1. \A s : LastPlayer(s)' = LastOf(Own(s)')
    BY DEF LastPlayer, LastOf, Own
  <2> QED
    BY <1>3, <2>1, LastPlayerIsLastOf
<1>5. LastPlayer(t)' = NextPlayer
  <2> DEFINE own == Own(t)'
  <2>1. NextPlayer \in own /\ \A q \in own : q <= NextPlayer
    <3>1. own = {p \in Created' : address'[p] = t}
      BY DEF Own
    <3>2. NextPlayer \in own
      BY <1>1, <1>2, <3>1
    <3>3. \A q \in own : q < NextPlayer \/ q = NextPlayer
      BY <1>1, <3>1
    <3> QED
      BY <1>1, <3>2, <3>3
  <2>2. ASSUME NEW p \in own, \A q \in own : q <= p PROVE p = NextPlayer
    <3>1. NextPlayer <= p /\ p <= NextPlayer
      BY <2>1, <2>2
    <3>2. p \in Int
      BY <1>1 DEF Own
    <3> QED
      BY <1>1, <3>1, <3>2
  <2>3. (CHOOSE p \in own : \A q \in own : q <= p) = NextPlayer
    BY <2>1, <2>2
  <2>4. LastPlayer(t)' = LastOf(own)
    BY DEF LastPlayer, LastOf, Own
  <2> HIDE DEF own
  <2> QED
    BY <2>1, <2>3, <2>4 DEF LastOf
<1> QED
  BY <1>4, <1>5

\* Waiting is never undone.
LEMMA WaitedGrows == [Next]_vars => waited \subseteq waited'
<1> SUFFICES ASSUME [Next]_vars PROVE waited \subseteq waited'
  OBVIOUS
<1> USE DEF WaitsFor
<1>1. ASSUME NEW t \in Tokens, Connect(t) \/ Disconnect(t) PROVE waited \subseteq waited'
  BY <1>1 DEF Connect, Disconnect
<1>2. ASSUME NEW t \in Tokens, NEW p \in Created, ResourcePackCompleted(t, p)
      PROVE  waited \subseteq waited'
  BY <1>2 DEF ResourcePackCompleted
<1>3. ASSUME NEW t \in Tokens, NEW p \in Created, NEW u \in Users, Login(t, p, u)
      PROVE  waited \subseteq waited'
  BY <1>3 DEF Login
<1>4. CASE Resume
  BY <1>4 DEF Resume, ResumeConnect, ResumeKick, ResumeLoading, ResumeSpawning,
              ResumeDisconnect
<1>5. CASE UNCHANGED vars
  BY <1>5 DEF vars
<1> QED
  BY <1>1, <1>2, <1>3, <1>4, <1>5 DEF Next, SessionEvent

\* A step that opens, closes and removes nothing.
LEMMA HasFrame ==
    ASSUME HasPlayers, UNCHANGED <<open, players, address, joining, leaving>>
    PROVE  HasPlayers'
BY DEF HasPlayers, LastPlayer, Created

LEMMA HasStep == MapInv /\ HasInv /\ [Next]_vars => HasInv'
<1> SUFFICES ASSUME MapInv, HasInv, [Next]_vars, Unhurried' PROVE HasPlayers'
  BY DEF HasInv
<1>0. Unhurried /\ HasPlayers
  BY WaitedGrows DEF HasInv, Unhurried
<1>1. ASSUME NEW t \in Tokens, Connect(t) PROVE HasPlayers'
  <2>1. /\ players' = PlayersWith(t, NextPlayer) /\ UNCHANGED <<joining, leaving>>
        /\ t \notin open /\ open' = open \cup {t} /\ address' = Append(address, t)
    BY <1>1 DEF Connect, Listener!OpenSession, WaitsFor, Unhurried
  <2>2. players[t] = None
    BY <1>0, <2>1 DEF HasPlayers
  <2>3. players' = [players EXCEPT ![t] = NextPlayer] /\ players \in [Tokens -> Created \cup {None}]
    BY <2>1, <2>2 DEF PlayersWith, MapInv, TypeOK
  <2>4. /\ LastPlayer(t)' = NextPlayer
        /\ \A s \in Tokens \ {t} : LastPlayer(s)' = LastPlayer(s)
    BY <2>1, LastPlayerAfterConnect DEF MapInv
  <2>5. ASSUME NEW s \in Tokens PROVE players'[s] = IF s \in open' THEN LastPlayer(s)' ELSE None
    <3>1. CASE s = t
      BY <2>1, <2>3, <2>4, <3>1
    <3>2. CASE s # t
      <4>1. players'[s] = players[s] /\ (s \in open' <=> s \in open)
        BY <2>1, <2>3, <3>2
      <4> QED
        BY <1>0, <2>4, <3>2, <4>1 DEF HasPlayers
    <3> QED
      BY <3>1, <3>2
  <2> QED
    BY <1>0, <2>1, <2>5 DEF HasPlayers
<1>2. ASSUME NEW t \in Tokens, Disconnect(t) PROVE HasPlayers'
  <2>1. open' = open \ {t} /\ UNCHANGED <<address, joining>>
    BY <1>2 DEF Disconnect, Listener!CloseSession
  <2>2. \A s \in Tokens : LastPlayer(s)' = LastPlayer(s)
    BY <2>1 DEF LastPlayer, Created
  <2>3. UNCHANGED leaving /\ players' = [players EXCEPT ![t] = None]
    <3>1. CASE players[t] = None
      BY <1>2, <3>1 DEF Disconnect, MapInv, TypeOK
    <3>2. CASE players[t] # None
      <4>1. UNCHANGED leaving /\ Remove(players[t])
        BY <1>2, <3>2 DEF Disconnect, WaitsFor, Unhurried
      <4>2. address[players[t]] = t
        BY <3>2 DEF MapInv, PlayersAreInWorld
      <4> QED
        BY <4>1, <4>2 DEF Remove, PlayersWithout
    <3> QED
      BY <3>1, <3>2
  <2>4. ASSUME NEW s \in Tokens PROVE players'[s] = IF s \in open' THEN LastPlayer(s)' ELSE None
    BY <1>0, <2>1, <2>2, <2>3 DEF HasPlayers, MapInv, TypeOK
  <2> QED
    BY <1>0, <2>1, <2>3, <2>4 DEF HasPlayers
<1>3. ASSUME NEW t \in Tokens, NEW p \in Created, ResourcePackCompleted(t, p) PROVE HasPlayers'
  BY <1>0, <1>3, HasFrame DEF ResourcePackCompleted, Packet, Listener!Deliver
<1>4. ASSUME NEW t \in Tokens, NEW p \in Created, NEW u \in Users, Login(t, p, u)
      PROVE  HasPlayers'
  BY <1>0, <1>4, HasFrame DEF Login, Packet, Listener!Deliver
<1>5. ASSUME NEW p \in Created, ResumeConnect(p) PROVE HasPlayers'
  BY <1>0, <1>5 DEF ResumeConnect, HasPlayers
<1>6. ASSUME NEW p \in Created, ResumeKick(p) \/ ResumeLoading(p) \/ ResumeSpawning(p)
      PROVE  HasPlayers'
  BY <1>0, <1>6, HasFrame DEF ResumeKick, ResumeLoading, ResumeSpawning
<1>7. ASSUME NEW l \in Leavings, ResumeDisconnect(l) PROVE HasPlayers'
  BY <1>0, <1>7 DEF ResumeDisconnect, HasPlayers
<1>8. CASE UNCHANGED vars
  BY <1>0, <1>8, HasFrame DEF vars
<1> QED
  BY <1>1, <1>2, <1>3, <1>4, <1>5, <1>6, <1>7, <1>8 DEF Next, SessionEvent, Resume

\* As long as neither a connect nor a disconnect had to wait, an open session has
\* the player its raknetConnect handler created, and a closed one has none.
THEOREM SessionsCorrect == Spec => []SessionHasPlayer
<1>1. Init => HasInv
  BY DEF Init, Listener!Init, HasInv, HasPlayers
<1>2. TypeOK /\ PlayersAreInWorld /\ HasInv /\ [Next]_vars => HasInv'
  BY HasStep DEF MapInv
<1>3. HasInv => SessionHasPlayer
  BY DEF HasInv, HasPlayers, Unhurried, SessionHasPlayer
<1> QED
  BY <1>1, <1>2, <1>3, TypeCorrect, PlayersCorrect, PTL DEF Spec

-----------------------------------------------------------------------------
(* The player list.  ListedIsPresent is not inductive: that no other       *)
(* handler takes a listed player off the map needs the entry to be under   *)
(* the account of that player, which no later login may change.            *)

Prompt == waited \subseteq {"kick"}

\* A player has an account from its login on, and waits for nothing but a kick.
NamedInLogin ==
    \A p \in Created :
        /\ stage[p] \in {"loading", "refused", "online", "spawned"} => user[p] \in Users
        /\ stage[p] = "kicking" => wanted[p] \in Users
        /\ stage[p] # "spawning"

\* An entry of the list is a player of that account that is on the server.
Listed ==
    \A u \in Users : playerList[u] # None =>
        /\ players[address[playerList[u]]] = playerList[u]
        /\ user[playerList[u]] = u
        /\ stage[playerList[u]] = "spawned"

ListInv ==
    Prompt => NamedInLogin /\ Listed /\ joining = {} /\ \A l \in Leavings : leaving[l] = None

\* A new player: its handlers have done nothing yet.
NewPlayersAreNew == \A p \in PlayerIds \ Created : stage[p] = "new"

LEMMA NewStep == TypeOK /\ NewPlayersAreNew /\ [Next]_vars => NewPlayersAreNew'
<1> SUFFICES ASSUME TypeOK, NewPlayersAreNew, [Next]_vars,
                    NEW p \in PlayerIds, p \notin Created'
             PROVE  stage'[p] = "new"
  BY DEF NewPlayersAreNew, PlayerIds
<1>1. Created \subseteq Created'
  <2>1. Len(address) \in Nat /\ (address' = address \/ Len(address') = Len(address) + 1)
    BY DEF TypeOK, Next, SessionEvent, Resume, Connect, Disconnect, ResourcePackCompleted, Login,
           ResumeConnect, ResumeKick, ResumeLoading, ResumeSpawning, ResumeDisconnect, vars
  <2> QED
    BY <2>1 DEF Created
<1>2. p \notin Created /\ stage[p] = "new"
  BY <1>1 DEF NewPlayersAreNew
<1>3. \A q \in Created : q # p
  BY <1>2
<1>4. stage'[p] = stage[p]
  BY <1>3 DEF TypeOK, Next, SessionEvent, Resume, Connect, Disconnect, ResourcePackCompleted,
              Login, Identify, ResumeConnect, ResumeKick, ResumeLoading, ResumeSpawning,
              ResumeDisconnect, login, vars
<1> QED
  BY <1>2, <1>4

\* Identify gives a player that is not listed its account.
LEMMA IdentifyNames ==
    ASSUME TypeOK, NamedInLogin, Listed, NEW p \in Created, NEW u \in Users, Identify(p, u),
           stage[p] \in {"new", "kicking"}, UNCHANGED <<players, address, playerList>>,
           \A q \in Created \ {p} : wanted'[q] = wanted[q]
    PROVE  NamedInLogin' /\ Listed'
<1>0. p \in PlayerIds /\ Created' = Created /\ Created \subseteq PlayerIds
  BY SessionsAssumption DEF TypeOK, Created, PlayerIds
<1>1. /\ user'[p] = u /\ stage'[p] \in {"loading", "refused", "online"}
      /\ \A q \in Created \ {p} : user'[q] = user[q] /\ stage'[q] = stage[q]
  BY <1>0 DEF Identify, TypeOK
<1>2. NamedInLogin'
  BY <1>0, <1>1 DEF NamedInLogin
<1>3. ASSUME NEW v \in Users, playerList[v] # None
      PROVE  playerList[v] \in Created \ {p}
  BY <1>3 DEF Listed, TypeOK
<1>4. Listed'
  BY <1>1, <1>3 DEF Listed
<1> QED
  BY <1>2, <1>4

\* A player that has got through the login is put on the list.
LEMMA SpawnLists ==
    ASSUME MapInv, NamedInLogin, Listed, NEW p \in Created, stage[p] = "online",
           players[address[p]] = p, playerList' = ListWith(p),
           stage' = [stage EXCEPT ![p] = "spawned"],
           UNCHANGED <<players, address, user, wanted>>
    PROVE  NamedInLogin' /\ Listed'
<1>0. p \in PlayerIds /\ Created' = Created /\ Created \subseteq PlayerIds
  BY SessionsAssumption DEF MapInv, TypeOK, Created, PlayerIds
<1>1. stage'[p] = "spawned" /\ \A q \in Created \ {p} : stage'[q] = stage[q]
  BY <1>0 DEF MapInv, TypeOK
<1>2. user[p] \in Users
  BY DEF NamedInLogin
<1>3. playerList'[user[p]] = p /\ \A v \in Users \ {user[p]} : playerList'[v] = playerList[v]
  BY <1>2 DEF ListWith, MapInv, TypeOK
<1>4. \A v \in Users : playerList[v] \in Created \cup {None}
  BY DEF MapInv, TypeOK
<1>5. NamedInLogin'
  BY <1>0, <1>1, <1>2 DEF NamedInLogin
<1>6. ASSUME NEW v \in Users, playerList'[v] # None
      PROVE  /\ players[address[playerList'[v]]] = playerList'[v]
             /\ user[playerList'[v]] = v /\ stage'[playerList'[v]] = "spawned"
  <2>1. CASE v = user[p]
    BY <1>1, <1>3, <2>1
  <2>2. CASE v # user[p]
    BY <1>1, <1>3, <1>4, <1>6, <2>2 DEF Listed
  <2> QED
    BY <2>1, <2>2
<1> QED
  BY <1>5, <1>6 DEF Listed

LEMMA ListStep == MapInv /\ NewPlayersAreNew /\ ListInv /\ [Next]_vars => ListInv'
<1> SUFFICES ASSUME MapInv, NewPlayersAreNew, ListInv, [Next]_vars, Prompt'
             PROVE  /\ NamedInLogin' /\ Listed' /\ joining' = {}
                    /\ \A l \in Leavings : leaving'[l] = None
  BY DEF ListInv
<1>0. Prompt /\ NamedInLogin /\ Listed /\ joining = {} /\ \A l \in Leavings : leaving[l] = None
  BY WaitedGrows DEF ListInv, Prompt
<1>1. ASSUME NEW t \in Tokens, Connect(t)
      PROVE  /\ NamedInLogin' /\ Listed' /\ joining' = {}
             /\ \A l \in Leavings : leaving'[l] = None
  <2>1. /\ players' = PlayersWith(t, NextPlayer) /\ UNCHANGED <<joining, leaving>>
        /\ address' = Append(address, t) /\ Len(address) < MaxPlayers
        /\ UNCHANGED <<stage, wanted, user, connected, playerList>>
    BY <1>1 DEF Connect, WaitsFor, Prompt, login
  <2>2. /\ Created' = Created \cup {NextPlayer} /\ NextPlayer \in PlayerIds \ Created
        /\ \A q \in Created : address'[q] = address[q] /\ address[q] \in Tokens
    <3>1. Len(address') = Len(address) + 1 /\ Len(address) \in Nat /\ address \in Seq(Tokens)
      BY <2>1 DEF MapInv, TypeOK
    <3> QED
      BY <2>1, <3>1, SessionsAssumption DEF Created, NextPlayer, PlayerIds
  <2>3. NamedInLogin'
    BY <1>0, <2>1, <2>2 DEF NamedInLogin, NewPlayersAreNew
  <2>4. ASSUME NEW v \in Users, playerList[v] # None
        PROVE  players'[address'[playerList[v]]] = playerList[v]
    <3>1. playerList[v] \in Created /\ players[address[playerList[v]]] = playerList[v]
      BY <1>0, <2>4 DEF Listed, MapInv, TypeOK
    <3>2. players'[address[playerList[v]]] = players[address[playerList[v]]]
      BY <2>1, <2>2, <2>4, <3>1 DEF PlayersWith, MapInv, TypeOK
    <3> QED
      BY <2>2, <3>1, <3>2
  <2>5. Listed'
    BY <1>0, <2>1, <2>4 DEF Listed
  <2> QED
    BY <1>0, <2>1, <2>3, <2>5
<1>2. ASSUME NEW t \in Tokens, Disconnect(t)
      PROVE  /\ NamedInLogin' /\ Listed' /\ joining' = {}
             /\ \A l \in Leavings : leaving'[l] = None
  <2> DEFINE p == players[t]
  <2>1. UNCHANGED <<address, stage, wanted, user, joining>>
    BY <1>2 DEF Disconnect
  <2>2. NamedInLogin'
    BY <1>0, <2>1 DEF NamedInLogin, Created
  <2>3. CASE p = None
    <3>1. UNCHANGED <<players, playerList, leaving>>
      BY <1>2, <2>3 DEF Disconnect
    <3> QED
      BY <1>0, <2>1, <2>2, <3>1 DEF Listed
  <2>4. CASE p # None
    <3>1. playerList' = ListWithout(p) /\ Remove(p) /\ UNCHANGED leaving
      BY <1>2, <2>4 DEF Disconnect, WaitsFor, Prompt
    <3>2. p \in Created /\ address[p] = t
      BY <2>4 DEF MapInv, TypeOK, PlayersAreInWorld
    <3>3. players' = [players EXCEPT ![t] = None]
      BY <3>1, <3>2 DEF Remove, PlayersWithout
    <3>4. ASSUME NEW v \in Users, playerList'[v] # None
          PROVE  /\ playerList'[v] = playerList[v] /\ playerList[v] # p
                 /\ playerList[v] \in Created
      <4>1. playerList'[v] = playerList[v] /\ (user[p] # NoUser => v # user[p])
        BY <3>1, <3>4 DEF ListWithout, MapInv, TypeOK
      <4>2. user[playerList[v]] = v /\ v # NoUser
        BY <1>0, <3>4, <4>1, SessionsAssumption DEF Listed
      <4> QED
        BY <3>4, <4>1, <4>2 DEF MapInv, TypeOK
    <3>5. ASSUME NEW v \in Users, playerList'[v] # None
          PROVE  players'[address[playerList[v]]] = playerList[v]
      <4>1. players[address[playerList[v]]] = playerList[v] /\ playerList[v] # p
        BY <1>0, <3>4, <3>5 DEF Listed
      <4>2. address[playerList[v]] # t /\ address[playerList[v]] \in Tokens
        BY <3>4, <3>5, <4>1 DEF MapInv, TypeOK, Created
      <4> QED
        BY <3>3, <4>1, <4>2 DEF MapInv, TypeOK
    <3>6. Listed'
      BY <1>0, <2>1, <3>4, <3>5 DEF Listed
    <3> QED
      BY <1>0, <2>1, <2>2, <3>1, <3>6
  <2> QED
    BY <2>3, <2>4
<1>3. ASSUME NEW t \in Tokens, NEW p \in Created, ResourcePackCompleted(t, p)
      PROVE  NamedInLogin' /\ Listed' /\ UNCHANGED <<joining, leaving>>
  <2>1. /\ stage[p] = "online" /\ players[t] = p /\ p # None
        /\ stage' = [stage EXCEPT ![p] = "spawned"] /\ playerList' = ListWith(p)
        /\ UNCHANGED <<players, address, wanted, user, joining, leaving>>
    BY <1>3 DEF ResourcePackCompleted, Packet, WaitsFor, Prompt
  <2>2. players[address[p]] = p
    BY <2>1 DEF MapInv, PlayersAreInWorld
  <2> QED
    BY <1>0, <2>1, <2>2, SpawnLists
<1>4. ASSUME NEW t \in Tokens, NEW p \in Created, NEW u \in Users, Login(t, p, u)
      PROVE  NamedInLogin' /\ Listed' /\ UNCHANGED <<joining, leaving>>
  <2>1. /\ stage[p] = "new" /\ wanted' = [wanted EXCEPT ![p] = u]
        /\ UNCHANGED <<players, address, playerList, joining, leaving>>
    BY <1>4 DEF Login, Packet
  <2>2. p \in PlayerIds /\ Created' = Created /\ Created \subseteq PlayerIds
    BY <2>1, SessionsAssumption DEF MapInv, TypeOK, Created, PlayerIds
  <2>3. wanted'[p] = u /\ \A q \in Created \ {p} : wanted'[q] = wanted[q]
    BY <2>1, <2>2 DEF MapInv, TypeOK
  <2>4. CASE Identify(p, u)
    BY <1>0, <2>1, <2>3, <2>4, IdentifyNames DEF MapInv
  <2>5. CASE stage' = [stage EXCEPT ![p] = "kicking"] /\ UNCHANGED user
    <3>1. stage'[p] = "kicking" /\ \A q \in Created \ {p} : stage'[q] = stage[q]
      BY <2>2, <2>5 DEF MapInv, TypeOK
    <3>2. NamedInLogin'
      BY <1>0, <2>2, <2>3, <2>5, <3>1 DEF NamedInLogin
    <3>3. ASSUME NEW v \in Users, playerList[v] # None
          PROVE  playerList[v] \in Created \ {p}
      BY <1>0, <2>1, <3>3 DEF Listed, MapInv, TypeOK
    <3>4. Listed'
      BY <1>0, <2>1, <2>5, <3>1, <3>3 DEF Listed
    <3> QED
      BY <2>1, <3>2, <3>4
  <2> QED
    BY <1>4, <2>4, <2>5 DEF Login
<1>5. ASSUME NEW p \in Created, ResumeKick(p)
      PROVE  NamedInLogin' /\ Listed' /\ UNCHANGED <<joining, leaving>>
  <2>1. wanted[p] \in Users
    BY <1>0, <1>5 DEF ResumeKick, NamedInLogin
  <2> QED
    BY <1>0, <1>5, <2>1, IdentifyNames DEF ResumeKick, MapInv
<1>6. ASSUME NEW p \in Created, ResumeLoading(p)
      PROVE  NamedInLogin' /\ Listed' /\ UNCHANGED <<joining, leaving>>
  <2>1. p \in PlayerIds /\ Created' = Created /\ Created \subseteq PlayerIds
    BY <1>6, SessionsAssumption DEF ResumeLoading, MapInv, TypeOK, Created, PlayerIds
  <2>2. /\ stage[p] = "loading" /\ stage'[p] = "online"
        /\ \A q \in Created \ {p} : stage'[q] = stage[q]
    BY <1>6, <2>1 DEF ResumeLoading, MapInv, TypeOK
  <2>3. NamedInLogin'
    BY <1>0, <1>6, <2>1, <2>2 DEF ResumeLoading, NamedInLogin
  <2>4. ASSUME NEW v \in Users, playerList[v] # None
        PROVE  playerList[v] \in Created \ {p}
    BY <1>0, <2>2, <2>4 DEF Listed, MapInv, TypeOK
  <2>5. Listed'
    BY <1>0, <1>6, <2>2, <2>4 DEF ResumeLoading, Listed
  <2> QED
    BY <1>6, <2>3, <2>5 DEF ResumeLoading
<1>7. ASSUME NEW p \in Created, ResumeConnect(p) \/ ResumeSpawning(p) PROVE FALSE
  BY <1>0, <1>7 DEF ResumeConnect, ResumeSpawning, NamedInLogin
<1>8. ASSUME NEW l \in Leavings, ResumeDisconnect(l) PROVE FALSE
  BY <1>0, <1>8 DEF ResumeDisconnect
<1>9. CASE UNCHANGED vars
  BY <1>0, <1>9 DEF vars, login, NamedInLogin, Listed, Created
<1> QED
  BY <1>0, <1>1, <1>2, <1>3, <1>4, <1>5, <1>6, <1>7, <1>8, <1>9 DEF Next, SessionEvent, Resume

\* As long as nothing but the kick of an older login had to wait, the list names
\* players that are on the server only.
THEOREM ListCorrect == Spec => []ListedIsPresent
<1>1. Init => ListInv /\ NewPlayersAreNew
  BY SessionsAssumption
     DEF Init, ListInv, Prompt, NamedInLogin, Listed, NewPlayersAreNew, Created, PlayerIds
<1>2. TypeOK /\ PlayersAreInWorld /\ NewPlayersAreNew /\ ListInv /\ [Next]_vars
          => ListInv' /\ NewPlayersAreNew'
  BY ListStep, NewStep DEF MapInv
<1>3. ListInv => ListedIsPresent
  BY DEF ListInv, Listed, Prompt, ListedIsPresent
<1> QED
  BY <1>1, <1>2, <1>3, TypeCorrect, PlayersCorrect, PTL DEF Spec

=============================================================================
