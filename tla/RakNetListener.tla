----------------------------- MODULE RakNetListener -----------------------------
(***************************************************************************)
(* The connections of a RakNet server: how the listener creates, feeds,    *)
(* times out and removes them (packages/raknet/src/Listener.ts), with the  *)
(* parts of Connection.ts that decide when a session opens and closes.     *)
(*                                                                         *)
(* Clients are free: any packet may come from any address at any time, in  *)
(* any order and any number of times, up to a bound.                       *)
(* removeConnection awaits the socket before it deletes, and several calls *)
(* of it may be waiting for the same address.                              *)
(***************************************************************************)
EXTENDS Integers, Sequences, FiniteSets

CONSTANTS Tokens,      (* client addresses, "ip:port"                        *)
          MaxConn,     (* bound on the Connection objects created            *)
          MaxPackets,  (* how many packets clients send before falling silent *)
          Removals,    (* the calls of removeConnection that may be waiting  *)
          OnlineMode   (* the onlineMode of the server's configuration       *)

ASSUME ListenerAssumption ==
    /\ MaxConn \in Nat
    /\ MaxPackets \in Nat
    /\ OnlineMode \in BOOLEAN

VARIABLES
    connections,  (* address -> the Connection there, or None                *)
    tokenOf,      (* the address of every Connection created                 *)
    state,        (* its state: connecting or connected                      *)
    active,       (* whether it received something since its last update     *)
    late,         (* whether 10 seconds went by since it received something  *)
    deferred,     (* connections with a suspended handler that has still to  *)
                  (* handle a DisconnectNotification                         *)
    removals,     (* what each call of removeConnection is waiting for       *)
    kill,         (* "no", "waiting" or "done"                               *)
    packets,      (* how many packets clients have sent                      *)
    emitted       (* the event the last step emitted to the server           *)

conns == <<tokenOf, state, active, late, deferred>>
vars  == <<connections, conns, removals, kill, packets, emitted>>

Conns == 1 .. MaxConn
None == 0
Created == 1 .. Len(tokenOf)

NoEvent == [type |-> "none"]
Event(type, t) == [type |-> type, token |-> t]
Events == {NoEvent} \cup {Event(type, t) : type \in {"open", "close", "encapsulated"}, t \in Tokens}

NoRemoval == [conn |-> None]

TypeOK ==
    /\ connections \in [Tokens -> Created \cup {None}]
    /\ tokenOf \in Seq(Tokens) /\ Len(tokenOf) <= MaxConn
    /\ state \in [Conns -> {"connecting", "connected"}]
    /\ active \in [Conns -> BOOLEAN]
    /\ late \in [Conns -> BOOLEAN]
    /\ deferred \subseteq Created
    /\ removals \in [Removals -> [conn : Created \cup {None}]]
    /\ kill \in {"no", "waiting", "done"}
    /\ packets \in 0 .. MaxPackets
    /\ emitted \in Events

Init ==
    /\ connections = [t \in Tokens |-> None]
    /\ tokenOf = <<>>
    /\ state = [c \in Conns |-> "connecting"]
    /\ active = [c \in Conns |-> FALSE]
    /\ late = [c \in Conns |-> FALSE]
    /\ deferred = {}
    /\ removals = [r \in Removals |-> NoRemoval]
    /\ kill = "no"
    /\ packets = 0
    /\ emitted = NoEvent

-----------------------------------------------------------------------------
(* Removing a connection.                                                  *)

\* removeConnection(c) up to its await: the connection that is at the address
\* of c is told to close, be it c or not.  Without one the event goes out now.
StartRemoval(r, c) ==
    /\ removals[r] = NoRemoval
    /\ \/ /\ connections[tokenOf[c]] # None
          /\ removals' = [removals EXCEPT ![r] = [conn |-> c]]
          /\ emitted' = NoEvent
       \/ /\ connections[tokenOf[c]] = None
          /\ emitted' = Event("close", tokenOf[c])
          /\ UNCHANGED removals

\* connections.delete(token).
ConnectionsWithout(t) == [connections EXCEPT ![t] = None]

\* The close message left the socket: whatever is at the address goes.
FinishRemoval(r) ==
    LET t == tokenOf[removals[r].conn]
    IN  /\ removals[r] # NoRemoval
        /\ connections' = ConnectionsWithout(t)
        /\ removals' = [removals EXCEPT ![r] = NoRemoval]
        /\ emitted' = Event("close", t)
        /\ UNCHANGED <<conns, kill, packets>>

-----------------------------------------------------------------------------
(* Packets from clients.                                                   *)

\* A client sends a packet.
Packet == packets < MaxPackets /\ packets' = packets + 1

\* Seeded fault: the first object serves every address.
NextConnReused == 1

\* new Connection.
NextConn == Len(tokenOf) + 1

\* OpenConnectionRequest2 from an address without a connection.  Ping,
\* Request1 and Query are answered and change nothing here.
HandleOpenConnectionRequest2(t) ==
    /\ Packet
    /\ connections[t] = None
    /\ Len(tokenOf) < MaxConn
    /\ tokenOf' = Append(tokenOf, t)
    /\ connections' = [connections EXCEPT ![t] = NextConn]
    /\ emitted' = NoEvent
    /\ UNCHANGED <<state, active, late, deferred, removals, kill>>

\* Connection.receive, for a packet from an address with a connection.
Receive(t) ==
    /\ Packet
    /\ connections[t] # None
    /\ active' = [active EXCEPT ![connections[t]] = TRUE]
    /\ late' = [late EXCEPT ![connections[t]] = FALSE]
    /\ UNCHANGED <<connections, tokenOf, kill>>

\* A packet handled without effect on the session: an offline packet, an ACK,
\* a ConnectionRequest, a ping, or game data before the session is open.
ReceiveOther(t) ==
    /\ Receive(t)
    /\ emitted' = NoEvent
    /\ UNCHANGED <<state, deferred, removals>>

\* The condition is "!offlineMode ?? ...": its right side is never looked at.
Opens(c) == state[c] = "connecting" /\ OnlineMode

ReceiveNewIncomingConnection(t) ==
    /\ Receive(t)
    /\ \/ /\ Opens(connections[t])
          /\ state' = [state EXCEPT ![connections[t]] = "connected"]
          /\ emitted' = Event("open", t)
       \/ /\ ~Opens(connections[t])
          /\ emitted' = NoEvent
          /\ UNCHANGED state
    /\ UNCHANGED <<deferred, removals>>

\* Seeded fault: game data is passed on before the session is open.
DeliversAlways(c) == TRUE

Delivers(c) == state[c] = "connected"

ReceiveGameData(t) ==
    /\ Receive(t)
    /\ Delivers(connections[t])
    /\ emitted' = Event("encapsulated", t)
    /\ UNCHANGED <<state, deferred, removals>>

ReceiveDisconnectNotification(t, r) ==
    /\ Receive(t)
    /\ state[connections[t]] = "connected"
    /\ StartRemoval(r, connections[t])
    /\ UNCHANGED <<state, deferred>>

\* A ConnectedPing whose answer awaits the socket, followed in its datagram by
\* a DisconnectNotification.
ReceivePingThenDisconnect(t) ==
    /\ Receive(t)
    /\ state[connections[t]] = "connected"
    /\ deferred' = deferred \cup {connections[t]}
    /\ emitted' = NoEvent
    /\ UNCHANGED <<state, removals>>

ResumeDisconnect(c, r) ==
    /\ c \in deferred
    /\ deferred' = deferred \ {c}
    /\ StartRemoval(r, c)
    /\ UNCHANGED <<connections, tokenOf, state, active, late, kill, packets>>

-----------------------------------------------------------------------------
(* Timers.                                                                 *)

\* Ten seconds without a packet.
TimePasses(c) ==
    /\ c \in Created
    /\ ~late[c]
    /\ late' = [late EXCEPT ![c] = TRUE]
    /\ emitted' = NoEvent
    /\ UNCHANGED <<connections, tokenOf, state, active, deferred, removals, kill, packets>>

TimedOut(c) == ~active[c] /\ late[c]

\* update on the connection at t, which has timed out.
UpdateTimesOut(t, r) ==
    /\ connections[t] # None
    /\ TimedOut(connections[t])
    /\ StartRemoval(r, connections[t])
    /\ UNCHANGED <<connections, conns, kill, packets>>

\* Seeded fault: a connection stays active once it was.
ActiveKept(c) == active

ActiveReset(c) == [active EXCEPT ![c] = FALSE]

UpdateInTime(t) ==
    /\ connections[t] # None
    /\ ~TimedOut(connections[t])
    /\ active' = ActiveReset(connections[t])
    /\ emitted' = NoEvent
    /\ UNCHANGED <<connections, tokenOf, state, late, deferred, removals, kill, packets>>

\* Listener.kill starts polling.
Kill ==
    /\ kill = "no"
    /\ kill' = "waiting"
    /\ emitted' = NoEvent
    /\ UNCHANGED <<connections, conns, removals, packets>>

\* Seeded fault: connections that were closed count.
NoneWasMade == tokenOf = <<>>

\* connections.size is 0.
NoConnection == \A t \in Tokens : connections[t] = None

\* The poll that finds no connection ends it.
KillEnds ==
    /\ kill = "waiting"
    /\ NoConnection
    /\ kill' = "done"
    /\ emitted' = NoEvent
    /\ UNCHANGED <<connections, conns, removals, packets>>

-----------------------------------------------------------------------------

FromClient(t) ==
    \/ HandleOpenConnectionRequest2(t)
    \/ ReceiveOther(t)
    \/ ReceiveNewIncomingConnection(t)
    \/ ReceiveGameData(t)
    \/ \E r \in Removals : ReceiveDisconnectNotification(t, r)
    \/ ReceivePingThenDisconnect(t)

Timer(t) == UpdateInTime(t) \/ \E r \in Removals : UpdateTimesOut(t, r)

Next ==
    \/ \E t \in Tokens : FromClient(t) \/ Timer(t)
    \/ \E r \in Removals : FinishRemoval(r) \/ \E c \in deferred : ResumeDisconnect(c, r)
    \/ \E c \in Conns : TimePasses(c)
    \/ Kill \/ KillEnds

\* Timers fire, time passes and the socket calls back; clients owe nothing.
Fairness ==
    /\ \A t \in Tokens : WF_vars(Timer(t))
    /\ \A r \in Removals : WF_vars(FinishRemoval(r))
    /\ \A c \in Conns : WF_vars(TimePasses(c)) /\ WF_vars(\E r \in Removals : ResumeDisconnect(c, r))
    /\ WF_vars(KillEnds)

Spec == Init /\ [][Next]_vars

ListenerFairSpec == Spec /\ Fairness

-----------------------------------------------------------------------------
(* Properties.                                                             *)

\* The addresses whose session is open, as the server is told.
Open == {t \in Tokens : connections[t] # None /\ state[connections[t]] = "connected"}

\* What the listener promises to the server.
Sessions == INSTANCE SessionEvents WITH open <- Open, event <- emitted

\* It keeps the promise: a session opens once, delivers while it is open and
\* ends with a close, in spite of removals of what is no longer there.
ImplementsSessions == Sessions!Spec

\* No two addresses share a connection, and the connection at an address was
\* made for it: what removeConnection deletes is at the client's own address.
ConnectionAtOwnAddress ==
    \A t \in Tokens : connections[t] # None => tokenOf[connections[t]] = t

\* Once clients are silent every open session is closed.
SilentSessionsClose == \A t \in Tokens : t \in Open ~> t \notin Open

\* Once clients are silent kill comes to its end.
KillCompletes == kill = "waiting" ~> kill = "done"

=============================================================================
