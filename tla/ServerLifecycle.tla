--------------------------- MODULE ServerLifecycle ---------------------------
(***************************************************************************)
(* The life of the server process: start, reload, kill and restart, the    *)
(* managers they enable and disable in order, and the two lists of names   *)
(* that live in files (packages/prismarine/src/Server.ts,                  *)
(* permission/PermissionManager.ts, ban/BanManager.ts,                     *)
(* plugin/PluginManager.ts and packages/server/src/Server.ts).             *)
(*                                                                         *)
(* An enabling run is the start (number 0) or a reload (1 .. MaxReloads).  *)
(* It waits wherever the code waits for a file, a plugin, the network or   *)
(* the worlds, and everything else may happen meanwhile: another reload, a *)
(* ban, a kill.  fs.writeFile truncates the file first and writes later;   *)
(* process.exit cuts what is under way.                                    *)
(***************************************************************************)
EXTENDS Integers, FiniteSets

CONSTANTS
    Names,          (* names of players                                      *)
    MaxReloads,     (* bound: reloads of one process                         *)
    MaxChanges,     (* bound: changes of the lists in all                    *)
    MaxStarts       (* bound: times the process is started                   *)

ASSUME LifecycleAssumption ==
    /\ MaxReloads \in Nat /\ MaxChanges \in Nat /\ MaxStarts \in Nat

Lists == {"ops", "bans"}
Runs == 0 .. MaxReloads
NoRun == -1
KillRun == MaxReloads + 1     \* kill disables what a reload disables

\* The managers that hold nothing but what they register on onEnable.
Registries == {"packets", "items", "blocks", "commands"}

\* Where an enabling run waits.
Waits == {"plugins off", "ops", "permissions", "plugins on", "bans", "heartbeat",
          "worlds", "listen"}

VARIABLES
    stage,      (* "off", "starting", "up" or "stopping"                     *)
    step,       (* what each enabling run waits for, "idle" or "ended"       *)
    killing,    (* what kill waits for, or "idle"                            *)
    on,         (* the registries that are filled                            *)
    plugin,     (* the run whose instance of the plugin is registered        *)
    running,    (* the runs whose instance of the plugin was not disabled    *)
    captured,   (* the instance each run, or kill, found and is disabling    *)
    ticker,     (* the run whose heartbeat timer TelemetryManager knows      *)
    ticking,    (* the runs whose heartbeat timer ticks                      *)
    mem,        (* the names in memory                                       *)
    file,       (* the contents of each file                                 *)
    writes,     (* the writes under way, by the number of their change       *)
    starts, changes,
    loaded,     (* history: the lists read since they were last cleared      *)
    intended,   (* history: what the changes made of each list               *)
    disturbed,  (* history: lists with overlapping writes, a change while    *)
                (* they were not loaded, or a write cut or read half-way     *)
    overlapped, (* history: a reload began before another had ended          *)
    failed      (* history: an enabling run failed                           *)

lists == <<mem, file, writes, changes, loaded, intended, disturbed>>
timers == <<plugin, running, captured, ticker, ticking>>
vars == <<stage, step, killing, on, timers, lists, starts, overlapped, failed>>

Whole(names) == [state |-> "whole", names |-> names]
Empty == [state |-> "empty", names |-> {}]
Garbled == [state |-> "garbled", names |-> {}]
Absent == [state |-> "absent", names |-> {}]

\* A file holds a list, or what is left of one.
Contents == {Whole(names) : names \in SUBSET Names} \cup {Empty, Garbled, Absent}

\* A write of the whole list as it was in memory.
Write == [list : Lists, names : SUBSET Names, opened : BOOLEAN]

\* The file a run finds: a list that is not there is written empty first.
Found(f) == IF file[f] = Absent THEN Whole({}) ELSE file[f]
Parses(f) == Found(f).state = "whole"

Writing(f) == \E c \in DOMAIN writes : writes[c].list = f

NoOne == [r \in 0 .. KillRun |-> NoRun]

TypeOK ==
    /\ stage \in {"off", "starting", "up", "stopping"}
    /\ step \in [Runs -> Waits \cup {"idle", "ended"}]
    /\ killing \in {"idle", "kick", "save", "unload", "plugins off", "raknet"}
    /\ on \subseteq Registries
    /\ plugin \in Runs \cup {NoRun} /\ ticker \in Runs \cup {NoRun}
    /\ running \subseteq Runs /\ ticking \subseteq Runs
    /\ captured \in [0 .. KillRun -> Runs \cup {NoRun}]
    /\ mem \in [Lists -> SUBSET Names]
    /\ file \in [Lists -> Contents]
    /\ changes \in Nat /\ DOMAIN writes \subseteq 1 .. changes
    /\ writes \in [DOMAIN writes -> Write]
    /\ loaded \subseteq Lists /\ disturbed \subseteq Lists
    /\ intended \in [Lists -> SUBSET Names]

Init ==
    /\ stage = "off" /\ step = [r \in Runs |-> "idle"] /\ killing = "idle"
    /\ on = {} /\ plugin = NoRun /\ running = {} /\ captured = NoOne
    /\ ticker = NoRun /\ ticking = {} /\ writes = <<>> /\ loaded = {}
    /\ mem = [f \in Lists |-> {}]
    /\ \E old \in {Absent, Whole(Names)} : file = [f \in Lists |-> old]
    /\ intended = [f \in Lists |-> file[f].names]
    /\ starts = 0 /\ changes = 0
    /\ disturbed = {} /\ overlapped = FALSE /\ failed = FALSE

-----------------------------------------------------------------------------
(* Disabling                                                               *)

\* Seeded fault: TelemetryManager.onDisable leaves its timer.
HeartbeatGoesOn == ticking' = ticking

\* TelemetryManager.onDisable clears the timer it knows.
StopHeartbeat == ticking' = ticking \ {ticker}

Clear(f) == mem' = [mem EXCEPT ![f] = {}] /\ loaded' = loaded \ {f}

\* Server.onDisable up to the plugins, which take their time.
DisableUntilPlugins(who) ==
    /\ StopHeartbeat
    /\ Clear("bans")
    /\ captured' = [captured EXCEPT ![who] = plugin]
    /\ UNCHANGED <<plugin, running, ticker, file, writes, changes, intended, disturbed>>

\* The rest of it, once they are disabled: the plugin found at the beginning is
\* removed by its name, whatever instance has that name now.
DisableRest(who) ==
    /\ running' = running \ {captured[who]}
    /\ plugin' = IF captured[who] = NoRun THEN plugin ELSE NoRun
    /\ captured' = [captured EXCEPT ![who] = NoRun]
    /\ Clear("ops")
    /\ UNCHANGED <<ticker, ticking, file, writes, changes, intended, disturbed>>

-----------------------------------------------------------------------------
(* The process                                                             *)

Waiting(r) == step[r] \in Waits
Goes(r, wait) == step' = [step EXCEPT ![r] = wait]

\* A new process: the packets are registered before the first wait.
Start ==
    /\ stage = "off" /\ starts < MaxStarts
    /\ stage' = "starting" /\ starts' = starts + 1
    /\ on' = {"packets"}
    /\ Goes(0, "ops")
    /\ UNCHANGED <<killing, timers, lists, overlapped, failed>>

\* The process is gone, with the writes under way.
Gone ==
    /\ stage' = "off" /\ step' = [r \in Runs |-> "idle"] /\ killing' = "idle"
    /\ on' = {} /\ plugin' = NoRun /\ running' = {} /\ captured' = NoOne
    /\ ticker' = NoRun /\ ticking' = {} /\ writes' = <<>> /\ loaded' = {}
    /\ mem' = [f \in Lists |-> {}]
    /\ disturbed' = disturbed \cup {f \in Lists : Writing(f)}
    /\ overlapped' = FALSE /\ failed' = FALSE
    /\ UNCHANGED <<file, changes, intended, starts>>

\* kill: only the first call does anything.
KillFrom(stages) == stage \in stages /\ stage' = "stopping" /\ killing' = "kick"

\* The stop command, a signal, or an error nobody caught.
Kill ==
    /\ KillFrom({"starting", "up"})
    /\ UNCHANGED <<step, on, timers, lists, starts, overlapped, failed>>

Kick ==
    /\ killing = "kick" /\ killing' = "save"
    /\ UNCHANGED <<stage, step, on, timers, lists, starts, overlapped, failed>>

SaveWorlds ==
    /\ killing = "save" /\ killing' = "unload"
    /\ UNCHANGED <<stage, step, on, timers, lists, starts, overlapped, failed>>

\* Seeded fault: an error leaves kill where it is.
SaveFailsStuck ==
    /\ killing = "save" /\ killing' = "idle"
    /\ UNCHANGED <<stage, step, on, timers, lists, starts, overlapped, failed>>

\* An error of the worlds ends the process at once, with the rest not disabled.
SaveFails == killing \in {"save", "unload"} /\ Gone

UnloadWorlds ==
    /\ killing = "unload" /\ killing' = "plugins off"
    /\ on' = on \ {"items", "blocks", "commands"}
    /\ DisableUntilPlugins(KillRun)
    /\ UNCHANGED <<stage, step, starts, overlapped, failed>>

KillPlugins ==
    /\ killing = "plugins off" /\ killing' = "raknet"
    /\ on' = on \ {"packets"}
    /\ DisableRest(KillRun)
    /\ UNCHANGED <<stage, step, starts, overlapped, failed>>

\* RakNet has nothing left to send: process.exit.
Exit == killing = "raknet" /\ Gone

KillStep == Kick \/ SaveWorlds \/ SaveFails \/ UnloadWorlds \/ KillPlugins \/ Exit

\* The machine or the operating system ends the process.
Crash == stage # "off" /\ Gone

-----------------------------------------------------------------------------
(* Reload and the enabling runs                                            *)

\* The packet registry is replaced first, so that the new one is disabled.
Reload(r) ==
    /\ stage = "up" /\ r # 0 /\ step[r] = "idle"
    /\ \A q \in 1 .. r - 1 : step[q] # "idle"
    /\ on' = {}
    /\ DisableUntilPlugins(r)
    /\ Goes(r, "plugins off")
    /\ overlapped' = (overlapped \/ \E q \in Runs : Waiting(q))
    /\ UNCHANGED <<stage, killing, starts, failed>>

\* Seeded fault: the packets are not registered again.
PacketsStayOff == on \ {"packets"}

\* The registry is cleared, and filled again before the next wait.
PacketsAgain == on \cup {"packets"}

FinishDisable(r) ==
    /\ step[r] = "plugins off"
    /\ DisableRest(r)
    /\ on' = PacketsAgain
    /\ Goes(r, "ops")
    /\ UNCHANGED <<stage, killing, starts, overlapped, failed>>

\* The names of the file are added to those in memory.
ReadList(f) ==
    /\ Parses(f)
    /\ file' = [file EXCEPT ![f] = Found(f)]
    /\ mem' = [mem EXCEPT ![f] = @ \cup Found(f).names]
    /\ loaded' = loaded \cup {f}
    /\ disturbed' = IF Writing(f) THEN disturbed \cup {f} ELSE disturbed
    /\ UNCHANGED <<writes, changes, intended>>

ReadOps(r) ==
    /\ step[r] = "ops" /\ ReadList("ops")
    /\ Goes(r, "permissions")
    /\ UNCHANGED <<stage, killing, on, timers, starts, overlapped, failed>>

\* permissions.json, which nothing writes once it exists.
ReadPermissions(r) ==
    /\ step[r] = "permissions" /\ Goes(r, "plugins on")
    /\ UNCHANGED <<stage, killing, on, timers, lists, starts, overlapped, failed>>

EnablePlugins(r) ==
    /\ step[r] = "plugins on" /\ Goes(r, "bans")
    /\ plugin' = r /\ running' = running \cup {r}
    /\ UNCHANGED <<stage, killing, on, captured, ticker, ticking, lists, starts, overlapped, failed>>

\* Items, blocks and commands follow without a wait; blocks that are there
\* already end the run before it comes to the commands.
ReadBans(r) ==
    /\ step[r] = "bans" /\ ReadList("bans")
    /\ IF "blocks" \in on
          THEN on' = on \cup {"items"} /\ Goes(r, "ended")
          ELSE on' = on \cup {"items", "blocks", "commands"} /\ Goes(r, "heartbeat")
    /\ UNCHANGED <<stage, killing, timers, starts, overlapped, failed>>

Heartbeat(r) ==
    /\ step[r] = "heartbeat"
    /\ ticker' = r /\ ticking' = ticking \cup {r}
    /\ Goes(r, IF r = 0 THEN "worlds" ELSE "ended")
    /\ UNCHANGED <<stage, killing, on, plugin, running, captured, lists, starts, overlapped, failed>>

LoadWorlds ==
    /\ step[0] = "worlds" /\ Goes(0, "listen")
    /\ UNCHANGED <<stage, killing, on, timers, lists, starts, overlapped, failed>>

Listen ==
    /\ step[0] = "listen" /\ Goes(0, "ended")
    /\ stage' = IF stage = "starting" THEN "up" ELSE stage
    /\ UNCHANGED <<killing, on, timers, lists, starts, overlapped, failed>>

\* A file that does not parse ends the run.  The start, which may also find the
\* port taken, kills the server then, unless it is being killed.
RunFails(r) ==
    /\ \/ step[r] \in Lists /\ ~Parses(step[r])
       \/ step[r] = "listen"
    /\ Goes(r, "ended")
    /\ failed' = TRUE
    /\ IF r = 0 /\ stage = "starting" THEN KillFrom({"starting"}) ELSE UNCHANGED <<stage, killing>>
    /\ UNCHANGED <<on, timers, lists, starts, overlapped>>

EnablingStep(r) ==
    FinishDisable(r) \/ ReadOps(r) \/ ReadPermissions(r) \/ EnablePlugins(r) \/ ReadBans(r)
    \/ Heartbeat(r) \/ RunFails(r)

-----------------------------------------------------------------------------
(* The lists                                                               *)

\* Seeded fault: the list is written before the name is in it.
WrittenBefore(f, names) == mem[f]

\* setBanned, setUnbanned and setOp write the whole list as it is in memory.
Written(f, names) == names

\* A command or an AdventureSettingsPacket of an operator changes a list.  What
\* they wait for before (packets to the player) puts them in any order.
Change(f, n, member) ==
    /\ changes < MaxChanges
    /\ \/ stage \in {"up", "stopping"}
       \/ stage = "starting" /\ f = "bans" /\ "commands" \in on
    /\ LET names == IF member THEN mem[f] \cup {n} ELSE mem[f] \ {n}
       IN /\ mem' = [mem EXCEPT ![f] = names]
          /\ writes' = [c \in DOMAIN writes \cup {changes + 1} |->
                          IF c = changes + 1
                             THEN [list |-> f, names |-> Written(f, names), opened |-> FALSE]
                             ELSE writes[c]]
    /\ changes' = changes + 1
    /\ intended' = [intended EXCEPT ![f] = IF member THEN @ \cup {n} ELSE @ \ {n}]
    /\ disturbed' = IF Writing(f) \/ f \notin loaded THEN disturbed \cup {f} ELSE disturbed
    /\ UNCHANGED <<stage, step, killing, on, timers, file, loaded, starts, overlapped, failed>>

Without(c) == [d \in DOMAIN writes \ {c} |-> writes[d]]

\* fs.writeFile opens the file, which empties it ...
OpenWrite(c) ==
    /\ c \in DOMAIN writes /\ ~writes[c].opened
    /\ writes' = [writes EXCEPT ![c].opened = TRUE]
    /\ file' = [file EXCEPT ![writes[c].list] = Empty]
    /\ UNCHANGED <<stage, step, killing, on, timers, mem, changes, loaded, intended, disturbed,
                   starts, overlapped, failed>>

\* ... and writes from its beginning over what another write left there.
Over(old, new) == IF old \in {Empty, new} THEN {new} ELSE {new, Garbled}

FinishWrite(c) ==
    /\ c \in DOMAIN writes /\ writes[c].opened
    /\ \E new \in Over(file[writes[c].list], Whole(writes[c].names)) :
          file' = [file EXCEPT ![writes[c].list] = new]
    /\ writes' = Without(c)
    /\ UNCHANGED <<stage, step, killing, on, timers, mem, changes, loaded, intended, disturbed,
                   starts, overlapped, failed>>

\* A write fails, before or after it emptied the file; memory keeps the change.
WriteFails(c) ==
    /\ c \in DOMAIN writes
    /\ writes' = Without(c)
    /\ disturbed' = disturbed \cup {writes[c].list}
    /\ UNCHANGED <<stage, step, killing, on, timers, mem, file, changes, loaded, intended,
                   starts, overlapped, failed>>

-----------------------------------------------------------------------------

Next ==
    \/ Start \/ Kill \/ KillStep \/ Crash
    \/ LoadWorlds \/ Listen
    \/ \E r \in Runs : Reload(r) \/ EnablingStep(r)
    \/ \E f \in Lists, n \in Names, member \in BOOLEAN : Change(f, n, member)
    \/ \E c \in DOMAIN writes : OpenWrite(c) \/ FinishWrite(c) \/ WriteFails(c)

\* What kill waits for comes: packets and files are written, plugins return, and
\* RakNet has no connection left once the silent ones are closed.
Fairness == WF_vars(KillStep)

Spec == Init /\ [][Next]_vars /\ Fairness

-----------------------------------------------------------------------------

\* Through reloads, kills, crashes and restarts, a list in memory holds what the
\* changes made of it, and so does its file when nothing is being written: except
\* a list two of whose writes overlapped, or that was changed while a reload had
\* it cleared, or whose write failed, was cut by the end of the process or was
\* under way when the list was read.
ListsAreKept ==
    \A f \in Lists \ disturbed :
        /\ f \in loaded => mem[f] = intended[f]
        /\ ~Writing(f) => Found(f) = Whole(intended[f])

\* A server that is up and not reloading has every manager enabled, although
\* reloads may overlap, each disabling what the other enables and one of them
\* ending at the blocks of the other; unless a file did not parse.
EverythingIsOn ==
    stage = "up" /\ ~failed /\ (\A r \in Runs : ~Waiting(r)) =>
        on = Registries /\ loaded = Lists /\ plugin \in running /\ ticker \in ticking

\* Unless two reloads overlap, there is never a second instance of a plugin that
\* was not disabled, nor a second heartbeat timer; a kill in the middle of a
\* reload makes none either.
NothingRunsTwice ==
    ~overlapped => Cardinality(running) <= 1 /\ Cardinality(ticking) <= 1

\* A server that is being killed ends, whatever reload, start or error is under way.
KillEnds == stage = "stopping" ~> stage = "off"
=============================================================================
