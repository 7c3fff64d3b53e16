------------------------- MODULE ServerLifecycleProofs -------------------------
(***************************************************************************)
(* What ServerLifecycle guarantees for any names, and any number of        *)
(* reloads, changes and starts.                                            *)
(***************************************************************************)
EXTENDS ServerLifecycle, FiniteSetTheorems, TLAPS

\* What a run finds in a file is a list, or the rest of one.
LEMMA FoundType ==
    ASSUME TypeOK, NEW f \in Lists
    PROVE  Found(f) \in Contents /\ Found(f).names \in SUBSET Names
<1>1. Whole({}) \in Contents
  BY DEF Contents
<1>2. Found(f) \in Contents
  BY <1>1 DEF TypeOK, Contents, Found
<1>3. \A x \in Contents : x.names \in SUBSET Names
  BY DEF Contents, Whole, Empty, Garbled, Absent
<1> QED
  BY <1>2, <1>3

\* The runs are numbered from the start, and kill has the number after them.
LEMMA RunNumbers ==
    /\ Runs \subseteq 0 .. KillRun /\ KillRun \in 0 .. KillRun /\ 0 \in Runs
    /\ NoRun \notin Runs
BY LifecycleAssumption DEF Runs, KillRun, NoRun

\* Clearing a list and reading it again.
LEMMA ClearType ==
    ASSUME TypeOK, NEW f \in Lists, Clear(f)
    PROVE  mem' \in [Lists -> SUBSET Names] /\ loaded' \subseteq Lists
BY DEF TypeOK, Clear

LEMMA ReadListType ==
    ASSUME TypeOK, NEW f \in Lists, ReadList(f)
    PROVE  /\ mem' \in [Lists -> SUBSET Names] /\ loaded' \subseteq Lists
           /\ file' \in [Lists -> Contents]
           /\ disturbed' \subseteq Lists
           /\ UNCHANGED <<writes, changes, intended>>
<1>1. file' \in [Lists -> Contents]
  BY FoundType DEF ReadList, TypeOK, Contents
<1>2. mem' \in [Lists -> SUBSET Names]
  <2>1. mem[f] \cup Found(f).names \in SUBSET Names
    BY FoundType DEF TypeOK
  <2> QED
    BY <2>1 DEF ReadList, TypeOK
<1> QED
  BY <1>1, <1>2 DEF ReadList, TypeOK

\* What a disabling leaves of the managers.
LEMMA DisableType ==
    ASSUME TypeOK, NEW who \in 0 .. KillRun,
           DisableUntilPlugins(who) \/ DisableRest(who)
    PROVE  /\ mem' \in [Lists -> SUBSET Names] /\ loaded' \subseteq Lists
           /\ plugin' \in Runs \cup {NoRun} /\ ticker' = ticker
           /\ running' \subseteq Runs /\ ticking' \subseteq Runs
           /\ captured' \in [0 .. KillRun -> Runs \cup {NoRun}]
           /\ UNCHANGED <<file, writes, changes, intended, disturbed>>
<1>1. CASE DisableUntilPlugins(who)
  <2>1. Clear("bans") /\ "bans" \in Lists
    BY <1>1 DEF DisableUntilPlugins, Lists
  <2> QED
    BY <1>1, <2>1, ClearType DEF DisableUntilPlugins, StopHeartbeat, TypeOK
<1>2. CASE DisableRest(who)
  <2>1. Clear("ops") /\ "ops" \in Lists
    BY <1>2 DEF DisableRest, Lists
  <2>2. captured' \in [0 .. KillRun -> Runs \cup {NoRun}]
    BY <1>2 DEF DisableRest, TypeOK
  <2> QED
    BY <1>2, <2>1, <2>2, ClearType DEF DisableRest, TypeOK
<1> QED
  BY <1>1, <1>2

\* The process is gone: everything but the files is as before the start.
LEMMA GoneType == ASSUME TypeOK, Gone PROVE TypeOK'
<1>1. /\ stage' = "off" /\ killing' = "idle" /\ on' = {} /\ plugin' = NoRun /\ running' = {}
      /\ ticker' = NoRun /\ ticking' = {} /\ loaded' = {} /\ disturbed' \subseteq Lists
      /\ UNCHANGED <<file, changes, intended>>
  BY DEF Gone, TypeOK
<1>2. step' \in [Runs -> Waits \cup {"idle", "ended"}]
  BY DEF Gone
<1>3. captured' \in [0 .. KillRun -> Runs \cup {NoRun}]
  BY DEF Gone, NoOne
<1>4. mem' \in [Lists -> SUBSET Names]
  BY DEF Gone
<1>5. /\ DOMAIN writes' \subseteq 1 .. changes'
      /\ writes' \in [DOMAIN writes' -> Write]
  <2>1. writes' = <<>> /\ DOMAIN writes' = {}
    BY DEF Gone
  <2> QED
    BY <2>1
<1> QED
  BY <1>1, <1>2, <1>3, <1>4, <1>5 DEF TypeOK

\* A step that leaves the lists and the timers alone.
LEMMA StagesType ==
    ASSUME TypeOK, UNCHANGED <<timers, lists>>,
           stage' \in {"off", "starting", "up", "stopping"},
           step' \in [Runs -> Waits \cup {"idle", "ended"}],
           killing' \in {"idle", "kick", "save", "unload", "plugins off", "raknet"},
           on' \subseteq Registries
    PROVE  TypeOK'
BY DEF TypeOK, timers, lists

\* An enabling run goes on to its next wait, or ends.
LEMMA GoesType ==
    ASSUME TypeOK, NEW r \in Runs, NEW wait \in Waits \cup {"idle", "ended"}, Goes(r, wait)
    PROVE  step' \in [Runs -> Waits \cup {"idle", "ended"}]
BY DEF TypeOK, Goes

\* The steps of kill keep the types.
LEMMA KillType == TypeOK /\ (Kill \/ KillStep \/ Crash) => TypeOK'
<1> SUFFICES ASSUME TypeOK, Kill \/ KillStep \/ Crash PROVE TypeOK'
  OBVIOUS
<1>1. CASE Kill
  BY <1>1, StagesType DEF Kill, KillFrom, TypeOK
<1>2. CASE Kick \/ SaveWorlds
  BY <1>2, StagesType DEF Kick, SaveWorlds, TypeOK
<1>3. CASE SaveFails \/ Exit \/ Crash
  BY <1>3, GoneType DEF SaveFails, Exit, Crash
<1>4. CASE UnloadWorlds
  <2>1. DisableUntilPlugins(KillRun) /\ KillRun \in 0 .. KillRun
    BY <1>4, RunNumbers DEF UnloadWorlds
  <2> QED
    BY <1>4, <2>1, DisableType DEF UnloadWorlds, TypeOK
<1>5. CASE KillPlugins
  <2>1. DisableRest(KillRun) /\ KillRun \in 0 .. KillRun
    BY <1>5, RunNumbers DEF KillPlugins
  <2> QED
    BY <1>5, <2>1, DisableType DEF KillPlugins, TypeOK
<1> QED
  BY <1>1, <1>2, <1>3, <1>4, <1>5 DEF KillStep

\* The steps of an enabling run keep the types.
LEMMA EnablingType == \A r \in Runs : TypeOK /\ (Reload(r) \/ EnablingStep(r)) => TypeOK'
<1> SUFFICES ASSUME NEW r \in Runs, TypeOK, Reload(r) \/ EnablingStep(r) PROVE TypeOK'
  OBVIOUS
<1>0. r \in 0 .. KillRun /\ "ops" \in Lists /\ "bans" \in Lists
  BY RunNumbers DEF Lists
<1>1. CASE Reload(r)
  <2>1. step' \in [Runs -> Waits \cup {"idle", "ended"}]
    BY <1>1, GoesType DEF Reload, Waits
  <2> QED
    BY <1>0, <1>1, <2>1, DisableType DEF Reload, TypeOK
<1>2. CASE FinishDisable(r)
  <2>1. step' \in [Runs -> Waits \cup {"idle", "ended"}]
    BY <1>2, GoesType DEF FinishDisable, Waits
  <2> QED
    BY <1>0, <1>2, <2>1, DisableType DEF FinishDisable, PacketsAgain, Registries, TypeOK
<1>3. CASE ReadOps(r)
  <2>1. step' \in [Runs -> Waits \cup {"idle", "ended"}]
    BY <1>3, GoesType DEF ReadOps, Waits
  <2> QED
    BY <1>0, <1>3, <2>1, ReadListType DEF ReadOps, timers, TypeOK, Contents
<1>4. CASE ReadPermissions(r)
  <2>1. step' \in [Runs -> Waits \cup {"idle", "ended"}]
    BY <1>4, GoesType DEF ReadPermissions, Waits
  <2> QED
    BY <1>4, <2>1, StagesType DEF ReadPermissions, TypeOK
<1>5. CASE EnablePlugins(r)
  <2>1. step' \in [Runs -> Waits \cup {"idle", "ended"}]
    BY <1>5, GoesType DEF EnablePlugins, Waits
  <2> QED
    BY <1>5, <2>1 DEF EnablePlugins, lists, TypeOK
<1>6. CASE ReadBans(r)
  <2>1. step' \in [Runs -> Waits \cup {"idle", "ended"}] /\ on' \subseteq Registries
    <3>1. CASE "blocks" \in on
      BY <1>6, <3>1, GoesType DEF ReadBans, Waits, Registries, TypeOK
    <3>2. CASE "blocks" \notin on
      BY <1>6, <3>2, GoesType DEF ReadBans, Waits, Registries, TypeOK
    <3> QED
      BY <3>1, <3>2
  <2> QED
    BY <1>0, <1>6, <2>1, ReadListType DEF ReadBans, timers, TypeOK, Contents
<1>7. CASE Heartbeat(r)
  <2>1. step' \in [Runs -> Waits \cup {"idle", "ended"}]
    BY <1>7, GoesType DEF Heartbeat, Waits
  <2> QED
    BY <1>7, <2>1 DEF Heartbeat, lists, TypeOK
<1>8. CASE RunFails(r)
  <2>1. step' \in [Runs -> Waits \cup {"idle", "ended"}]
    BY <1>8, GoesType DEF RunFails
  <2> QED
    BY <1>8, <2>1, StagesType DEF RunFails, KillFrom, TypeOK
<1> QED
  BY <1>1, <1>2, <1>3, <1>4, <1>5, <1>6, <1>7, <1>8 DEF EnablingStep

\* The steps of the lists and their files keep the types.
LEMMA ListsType ==
    TypeOK /\ (\/ \E f \in Lists, n \in Names, member \in BOOLEAN : Change(f, n, member)
               \/ \E c \in DOMAIN writes : OpenWrite(c) \/ FinishWrite(c) \/ WriteFails(c))
        => TypeOK'
<1>1. ASSUME TypeOK, NEW f \in Lists, NEW n \in Names, NEW member \in BOOLEAN,
             Change(f, n, member)
      PROVE  TypeOK'
  <2> DEFINE names == IF member THEN mem[f] \cup {n} ELSE mem[f] \ {n}
             new == [list |-> f, names |-> names, opened |-> FALSE]
  <2>1. names \in SUBSET Names
    BY <1>1 DEF TypeOK
  <2>2. new \in Write
    BY <2>1 DEF Write
  <2>3. writes' = [c \in DOMAIN writes \cup {changes + 1} |->
                       IF c = changes + 1 THEN new ELSE writes[c]]
    BY <1>1 DEF Change, Written
  <2>4. mem' = [mem EXCEPT ![f] = names]
    BY <1>1 DEF Change
  <2> HIDE DEF new, names
  <2>5. /\ changes' \in Nat /\ DOMAIN writes' \subseteq 1 .. changes'
        /\ writes' \in [DOMAIN writes' -> Write]
    <3>1. changes \in Nat /\ changes' = changes + 1 /\ DOMAIN writes \subseteq 1 .. changes
      BY <1>1 DEF Change, TypeOK
    <3>2. DOMAIN writes' = DOMAIN writes \cup {changes + 1}
      BY <2>3
    <3>3. DOMAIN writes' \subseteq 1 .. changes'
      BY <3>1, <3>2
    <3>4. \A c \in DOMAIN writes :
              writes[c] \in Write
      BY <1>1 DEF TypeOK
    <3> QED
      BY <2>2, <2>3, <3>1, <3>3, <3>4
  <2>6. mem' \in [Lists -> SUBSET Names]
    BY <1>1, <2>1, <2>4 DEF TypeOK
  <2>7. intended' \in [Lists -> SUBSET Names] /\ disturbed' \subseteq Lists
    BY <1>1 DEF Change, TypeOK
  <2> QED
    BY <1>1, <2>5, <2>6, <2>7 DEF Change, timers, TypeOK
<1>2. ASSUME TypeOK, NEW c \in DOMAIN writes
      PROVE  /\ writes[c] \in Write
             /\ DOMAIN Without(c) \subseteq 1 .. changes
             /\ Without(c) \in
                    [DOMAIN Without(c) -> Write]
  BY <1>2 DEF TypeOK, Without
<1>3. ASSUME TypeOK, NEW c \in DOMAIN writes, OpenWrite(c) PROVE TypeOK'
  <2>1. /\ DOMAIN writes' \subseteq 1 .. changes'
        /\ writes' \in [DOMAIN writes' -> Write]
    <3> DEFINE w == [writes[c] EXCEPT !.opened = TRUE]
    <3>1. w \in Write
      BY <1>2, <1>3 DEF Write
    <3>2. writes' = [writes EXCEPT ![c] = w] /\ changes' = changes
      BY <1>3 DEF OpenWrite
    <3> HIDE DEF w
    <3>3. writes \in [DOMAIN writes -> Write] /\ DOMAIN writes \subseteq 1 .. changes
      BY <1>3 DEF TypeOK
    <3> QED
      BY <3>1, <3>2, <3>3
  <2>2. file' \in [Lists -> Contents]
    BY <1>2, <1>3 DEF OpenWrite, TypeOK, Contents, Write
  <2> QED
    BY <1>3, <2>1, <2>2 DEF OpenWrite, timers, TypeOK, Contents, Write
<1>4. ASSUME TypeOK, NEW c \in DOMAIN writes, FinishWrite(c) PROVE TypeOK'
  <2>1. Over(file[writes[c].list], Whole(writes[c].names)) \subseteq Contents
    <3>1. writes[c].names \in SUBSET Names
      BY <1>2, <1>4 DEF Write
    <3>2. Whole(writes[c].names) \in Contents /\ Garbled \in Contents
      BY <3>1 DEF Contents
    <3> QED
      BY <3>2 DEF Over
  <2>2. file' \in [Lists -> Contents]
    BY <1>4, <2>1 DEF FinishWrite, TypeOK
  <2>3. /\ DOMAIN writes' \subseteq 1 .. changes'
        /\ writes' \in [DOMAIN writes' -> Write]
    BY <1>2, <1>4 DEF FinishWrite
  <2>4. /\ UNCHANGED <<stage, step, killing, on, timers, mem, changes, loaded>>
        /\ UNCHANGED <<intended, disturbed>>
    BY <1>4 DEF FinishWrite
  <2>5. Write' = Write /\ Contents' = Contents
    BY DEF Write, Contents
  <2> QED
    BY <1>4, <2>2, <2>3, <2>4, <2>5 DEF timers, TypeOK
<1>5. ASSUME TypeOK, NEW c \in DOMAIN writes, WriteFails(c) PROVE TypeOK'
  <2>1. disturbed' \subseteq Lists
    <3>1. writes[c].list \in Lists
      BY <1>2, <1>5 DEF Write
    <3>2. disturbed \subseteq Lists /\ disturbed' = disturbed \cup {writes[c].list}
      BY <1>5 DEF WriteFails, TypeOK
    <3> QED
      BY <3>1, <3>2
  <2>2. /\ DOMAIN writes' \subseteq 1 .. changes'
        /\ writes' \in [DOMAIN writes' -> Write]
    BY <1>2, <1>5 DEF WriteFails
  <2>3. UNCHANGED <<stage, step, killing, on, timers, mem, file, changes, loaded, intended>>
    BY <1>5 DEF WriteFails
  <2>4. file' \in [Lists -> Contents]
    BY <1>5, <2>3 DEF TypeOK
  <2> QED
    BY <1>5, <2>1, <2>2, <2>3, <2>4 DEF timers, TypeOK
<1> QED
  BY <1>1, <1>3, <1>4, <1>5

LEMMA TypeStep == TypeOK /\ [Next]_vars => TypeOK'
<1> SUFFICES ASSUME TypeOK, [Next]_vars PROVE TypeOK'
  OBVIOUS
<1>1. CASE Start
  <2>1. step' \in [Runs -> Waits \cup {"idle", "ended"}]
    BY <1>1, RunNumbers, GoesType DEF Start, Waits
  <2> QED
    BY <1>1, <2>1, StagesType DEF Start, Registries, TypeOK
<1>2. CASE LoadWorlds \/ Listen
  <2>1. step' \in [Runs -> Waits \cup {"idle", "ended"}]
    BY <1>2, RunNumbers, GoesType DEF LoadWorlds, Listen, Waits
  <2> QED
    BY <1>2, <2>1, StagesType DEF LoadWorlds, Listen, TypeOK
<1>3. CASE UNCHANGED vars
  BY <1>3 DEF vars, timers, lists, TypeOK
<1> QED
  BY <1>1, <1>2, <1>3, KillType, EnablingType, ListsType DEF Next

\* The managers, timers and lists of the process keep their types through any
\* starts, reloads, kills and crashes.
THEOREM TypeCorrect == Spec => []TypeOK
<1>1. Init => TypeOK
  <2> SUFFICES ASSUME Init PROVE TypeOK
    OBVIOUS
  <2>1. /\ file \in [Lists -> Contents] /\ intended \in [Lists -> SUBSET Names]
    BY DEF Init, Contents, Whole, Absent
  <2>2. captured \in [0 .. KillRun -> Runs \cup {NoRun}]
    BY DEF Init, NoOne
  <2>3. writes = <<>> /\ DOMAIN writes = {}
    BY DEF Init
  <2> QED
    BY <2>1, <2>2, <2>3 DEF Init, TypeOK, Contents
<1> QED
  BY <1>1, TypeStep, PTL DEF Spec

-----------------------------------------------------------------------------
(* What a list and its file hold.  ListsAreKept is not inductive: a write  *)
(* that ends must find the file as it left it and must carry what the      *)
(* changes made of the list, and a list that is read must not be added to  *)
(* names that are no longer in it.                                         *)

\* At most one write of the list is under way, it carries the list as the changes
\* made it, and once it has opened the file the file is empty.
WritesKept(f) ==
    \A c \in DOMAIN writes : writes[c].list = f =>
        /\ writes[c].names = intended[f]
        /\ writes[c].opened => file[f] = Empty
        /\ \A d \in DOMAIN writes : writes[d].list = f => d = c

Kept(f) ==
    /\ mem[f] = IF f \in loaded THEN intended[f] ELSE {}
    /\ WritesKept(f)
    /\ ~Writing(f) => Found(f) = Whole(intended[f])

KeptInv == \A f \in Lists \ disturbed : Kept(f)

\* The lists a step does not touch stay kept.
LEMMA KeptFrame ==
    ASSUME NEW f, Kept(f), mem'[f] = mem[f], file'[f] = file[f], intended'[f] = intended[f],
           f \in loaded' <=> f \in loaded, UNCHANGED writes
    PROVE  Kept(f)'
BY DEF Kept, WritesKept, Writing, Found, Whole, Empty, Absent

LEMMA KeptUnchanged ==
    KeptInv /\ UNCHANGED lists => KeptInv'
<1> SUFFICES ASSUME KeptInv, UNCHANGED lists, NEW f \in Lists \ disturbed PROVE Kept(f)'
  BY DEF KeptInv, lists
<1> QED
  BY KeptFrame DEF KeptInv, lists

\* A list that is cleared is no longer loaded; its file stays.
LEMMA KeptClear ==
    ASSUME TypeOK, KeptInv, NEW f \in Lists, Clear(f),
           UNCHANGED <<file, writes, intended, disturbed>>
    PROVE  KeptInv'
<1> SUFFICES ASSUME NEW g \in Lists \ disturbed PROVE Kept(g)'
  BY DEF KeptInv
<1>1. Kept(g)
  BY DEF KeptInv
<1>2. CASE g = f
  <2>1. mem'[f] = {} /\ f \notin loaded'
    BY DEF Clear, TypeOK
  <2> QED
    BY <1>1, <1>2, <2>1 DEF Kept, WritesKept, Writing, Found, Whole, Empty, Absent
<1>3. CASE g # f
  <2>1. mem'[g] = mem[g] /\ (g \in loaded' <=> g \in loaded)
    BY <1>3 DEF Clear, TypeOK
  <2> QED
    BY <1>1, <2>1, KeptFrame
<1> QED
  BY <1>2, <1>3

\* A list that is read while no write of it is under way is what the changes made
\* of it, whether it was in memory already or not.
LEMMA KeptRead ==
    ASSUME TypeOK, KeptInv, NEW f \in Lists, ReadList(f)
    PROVE  KeptInv'
<1> SUFFICES ASSUME NEW g \in Lists \ disturbed' PROVE Kept(g)'
  BY DEF KeptInv
<1>1. g \in Lists \ disturbed /\ Kept(g)
  BY DEF KeptInv, ReadList
<1>2. CASE g = f
  <2>1. ~Writing(f) /\ Found(f) = Whole(intended[f])
    <3>1. ~Writing(f)
      BY <1>2 DEF ReadList
    <3> QED
      BY <1>1, <1>2, <3>1 DEF Kept
  <2>2. mem'[f] = intended[f] /\ f \in loaded'
    <3>0. mem'[f] = mem[f] \cup Found(f).names
      BY DEF ReadList, TypeOK
    <3>1. mem'[f] = mem[f] \cup intended[f]
      BY <2>1, <3>0 DEF Whole
    <3>2. mem[f] = intended[f] \/ mem[f] = {}
      BY <1>1, <1>2 DEF Kept
    <3> QED
      BY <3>1, <3>2 DEF ReadList
  <2>3. file'[f] = Whole(intended[f]) /\ UNCHANGED <<writes, intended>>
    BY <2>1 DEF ReadList, TypeOK
  <2>4. Found(f)' = Whole(intended[f])
    BY <2>3 DEF Found, Whole, Absent
  <2>5. ~Writing(f)' /\ WritesKept(f)'
    BY <2>1, <2>3 DEF Writing, WritesKept
  <2> QED
    BY <1>2, <2>2, <2>3, <2>4, <2>5 DEF Kept
<1>3. CASE g # f
  <2>1. /\ mem'[g] = mem[g] /\ file'[g] = file[g] /\ UNCHANGED <<writes, intended>>
        /\ g \in loaded' <=> g \in loaded
    BY <1>3 DEF ReadList, TypeOK
  <2> QED
    BY <1>1, <2>1, KeptFrame
<1> QED
  BY <1>2, <1>3

\* The end of the process disturbs the lists that are being written and no other.
LEMMA KeptGone == ASSUME TypeOK, KeptInv, Gone PROVE KeptInv'
<1> SUFFICES ASSUME NEW g \in Lists \ disturbed' PROVE Kept(g)'
  BY DEF KeptInv
<1>1. g \in Lists \ disturbed /\ ~Writing(g)
  BY DEF Gone
<1>2. Found(g) = Whole(intended[g])
  BY <1>1 DEF KeptInv, Kept
<1>3. mem'[g] = {} /\ g \notin loaded' /\ UNCHANGED <<file, intended>>
  BY DEF Gone
<1>4. DOMAIN writes' = {}
  BY DEF Gone
<1>5. WritesKept(g)'
  BY <1>4 DEF WritesKept
<1>6. Found(g)' = Whole(intended[g])
  BY <1>2, <1>3 DEF Found, Whole, Absent
<1> QED
  BY <1>3, <1>5, <1>6 DEF Kept

\* A change of a list that is loaded and not being written.
LEMMA KeptChange ==
    ASSUME TypeOK, KeptInv, NEW f \in Lists, NEW n \in Names, NEW member \in BOOLEAN,
           Change(f, n, member)
    PROVE  KeptInv'
<1> SUFFICES ASSUME NEW g \in Lists \ disturbed' PROVE Kept(g)'
  BY DEF KeptInv
<1> DEFINE names == IF member THEN mem[f] \cup {n} ELSE mem[f] \ {n}
           new == [list |-> f, names |-> names, opened |-> FALSE]
<1>1. g \in Lists \ disturbed /\ Kept(g)
  BY DEF KeptInv, Change
<1>2. /\ writes' = [c \in DOMAIN writes \cup {changes + 1} |->
                       IF c = changes + 1 THEN new ELSE writes[c]]
      /\ mem' = [mem EXCEPT ![f] = names]
      /\ intended' = [intended EXCEPT
                         ![f] = IF member THEN @ \cup {n} ELSE @ \ {n}]
      /\ UNCHANGED <<file, loaded>>
  BY DEF Change, Written
<1>3. changes + 1 \notin DOMAIN writes
  <2>1. changes \in Nat /\ DOMAIN writes \subseteq 1 .. changes
    BY DEF TypeOK
  <2> QED
    BY <2>1
<1>4. new.list = f /\ new.names = names /\ new.opened = FALSE
  OBVIOUS
<1>5. g = f => ~Writing(f) /\ f \in loaded
  BY DEF Change
<1>6. g = f => mem[f] = intended[f]
  BY <1>1, <1>5 DEF Kept
<1>7. g = f => mem'[f] = names /\ intended'[f] = names
  BY <1>2, <1>6 DEF TypeOK
<1>8. g # f => mem'[g] = mem[g] /\ intended'[g] = intended[g]
  BY <1>2 DEF TypeOK
<1> HIDE DEF new, names
<1>9. /\ DOMAIN writes' = DOMAIN writes \cup {changes + 1}
      /\ writes'[changes + 1] = new
      /\ \A c \in DOMAIN writes : writes'[c] = writes[c]
  BY <1>2, <1>3
<1>10. CASE g = f
  <2>1. \A c \in DOMAIN writes : writes[c].list # f
    BY <1>5, <1>10 DEF Writing
  <2>2. \A c \in DOMAIN writes' : writes'[c].list = f => c = changes + 1
    BY <1>9, <2>1
  <2>3. WritesKept(f)'
    BY <1>4, <1>7, <1>9, <1>10, <2>2 DEF WritesKept
  <2>4. Writing(f)'
    BY <1>4, <1>9 DEF Writing
  <2> QED
    BY <1>2, <1>5, <1>7, <1>10, <2>3, <2>4 DEF Kept
<1>11. CASE g # f
  <2>1. WritesKept(g)'
    BY <1>1, <1>2, <1>4, <1>8, <1>9, <1>11 DEF Kept, WritesKept
  <2>2. Writing(g)' <=> Writing(g)
    BY <1>4, <1>9, <1>11 DEF Writing
  <2>3. Found(g)' = Found(g)
    BY <1>2 DEF Found, Whole, Absent
  <2> QED
    BY <1>1, <1>2, <1>8, <1>11, <2>1, <2>2, <2>3 DEF Kept
<1> QED
  BY <1>10, <1>11

\* A write opens the file, or ends, or fails.
LEMMA KeptWrite ==
    ASSUME TypeOK, KeptInv, NEW c \in DOMAIN writes,
           OpenWrite(c) \/ FinishWrite(c) \/ WriteFails(c)
    PROVE  KeptInv'
<1> SUFFICES ASSUME NEW g \in Lists \ disturbed' PROVE Kept(g)'
  BY DEF KeptInv
<1> DEFINE f == writes[c].list
<1>1. g \in Lists \ disturbed /\ Kept(g)
  BY DEF KeptInv, OpenWrite, FinishWrite, WriteFails
<1>2. writes[c] \in Write /\ f \in Lists
  BY DEF TypeOK, Write
<1>3. UNCHANGED <<mem, intended, loaded>>
  BY DEF OpenWrite, FinishWrite, WriteFails
<1>4. CASE OpenWrite(c)
  <2>1. /\ DOMAIN writes' = DOMAIN writes
        /\ \A d \in DOMAIN writes :
               /\ writes'[d].list = writes[d].list /\ writes'[d].names = writes[d].names
               /\ d # c => writes'[d].opened = writes[d].opened
    BY <1>4 DEF OpenWrite, TypeOK, Write
  <2>2. Writing(g)' <=> Writing(g)
    BY <2>1 DEF Writing
  <2>3. CASE g = f
    <3>1. file'[g] = Empty
      BY <1>2, <1>4, <2>3 DEF OpenWrite, TypeOK
    <3>2. WritesKept(g)'
      BY <1>1, <1>3, <2>1, <3>1 DEF Kept, WritesKept
    <3>3. Writing(g)
      BY <2>3 DEF Writing
    <3> QED
      BY <1>1, <1>3, <2>2, <3>2, <3>3 DEF Kept
  <2>4. CASE g # f
    <3>1. file'[g] = file[g]
      BY <1>1, <1>4, <2>4 DEF OpenWrite, TypeOK
    <3>2. WritesKept(g)'
      BY <1>1, <1>3, <2>1, <2>4, <3>1 DEF Kept, WritesKept
    <3>3. Found(g)' = Found(g)
      BY <3>1 DEF Found, Whole, Absent
    <3> QED
      BY <1>1, <1>3, <2>2, <3>2, <3>3 DEF Kept
  <2> QED
    BY <2>3, <2>4
<1>5. CASE FinishWrite(c) \/ WriteFails(c)
  <2>1. /\ DOMAIN writes' = DOMAIN writes \ {c}
        /\ \A d \in DOMAIN writes' : writes'[d] = writes[d]
    BY <1>5 DEF FinishWrite, WriteFails, Without
  <2>2. CASE g = f
    <3>1. FinishWrite(c)
      BY <1>5, <2>2 DEF WriteFails
    <3>2. file[g] = Empty /\ writes[c].names = intended[g]
      BY <1>1, <2>2, <3>1 DEF FinishWrite, Kept, WritesKept
    <3>3. file'[g] = Whole(intended[g])
      BY <1>2, <2>2, <3>1, <3>2 DEF FinishWrite, Over, TypeOK
    <3>4. \A d \in DOMAIN writes' : writes'[d].list # g
      BY <1>1, <2>1, <2>2 DEF Kept, WritesKept
    <3>5. WritesKept(g)'
      BY <3>4 DEF WritesKept
    <3>6. Found(g)' = Whole(intended[g])
      BY <3>3 DEF Found, Whole, Absent
    <3> QED
      BY <1>1, <1>3, <3>5, <3>6 DEF Kept
  <2>3. CASE g # f
    <3>1. file'[g] = file[g]
      BY <1>1, <1>5, <2>3 DEF FinishWrite, WriteFails, TypeOK
    <3>2. WritesKept(g)'
      BY <1>1, <1>3, <2>1, <3>1 DEF Kept, WritesKept
    <3>3. Writing(g)' <=> Writing(g)
      BY <2>1, <2>3 DEF Writing
    <3>4. Found(g)' = Found(g)
      BY <3>1 DEF Found, Whole, Absent
    <3> QED
      BY <1>1, <1>3, <3>2, <3>3, <3>4 DEF Kept
  <2> QED
    BY <2>2, <2>3
<1> QED
  BY <1>4, <1>5

LEMMA KeptStep == TypeOK /\ KeptInv /\ [Next]_vars => KeptInv'
<1> SUFFICES ASSUME TypeOK, KeptInv, [Next]_vars PROVE KeptInv'
  OBVIOUS
<1>0. "ops" \in Lists /\ "bans" \in Lists
  BY DEF Lists
<1>1. CASE Start \/ Kill \/ Kick \/ SaveWorlds \/ LoadWorlds \/ Listen \/ UNCHANGED vars
  BY <1>1, KeptUnchanged DEF Start, Kill, Kick, SaveWorlds, LoadWorlds, Listen, vars
<1>2. CASE SaveFails \/ Exit \/ Crash
  BY <1>2, KeptGone DEF SaveFails, Exit, Crash
<1>3. CASE UnloadWorlds \/ KillPlugins
  <2>1. CASE UnloadWorlds
    BY <1>0, <2>1, KeptClear DEF UnloadWorlds, DisableUntilPlugins
  <2>2. CASE KillPlugins
    BY <1>0, <2>2, KeptClear DEF KillPlugins, DisableRest
  <2> QED
    BY <1>3, <2>1, <2>2
<1>4. ASSUME NEW r \in Runs, Reload(r) \/ EnablingStep(r) PROVE KeptInv'
  <2>1. CASE Reload(r)
    BY <1>0, <2>1, KeptClear DEF Reload, DisableUntilPlugins
  <2>2. CASE FinishDisable(r)
    BY <1>0, <2>2, KeptClear DEF FinishDisable, DisableRest
  <2>3. CASE ReadOps(r) \/ ReadBans(r)
    BY <1>0, <2>3, KeptRead DEF ReadOps, ReadBans
  <2>4. CASE ReadPermissions(r) \/ EnablePlugins(r) \/ Heartbeat(r) \/ RunFails(r)
    BY <2>4, KeptUnchanged DEF ReadPermissions, EnablePlugins, Heartbeat, RunFails
  <2> QED
    BY <1>4, <2>1, <2>2, <2>3, <2>4 DEF EnablingStep
<1> QED
  BY <1>1, <1>2, <1>3, <1>4, KeptChange, KeptWrite DEF Next, KillStep

\* A list and its file hold what the changes made of them, for any number of
\* starts, reloads, crashes and changes: except the lists whose writes overlapped,
\* that were changed while they were cleared, or whose write was cut or failed.
THEOREM ListsKept == Spec => []ListsAreKept
<1>1. Init => KeptInv
  <2> SUFFICES ASSUME Init, NEW f \in Lists PROVE Kept(f)
    BY DEF KeptInv
  <2>1. writes = <<>> /\ DOMAIN writes = {} /\ mem[f] = {} /\ loaded = {}
    BY DEF Init
  <2>2. file[f] \in {Absent, Whole(Names)} /\ intended[f] = file[f].names
    BY DEF Init
  <2>3. Found(f) = Whole(intended[f])
    BY <2>2 DEF Found, Whole, Absent
  <2> QED
    BY <2>1, <2>3 DEF Kept, WritesKept
<1>2. KeptInv => ListsAreKept
  BY DEF KeptInv, Kept, ListsAreKept
<1>3. Spec => []KeptInv
  BY <1>1, KeptStep, TypeCorrect, PTL DEF Spec
<1> QED
  BY <1>2, <1>3, PTL

-----------------------------------------------------------------------------
(* What is enabled.  Each manager is on, or some run that will enable it   *)
(* waits at a place before that: so what overlapping runs disable of each  *)
(* other comes back, whichever of them ends last.                          *)

AtOneOf(places) == \E r \in Runs : step[r] \in places

UntilOps == {"plugins off", "ops"}
UntilPlugins == UntilOps \cup {"permissions", "plugins on"}
UntilBans == UntilPlugins \cup {"bans"}

\* The blocks are registered after the items, and commands and heartbeat come
\* with them: a run that finds the blocks there may end without either.
Enabling ==
    /\ "packets" \in on \/ AtOneOf({"plugins off"})
    /\ {"items", "blocks", "commands"} \subseteq on \/ AtOneOf(UntilBans)
    /\ "blocks" \in on => {"items", "commands"} \subseteq on
    /\ "blocks" \in on => ticker \in ticking \/ AtOneOf({"heartbeat"})
    /\ "bans" \in loaded \/ AtOneOf(UntilBans)
    /\ "ops" \in loaded \/ AtOneOf(UntilOps)
    /\ plugin \in running \/ AtOneOf(UntilPlugins)

OnInv ==
    /\ killing # "idle" => stage = "stopping"
    /\ stage \in {"starting", "up"} /\ ~failed => Enabling

\* A run that moves from one place to another leaves the other runs where they are.
LEMMA PlacesStep ==
    ASSUME TypeOK, NEW r \in Runs, NEW wait, Goes(r, wait), NEW places
    PROVE  /\ wait \in places => AtOneOf(places)'
           /\ AtOneOf(places) /\ step[r] \notin places => AtOneOf(places)'
<1>1. step'[r] = wait /\ \A q \in Runs \ {r} : step'[q] = step[q]
  BY DEF Goes, TypeOK
<1> QED
  BY <1>1 DEF AtOneOf

\* Who stops and starts: what is on counts while the server is up.
LEMMA StageStep ==
    TypeOK /\ OnInv /\ [Next]_vars =>
        /\ (killing # "idle" => stage = "stopping")'
        /\ stage' \in {"starting", "up"} => ~(Kill \/ KillStep \/ Crash) /\ (stage \in {"starting", "up"} \/ Start)
<1> SUFFICES ASSUME TypeOK, OnInv, [Next]_vars
             PROVE  /\ (killing # "idle" => stage = "stopping")'
                    /\ stage' \in {"starting", "up"} =>
                          ~(Kill \/ KillStep \/ Crash) /\ (stage \in {"starting", "up"} \/ Start)
  OBVIOUS
<1>1. CASE Kill \/ KillStep \/ Crash
  <2>1. CASE Kill
    BY <2>1 DEF Kill, KillFrom
  <2>2. CASE SaveFails \/ Exit \/ Crash
    BY <2>2 DEF SaveFails, Exit, Crash, Gone
  <2>3. CASE Kick \/ SaveWorlds \/ UnloadWorlds \/ KillPlugins
    BY <2>3 DEF Kick, SaveWorlds, UnloadWorlds, KillPlugins, OnInv
  <2> QED
    BY <1>1, <2>1, <2>2, <2>3 DEF KillStep
<1>2. CASE Start
  <2>1. killing' = killing /\ stage = "off" /\ stage' = "starting"
    BY <1>2 DEF Start
  <2>2. ~(Kill \/ KillStep \/ Crash)
    BY <2>1 DEF Kill, KillFrom, KillStep, Kick, SaveWorlds, SaveFails, UnloadWorlds, KillPlugins, Exit,
                Crash, OnInv
  <2> QED
    BY <1>2, <2>1, <2>2 DEF OnInv
<1>3. CASE ~(Kill \/ KillStep \/ Crash) /\ ~Start
  <2>1. \/ UNCHANGED <<stage, killing>>
        \/ killing' = killing /\ stage = "starting" /\ stage' = "up"
        \/ stage = "starting" /\ stage' = "stopping"
    <3>1. CASE LoadWorlds \/ Listen
      BY <3>1 DEF LoadWorlds, Listen
    <3>2. ASSUME NEW r \in Runs, Reload(r) \/ EnablingStep(r)
          PROVE  UNCHANGED <<stage, killing>> \/ (stage = "starting" /\ stage' = "stopping")
      BY <3>2 DEF Reload, EnablingStep, FinishDisable, ReadOps, ReadPermissions, EnablePlugins,
                  ReadBans, Heartbeat, RunFails, KillFrom
    <3>3. ASSUME NEW f \in Lists, NEW n \in Names, NEW member \in BOOLEAN, Change(f, n, member)
          PROVE  UNCHANGED <<stage, killing>>
      BY <3>3 DEF Change
    <3>4. ASSUME NEW c \in DOMAIN writes, OpenWrite(c) \/ FinishWrite(c) \/ WriteFails(c)
          PROVE  UNCHANGED <<stage, killing>>
      BY <3>4 DEF OpenWrite, FinishWrite, WriteFails
    <3>5. CASE UNCHANGED vars
      BY <3>5 DEF vars
    <3> QED
      BY <1>3, <3>1, <3>2, <3>3, <3>4, <3>5 DEF Next
  <2> QED
    BY <1>3, <2>1 DEF OnInv
<1> QED
  BY <1>1, <1>2, <1>3

LEMMA EnablingSteps ==
    ASSUME TypeOK, Enabling, stage' = "up" \/ stage' = "starting", ~failed', NEW r \in Runs,
           Reload(r) \/ EnablingStep(r)
    PROVE  Enabling'
<1> USE DEF UntilOps, UntilPlugins, UntilBans
<1>1. CASE Reload(r)
  <2>1. Goes(r, "plugins off") /\ on' = {}
    BY <1>1 DEF Reload
  <2>2. /\ AtOneOf({"plugins off"})' /\ AtOneOf(UntilOps)' /\ AtOneOf(UntilPlugins)'
        /\ AtOneOf(UntilBans)'
    BY <2>1, PlacesStep
  <2> QED
    BY <2>1, <2>2 DEF Enabling
<1>2. CASE FinishDisable(r)
  <2>1. /\ Goes(r, "ops") /\ step[r] = "plugins off" /\ on' = on \cup {"packets"}
        /\ loaded' = loaded \ {"ops"} /\ UNCHANGED <<ticker, ticking>>
    BY <1>2 DEF FinishDisable, PacketsAgain, DisableRest, Clear
  <2>2. AtOneOf(UntilOps)' /\ AtOneOf(UntilPlugins)' /\ AtOneOf(UntilBans)'
    BY <2>1, PlacesStep
  <2>3. AtOneOf({"heartbeat"}) => AtOneOf({"heartbeat"})'
    BY <2>1, PlacesStep
  <2> QED
    BY <2>1, <2>2, <2>3 DEF Enabling
<1>3. CASE ReadOps(r)
  <2>1. /\ Goes(r, "permissions") /\ step[r] = "ops" /\ loaded' = loaded \cup {"ops"}
        /\ UNCHANGED <<on, plugin, running, ticker, ticking>>
    BY <1>3 DEF ReadOps, ReadList, timers
  <2>2. AtOneOf(UntilPlugins)' /\ AtOneOf(UntilBans)'
    BY <2>1, PlacesStep
  <2>3. /\ AtOneOf({"heartbeat"}) => AtOneOf({"heartbeat"})'
        /\ AtOneOf({"plugins off"}) => AtOneOf({"plugins off"})'
    BY <2>1, PlacesStep
  <2> QED
    BY <2>1, <2>2, <2>3 DEF Enabling
<1>4. CASE ReadPermissions(r)
  <2>1. /\ Goes(r, "plugins on") /\ step[r] = "permissions"
        /\ UNCHANGED <<on, loaded, plugin, running, ticker, ticking>>
    BY <1>4 DEF ReadPermissions, timers, lists
  <2>2. AtOneOf(UntilPlugins)' /\ AtOneOf(UntilBans)'
    BY <2>1, PlacesStep
  <2>3. /\ AtOneOf({"heartbeat"}) => AtOneOf({"heartbeat"})'
        /\ AtOneOf({"plugins off"}) => AtOneOf({"plugins off"})'
        /\ AtOneOf(UntilOps) => AtOneOf(UntilOps)'
    BY <2>1, PlacesStep
  <2> QED
    BY <2>1, <2>2, <2>3 DEF Enabling
<1>5. CASE EnablePlugins(r)
  <2>1. /\ Goes(r, "bans") /\ step[r] = "plugins on" /\ plugin' = r /\ running' = running \cup {r}
        /\ UNCHANGED <<on, loaded, ticker, ticking>>
    BY <1>5 DEF EnablePlugins, lists
  <2>2. AtOneOf(UntilBans)'
    BY <2>1, PlacesStep
  <2>3. /\ AtOneOf({"heartbeat"}) => AtOneOf({"heartbeat"})'
        /\ AtOneOf({"plugins off"}) => AtOneOf({"plugins off"})'
        /\ AtOneOf(UntilOps) => AtOneOf(UntilOps)'
    BY <2>1, PlacesStep
  <2>4. plugin' \in running'
    BY <2>1
  <2> QED
    BY <2>1, <2>2, <2>3, <2>4 DEF Enabling
<1>6. CASE ReadBans(r)
  <2>1. /\ step[r] = "bans" /\ loaded' = loaded \cup {"bans"}
        /\ UNCHANGED <<plugin, running, ticker, ticking>>
        /\ \E wait : Goes(r, wait)
    BY <1>6 DEF ReadBans, ReadList, timers
  <2>2. /\ AtOneOf({"heartbeat"}) => AtOneOf({"heartbeat"})'
        /\ AtOneOf({"plugins off"}) => AtOneOf({"plugins off"})'
        /\ AtOneOf(UntilOps) => AtOneOf(UntilOps)'
        /\ AtOneOf(UntilPlugins) => AtOneOf(UntilPlugins)'
    BY <2>1, PlacesStep
  <2>3. CASE "blocks" \in on
    <3>1. on' = on \cup {"items"}
      BY <1>6, <2>3 DEF ReadBans
    <3> QED
      BY <2>1, <2>2, <2>3, <3>1 DEF Enabling
  <2>4. CASE "blocks" \notin on
    <3>1. on' = on \cup {"items", "blocks", "commands"} /\ Goes(r, "heartbeat")
      BY <1>6, <2>4 DEF ReadBans
    <3>2. AtOneOf({"heartbeat"})'
      BY <3>1, PlacesStep
    <3> QED
      BY <2>1, <2>2, <3>1, <3>2 DEF Enabling
  <2> QED
    BY <2>3, <2>4
<1>7. CASE Heartbeat(r)
  <2>1. /\ step[r] = "heartbeat" /\ ticker' = r /\ ticking' = ticking \cup {r}
        /\ UNCHANGED <<on, loaded, plugin, running>>
        /\ \E wait : Goes(r, wait)
    BY <1>7 DEF Heartbeat, lists
  <2>2. /\ AtOneOf({"plugins off"}) => AtOneOf({"plugins off"})'
        /\ AtOneOf(UntilOps) => AtOneOf(UntilOps)'
        /\ AtOneOf(UntilPlugins) => AtOneOf(UntilPlugins)'
        /\ AtOneOf(UntilBans) => AtOneOf(UntilBans)'
    BY <2>1, PlacesStep
  <2>3. ticker' \in ticking'
    BY <2>1
  <2> QED
    BY <2>1, <2>2, <2>3 DEF Enabling
<1>8. CASE RunFails(r)
  BY <1>8 DEF RunFails
<1> QED
  BY <1>1, <1>2, <1>3, <1>4, <1>5, <1>6, <1>7, <1>8 DEF EnablingStep

LEMMA OnStep == TypeOK /\ OnInv /\ [Next]_vars => OnInv'
<1> SUFFICES ASSUME TypeOK, OnInv, [Next]_vars, stage' \in {"starting", "up"}, ~failed' PROVE Enabling'
  BY StageStep DEF OnInv
<1>0. 0 \in Runs /\ ~(Kill \/ KillStep \/ Crash) /\ (stage \in {"starting", "up"} \/ Start)
  BY RunNumbers, StageStep
<1>1. CASE Start
  <2>1. Goes(0, "ops") /\ on' = {"packets"}
    BY <1>1 DEF Start
  <2>2. AtOneOf(UntilOps)' /\ AtOneOf(UntilPlugins)' /\ AtOneOf(UntilBans)'
    BY <1>0, <2>1, PlacesStep DEF UntilOps, UntilPlugins, UntilBans
  <2> QED
    BY <2>1, <2>2 DEF Enabling
<1>2. CASE stage \in {"starting", "up"}
  <2>1. ASSUME ~failed, NEW r \in Runs, Reload(r) \/ EnablingStep(r) PROVE Enabling'
    BY <1>2, <2>1, EnablingSteps DEF OnInv
  <2>2. failed => failed'
    <3>1. ASSUME NEW r \in Runs, Reload(r) \/ EnablingStep(r) PROVE failed => failed'
      BY <3>1 DEF Reload, EnablingStep, FinishDisable, ReadOps, ReadPermissions, EnablePlugins,
                  ReadBans, Heartbeat, RunFails
    <3>2. ASSUME NEW f \in Lists, NEW n \in Names, NEW member \in BOOLEAN, Change(f, n, member)
          PROVE  failed' = failed
      BY <3>2 DEF Change
    <3>3. ASSUME NEW c \in DOMAIN writes, OpenWrite(c) \/ FinishWrite(c) \/ WriteFails(c)
          PROVE  failed' = failed
      BY <3>3 DEF OpenWrite, FinishWrite, WriteFails
    <3>4. CASE Start \/ LoadWorlds \/ Listen \/ UNCHANGED vars
      BY <3>4 DEF Start, LoadWorlds, Listen, vars
    <3> QED
      BY <1>0, <3>1, <3>2, <3>3, <3>4 DEF Next
  <2>3. Enabling
    BY <1>2, <2>2 DEF OnInv
  <2>4. CASE LoadWorlds \/ Listen
    <3>1. /\ step[0] \in {"worlds", "listen"} /\ \E wait : Goes(0, wait)
          /\ UNCHANGED <<on, loaded, plugin, running, ticker, ticking>>
      BY <2>4 DEF LoadWorlds, Listen, timers, lists
    <3>2. /\ AtOneOf({"plugins off"}) => AtOneOf({"plugins off"})'
          /\ AtOneOf({"heartbeat"}) => AtOneOf({"heartbeat"})'
          /\ AtOneOf(UntilOps) => AtOneOf(UntilOps)'
          /\ AtOneOf(UntilPlugins) => AtOneOf(UntilPlugins)'
          /\ AtOneOf(UntilBans) => AtOneOf(UntilBans)'
      BY <1>0, <3>1, PlacesStep DEF UntilOps, UntilPlugins, UntilBans
    <3> QED
      BY <2>3, <3>1, <3>2 DEF Enabling
  <2>5. ASSUME UNCHANGED <<step, on, loaded, plugin, running, ticker, ticking>> PROVE Enabling'
    BY <2>3, <2>5 DEF Enabling, AtOneOf
  <2>6. ASSUME NEW f \in Lists, NEW n \in Names, NEW member \in BOOLEAN, Change(f, n, member)
        PROVE  Enabling'
    BY <2>5, <2>6 DEF Change, timers
  <2>7. ASSUME NEW c \in DOMAIN writes, OpenWrite(c) \/ FinishWrite(c) \/ WriteFails(c)
        PROVE  Enabling'
    BY <2>5, <2>7 DEF OpenWrite, FinishWrite, WriteFails, timers
  <2>8. CASE UNCHANGED vars
    BY <2>5, <2>8 DEF vars, timers, lists
  <2> QED
    BY <1>0, <1>1, <2>1, <2>2, <2>4, <2>6, <2>7, <2>8 DEF Next
<1> QED
  BY <1>0, <1>1, <1>2

\* However many reloads overlap, once none waits any more and no file failed to
\* parse, packets, items, blocks, commands, the lists, the plugin and the
\* heartbeat are on (Server.onEnable, Server.onDisable).
THEOREM EverythingComesOn == Spec => []EverythingIsOn
<1>1. Init => OnInv
  BY DEF Init, OnInv
<1>2. TypeOK /\ OnInv => EverythingIsOn
  <2> SUFFICES ASSUME TypeOK, OnInv, stage = "up", ~failed, \A r \in Runs : ~Waiting(r)
               PROVE  on = Registries /\ loaded = Lists /\ plugin \in running /\ ticker \in ticking
    BY DEF EverythingIsOn
  <2>1. /\ ~AtOneOf({"plugins off"}) /\ ~AtOneOf({"heartbeat"}) /\ ~AtOneOf(UntilOps)
        /\ ~AtOneOf(UntilPlugins) /\ ~AtOneOf(UntilBans)
    BY DEF AtOneOf, Waiting, Waits, UntilOps, UntilPlugins, UntilBans
  <2>2. /\ Registries \subseteq on /\ Lists \subseteq loaded
        /\ plugin \in running /\ ticker \in ticking
    BY <2>1 DEF OnInv, Enabling, Registries, Lists
  <2> QED
    BY <2>2 DEF TypeOK
<1> QED
  BY <1>1, <1>2, OnStep, TypeCorrect, PTL DEF Spec

-----------------------------------------------------------------------------
(* One instance at a time.  Without overlapping reloads a run finds the    *)
(* plugin that runs when it begins to disable, nothing runs while it waits *)
(* for the plugins again, and no timer ticks before its own.               *)

UntilHeartbeat == UntilBans \cup {"heartbeat"}

Single ==
    /\ \A q, r \in Runs : Waiting(q) /\ Waiting(r) => q = r
    /\ \A r \in Runs : step[r] = "plugins off" => running \subseteq {captured[r]}
    /\ \A r \in Runs : step[r] \in UntilPlugins \ {"plugins off"} => running = {}
    /\ stage \in {"starting", "up"} /\ ~AtOneOf(UntilPlugins) => running \subseteq {plugin}
    /\ \E x : running \subseteq {x}
    /\ ticking \subseteq {ticker}
    /\ \A r \in Runs : step[r] \in UntilHeartbeat => ticking = {}

SingleInv ==
    /\ ~overlapped => Single
    /\ stage = "off" => running = {} /\ ticking = {} /\ \A r \in Runs : step[r] = "idle"

\* A place where a run waits.
LEMMA Places ==
    ASSUME NEW r \in Runs, step[r] \in UntilHeartbeat \cup {"worlds", "listen"}
    PROVE  Waiting(r)
BY DEF Waiting, Waits, UntilHeartbeat, UntilBans, UntilPlugins, UntilOps

\* A step of a run that waits and waits elsewhere, or ends, next.
LEMMA SingleMove ==
    ASSUME TypeOK, Single, NEW r \in Runs, Waiting(r), NEW wait, Goes(r, wait)
    PROVE  /\ step'[r] = wait
           /\ \A q \in Runs \ {r} : ~Waiting(q) /\ step'[q] = step[q]
           /\ \A q, s \in Runs : Waiting(q)' /\ Waiting(s)' => q = s
           /\ \A q \in Runs : step'[q] \in Waits => q = r
<1>1. step'[r] = wait /\ \A q \in Runs \ {r} : step'[q] = step[q]
  BY DEF Goes, TypeOK
<1>2. \A q \in Runs \ {r} : ~Waiting(q)
  BY DEF Single
<1> QED
  BY <1>1, <1>2 DEF Waiting

LEMMA RunSingle ==
    ASSUME TypeOK, Single, NEW r \in Runs, EnablingStep(r)
    PROVE  Single'
<1> USE DEF UntilOps, UntilPlugins, UntilBans, UntilHeartbeat
<1>1. Waiting(r)
  BY DEF EnablingStep, FinishDisable, ReadOps, ReadPermissions, EnablePlugins, ReadBans, Heartbeat,
         RunFails, Waiting, Waits, Lists
<1>2. ASSUME NEW wait, Goes(r, wait)
      PROVE  /\ step'[r] = wait /\ \A q \in Runs : step'[q] \in UntilHeartbeat => q = r /\ wait \in UntilHeartbeat
             /\ \A q, s \in Runs : Waiting(q)' /\ Waiting(s)' => q = s
             /\ wait \in UntilPlugins => AtOneOf(UntilPlugins)'
  <2>1. UntilHeartbeat \subseteq Waits
    BY DEF Waits
  <2> QED
    BY <1>1, <1>2, <2>1, SingleMove, PlacesStep
<1>3. /\ \A q \in Runs \ {r} : step[q] \notin UntilHeartbeat
      /\ step[r] \notin UntilPlugins => ~AtOneOf(UntilPlugins)
  <2>1. \A q \in Runs \ {r} : ~Waiting(q)
    BY <1>1 DEF Single
  <2>2. \A q \in Runs \ {r} : step[q] \notin UntilHeartbeat
    BY <2>1, Places
  <2> QED
    BY <2>2 DEF AtOneOf
<1>4. CASE FinishDisable(r)
  <2>1. /\ Goes(r, "ops") /\ step[r] = "plugins off" /\ running' = running \ {captured[r]}
        /\ UNCHANGED <<ticker, ticking>>
    BY <1>4 DEF FinishDisable, DisableRest
  <2>2. running' = {} /\ ticking = {}
    BY <2>1 DEF Single
  <2> QED
    BY <1>2, <2>1, <2>2 DEF Single
<1>5. CASE ReadOps(r) \/ ReadPermissions(r)
  <2>1. /\ UNCHANGED <<running, ticker, ticking>> /\ step[r] \in {"ops", "permissions"}
        /\ Goes(r, "permissions") \/ Goes(r, "plugins on")
    BY <1>5 DEF ReadOps, ReadPermissions, timers, lists
  <2>2. running' = {} /\ ticking' = {}
    BY <2>1 DEF Single
  <2>3. CASE Goes(r, "permissions")
    BY <1>2, <2>2, <2>3 DEF Single
  <2>4. CASE Goes(r, "plugins on")
    BY <1>2, <2>2, <2>4 DEF Single
  <2> QED
    BY <2>1, <2>3, <2>4
<1>6. CASE EnablePlugins(r)
  <2>1. /\ Goes(r, "bans") /\ step[r] = "plugins on" /\ running' = running \cup {r} /\ plugin' = r
        /\ UNCHANGED <<ticker, ticking>>
    BY <1>6 DEF EnablePlugins, lists
  <2>2. running' = {r} /\ ticking' = {}
    BY <2>1 DEF Single
  <2> QED
    BY <1>2, <2>1, <2>2 DEF Single
<1>7. CASE ReadBans(r)
  <2>1. /\ step[r] = "bans" /\ UNCHANGED <<stage, plugin, running, ticker, ticking>>
        /\ Goes(r, "ended") \/ Goes(r, "heartbeat")
    BY <1>7 DEF ReadBans, timers
  <2>2. /\ ticking = {} /\ \E x : running' \subseteq {x}
        /\ stage \in {"starting", "up"} => running \subseteq {plugin}
    BY <1>3, <2>1 DEF Single
  <2>3. CASE Goes(r, "ended")
    BY <1>2, <2>1, <2>2, <2>3 DEF Single
  <2>4. CASE Goes(r, "heartbeat")
    BY <1>2, <2>1, <2>2, <2>4 DEF Single
  <2> QED
    BY <2>1, <2>3, <2>4
<1>8. CASE Heartbeat(r)
  <2>1. /\ step[r] = "heartbeat" /\ UNCHANGED <<stage, plugin, running>>
        /\ ticker' = r /\ ticking' = ticking \cup {r}
        /\ Goes(r, "worlds") \/ Goes(r, "ended")
    BY <1>8 DEF Heartbeat
  <2>2. /\ ticking' \subseteq {ticker'} /\ \E x : running' \subseteq {x}
        /\ stage \in {"starting", "up"} => running \subseteq {plugin}
    <3>1. ticking = {} /\ ~AtOneOf(UntilPlugins)
      BY <1>3, <2>1 DEF Single
    <3>2. (\E x : running \subseteq {x}) /\ (stage \in {"starting", "up"} => running \subseteq {plugin})
      BY <3>1 DEF Single
    <3> QED
      BY <2>1, <3>1, <3>2
  <2>3. PICK wait \in {"worlds", "ended"} : Goes(r, wait)
    BY <2>1
  <2>4. /\ \A q \in Runs : step'[q] \notin UntilHeartbeat
        /\ \A q, s \in Runs : Waiting(q)' /\ Waiting(s)' => q = s
    BY <1>2, <2>3
  <2>5. UNCHANGED <<stage, plugin, running>>
    BY <2>1
  <2> QED
    BY <2>2, <2>4, <2>5 DEF Single
<1>9. CASE RunFails(r)
  <2>1. /\ step[r] \in {"ops", "bans", "listen"} /\ UNCHANGED <<plugin, running, ticker, ticking>>
        /\ Goes(r, "ended")
        /\ stage' \in {"starting", "up"} => stage \in {"starting", "up"}
    BY <1>9 DEF RunFails, KillFrom, timers, Lists
  <2>2. /\ ticking \subseteq {ticker} /\ \E x : running' \subseteq {x}
        /\ stage \in {"starting", "up"} => running \subseteq {plugin}
    BY <1>3, <2>1 DEF Single
  <2>3. /\ \A q \in Runs : step'[q] \notin UntilHeartbeat
        /\ \A q, s \in Runs : Waiting(q)' /\ Waiting(s)' => q = s
    <3>1. PICK wait \in {"ended"} : Goes(r, wait)
      BY <2>1
    <3> QED
      BY <1>2, <3>1
  <2>4. /\ ticking' \subseteq {ticker'} /\ \E x : running' \subseteq {x}
        /\ stage' \in {"starting", "up"} => running' \subseteq {plugin'}
    BY <2>1, <2>2
  <2> QED
    BY <2>3, <2>4 DEF Single
<1> QED
  BY <1>4, <1>5, <1>6, <1>7, <1>8, <1>9 DEF EnablingStep

LEMMA SingleStep == TypeOK /\ OnInv /\ SingleInv /\ [Next]_vars => SingleInv'
<1> SUFFICES ASSUME TypeOK, OnInv, SingleInv, [Next]_vars PROVE SingleInv'
  OBVIOUS
<1> USE DEF UntilOps, UntilPlugins, UntilBans, UntilHeartbeat
<1>1. CASE SaveFails \/ Exit \/ Crash
  <2>1. /\ running' = {} /\ ticking' = {} /\ stage' = "off" /\ \A r \in Runs : step'[r] = "idle"
    BY <1>1 DEF SaveFails, Exit, Crash, Gone
  <2>2. \A r \in Runs : ~Waiting(r)' /\ step'[r] \notin UntilHeartbeat
    BY <2>1 DEF Waiting, Waits
  <2>3. Single'
    BY <2>1, <2>2 DEF Single
  <2> QED
    BY <2>1, <2>3 DEF SingleInv
<1>2. CASE Start
  <2>1. PICK r \in Runs : Goes(r, "ops")
    BY <1>2, RunNumbers DEF Start
  <2>2. /\ stage = "off" /\ stage' = "starting" /\ UNCHANGED <<running, plugin, ticking, ticker>>
    BY <1>2 DEF Start, timers
  <2>3. running' = {} /\ ticking' = {} /\ \A q \in Runs : step[q] = "idle"
    BY <2>2 DEF SingleInv
  <2>4. step'[r] = "ops" /\ \A q \in Runs \ {r} : step'[q] = "idle"
    BY <2>1, <2>3 DEF Goes, TypeOK
  <2>5. /\ \A q \in Runs : Waiting(q)' => q = r
        /\ \A q \in Runs : step'[q] # "plugins off"
    <3>1. ASSUME NEW q \in Runs, q # r PROVE ~Waiting(q)' /\ step'[q] # "plugins off"
      <4>1. step'[q] = "idle"
        BY <2>4, <3>1
      <4> QED
        BY <4>1 DEF Waiting, Waits
    <3>2. step'[r] # "plugins off"
      BY <2>4
    <3> QED
      BY <3>1, <3>2
  <2>6. Single'
    BY <2>3, <2>5 DEF Single
  <2> QED
    BY <2>2, <2>6 DEF SingleInv
<1>3. ASSUME NEW r \in Runs, Reload(r) PROVE SingleInv'
  <2>1. /\ stage = "up" /\ stage' = "up" /\ Goes(r, "plugins off") /\ ticking' = ticking \ {ticker}
        /\ captured' = [captured EXCEPT ![r] = plugin] /\ UNCHANGED <<running, plugin, ticker>>
    BY <1>3 DEF Reload, DisableUntilPlugins, StopHeartbeat
  <2>2. ~overlapped' => ~overlapped /\ \A q \in Runs : ~Waiting(q)
    BY <1>3 DEF Reload
  <2>3. ASSUME ~overlapped' PROVE Single'
    <3>1. Single /\ \A q \in Runs : ~Waiting(q)
      BY <2>2, <2>3 DEF SingleInv
    <3>2. \A q \in Runs : step[q] \notin Waits
      BY <3>1 DEF Waiting
    <3>3. ~AtOneOf(UntilPlugins)
      BY <3>2 DEF AtOneOf, Waits
    <3>4. running \subseteq {plugin} /\ ticking' = {}
      BY <2>1, <3>1, <3>3 DEF Single
    <3>5. step'[r] = "plugins off" /\ \A q \in Runs \ {r} : step'[q] = step[q]
      BY <2>1 DEF Goes, TypeOK
    <3>6. \A q \in Runs : step'[q] \in Waits => q = r
      BY <3>2, <3>5
    <3>7. captured'[r] = plugin
      BY <2>1, RunNumbers DEF TypeOK
    <3>8. \A q, s \in Runs : Waiting(q)' /\ Waiting(s)' => q = s
      BY <3>6 DEF Waiting
    <3>9. \A q \in Runs : step'[q] = "plugins off" => running' \subseteq {captured'[q]}
      BY <2>1, <3>4, <3>6, <3>7 DEF Waits
    <3>10. \A q \in Runs : step'[q] \notin UntilPlugins \ {"plugins off"}
      BY <3>5, <3>6 DEF Waits
    <3>11. AtOneOf(UntilPlugins)'
      BY <3>5 DEF AtOneOf
    <3> QED
      BY <2>1, <3>4, <3>8, <3>9, <3>10, <3>11 DEF Single
  <2> QED
    BY <2>1, <2>3 DEF SingleInv
<1>4. ASSUME NEW r \in Runs, EnablingStep(r) PROVE SingleInv'
  <2>1. overlapped' = overlapped
    BY <1>4 DEF EnablingStep, FinishDisable, ReadOps, ReadPermissions, EnablePlugins, ReadBans, Heartbeat,
                RunFails
  <2>2. step[r] # "idle"
    BY <1>4 DEF EnablingStep, FinishDisable, ReadOps, ReadPermissions, EnablePlugins, ReadBans, Heartbeat,
                RunFails, Lists
  <2>3. stage # "off" /\ stage' # "off"
    <3>1. stage # "off"
      BY <2>2 DEF SingleInv
    <3>2. stage' = stage \/ stage' = "stopping"
      BY <1>4 DEF EnablingStep, FinishDisable, ReadOps, ReadPermissions, EnablePlugins, ReadBans, Heartbeat,
                  RunFails, KillFrom
    <3> QED
      BY <3>1, <3>2
  <2> QED
    BY <1>4, <2>1, <2>3, RunSingle DEF SingleInv
<1>5. CASE UnloadWorlds \/ KillPlugins
  <2>1. stage = "stopping" /\ UNCHANGED <<stage, step, overlapped>>
    BY <1>5 DEF UnloadWorlds, KillPlugins, OnInv
  <2>2. /\ running' \subseteq running /\ ticking' \subseteq ticking /\ ticker' = ticker
        /\ \A r \in Runs : captured'[r] = captured[r]
    <3>1. KillRun \notin Runs
      BY LifecycleAssumption DEF KillRun, Runs
    <3>2. CASE UnloadWorlds
      BY <3>1, <3>2, RunNumbers DEF UnloadWorlds, DisableUntilPlugins, StopHeartbeat, TypeOK
    <3>3. CASE KillPlugins
      BY <3>1, <3>3, RunNumbers DEF KillPlugins, DisableRest, TypeOK
    <3> QED
      BY <1>5, <3>2, <3>3
  <2>3. ASSUME Single PROVE Single'
    <3>1. \A q, r \in Runs : Waiting(q)' /\ Waiting(r)' => q = r
      BY <2>1, <2>3 DEF Single, Waiting
    <3>2. \A r \in Runs : step'[r] = "plugins off" => running' \subseteq {captured'[r]}
      BY <2>1, <2>2, <2>3 DEF Single
    <3>3. \A r \in Runs : step'[r] \in UntilPlugins \ {"plugins off"} => running' = {}
      BY <2>1, <2>2, <2>3 DEF Single
    <3>4. \A r \in Runs : step'[r] \in UntilHeartbeat => ticking' = {}
      BY <2>1, <2>2, <2>3 DEF Single
    <3>5. ticking' \subseteq {ticker'} /\ \E x : running' \subseteq {x}
      BY <2>2, <2>3 DEF Single
    <3> QED
      BY <2>1, <3>1, <3>2, <3>3, <3>4, <3>5 DEF Single
  <2> QED
    BY <2>1, <2>3 DEF SingleInv
<1>6. ASSUME UNCHANGED <<step, running, captured, plugin, ticker, ticking, overlapped>>,
             stage' # "off" \/ UNCHANGED stage,
             stage' \in {"starting", "up"} => stage \in {"starting", "up"}
      PROVE  SingleInv'
  <2>1. Single => Single'
    BY <1>6 DEF Single, AtOneOf, Waiting
  <2> QED
    BY <1>6, <2>1 DEF SingleInv
<1>7. CASE Kill \/ Kick \/ SaveWorlds
  BY <1>6, <1>7 DEF Kill, KillFrom, Kick, SaveWorlds, timers
<1>8. CASE LoadWorlds \/ Listen
  <2>1. PICK r \in Runs : step[r] \in {"worlds", "listen"} /\ (Goes(r, "listen") \/ Goes(r, "ended"))
    BY <1>8, RunNumbers DEF LoadWorlds, Listen
  <2>2. /\ UNCHANGED <<running, captured, plugin, ticker, ticking, overlapped>>
        /\ stage' = stage \/ (stage = "starting" /\ stage' = "up")
    BY <1>8 DEF LoadWorlds, Listen, timers
  <2>3. step'[r] \in {"listen", "ended"} /\ \A q \in Runs \ {r} : step'[q] = step[q]
    BY <2>1 DEF Goes, TypeOK
  <2>4. /\ \A q \in Runs : Waiting(q)' => Waiting(q)
        /\ \A q \in Runs : step'[q] \in UntilHeartbeat => step'[q] = step[q]
        /\ \A q \in Runs : step[q] \in UntilHeartbeat => step'[q] = step[q]
    BY <2>1, <2>3 DEF Waiting, Waits
  <2>5. AtOneOf(UntilPlugins) => AtOneOf(UntilPlugins)'
    BY <2>4 DEF AtOneOf
  <2>6. ASSUME Single PROVE Single'
    <3>1. \A q, s \in Runs : Waiting(q)' /\ Waiting(s)' => q = s
      BY <2>4, <2>6 DEF Single
    <3>2. \A q \in Runs : step'[q] = "plugins off" => running' \subseteq {captured'[q]}
      BY <2>2, <2>4, <2>6 DEF Single
    <3>3. \A q \in Runs : step'[q] \in UntilPlugins \ {"plugins off"} => running' = {}
      BY <2>2, <2>4, <2>6 DEF Single
    <3>4. \A q \in Runs : step'[q] \in UntilHeartbeat => ticking' = {}
      BY <2>2, <2>4, <2>6 DEF Single
    <3>5. stage' \in {"starting", "up"} /\ ~AtOneOf(UntilPlugins)' => running' \subseteq {plugin'}
      BY <2>2, <2>5, <2>6 DEF Single
    <3>6. ticking' \subseteq {ticker'} /\ \E x : running' \subseteq {x}
      BY <2>2, <2>6 DEF Single
    <3> QED
      BY <3>1, <3>2, <3>3, <3>4, <3>5, <3>6 DEF Single
  <2>7. stage' # "off"
    BY <2>1, <2>2 DEF SingleInv
  <2> QED
    BY <2>2, <2>6, <2>7 DEF SingleInv
<1>9. ASSUME NEW f \in Lists, NEW n \in Names, NEW member \in BOOLEAN, Change(f, n, member)
      PROVE  SingleInv'
  BY <1>6, <1>9 DEF Change, timers
<1>10. ASSUME NEW c \in DOMAIN writes, OpenWrite(c) \/ FinishWrite(c) \/ WriteFails(c)
       PROVE  SingleInv'
  BY <1>6, <1>10 DEF OpenWrite, FinishWrite, WriteFails, timers
<1>11. CASE UNCHANGED vars
  BY <1>6, <1>11 DEF vars, timers
<1> QED
  BY <1>1, <1>2, <1>3, <1>4, <1>5, <1>7, <1>8, <1>9, <1>10, <1>11 DEF Next, KillStep

LEMMA AtMostOne == ASSUME NEW S, NEW x, S \subseteq {x} PROVE Cardinality(S) <= 1
<1>1. CASE S = {}
  BY <1>1, FS_EmptySet
<1>2. CASE S = {x}
  BY <1>2, FS_Singleton
<1> QED
  BY <1>1, <1>2

\* Without overlapping reloads a plugin never has two instances that run, nor the
\* server two heartbeat timers, however often it is reloaded and killed
\* (PluginManager, TelemetryManager).
THEOREM NothingTwice == Spec => []NothingRunsTwice
<1>1. Init => OnInv /\ SingleInv
  <2> SUFFICES ASSUME Init PROVE OnInv /\ SingleInv
    OBVIOUS
  <2>1. stage = "off" /\ killing = "idle" /\ running = {} /\ ticking = {}
        /\ \A r \in Runs : step[r] = "idle"
    BY DEF Init
  <2>2. \A r \in Runs : ~Waiting(r) /\ step[r] \notin UntilHeartbeat
    BY <2>1 DEF Waiting, Waits, UntilHeartbeat, UntilBans, UntilPlugins, UntilOps
  <2>3. Single
    BY <2>1, <2>2 DEF Single, UntilHeartbeat, UntilBans, UntilPlugins, UntilOps
  <2> QED
    BY <2>1, <2>3 DEF OnInv, SingleInv
<1>2. SingleInv => NothingRunsTwice
  BY AtMostOne DEF SingleInv, Single, NothingRunsTwice
<1> QED
  BY <1>1, <1>2, OnStep, SingleStep, TypeCorrect, PTL DEF Spec
=============================================================================
