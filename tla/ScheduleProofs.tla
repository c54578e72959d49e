---------------------------- MODULE ScheduleProofs ----------------------------
(***************************************************************************)
(* The schedule commands, for any callers, intervals and bounds: what one  *)
(* that runs undisturbed has done, on Linux and on Windows; that two which *)
(* overlap in any way on Linux leave a status that tells what runs; and    *)
(* that the parser of Windows durations reads every interval, in every     *)
(* form in which the task scheduler may write it.                          *)
(***************************************************************************)
EXTENDS MCSchedule, Sequences, TLAPS

\* The steps of SetSchedule and of StopSchedule, in the order of the code.
Setting   == {"check", "service", "fillService", "timer", "fillTimer", "load",
              "enable"}
Dropping  == {"dropService", "dropTimer", "unload", "note"}
Stopping  == {"query", "disable"} \cup Dropping

\* Who has to reload before it ends, because of the timer or of the service.
TimerChanged   == {"fillTimer", "load", "unload"}
ServiceChanged == {"fillService", "timer", "dropTimer"} \cup TimerChanged

Types ==
    /\ pc \in [Callers -> {"idle"} \cup Setting \cup Stopping]
    /\ want \in [Callers -> Intervals \cup {Off, None}]
    /\ DOMAIN alone = Callers
    /\ service \in {None, "update", "sync", Torn}
    /\ timer \in Intervals \cup {None, Torn}
    /\ loaded \in Intervals \cup {None, Torn}
    /\ ops \in Nat

\* What each caller wants.
WantInv == \A c \in Callers : /\ pc[c] \in Setting => want[c] \in Intervals
                              /\ pc[c] \in Stopping => want[c] = Off

\* What a caller that has been alone finds as it left it.
AloneInv == \A c \in Callers :
    alone[c] /\ pc[c] # "idle" =>
        /\ \A d \in Callers \ {c} : pc[d] = "idle"
        /\ pc[c] \in {"timer", "fillTimer", "load", "enable"} => service = "sync"
        /\ pc[c] \in {"load", "enable"} => timer = want[c]
        /\ pc[c] \in {"dropTimer", "unload", "note"} => service = None
        /\ pc[c] \in {"unload", "note"} => timer = None
        /\ pc[c] = "note" => loaded = None

\* What it then has done stays until another begins.
EffectInv == last.ok /\ last.alone => Idle /\ InEffect(last.want)

\* As many commands have begun as there are, at least.
CountInv ==
    /\ \A c \in Callers : pc[c] # "idle" => ops >= 1
    /\ \A c, d \in Callers :
          c # d /\ pc[c] # "idle" /\ pc[d] # "idle" => ops >= 2
    /\ \A c, d, e \in Callers :
          c # d /\ d # e /\ c # e /\ pc[c] # "idle" /\ pc[d] # "idle" /\ pc[e] # "idle"
              => ops >= 3

\* While no command has failed, systemd knows the files as they are, or someone
\* will reload; a file is torn only while someone writes it.
ReloadInv ==
    ~failed =>
        /\ (\A c \in Callers : pc[c] \notin TimerChanged) => loaded = timer
        /\ (\A c \in Callers : pc[c] \notin ServiceChanged) =>
              (trigger <=> service \in {"update", "sync"})
        /\ timer = Torn => \E c \in Callers : pc[c] = "fillTimer"
        /\ service = Torn => \E c \in Callers : pc[c] = "fillService"
        /\ active <=> enabled

\* A timer that a stopping command finds running, after having stopped it, was
\* set by the other of the two, which has ended.
PairInv ==
    ~failed /\ ops <= 2 /\ active =>
        /\ \A c \in Callers : pc[c] \in Dropping =>
               ops = 2 /\ \A d \in Callers \ {c} : pc[d] = "idle"
        /\ timer = None => /\ ops = 2
                           /\ \A c \in Callers : pc[c] \in {"idle", "unload", "note"}
        /\ loaded = None => timer = None
        /\ service = None =>
               /\ ops = 2
               /\ \A c \in Callers : pc[c] \in {"idle"} \cup Dropping
               /\ timer = None \/ \E c \in Callers : pc[c] = "dropTimer"
-------------------------------------------------------------------------------
\* In the beginning nobody runs a command.
LEMMA TypesInit == Init => Types /\ WantInv
  BY DEF Init, Types, WantInv, Setting, Stopping, Dropping, NoOp

\* Every step keeps the types, and what a command wants until it ends.
LEMMA TypesStep == Types /\ WantInv /\ [Next]_vars => Types' /\ WantInv'
<1> SUFFICES ASSUME Types, WantInv, [Next]_vars
             PROVE  Types' /\ WantInv'
  OBVIOUS
<1> USE DEF Types, WantInv, Setting, Stopping, Dropping
<1>1. CASE UNCHANGED vars
  BY <1>1 DEF vars
<1>2. ASSUME NEW c \in Callers, Begin(c)
      PROVE  Types' /\ WantInv'
  BY <1>2 DEF Begin, units, systemd
<1>3. ASSUME NEW c \in Callers, Killed(c)
      PROVE  Types' /\ WantInv'
  BY <1>3 DEF Killed, Return, units, systemd
<1>4. ASSUME NEW c \in Callers, Set(c)
      PROVE  Types' /\ WantInv'
  <2>1. CASE Check(c) \/ WriteService(c) \/ FillService(c) \/ WriteTimer(c)
    BY <2>1 DEF Check, WriteService, FillService, WriteTimer, Goto, Return,
       units, systemd
  <2>2. CASE FillTimer(c) \/ Load(c) \/ Enable(c)
    BY <2>2 DEF FillTimer, Load, Enable, Reload, Goto, Return, units, systemd
  <2> QED  BY <1>4, <2>1, <2>2 DEF Set
<1>5. ASSUME NEW c \in Callers, Stop(c)
      PROVE  Types' /\ WantInv'
  <2>1. CASE Query(c) \/ Disable(c)
    BY <2>1 DEF Query, Disable, Reload, Goto, Return, units, systemd
  <2>2. CASE DropService(c) \/ DropTimer(c) \/ Unload(c) \/ WriteNote(c)
    BY <2>2 DEF DropService, DropTimer, Unload, WriteNote, Reload, Goto,
       Return, units, systemd
  <2> QED  BY <1>5, <2>1, <2>2 DEF Stop
<1> QED  BY <1>1, <1>2, <1>3, <1>4, <1>5 DEF Next
-------------------------------------------------------------------------------
(* A command that no other overlaps finds what it has written. *)

\* In the beginning no command has ended.
LEMMA EffectInit == Init => AloneInv /\ EffectInv
  BY DEF Init, AloneInv, EffectInv, NoOp

\* A step of another ends the being alone; a step of the command itself leaves
\* what its next one finds.
LEMMA AloneStep == Types /\ WantInv /\ AloneInv /\ [Next]_vars => AloneInv'
<1> SUFFICES ASSUME Types, WantInv, AloneInv, [Next]_vars
             PROVE  AloneInv'
  OBVIOUS
<1> USE DEF Types, WantInv, AloneInv, Setting, Stopping, Dropping
<1>1. CASE UNCHANGED vars
  BY <1>1 DEF vars
<1>2. ASSUME NEW c \in Callers, Begin(c)
      PROVE  AloneInv'
  <2>1. \A d \in Callers : alone'[d] => d = c /\ Idle
    BY <1>2, Zenon DEF Begin
  <2>2. ASSUME Idle
        PROVE  /\ pc'[c] \in {"query", "check"}
               /\ \A d \in Callers \ {c} : pc'[d] = "idle"
    BY <1>2, <2>2 DEF Begin, Idle
  <2> QED  BY <2>1, <2>2
<1>3. ASSUME NEW c \in Callers, Killed(c)
      PROVE  AloneInv'
  BY <1>3 DEF Killed, Return, units, systemd
<1>4. ASSUME NEW c \in Callers, Set(c)
      PROVE  AloneInv'
  <2>1. CASE Check(c) \/ WriteService(c) \/ FillService(c) \/ WriteTimer(c)
    BY <2>1 DEF Check, WriteService, FillService, WriteTimer, Goto, Return,
       units, systemd
  <2>2. CASE FillTimer(c) \/ Load(c) \/ Enable(c)
    BY <2>2 DEF FillTimer, Load, Enable, Reload, Goto, Return, units, systemd
  <2> QED  BY <1>4, <2>1, <2>2 DEF Set
<1>5. ASSUME NEW c \in Callers, Stop(c)
      PROVE  AloneInv'
  <2>1. CASE Query(c) \/ Disable(c)
    BY <2>1 DEF Query, Disable, Reload, Goto, Return, units, systemd
  <2>2. CASE DropService(c) \/ DropTimer(c) \/ Unload(c) \/ WriteNote(c)
    BY <2>2 DEF DropService, DropTimer, Unload, WriteNote, Reload, Goto,
       Return, units, systemd
  <2> QED  BY <1>5, <2>1, <2>2 DEF Stop
<1> QED  BY <1>1, <1>2, <1>3, <1>4, <1>5 DEF Next

\* A command that ends alone has had its effect; until another begins it stays.
LEMMA EffectStep ==
    Types /\ WantInv /\ AloneInv /\ EffectInv /\ [Next]_vars => EffectInv'
<1> SUFFICES ASSUME Types, WantInv, AloneInv, EffectInv, [Next]_vars
             PROVE  EffectInv'
  OBVIOUS
<1> USE DEF Types, WantInv, Setting, Stopping, Dropping
<1>1. CASE UNCHANGED vars
  BY <1>1 DEF vars, EffectInv, Idle, InEffect, Status, Firing, Booted
<1>2. ASSUME NEW c \in Callers, Begin(c)
      PROVE  EffectInv'
  BY <1>2 DEF Begin, EffectInv, NoOp
<1>3. ASSUME NEW c \in Callers, pc[c] # "idle", UNCHANGED last
      PROVE  EffectInv'
  <2>1. ~(last.ok /\ last.alone)
    BY <1>3 DEF EffectInv, Idle
  <2> QED  BY <1>3, <2>1 DEF EffectInv
<1>4. ASSUME NEW c \in Callers, Return(c, FALSE)
      PROVE  EffectInv'
  BY <1>4 DEF Return, EffectInv
<1> DEFINE Started(c) == /\ pc[c] = "enable" /\ timer \in Intervals
                         /\ Reload /\ active' = TRUE
                         /\ enabled' = (enabled \/ timer \in Intervals)
                         /\ Return(c, TRUE) /\ UNCHANGED <<units, note>>
<1>5. ASSUME NEW c \in Callers, NEW w, Started(c), alone[c], w = want[c]
      PROVE  EffectInv'
  <2>1. Idle'
    BY <1>5 DEF Return, AloneInv, Idle
  <2>2. w \in Intervals /\ w # Off /\ w # None
    BY <1>5, IntervalsAssumption
  <2>3. service = "sync" /\ timer = w
    BY <1>5 DEF AloneInv
  <2>4. /\ service' = "sync" /\ timer' = w /\ loaded' = w
        /\ trigger' /\ active' /\ enabled'
    BY <1>5, <2>2, <2>3 DEF Reload, units
  <2>5. InEffect(w)'
    BY <2>2, <2>4 DEF InEffect, Status, Firing, Booted
  <2>6. last'.want = w
    BY <1>5 DEF Return
  <2> QED  BY <2>1, <2>5, <2>6 DEF EffectInv
<1>6. ASSUME NEW c \in Callers, NEW w, WriteNote(c), alone[c], w = want[c]
      PROVE  EffectInv'
  <2>1. Idle'
    BY <1>6 DEF Return, AloneInv, Idle, WriteNote
  <2>2. service = None /\ timer = None /\ loaded = None /\ w = Off
    BY <1>6 DEF WriteNote, AloneInv
  <2>3. Off \notin Intervals /\ None \notin Intervals
    BY IntervalsAssumption
  <2>4. service' = None /\ timer' = None /\ loaded' = None /\ note' = Off
    BY <1>6, <2>2 DEF WriteNote, units, systemd
  <2>5. InEffect(w)'
    BY <2>2, <2>3, <2>4 DEF InEffect, Status, Firing, Booted, None
  <2>6. last'.want = w
    BY <1>6 DEF WriteNote, Return
  <2> QED  BY <2>1, <2>5, <2>6 DEF EffectInv
<1>7. ASSUME NEW c \in Callers, Return(c, TRUE), ~alone[c]
      PROVE  EffectInv'
  BY <1>7 DEF EffectInv, Return
<1>8. ASSUME NEW c \in Callers, Set(c)
      PROVE  EffectInv'
  <2>1. pc[c] # "idle" /\ (UNCHANGED last \/ Return(c, FALSE) \/ Started(c))
    BY <1>8 DEF Set, Check, WriteService, FillService, WriteTimer, FillTimer,
       Load, Enable, Goto
  <2>2. Started(c) => Return(c, TRUE)
    OBVIOUS
  <2> QED  BY <2>1, <2>2, <1>3, <1>4, <1>5, <1>7
<1>9. ASSUME NEW c \in Callers, Stop(c)
      PROVE  EffectInv'
  <2>1. pc[c] # "idle" /\ (UNCHANGED last \/ Return(c, FALSE) \/ WriteNote(c))
    BY <1>9 DEF Stop, Query, Disable, DropService, DropTimer, Unload,
       WriteNote, Goto
  <2>2. WriteNote(c) => Return(c, TRUE)
    BY DEF WriteNote
  <2> QED  BY <2>1, <2>2, <1>3, <1>4, <1>6, <1>7
<1>10. ASSUME NEW c \in Callers, Killed(c)
       PROVE  EffectInv'
  BY <1>10, <1>4 DEF Killed
<1> QED  BY <1>1, <1>2, <1>8, <1>9, <1>10 DEF Next
-------------------------------------------------------------------------------
(* Two commands that overlap. *)

\* In the beginning systemd knows the files as they are: none.
LEMMA PairInit == Init => CountInv /\ ReloadInv /\ PairInv
  BY IntervalsAssumption DEF Init, CountInv, ReloadInv, PairInv, Dropping,
     ServiceChanged, TimerChanged, None, Torn

\* Each command that is under way has begun.
LEMMA CountStep == Types /\ CountInv /\ [Next]_vars => CountInv'
<1> SUFFICES ASSUME Types, CountInv, [Next]_vars
             PROVE  CountInv'
  OBVIOUS
<1> USE DEF Types, CountInv
<1>1. CASE UNCHANGED vars
  BY <1>1 DEF vars
<1>2. ASSUME NEW c \in Callers, Begin(c)
      PROVE  CountInv'
  BY <1>2 DEF Begin, units, systemd
<1>3. ASSUME NEW c \in Callers, Killed(c)
      PROVE  CountInv'
  BY <1>3 DEF Killed, Return, units, systemd
<1>4. ASSUME NEW c \in Callers, Set(c)
      PROVE  CountInv'
  <2>1. CASE Check(c) \/ WriteService(c) \/ FillService(c) \/ WriteTimer(c)
    BY <2>1 DEF Check, WriteService, FillService, WriteTimer, Goto, Return,
       units, systemd
  <2>2. CASE FillTimer(c) \/ Load(c)
    BY <2>2 DEF FillTimer, Load, Reload, Goto, Return, units, systemd
  <2>3. CASE Enable(c)
    BY <2>3 DEF Enable, Reload, Return, units
  <2> QED  BY <1>4, <2>1, <2>2, <2>3 DEF Set
<1>5. ASSUME NEW c \in Callers, Stop(c)
      PROVE  CountInv'
  <2>1. CASE Query(c)
    BY <2>1 DEF Query, Goto, units, systemd
  <2>2. CASE Disable(c)
    BY <2>2 DEF Disable, Reload, Goto, Return, units, systemd
  <2>3. CASE DropService(c) \/ DropTimer(c) \/ Unload(c) \/ WriteNote(c)
    BY <2>3 DEF DropService, DropTimer, Unload, WriteNote, Reload, Goto,
       Return, units, systemd
  <2> QED  BY <1>5, <2>1, <2>2, <2>3 DEF Stop
<1> QED  BY <1>1, <1>2, <1>3, <1>4, <1>5 DEF Next

\* Whoever changes a file reloads before it ends, or fails.
LEMMA ReloadStep == Types /\ WantInv /\ ReloadInv /\ [Next]_vars => ReloadInv'
<1> SUFFICES ASSUME Types, WantInv, ReloadInv, [Next]_vars
             PROVE  ReloadInv'
  OBVIOUS
<1> USE DEF Types, WantInv, ReloadInv, ServiceChanged, TimerChanged, Setting
<1>1. CASE UNCHANGED vars
  BY <1>1 DEF vars
<1>2. ASSUME NEW c \in Callers, Begin(c)
      PROVE  ReloadInv'
  BY <1>2 DEF Begin, units, systemd
<1>3. ASSUME NEW c \in Callers, Killed(c)
      PROVE  ReloadInv'
  BY <1>3 DEF Killed, Return, units, systemd
<1>4. ASSUME NEW c \in Callers, Set(c)
      PROVE  ReloadInv'
  <2>1. CASE Check(c)
    <3>1. CASE Goto(c, "service")
      BY <2>1, <3>1 DEF Check, Goto, units, systemd
    <3>2. CASE Return(c, FALSE)
      BY <3>2 DEF Return
    <3> QED  BY <2>1, <3>1, <3>2 DEF Check
  <2>2. CASE WriteService(c) \/ WriteTimer(c)
    BY <2>2 DEF WriteService, WriteTimer, Goto, systemd, Torn
  <2>3. CASE FillService(c)
    BY <2>3 DEF FillService, Goto, systemd, Torn
  <2>4. CASE FillTimer(c)
    BY <2>4, IntervalsAssumption DEF FillTimer, Goto, systemd
  <2>5. CASE Load(c)
    BY <2>5 DEF Load, Reload, Goto, units
  <2>6. CASE Enable(c)
    BY <2>6 DEF Enable, Reload, Return, units
  <2> QED  BY <1>4, <2>1, <2>2, <2>3, <2>4, <2>5, <2>6 DEF Set
<1>5. ASSUME NEW c \in Callers, Stop(c)
      PROVE  ReloadInv'
  <2>1. CASE Query(c)
    BY <2>1 DEF Query, Goto, units, systemd
  <2>2. CASE Disable(c)
    BY <2>2 DEF Disable, Reload, Goto, Return, units, systemd
  <2>3. CASE DropService(c)
    BY <2>3 DEF DropService, Goto, systemd, None, Torn
  <2>4. CASE DropTimer(c)
    BY <2>4 DEF DropTimer, Goto, systemd, None, Torn
  <2>5. CASE Unload(c)
    BY <2>5 DEF Unload, Reload, Goto, units
  <2>6. CASE WriteNote(c)
    BY <2>6 DEF WriteNote, Return, units, systemd
  <2> QED  BY <1>5, <2>1, <2>2, <2>3, <2>4, <2>5, <2>6 DEF Stop
<1> QED  BY <1>1, <1>2, <1>3, <1>4, <1>5 DEF Next

\* Of two commands, only a setter that has ended leaves the timer running for a
\* stopper to find.
LEMMA PairStep ==
    Types /\ WantInv /\ CountInv /\ ReloadInv /\ PairInv /\ [Next]_vars => PairInv'
<1> SUFFICES ASSUME Types, WantInv, CountInv, ReloadInv, PairInv, [Next]_vars
             PROVE  PairInv'
  OBVIOUS
<1> USE DEF Types, WantInv, CountInv, PairInv, Dropping
<1>1. CASE UNCHANGED vars
  BY <1>1 DEF vars
<1>2. ASSUME NEW c \in Callers, Begin(c)
      PROVE  PairInv'
  BY <1>2 DEF Begin, units, systemd
<1>3. ASSUME NEW c \in Callers, Killed(c)
      PROVE  PairInv'
  BY <1>3 DEF Killed, Return, units, systemd
<1>4. ASSUME NEW c \in Callers, Set(c)
      PROVE  PairInv'
  <2>1. CASE Check(c)
    <3>1. CASE Goto(c, "service")
      BY <2>1, <3>1 DEF Check, Goto, units, systemd
    <3>2. CASE Return(c, FALSE)
      BY <3>2 DEF Return
    <3> QED  BY <2>1, <3>1, <3>2 DEF Check
  <2>2. CASE WriteService(c) \/ WriteTimer(c)
    BY <2>2 DEF WriteService, WriteTimer, Goto, systemd, None, Torn
  <2>3. CASE FillService(c)
    BY <2>3 DEF FillService, Goto, systemd, None
  <2>4. CASE FillTimer(c)
    BY <2>4, IntervalsAssumption DEF FillTimer, Goto, systemd, Setting
  <2>5. CASE Load(c)
    BY <2>5 DEF Load, Reload, Goto, units
  <2>6. CASE Enable(c)
    <3>1. CASE Return(c, FALSE)
      BY <3>1 DEF Return
    <3>2. CASE Return(c, TRUE)
      <4>1. /\ timer \in Intervals /\ timer # None /\ (active \/ trigger')
            /\ UNCHANGED <<timer, service, ops>> /\ loaded' = timer
            /\ pc' = [pc EXCEPT ![c] = "idle"]
        BY <2>6, <3>2, IntervalsAssumption DEF Enable, Return, Reload, units
      <4>2. ~failed' => ~failed
        BY <3>2 DEF Return
      <4>3. CASE active
        BY <2>6, <4>1, <4>2, <4>3 DEF Enable
      <4>4. CASE ~active
        <5>1. service # None
          BY <2>6, <4>1, <4>4 DEF Enable, Reload, None
        <5>2. \A d \in Callers : pc'[d] \in Dropping =>
                 ops >= 2 /\ (ops = 2 => \A e \in Callers \ {d} : pc'[e] = "idle")
          BY <2>6, <4>1 DEF Enable
        <5> QED  BY <4>1, <5>1, <5>2
      <4> QED  BY <4>3, <4>4
    <3> QED  BY <2>6, <3>1, <3>2 DEF Enable
  <2> QED  BY <1>4, <2>1, <2>2, <2>3, <2>4, <2>5, <2>6 DEF Set
<1>5. ASSUME NEW c \in Callers, Stop(c)
      PROVE  PairInv'
  <2>1. CASE Query(c)
    <3>1. active /\ loaded # None => pc'[c] = "disable"
      BY <2>1, Zenon DEF Query, Exists, Goto
    <3> QED  BY <2>1, <3>1 DEF Query, Goto, units, systemd
  <2>2. CASE Disable(c)
    BY <2>2 DEF Disable, Reload, Goto, Return, units, systemd
  <2>3. CASE DropService(c)
    BY <2>3 DEF DropService, Goto, systemd
  <2>4. CASE DropTimer(c)
    BY <2>4 DEF DropTimer, Goto, systemd
  <2>5. CASE Unload(c)
    BY <2>5 DEF Unload, Reload, Goto, units
  <2>6. CASE WriteNote(c)
    BY <2>6 DEF WriteNote, Return, units, systemd
  <2> QED  BY <1>5, <2>1, <2>2, <2>3, <2>4, <2>5, <2>6 DEF Stop
<1> QED  BY <1>1, <1>2, <1>3, <1>4, <1>5 DEF Next

\* What is so of two commands makes the status honest once they have ended.
LEMMA HonestPair ==
    Types /\ ReloadInv /\ PairInv /\ ops <= 2 => StatusIsHonest
<1> SUFFICES ASSUME Types, ReloadInv, PairInv, ops <= 2, Idle, ~failed,
                    Status # "legacy"
             PROVE  Status = Firing /\ Booted = Firing
  BY DEF StatusIsHonest
<1>1. /\ loaded = timer /\ timer # Torn
      /\ active <=> enabled
      /\ trigger <=> service \in {"update", "sync"}
  BY DEF Idle, ReloadInv, TimerChanged, ServiceChanged
<1>2. timer \in Intervals \cup {None} /\ service \in {None, "update", "sync"}
  BY <1>1 DEF Idle, ReloadInv, Types
<1>3. None \notin Intervals
  BY IntervalsAssumption
<1>4. active /\ service = None => timer = None
  BY DEF PairInv, Idle
<1> QED  BY <1>1, <1>2, <1>3, <1>4 DEF Status, Firing, Booted, None
-------------------------------------------------------------------------------
(* Reading what Windows writes. *)

\* What is known after t seconds, before and after the "T".
Date(t) == W!Known(t, FALSE)
Time(t) == W!Known(t, TRUE)

\* The units in seconds, and the longest interval.
LEMMA Numbers == W!Hour = 3600 /\ W!Day = 86400 /\ W!Limit = 2678400
  BY SMT DEF W!Hour, W!Day, W!Limit

\* An amount that stays within the limit is added.
LEMMA ReadsAmount ==
    ASSUME NEW acc, acc.ok, NEW k \in Nat, NEW u, u # "T", NEW unit \in Nat \ {0},
           acc.total \in Nat, W!Unit(u, acc.inTime) = unit,
           acc.total + k * unit <= W!Limit, k <= (W!Limit - acc.total) \div unit
    PROVE  W!Read(acc, <<k, u>>) = W!Known(acc.total + k * unit, acc.inTime)
<1>1. <<k, u>> # W!T /\ <<k, u>>[1] = k /\ <<k, u>>[2] = u
  BY SMT DEF W!T
<1>2. ~(k > (W!Limit - acc.total) \div unit) /\ unit # 0
  BY Numbers, SMT
<1> QED  BY <1>1, <1>2, Zenon DEF W!Read, W!Amount

\* The "T" between date and time adds nothing.
LEMMA ReadsT ==
    ASSUME NEW t
    PROVE  W!Read(Date(t), W!T) = Time(t)
<1>1. /\ Date(t).ok /\ ~Date(t).inTime
      /\ Date(t).total = t
  BY Zenon DEF Date, Time, W!Known
<1> QED  BY <1>1, Zenon DEF W!Read, W!Amount, Time

\* Days are read before the "T".
LEMMA ReadsDate ==
    ASSUME NEW t \in Nat, NEW k \in Nat, t + k * W!Day <= W!Limit
    PROVE  W!Read(Date(t), <<k, "D">>) = Date(t + k * W!Day)
<1> DEFINE acc == Date(t)
<1>1. acc.ok /\ acc.inTime = FALSE /\ acc.total = t
  BY Zenon DEF Date, Time, W!Known
<1>2. /\ W!Unit("D", acc.inTime) = W!Day
      /\ W!Known(t + k * W!Day, acc.inTime) = Date(t + k * W!Day)
  BY <1>1, Zenon DEF W!Unit, Date, Time
<1> HIDE DEF acc
<1>3. W!Day \in Nat \ {0} /\ k <= (W!Limit - acc.total) \div W!Day
  BY <1>1, Numbers, SMT
<1>4. W!Read(acc, <<k, "D">>) = W!Known(t + k * W!Day, acc.inTime)
  BY <1>1, <1>2, <1>3, ReadsAmount
<1> QED  BY <1>2, <1>4, Zenon DEF acc

\* Hours, minutes and seconds are read after it.
LEMMA ReadsTime ==
    ASSUME NEW t \in Nat, NEW k \in Nat
    PROVE  /\ t + k * W!Hour <= W!Limit =>
                 W!Read(Time(t), <<k, "H">>) = Time(t + k * W!Hour)
           /\ t + k * 60 <= W!Limit =>
                 W!Read(Time(t), <<k, "M">>) = Time(t + k * 60)
           /\ t + k <= W!Limit =>
                 W!Read(Time(t), <<k, "S">>) = Time(t + k)
<1> DEFINE acc == Time(t)
<1>1. acc.ok /\ acc.inTime = TRUE /\ acc.total = t
  BY Zenon DEF Date, Time, W!Known
<1>2. /\ W!Unit("H", acc.inTime) = W!Hour /\ W!Unit("M", acc.inTime) = 60
      /\ W!Unit("S", acc.inTime) = 1
      /\ \A x : W!Known(x, acc.inTime) = Time(x)
  BY <1>1, Zenon DEF W!Unit, Date, Time
<1> HIDE DEF acc
<1>3. t + k * W!Hour <= W!Limit =>
         W!Read(acc, <<k, "H">>) = W!Known(t + k * W!Hour, acc.inTime)
  <2> SUFFICES ASSUME t + k * W!Hour <= W!Limit
               PROVE  W!Read(acc, <<k, "H">>) = W!Known(t + k * W!Hour, acc.inTime)
    OBVIOUS
  <2>1. W!Hour \in Nat \ {0} /\ k <= (W!Limit - acc.total) \div W!Hour
    BY <1>1, Numbers, SMT
  <2> QED  BY <1>1, <1>2, <2>1, ReadsAmount
<1>4. t + k * 60 <= W!Limit =>
         W!Read(acc, <<k, "M">>) = W!Known(t + k * 60, acc.inTime)
  <2> SUFFICES ASSUME t + k * 60 <= W!Limit
               PROVE  W!Read(acc, <<k, "M">>) = W!Known(t + k * 60, acc.inTime)
    OBVIOUS
  <2>1. k <= (W!Limit - acc.total) \div 60
    BY <1>1, Numbers, SMT
  <2> QED  BY <1>1, <1>2, <2>1, ReadsAmount
<1>5. t + k <= W!Limit =>
         W!Read(acc, <<k, "S">>) = W!Known(t + k, acc.inTime)
  <2> SUFFICES ASSUME t + k <= W!Limit
               PROVE  W!Read(acc, <<k, "S">>) = W!Known(t + k, acc.inTime)
    OBVIOUS
  <2>1. k <= (W!Limit - acc.total) \div 1 /\ k * 1 = k
    BY <1>1, Numbers, SMT
  <2> QED  BY <1>1, <1>2, <2>1, ReadsAmount
<1> QED  BY <1>2, <1>3, <1>4, <1>5, Zenon DEF acc

\* The parser's recursive function is what it says, for up to five parts: a function
\* that satisfies the recursion is given part by part.
LEMMA ReadInOrder ==
    ASSUME NEW parts, Len(parts) \in 1..5
    PROVE  LET acc == W!ReadTo(parts)
           IN  /\ acc[1] = W!Read(W!Start, parts[1])
               /\ Len(parts) >= 2 => acc[2] = W!Read(acc[1], parts[2])
               /\ Len(parts) >= 3 => acc[3] = W!Read(acc[2], parts[3])
               /\ Len(parts) >= 4 => acc[4] = W!Read(acc[3], parts[4])
               /\ Len(parts) >= 5 => acc[5] = W!Read(acc[4], parts[5])
<1> DEFINE n == Len(parts)
           a0 == W!Start
           a1 == W!Read(a0, parts[1])
           a2 == W!Read(a1, parts[2])
           a3 == W!Read(a2, parts[3])
           a4 == W!Read(a3, parts[4])
           a5 == W!Read(a4, parts[5])
           F(f) == [i \in 0..n |-> IF i = 0 THEN a0 ELSE W!Read(f[i - 1], parts[i])]
           g == [i \in 0..n |-> CASE i = 0 -> a0 [] i = 1 -> a1 [] i = 2 -> a2
                                [] i = 3 -> a3 [] i = 4 -> a4 [] i = 5 -> a5]
<1>1. n \in 1..5
  OBVIOUS
<1>2. W!ReadTo(parts) = CHOOSE f : f = F(f)
  BY DEF W!ReadTo
<1> HIDE DEF n
<1>3. \A i \in 0..n : g[i] = F(g)[i]
  BY <1>1
<1>4. g = F(g)
  BY <1>3
<1> HIDE DEF g
<1>5. W!ReadTo(parts) = F(W!ReadTo(parts))
  BY <1>2, <1>4
<1> QED  BY <1>1, <1>5 DEF n

\* What is known in the end is the answer.
LEMMA Parses ==
    ASSUME NEW parts, NEW n \in Nat \ {0}, NEW l, l = Len(parts),
           W!ReadTo(parts)[l] = Date(n) \/ W!ReadTo(parts)[l] = Time(n)
    PROVE  W!ParseTaskInterval(parts) = n
<1>1. /\ Date(n).ok /\ Date(n).total = n /\ Time(n).ok /\ Time(n).total = n
      /\ n > 0
  BY DEF Date, Time, W!Known
<1> QED  BY <1>1 DEF W!ParseTaskInterval

\* The four forms.
LEMMA ReadsSeconds ==
    ASSUME NEW k \in Nat, NEW n \in Nat \ {0}, n <= W!Limit, n = k
    PROVE  W!ParseTaskInterval(<<W!T, <<k, "S">>>>) = n
<1> DEFINE w == <<W!T, <<k, "S">>>>
           acc == W!ReadTo(w)
<1>1. Len(w) = 2
  OBVIOUS
<1>2. w[1] = W!T /\ w[2] = <<k, "S">>
  OBVIOUS
<1> HIDE DEF w
<1>3. /\ acc[1] = W!Read(W!Start, w[1])
      /\ acc[2] = W!Read(acc[1], w[2])
  BY <1>1, ReadInOrder
<1> HIDE DEF acc
<1>4. /\ 0 + k <= W!Limit /\ 0 + k = n
  BY Numbers, SMT
<1>5. acc[1] = Time(0)
  <2>1. W!Read(Date(0), W!T) = Time(0)
    BY <1>4, ReadsT
  <2> QED  BY <1>2, <1>3, <1>4, <2>1, Zenon DEF W!Start, Date
<1>6. acc[2] = Time(n)
  <2>1. W!Read(Time(0), <<k, "S">>) = Time(0 + k)
    BY <1>4, ReadsTime
  <2> QED  BY <1>2, <1>3, <1>4, <1>5, <2>1, Zenon
<1> QED  BY <1>1, <1>6, Parses DEF acc, w

LEMMA ReadsHours ==
    ASSUME NEW h \in Nat, NEW m \in Nat, NEW s \in Nat,
           NEW n \in Nat \ {0}, n <= W!Limit, n = (h * W!Hour) + (m * 60) + s
    PROVE  W!ParseTaskInterval(<<W!T, <<h, "H">>, <<m, "M">>, <<s, "S">>>>) = n
<1> DEFINE w   == <<W!T, <<h, "H">>, <<m, "M">>, <<s, "S">>>>
           acc == W!ReadTo(w)
           t1  == 0 + h * W!Hour
           t2  == t1 + m * 60
<1>1. Len(w) = 4
  OBVIOUS
<1>2. /\ w[1] = W!T /\ w[2] = <<h, "H">> /\ w[3] = <<m, "M">>
      /\ w[4] = <<s, "S">>
  OBVIOUS
<1> HIDE DEF w
<1>3. /\ acc[1] = W!Read(W!Start, w[1])
      /\ acc[2] = W!Read(acc[1], w[2])
      /\ acc[3] = W!Read(acc[2], w[3])
      /\ acc[4] = W!Read(acc[3], w[4])
  <2>1. /\ Len(w) \in 1..5
        /\ Len(w) >= 2 /\ Len(w) >= 3 /\ Len(w) >= 4
    BY <1>1
  <2> QED  BY <2>1, ReadInOrder, Zenon
<1> HIDE DEF acc
<1>4. /\ t1 \in Nat /\ t1 <= W!Limit
      /\ t2 \in Nat /\ t2 <= W!Limit /\ t2 + s = n
  BY Numbers, SMT
<1>5. acc[1] = Time(0)
  <2>1. W!Read(Date(0), W!T) = Time(0)
    BY <1>4, ReadsT
  <2> QED  BY <1>2, <1>3, <1>4, <2>1, Zenon DEF W!Start, Date
<1>6. acc[2] = Time(t1)
  <2>1. W!Read(Time(0), <<h, "H">>) = Time(t1)
    BY <1>4, ReadsTime
  <2> QED  BY <1>2, <1>3, <1>4, <1>5, <2>1, Zenon
<1>7. acc[3] = Time(t2)
  <2>1. W!Read(Time(t1), <<m, "M">>) = Time(t2)
    BY <1>4, ReadsTime
  <2> QED  BY <1>2, <1>3, <1>4, <1>6, <2>1, Zenon
<1>8. acc[4] = Time(n)
  <2>1. W!Read(Time(t2), <<s, "S">>) = Time(t2 + s)
    BY <1>4, ReadsTime
  <2> QED  BY <1>2, <1>3, <1>4, <1>7, <2>1, Zenon
<1> QED  BY <1>1, <1>8, Parses DEF acc, w

LEMMA ReadsDays ==
    ASSUME NEW d \in Nat, NEW h \in Nat, NEW m \in Nat, NEW s \in Nat,
           NEW n \in Nat \ {0}, n <= W!Limit, n = (d * W!Day) + (h * W!Hour) + (m * 60) + s
    PROVE  W!ParseTaskInterval(<<<<d, "D">>, W!T, <<h, "H">>, <<m, "M">>, <<s, "S">>>>) = n
<1> DEFINE w   == <<<<d, "D">>, W!T, <<h, "H">>, <<m, "M">>, <<s, "S">>>>
           acc == W!ReadTo(w)
           t1  == 0 + d * W!Day
           t2  == t1 + h * W!Hour
           t3  == t2 + m * 60
<1>1. Len(w) = 5
  OBVIOUS
<1>2. /\ w[1] = <<d, "D">> /\ w[2] = W!T /\ w[3] = <<h, "H">>
      /\ w[4] = <<m, "M">> /\ w[5] = <<s, "S">>
  OBVIOUS
<1> HIDE DEF w
<1>3. /\ acc[1] = W!Read(W!Start, w[1])
      /\ acc[2] = W!Read(acc[1], w[2])
      /\ acc[3] = W!Read(acc[2], w[3])
      /\ acc[4] = W!Read(acc[3], w[4])
      /\ acc[5] = W!Read(acc[4], w[5])
  <2>1. /\ Len(w) \in 1..5
        /\ Len(w) >= 2 /\ Len(w) >= 3 /\ Len(w) >= 4 /\ Len(w) >= 5
    BY <1>1
  <2> QED  BY <2>1, ReadInOrder, Zenon
<1> HIDE DEF acc
<1>4. /\ t1 \in Nat /\ t1 <= W!Limit
      /\ t2 \in Nat /\ t2 <= W!Limit
      /\ t3 \in Nat /\ t3 <= W!Limit /\ t3 + s = n
  BY Numbers, SMT
<1>5. acc[1] = Date(t1)
  <2>1. W!Read(Date(0), <<d, "D">>) = Date(t1)
    BY <1>4, ReadsDate
  <2> QED  BY <1>2, <1>3, <1>4, <2>1, Zenon DEF W!Start, Date
<1>6. acc[2] = Time(t1)
  <2>1. W!Read(Date(t1), W!T) = Time(t1)
    BY <1>4, ReadsT
  <2> QED  BY <1>2, <1>3, <1>4, <1>5, <2>1, Zenon
<1>7. acc[3] = Time(t2)
  <2>1. W!Read(Time(t1), <<h, "H">>) = Time(t2)
    BY <1>4, ReadsTime
  <2> QED  BY <1>2, <1>3, <1>4, <1>6, <2>1, Zenon
<1>8. acc[4] = Time(t3)
  <2>1. W!Read(Time(t2), <<m, "M">>) = Time(t3)
    BY <1>4, ReadsTime
  <2> QED  BY <1>2, <1>3, <1>4, <1>7, <2>1, Zenon
<1>9. acc[5] = Time(n)
  <2>1. W!Read(Time(t3), <<s, "S">>) = Time(t3 + s)
    BY <1>4, ReadsTime
  <2> QED  BY <1>2, <1>3, <1>4, <1>8, <2>1, Zenon
<1> QED  BY <1>1, <1>9, Parses DEF acc, w

LEMMA ReadsWholeDays ==
    ASSUME NEW d \in Nat, NEW n \in Nat \ {0}, n <= W!Limit, n = d * W!Day
    PROVE  W!ParseTaskInterval(<<<<d, "D">>>>) = n
<1> DEFINE w == <<<<d, "D">>>>
           acc == W!ReadTo(w)
<1>1. Len(w) = 1
  OBVIOUS
<1>2. w[1] = <<d, "D">>
  OBVIOUS
<1> HIDE DEF w
<1>3. /\ acc[1] = W!Read(W!Start, w[1])
  BY <1>1, ReadInOrder
<1> HIDE DEF acc
<1>4. /\ 0 + d * W!Day = n /\ 0 + d * W!Day <= W!Limit
  BY Numbers, SMT
<1>5. acc[1] = Date(n)
  <2>1. W!Read(Date(0), <<d, "D">>) = Date(0 + d * W!Day)
    BY <1>4, ReadsDate
  <2> QED  BY <1>2, <1>3, <1>4, <2>1, Zenon DEF W!Start, Date
<1> QED  BY <1>1, <1>5, Parses DEF acc, w

\* Hours, minutes and seconds, and days before them, add up to what they are taken from.
LEMMA Clock ==
    ASSUME NEW n \in Nat
    PROVE  /\ n = ((n \div 3600) * 3600) + (((n % 3600) \div 60) * 60) + (n % 60)
           /\ n = ((n \div 86400) * 86400) + (((n % 86400) \div 3600) * 3600)
                    + (((n % 3600) \div 60) * 60) + (n % 60)
<1>1. (n % 3600) % 60 = n % 60 /\ (n % 86400) % 3600 = n % 3600
  BY SMT
<1>2. n % 3600 \in Nat /\ n % 86400 \in Nat
  BY SMT
<1>3. \A x \in Nat : /\ ((x \div 86400) * 86400) + (x % 86400) = x
                     /\ ((x \div 3600) * 3600) + (x % 3600) = x
                     /\ ((x \div 60) * 60) + (x % 60) = x
  BY SMT
<1>4. /\ ((n \div 3600) * 3600) + (n % 3600) = n
      /\ ((n \div 86400) * 86400) + (n % 86400) = n
      /\ (((n % 3600) \div 60) * 60) + (n % 60) = n % 3600
      /\ (((n % 86400) \div 3600) * 3600) + (n % 3600) = n % 86400
  BY <1>1, <1>2, <1>3, SMT
<1> QED  BY <1>4, SMT

\* Any interval of up to 31 days is read back, in every form in which it may be
\* written (parseTaskInterval, windows.go:96-139).
THEOREM EveryFormIsRead ==
    ASSUME NEW n \in Nat \ {0}, n <= W!Limit
    PROVE  \A w \in W!Written(n) : W!ParseTaskInterval(w) = n
<1> DEFINE h == n \div W!Hour
           m == (n % W!Hour) \div 60
           s == n % 60
           d == n \div W!Day
           r == (n % W!Day) \div W!Hour
<1>1. n \in Nat \ {0} /\ n <= W!Limit
  OBVIOUS
<1>2. h \in Nat /\ m \in Nat /\ s \in Nat /\ d \in Nat /\ r \in Nat
  BY <1>1, Numbers, SMT
<1>3. /\ n = (h * W!Hour) + (m * 60) + s
      /\ n = (d * W!Day) + (r * W!Hour) + (m * 60) + s
  BY <1>1, Numbers, Clock, SMT
<1>4. n % W!Day = 0 => n = d * W!Day
  BY <1>1, Numbers, SMT
<1>5. \A w \in W!Written(n) : \/ w = <<W!T, <<n, "S">>>>
                              \/ w = <<W!T, <<h, "H">>, <<m, "M">>, <<s, "S">>>>
                              \/ w = <<<<d, "D">>, W!T, <<r, "H">>, <<m, "M">>, <<s, "S">>>>
                              \/ n % W!Day = 0 /\ w = <<<<d, "D">>>>
  BY Zenon DEF W!Written
<1> HIDE DEF h, m, s, d, r
<1>6. W!ParseTaskInterval(<<W!T, <<n, "S">>>>) = n
  BY <1>1, ReadsSeconds
<1>7. W!ParseTaskInterval(<<W!T, <<h, "H">>, <<m, "M">>, <<s, "S">>>>) = n
  BY <1>1, <1>2, <1>3, ReadsHours
<1>8. W!ParseTaskInterval(<<<<d, "D">>, W!T, <<r, "H">>, <<m, "M">>, <<s, "S">>>>) = n
  BY <1>1, <1>2, <1>3, ReadsDays
<1>9. n % W!Day = 0 => W!ParseTaskInterval(<<<<d, "D">>>>) = n
  BY <1>1, <1>2, <1>4, ReadsWholeDays
<1> QED  BY <1>5, <1>6, <1>7, <1>8, <1>9, Zenon
-------------------------------------------------------------------------------
(* Windows. *)

WinSetting  == {"check", "write", "fill", "create"}
WinStopping == {"query", "delete", "remove", "note"}

\* The intervals that are not refused.
Accepted == {n \in Requests : W!InRange(n)}

WinTypes ==
    /\ pc \in [Callers -> {"idle"} \cup WinSetting \cup WinStopping]
    /\ want \in [Callers -> Requests \cup {W!Off, W!None}]
    /\ DOMAIN alone = Callers
    /\ xml \in Accepted \cup {W!None, W!Torn}
    /\ task \in Accepted \cup {W!Hour, W!None}
    /\ task = W!None => ~legacy

\* What each caller wants.
WinWantInv == \A c \in Callers :
    /\ pc[c] = "check" => want[c] \in Requests
    /\ pc[c] \in {"write", "fill", "create"} => want[c] \in Accepted
    /\ pc[c] \in WinStopping => want[c] = W!Off

\* What a caller that has been alone finds as it left it.
WinAloneInv == \A c \in Callers :
    alone[c] /\ pc[c] # "idle" =>
        /\ \A d \in Callers \ {c} : pc[d] = "idle"
        /\ pc[c] = "create" => xml = want[c]
        /\ pc[c] \in {"remove", "note"} => task = W!None
        /\ pc[c] = "note" => xml = W!None

\* What it then has done stays until another begins, or a user disables the task.
WinDone(w) == /\ ~legacy
              /\ w = W!Off => task = W!None /\ xml = W!None /\ note = W!Off
              /\ w # W!Off => task = w /\ w \in Accepted /\ on
WinEffectInv == last.ok /\ last.alone => Idle /\ WinDone(last.want)
-------------------------------------------------------------------------------
\* An interval that is accepted is a number of seconds up to the limit, and is
\* neither of the marks for no task, a torn file and off.
LEMMA AcceptedNumbers ==
    /\ \A n \in Accepted \cup {W!Hour} : n \in Nat \ {0} /\ n <= W!Limit
    /\ W!None \notin Accepted /\ W!Torn \notin Accepted /\ W!Off \notin Accepted
    /\ W!None # W!Hour /\ W!Off \notin Requests
<1>1. \A n \in Requests : n \in Int
  BY RequestsAssumption
<1>2. \A n \in Accepted : n \in Int /\ W!Hour <= n /\ n <= W!Limit
  BY <1>1 DEF Accepted, W!InRange
<1>3. /\ W!Hour \in Nat \ {0} /\ W!Hour <= W!Limit
      /\ W!None = -1 /\ W!Torn = -2 /\ W!Off = 0
  BY Numbers, SMT DEF W!None, W!Torn, W!Off
<1>4. W!Off \notin Requests
  BY RequestsAssumption, SMT DEF W!Off
<1>5. W!Hour \in Int /\ W!Limit \in Int /\ W!Hour > 0
  BY Numbers, SMT
<1> QED  BY <1>2, <1>3, <1>4, <1>5, SMT

\* In the beginning no command has ended; a task there may be is an old version's.
LEMMA WinInit == W!Init => WinTypes /\ WinWantInv /\ WinAloneInv /\ WinEffectInv
<1>1. W!Init => /\ xml = W!None /\ task \in {W!None, W!Hour}
                /\ pc = [c \in Callers |-> "idle"]
                /\ want = [c \in Callers |-> W!None]
                /\ alone = [c \in Callers |-> FALSE]
                /\ last = W!NoOp
  BY Zenon DEF W!Init
<1>2. W!Init /\ task = W!None => ~legacy
  <2> SUFFICES ASSUME W!Init, task = W!None
               PROVE  ~legacy
    OBVIOUS
  <2>1. on = (task # W!None) /\ legacy = on
    BY Zenon DEF W!Init
  <2> QED  BY <2>1, Zenon
<1>3. ~W!NoOp.ok
  BY DEF W!NoOp
<1> QED  BY <1>1, <1>2, <1>3
         DEF WinTypes, WinWantInv, WinAloneInv, WinEffectInv, WinSetting, WinStopping

\* Every step keeps the types, and what a command wants until it ends.
LEMMA WinTypesStep ==
    WinTypes /\ WinWantInv /\ [W!Next]_(W!vars) => WinTypes' /\ WinWantInv'
<1> SUFFICES ASSUME WinTypes, WinWantInv, [W!Next]_(W!vars)
             PROVE  WinTypes' /\ WinWantInv'
  OBVIOUS
<1> USE DEF WinTypes, WinWantInv, WinSetting, WinStopping
<1>1. CASE UNCHANGED W!vars
  BY <1>1 DEF W!vars
<1>2. CASE W!UserDisables
  BY <1>2 DEF W!UserDisables
<1>3. ASSUME NEW c \in Callers, W!Begin(c)
      PROVE  WinTypes' /\ WinWantInv'
  BY <1>3, AcceptedNumbers DEF W!Begin, W!registered
<1>4. ASSUME NEW c \in Callers, W!Killed(c)
      PROVE  WinTypes' /\ WinWantInv'
  BY <1>4 DEF W!Killed, W!Return, W!registered
<1>5. ASSUME NEW c \in Callers, W!Set(c)
      PROVE  WinTypes' /\ WinWantInv'
  <2>1. CASE W!Check(c)
    BY <2>1 DEF W!Check, W!Goto, W!Return, W!registered, Accepted
  <2>2. CASE W!WriteXml(c) \/ W!FillXml(c)
    BY <2>2 DEF W!WriteXml, W!FillXml, W!Goto, W!registered
  <2>3. CASE W!Create(c)
    <3>1. xml > 0 => xml \in Accepted /\ xml # W!None
      BY AcceptedNumbers, SMT DEF W!None, W!Torn
    <3> QED  BY <2>3, <3>1 DEF W!Create, W!Return, W!registered
  <2> QED  BY <1>5, <2>1, <2>2, <2>3 DEF W!Set
<1>6. ASSUME NEW c \in Callers, W!Stop(c)
      PROVE  WinTypes' /\ WinWantInv'
  BY <1>6 DEF W!Stop, W!Query, W!Delete, W!RemoveXml, W!WriteNote, W!Goto,
     W!Return, W!registered
<1> QED  BY <1>1, <1>2, <1>3, <1>4, <1>5, <1>6 DEF W!Next

\* A command that is alone finds the definition and the task as it left them.
LEMMA WinAloneStep ==
    WinTypes /\ WinWantInv /\ WinAloneInv /\ [W!Next]_(W!vars) => WinAloneInv'
<1> SUFFICES ASSUME WinTypes, WinWantInv, WinAloneInv, [W!Next]_(W!vars)
             PROVE  WinAloneInv'
  OBVIOUS
<1> USE DEF WinTypes, WinWantInv, WinAloneInv, WinSetting, WinStopping
<1>1. CASE UNCHANGED W!vars
  BY <1>1 DEF W!vars
<1>2. CASE W!UserDisables
  <2>1. \A c \in Callers : ~alone'[c]
    BY <1>2, Zenon DEF W!UserDisables
  <2> QED  BY <2>1
<1>3. ASSUME NEW c \in Callers, W!Begin(c)
      PROVE  WinAloneInv'
  <2>1. \A d \in Callers : alone'[d] => d = c /\ W!Idle
    BY <1>3, Zenon DEF W!Begin
  <2>2. ASSUME W!Idle
        PROVE  /\ pc'[c] \in {"query", "check"}
               /\ \A d \in Callers \ {c} : pc'[d] = "idle"
    BY <1>3, <2>2 DEF W!Begin, W!Idle
  <2> QED  BY <2>1, <2>2
<1>4. ASSUME NEW c \in Callers, W!Killed(c)
      PROVE  WinAloneInv'
  BY <1>4 DEF W!Killed, W!Return, W!registered
<1>5. ASSUME NEW c \in Callers, W!Set(c)
      PROVE  WinAloneInv'
  BY <1>5 DEF W!Set, W!Check, W!WriteXml, W!FillXml, W!Create, W!Goto,
     W!Return, W!registered
<1>6. ASSUME NEW c \in Callers, W!Stop(c)
      PROVE  WinAloneInv'
  BY <1>6 DEF W!Stop, W!Query, W!Delete, W!RemoveXml, W!WriteNote, W!Goto,
     W!Return, W!registered
<1> QED  BY <1>1, <1>2, <1>3, <1>4, <1>5, <1>6 DEF W!Next

\* A command that ends alone has had its effect, until another begins or a user
\* disables the task.
LEMMA WinEffectStep ==
    WinTypes /\ WinWantInv /\ WinAloneInv /\ WinEffectInv /\ [W!Next]_(W!vars)
        => WinEffectInv'
<1> SUFFICES ASSUME WinTypes, WinWantInv, WinAloneInv, WinEffectInv, [W!Next]_(W!vars)
             PROVE  WinEffectInv'
  OBVIOUS
<1> USE DEF WinTypes, WinWantInv, WinSetting, WinStopping
<1>1. CASE UNCHANGED W!vars
  BY <1>1 DEF W!vars, WinEffectInv, Idle, WinDone
<1>2. CASE last' = W!NoOp
  BY <1>2 DEF WinEffectInv, W!NoOp
<1>3. ASSUME NEW c \in Callers, pc[c] # "idle", UNCHANGED last
      PROVE  WinEffectInv'
  <2>1. ~(last.ok /\ last.alone)
    BY <1>3 DEF WinEffectInv, Idle
  <2> QED  BY <1>3, <2>1 DEF WinEffectInv
<1>4. ASSUME NEW c \in Callers, W!Return(c, FALSE)
      PROVE  WinEffectInv'
  BY <1>4 DEF W!Return, WinEffectInv
<1>5. ASSUME NEW c \in Callers, W!Return(c, TRUE), ~alone[c]
      PROVE  WinEffectInv'
  BY <1>5 DEF W!Return, WinEffectInv
<1> DEFINE Created(c) == /\ pc[c] = "create" /\ W!Return(c, TRUE)
                         /\ task' = xml /\ on' = TRUE /\ legacy' = FALSE
<1>6. ASSUME NEW c \in Callers, NEW w, Created(c), alone[c], w = want[c]
      PROVE  WinEffectInv'
  <2>1. Idle'
    BY <1>6 DEF W!Return, WinAloneInv, Idle
  <2>2. w \in Accepted /\ w # W!Off /\ xml = w
    BY <1>6, AcceptedNumbers DEF WinAloneInv
  <2>3. WinDone(w)'
    BY <1>6, <2>2 DEF WinDone
  <2>4. last'.want = w
    BY <1>6 DEF W!Return
  <2> QED  BY <2>1, <2>3, <2>4 DEF WinEffectInv
<1>7. ASSUME NEW c \in Callers, NEW w, W!WriteNote(c), alone[c], w = want[c]
      PROVE  WinEffectInv'
  <2>1. Idle'
    BY <1>7 DEF W!WriteNote, W!Return, WinAloneInv, Idle
  <2>2. task = W!None /\ xml = W!None /\ w = W!Off /\ ~legacy /\ note' = W!Off
    BY <1>7 DEF W!WriteNote, WinAloneInv
  <2>3. WinDone(w)'
    BY <1>7, <2>2 DEF W!WriteNote, W!registered, WinDone
  <2>4. last'.want = w
    BY <1>7 DEF W!WriteNote, W!Return
  <2> QED  BY <2>1, <2>3, <2>4 DEF WinEffectInv
<1>8. ASSUME NEW c \in Callers, W!Set(c)
      PROVE  WinEffectInv'
  <2>1. pc[c] # "idle" /\ (UNCHANGED last \/ W!Return(c, FALSE) \/ Created(c))
    BY <1>8 DEF W!Set, W!Check, W!WriteXml, W!FillXml, W!Create, W!Goto
  <2>2. Created(c) => W!Return(c, TRUE)
    OBVIOUS
  <2> QED  BY <2>1, <2>2, <1>3, <1>4, <1>5, <1>6
<1>9. ASSUME NEW c \in Callers, W!Stop(c)
      PROVE  WinEffectInv'
  <2>1. pc[c] # "idle" /\ (UNCHANGED last \/ W!Return(c, FALSE) \/ W!WriteNote(c))
    BY <1>9 DEF W!Stop, W!Query, W!Delete, W!RemoveXml, W!WriteNote, W!Goto
  <2>2. W!WriteNote(c) => W!Return(c, TRUE)
    BY DEF W!WriteNote
  <2> QED  BY <2>1, <2>2, <1>3, <1>4, <1>5, <1>7
<1>10. ASSUME NEW c \in Callers, W!Killed(c)
       PROVE  WinEffectInv'
  BY <1>10, <1>4 DEF W!Killed
<1>11. W!UserDisables \/ (\E c \in Callers : W!Begin(c)) => last' = W!NoOp
  BY DEF W!UserDisables, W!Begin
<1> QED  BY <1>1, <1>2, <1>8, <1>9, <1>10, <1>11 DEF W!Next

\* What is registered can be read in each form of it.
LEMMA WinReadable ==
    ASSUME WinTypes, task # W!None
    PROVE  /\ task \in {n \in Requests \cup {W!Hour} : W!Hour <= n /\ n <= 31 * W!Day}
           /\ \A w \in W!Written(task) : W!ParseTaskInterval(w) = task
<1>1. task \in Accepted \cup {W!Hour}
  BY DEF WinTypes
<1>2. \A w \in W!Written(task) : W!ParseTaskInterval(w) = task
  BY <1>1, AcceptedNumbers, EveryFormIsRead
<1>3. W!Hour <= W!Hour /\ W!Hour <= 31 * W!Day
  BY Numbers, SMT
<1> QED  BY <1>1, <1>2, <1>3 DEF Accepted, W!InRange, W!Limit

\* A task that is there and on is what the status then tells.
LEMMA WinEffect ==
    WinTypes /\ WinEffectInv => W!SuccessTakesEffect
<1> SUFFICES ASSUME WinTypes, WinEffectInv, last.ok, last.alone
             PROVE  /\ W!Status = {last.want} /\ ~legacy
                    /\ last.want = W!Off => xml = W!None
  BY DEF W!SuccessTakesEffect
<1>1. WinDone(last.want)
  BY DEF WinEffectInv
<1>2. CASE last.want = W!Off
  <2>1. W!Off # W!Old
    BY SMT DEF W!Off, W!Old
  <2> QED  BY <1>1, <1>2, <2>1 DEF WinDone, W!Status, W!Inactive
<1>3. CASE last.want # W!Off
  <2>1. task = last.want /\ on /\ task # W!None
    BY <1>1, <1>3, AcceptedNumbers DEF WinDone
  <2>2. \A w \in W!Written(task) : W!ParseTaskInterval(w) = task
    BY <2>1, WinReadable
  <2>3. W!Written(task) # {}
    BY Zenon DEF W!Written
  <2>4. W!Status = {task}
    BY <2>1, <2>2, <2>3, Zenon DEF W!Status
  <2> QED  BY <1>1, <1>3, <2>1, <2>4 DEF WinDone
<1> QED  BY <1>2, <1>3
-------------------------------------------------------------------------------
(* The machine, which runs one of the two. *)

LinuxInv   == /\ Types /\ WantInv /\ AloneInv /\ EffectInv
              /\ CountInv /\ ReloadInv /\ PairInv
WindowsInv == WinTypes /\ WinWantInv /\ WinAloneInv /\ WinEffectInv

ScheduleInv == /\ machine \in {"Linux", "Windows"}
               /\ machine = "Linux" => LinuxInv
               /\ machine = "Windows" => WindowsInv

\* The machine keeps the invariant of the system it runs (linux.go:27-118,
\* windows.go:34-94).
THEOREM ScheduleCorrect == MCSpec => []ScheduleInv
<1>1. MCInit => ScheduleInv
  BY TypesInit, EffectInit, PairInit, WinInit DEF MCInit, ScheduleInv,
     LinuxInv, WindowsInv
<1>2. ScheduleInv /\ [MCNext]_<<vars, windows, machine>> => ScheduleInv'
  <2> SUFFICES ASSUME ScheduleInv, [MCNext]_<<vars, windows, machine>>
               PROVE  ScheduleInv'
    OBVIOUS
  <2>1. CASE machine = "Linux"
    <3>1. [Next]_vars /\ machine' = "Linux"
      BY <2>1 DEF MCNext
    <3>2. LinuxInv'
      BY <2>1, <3>1, TypesStep, AloneStep, EffectStep, CountStep, ReloadStep,
         PairStep DEF ScheduleInv, LinuxInv
    <3> QED  BY <3>1, <3>2 DEF ScheduleInv
  <2>2. CASE machine = "Windows"
    <3>1. [W!Next]_(W!vars) /\ machine' = "Windows"
      BY <2>2 DEF MCNext, vars, windows, W!vars
    <3>2. WindowsInv'
      BY <2>2, <3>1, WinTypesStep, WinAloneStep, WinEffectStep DEF ScheduleInv,
         WindowsInv
    <3> QED  BY <3>1, <3>2 DEF ScheduleInv
  <2> QED  BY <2>1, <2>2 DEF ScheduleInv
<1> QED  BY <1>1, <1>2, PTL DEF MCSpec

\* A command that ran undisturbed and reports success has had its effect, on both
\* systems, whatever failed, died or overlapped before it (linux.go:27-68,
\* windows.go:34-94).
THEOREM UndisturbedTakesEffect == MCSpec => []CommandsTakeEffect
<1>1. LinuxInv => SuccessTakesEffect
  BY DEF LinuxInv, EffectInv, SuccessTakesEffect
<1>2. WindowsInv => W!SuccessTakesEffect
  BY WinEffect DEF WindowsInv
<1>3. ScheduleInv => CommandsTakeEffect
  BY <1>1, <1>2 DEF ScheduleInv, CommandsTakeEffect
<1> QED  BY <1>3, ScheduleCorrect, PTL

\* However two commands overlap, as long as none fails the status tells what really
\* runs once they have ended, and a boot does not change it (linux.go:120-144).
THEOREM PairsAreHonest == MCSpec => []PairsLeaveAnHonestStatus
<1>1. ScheduleInv => PairsLeaveAnHonestStatus
  BY HonestPair DEF ScheduleInv, LinuxInv, PairsLeaveAnHonestStatus
<1> QED  BY <1>1, ScheduleCorrect, PTL

\* Whatever is registered on Windows has an interval that was asked for, and that the
\* status reads back however Windows writes it (windows.go:96-139).
THEOREM RegisteredIsReadable == MCSpec => []RegisteredIntervalIsReadable
<1>1. ScheduleInv => RegisteredIntervalIsReadable
  BY WinReadable DEF ScheduleInv, WindowsInv, RegisteredIntervalIsReadable,
     W!IntervalIsReadable
<1> QED  BY <1>1, ScheduleCorrect, PTL
===============================================================================
