----------------------------- MODULE LinuxSchedule -----------------------------
(***************************************************************************)
(* Scheduled subscription updates on Linux: SetSchedule and StopSchedule   *)
(* of internal/manager/native_scheduler.go over the systemd timer of       *)
(* internal/scheduler/linux.go.  Nothing locks: commands of several        *)
(* processes interleave step by step, may fail at every step, and may be   *)
(* killed between two.                                                     *)
(*                                                                         *)
(* systemd is external.  It reads unit files on daemon-reload, and on the  *)
(* reload "enable" and "disable" imply; an active timer follows what was   *)
(* read last; a timer whose service is not loaded is not started; enabling *)
(* or disabling a unit that has no file is an error.                       *)
(*                                                                         *)
(* The timer file counts in seconds: the fraction of one that is asked for *)
(* is dropped, and is left out here.                                       *)
(***************************************************************************)
EXTENDS Naturals, FiniteSets

CONSTANTS Callers,    \* processes that run schedule commands
          Intervals,  \* intervals of an hour and more, in whole seconds
          MaxOps,     \* bound: commands
          MaxFaults   \* bound: failing steps

None == "none"
Off  == "off"
Torn == "torn"  \* truncated, and not written

ASSUME IntervalsAssumption == Intervals \cap {None, Off, Torn} = {}

VARIABLES service,  \* the .service file: None, "update" (of an old version), "sync", Torn
          timer,    \* the .timer file: None, its interval, or Torn
          loaded,   \* systemd's view of the timer unit: None, its interval, or Torn
          trigger,  \* systemd has the service unit loaded
          active,   \* the timer runs
          enabled,  \* it is started at boot, if it has a file
          note,     \* schedule.txt: None, Off, or the interval an old version wrote
          pc,       \* where each caller is
          want,     \* what it asked for: an interval or Off
          alone,    \* no other command ran while its own did
          last,     \* the last command to end, until another begins
          failed,   \* some command has failed
          ops, faults

units == <<service, timer>>
systemd == <<loaded, trigger, active, enabled>>
vars == <<service, timer, loaded, trigger, active, enabled, note, pc, want, alone, last, failed, ops, faults>>

NoOp == [want |-> None, ok |-> FALSE, alone |-> FALSE]

Idle == \A c \in Callers : pc[c] = "idle"
-------------------------------------------------------------------------------
Goto(c, l) == pc' = [pc EXCEPT ![c] = l] /\ UNCHANGED <<want, alone, last, failed, ops>>

Return(c, ok) ==
    /\ pc' = [pc EXCEPT ![c] = "idle"]
    /\ want' = [want EXCEPT ![c] = None]
    /\ last' = [want |-> want[c], ok |-> ok, alone |-> alone[c]]
    /\ failed' = (failed \/ ~ok)
    /\ UNCHANGED <<alone, ops>>

Fine  == UNCHANGED faults
Fault == faults < MaxFaults /\ faults' = faults + 1

\* What systemd reads from the files.
Reload == /\ loaded' = timer
          /\ trigger' = (service \in {"update", "sync"})

Begin(c) == \E w \in Intervals \cup {Off} :
    /\ pc[c] = "idle" /\ ops < MaxOps
    /\ pc' = [pc EXCEPT ![c] = IF w = Off THEN "query" ELSE "check"]
    /\ want' = [want EXCEPT ![c] = w]
    /\ alone' = [d \in Callers |-> Idle /\ d = c]
    /\ last' = NoOp
    /\ ops' = ops + 1
    /\ UNCHANGED <<units, systemd, note, failed, faults>>

\* A step fails, or the process is killed.
Killed(c) == /\ pc[c] # "idle"
             /\ Fault /\ Return(c, FALSE)
             /\ UNCHANGED <<units, systemd, note>>
-------------------------------------------------------------------------------
(* SetSchedule *)

\* Refused: no core or no manager is installed, or the interval is too short.
Check(c) == /\ pc[c] = "check"
            /\ Fine
            /\ Goto(c, "service") \/ Return(c, FALSE)
            /\ UNCHANGED <<units, systemd, note>>

\* WriteFile truncates a file before it writes it.
WriteService(c) ==
    /\ pc[c] = "service"
    /\ service' = Torn
    /\ Fine /\ Goto(c, "fillService")
    /\ UNCHANGED <<timer, systemd, note>>

FillService(c) ==
    /\ pc[c] = "fillService"
    /\ service' = "sync"
    /\ Fine /\ Goto(c, "timer")
    /\ UNCHANGED <<timer, systemd, note>>

WriteTimer(c) ==
    /\ pc[c] = "timer"
    /\ timer' = Torn
    /\ Fine /\ Goto(c, "fillTimer")
    /\ UNCHANGED <<service, systemd, note>>

FillTimer(c) ==
    /\ pc[c] = "fillTimer"
    /\ timer' = want[c]
    /\ Fine /\ Goto(c, "load")
    /\ UNCHANGED <<service, systemd, note>>

\* systemctl daemon-reload.
Load(c) == /\ pc[c] = "load"
           /\ Reload
           /\ Fine /\ Goto(c, "enable")
           /\ UNCHANGED <<units, active, enabled, note>>

\* systemctl enable --now.
Enable(c) ==
    /\ pc[c] = "enable"
    /\ Reload
    /\ enabled' = (enabled \/ timer \in Intervals)
    /\ \/ /\ timer \in Intervals /\ (active \/ trigger')
          /\ active' = TRUE
          /\ Fine /\ Return(c, TRUE)
       \/ /\ ~(timer \in Intervals /\ (active \/ trigger'))
          /\ UNCHANGED active
          /\ Fine /\ Return(c, FALSE)
       \/ /\ UNCHANGED active
          /\ Fault /\ Return(c, FALSE)
    /\ UNCHANGED <<units, note>>
-------------------------------------------------------------------------------
(* StopSchedule *)

\* timerState.  An active unit is known as it was loaded; one that is not is
\* looked up, if systemd has forgotten it.
Exists == IF active THEN {loaded # None} ELSE {loaded # None, timer # None}

Query(c) ==
    /\ pc[c] = "query"
    /\ Fine
    /\ \E exists \in Exists :
         Goto(c, IF exists /\ (active \/ (enabled /\ timer # None)) THEN "disable" ELSE "dropService")
    /\ UNCHANGED <<units, systemd, note>>

\* systemctl disable --now.
Disable(c) ==
    /\ pc[c] = "disable"
    /\ \/ /\ timer # None
          /\ Reload /\ enabled' = FALSE /\ active' = FALSE
          /\ Fine /\ Goto(c, "dropService")
       \/ /\ timer = None /\ UNCHANGED systemd
          /\ Fine /\ Return(c, FALSE)
       \/ /\ timer # None /\ enabled' = FALSE /\ UNCHANGED <<loaded, trigger, active>>
          /\ Fault /\ Return(c, FALSE)
    /\ UNCHANGED <<units, note>>

DropService(c) ==
    /\ pc[c] = "dropService"
    /\ service' = None
    /\ Fine /\ Goto(c, "dropTimer")
    /\ UNCHANGED <<timer, systemd, note>>

\* Mutant: the timer file stays.
KeepTimer(c) == pc[c] = "dropTimer" /\ Fine /\ Goto(c, "unload") /\ UNCHANGED <<units, systemd, note>>

DropTimer(c) ==
    /\ pc[c] = "dropTimer"
    /\ timer' = None
    /\ Fine /\ Goto(c, "unload")
    /\ UNCHANGED <<service, systemd, note>>

\* Mutant: systemd is not told that the files are gone.
NotTold(c) == pc[c] = "unload" /\ Fine /\ Goto(c, "note") /\ UNCHANGED <<units, systemd, note>>

Unload(c) == /\ pc[c] = "unload"
             /\ Reload
             /\ Fine /\ Goto(c, "note")
             /\ UNCHANGED <<units, active, enabled, note>>

\* Once the timer is gone, an old version's note is overwritten.
WriteNote(c) ==
    /\ pc[c] = "note"
    /\ note' = Off
    /\ Fine /\ Return(c, TRUE)
    /\ UNCHANGED <<units, systemd>>
-------------------------------------------------------------------------------
\* A machine without a schedule, or with that of an old version.
Init == /\ \/ /\ service = None /\ timer = None /\ loaded = None
              /\ trigger = FALSE /\ active = FALSE /\ enabled = FALSE
              /\ note \in Intervals \cup {None}
           \/ /\ service = "update" /\ timer \in Intervals /\ loaded = timer
              /\ trigger = TRUE /\ active = TRUE /\ enabled = TRUE
              /\ note = None
        /\ pc = [c \in Callers |-> "idle"]
        /\ want = [c \in Callers |-> None]
        /\ alone = [c \in Callers |-> FALSE]
        /\ last = NoOp /\ failed = FALSE
        /\ ops = 0 /\ faults = 0

Set(c) == \/ Check(c) \/ WriteService(c) \/ FillService(c) \/ WriteTimer(c) \/ FillTimer(c)
          \/ Load(c) \/ Enable(c)

Stop(c) == \/ Query(c) \/ Disable(c) \/ DropService(c) \/ DropTimer(c)
           \/ Unload(c) \/ WriteNote(c)

Next == \E c \in Callers : Begin(c) \/ Killed(c) \/ Set(c) \/ Stop(c)

Spec == Init /\ [][Next]_vars
-------------------------------------------------------------------------------
\* What ScheduleStatus answers: the interval in the timer's file, whatever
\* systemd has loaded.
Status == IF active /\ loaded # None
          THEN IF timer \in Intervals THEN timer ELSE "error"
          ELSE IF note \in Intervals THEN "legacy" ELSE Off

\* What really runs: the interval at which updates happen, now and after a boot.
Firing == IF active /\ trigger /\ loaded \in Intervals THEN loaded ELSE Off
Booted == IF enabled /\ service \in {"update", "sync"} /\ timer \in Intervals THEN timer ELSE Off

InEffect(w) == /\ Status = w /\ Firing = w /\ Booted = w
               /\ service = IF w = Off THEN None ELSE "sync"
               /\ timer = IF w = Off THEN None ELSE w

\* A command that ran undisturbed and reports success has had its effect, now
\* and after a boot, and is what the status says, whatever commands that
\* failed, were killed or overlapped have left behind.
SuccessTakesEffect == last.ok /\ last.alone => InEffect(last.want)

\* However commands overlap, as long as none fails the status tells what
\* really runs once they have ended, and a boot does not change it.
StatusIsHonest ==
    Idle /\ ~failed /\ Status # "legacy" => Status = Firing /\ Booted = Firing
=============================================================================
