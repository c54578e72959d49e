----------------------------- MODULE MCSchedule -----------------------------
(***************************************************************************)
(* The schedule commands of one machine, which runs either Linux or        *)
(* Windows: the manager's half is the same on both (native_scheduler.go),  *)
(* and so are the callers, what they want and how they ended.              *)
(***************************************************************************)
EXTENDS LinuxSchedule, Integers, TLC

CONSTANT Requests  \* the intervals asked for on Windows, in seconds

ASSUME RequestsAssumption == Requests \subseteq Int \ {0}

VARIABLES machine, xml, task, on, legacy

windows == <<xml, task, on, legacy>>

W == INSTANCE WindowsSchedule

\* Below an hour; an interval with every unit in it; 31 days, and beyond.
Asked == {3599, 90061, 2678400, 2678401}

MCInit ==
    \/ machine = "Linux" /\ Init /\ xml = W!None /\ task = W!None /\ on = FALSE /\ legacy = FALSE
    \/ /\ machine = "Windows" /\ W!Init /\ failed = FALSE
       /\ service = None /\ timer = None /\ loaded = None
       /\ trigger = FALSE /\ active = FALSE /\ enabled = FALSE

MCNext == /\ \/ machine = "Linux" /\ Next /\ UNCHANGED windows
             \/ machine = "Windows" /\ W!Next /\ UNCHANGED <<units, systemd, failed>>
          /\ UNCHANGED machine

MCSpec == MCInit /\ [][MCNext]_<<vars, windows, machine>>

Symmetry == Permutations(Callers) \cup Permutations(Intervals)

\* A command that ran undisturbed and reports success has had its effect, on both
\* systems, whatever commands that failed, died or overlapped have left behind
\* (linux.go:27-68, windows.go:34-94).
CommandsTakeEffect == IF machine = "Linux" THEN SuccessTakesEffect ELSE W!SuccessTakesEffect

\* Two commands that overlap in any way and succeed leave a status that tells
\* what really runs (linux.go:120-144).  Three need not: a stop between two sets
\* may take the service of the one and leave the timer of the other.
PairsLeaveAnHonestStatus == machine = "Linux" /\ ops <= 2 => StatusIsHonest

\* Whatever is registered on Windows has an interval that was asked for and that
\* the status reads back, however Windows writes it (windows.go:96-139).
RegisteredIntervalIsReadable == machine = "Windows" => W!IntervalIsReadable
=============================================================================
