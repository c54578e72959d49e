---------------------------- MODULE WindowsSchedule ----------------------------
(***************************************************************************)
(* Scheduled subscription updates on Windows: SetSchedule and StopSchedule *)
(* of internal/manager/native_scheduler.go over the scheduled task of      *)
(* internal/scheduler/windows.go.  As on Linux nothing locks.              *)
(*                                                                         *)
(* The task scheduler is external: schtasks registers what the XML file    *)
(* says, COM gives the definition back and deletes it.  It may write the   *)
(* interval in another way than it was given.  Users can disable the task. *)
(***************************************************************************)
EXTENDS Integers, Sequences

CONSTANTS Callers,   \* processes that run schedule commands
          Requests,  \* the intervals users ask for, in seconds
          MaxOps,    \* bound: commands
          MaxFaults  \* bound: failing steps

None == -1
Off  == 0
Torn == -2  \* truncated, and not written
Old  == -3  \* an interval that an old version wrote

Hour  == 3600
Day   == 24 * Hour
Limit == 31 * Day

VARIABLES xml,    \* the XML file: None, the interval in it, or Torn
          task,   \* the interval of the registered task, or None
          on,     \* the task is enabled
          legacy, \* it runs the command of an old version
          note,   \* schedule.txt: None, Off or Old
          pc, want, alone, last, ops, faults

registered == <<task, on, legacy>>
vars == <<xml, task, on, legacy, note, pc, want, alone, last, ops, faults>>

NoOp == [want |-> None, ok |-> FALSE, alone |-> FALSE]
Idle == \A c \in Callers : pc[c] = "idle"
-------------------------------------------------------------------------------
(* An ISO 8601 duration is a sequence of amounts, <<n, unit>>, and "T".        *)

T == <<0, "T">>

Unit(u, inTime) == CASE u = "D" /\ ~inTime -> Day
                     [] u = "H" /\ inTime  -> Hour
                     [] u = "M" /\ inTime  -> 60
                     [] u = "S" /\ inTime  -> 1
                     [] OTHER              -> 0

\* What is known while there is no mistake.
Known(total, inTime) == [total |-> total, inTime |-> inTime, ok |-> TRUE]

Start == Known(0, FALSE)

\* parseTaskInterval: an error or the sum, which is kept within 31 days before
\* anything is multiplied.
Amount(acc, part) ==
    LET unit == Unit(part[2], acc.inTime)
    IN  IF part = T /\ ~acc.inTime THEN Known(acc.total, TRUE)
        ELSE IF unit = 0 THEN [acc EXCEPT !.ok = FALSE]
        ELSE IF part[1] > (Limit - acc.total) \div unit THEN [acc EXCEPT !.ok = FALSE]
        ELSE Known(acc.total + part[1] * unit, acc.inTime)

\* The loop ends at the first mistake.
Read(acc, part) == IF acc.ok THEN Amount(acc, part) ELSE acc

\* What has been read after each of the parts.
ReadTo(parts) ==
    LET acc[i \in 0..Len(parts)] == IF i = 0 THEN Start ELSE Read(acc[i - 1], parts[i])
    IN  acc

ParseTaskInterval(parts) ==
    LET end == ReadTo(parts)[Len(parts)]
    IN  IF end.ok /\ end.total > 0 THEN end.total ELSE None

\* The ways the task scheduler may write an interval of n seconds.
Written(n) == {<<T, <<n, "S">>>>,
               <<T, <<n \div Hour, "H">>, <<(n % Hour) \div 60, "M">>, <<n % 60, "S">>>>,
               <<<<n \div Day, "D">>, T, <<(n % Day) \div Hour, "H">>, <<(n % Hour) \div 60, "M">>,
                 <<n % 60, "S">>>>}
                \cup (IF n % Day = 0 THEN {<<<<n \div Day, "D">>>>} ELSE {})
-------------------------------------------------------------------------------
Goto(c, l) == pc' = [pc EXCEPT ![c] = l] /\ UNCHANGED <<want, alone, last, ops>>

Return(c, ok) ==
    /\ pc' = [pc EXCEPT ![c] = "idle"]
    /\ want' = [want EXCEPT ![c] = None]
    /\ last' = [want |-> want[c], ok |-> ok, alone |-> alone[c]]
    /\ UNCHANGED <<alone, ops>>

Fine  == UNCHANGED faults
Fault == faults < MaxFaults /\ faults' = faults + 1

Begin(c) == \E w \in Requests \cup {Off} :
    /\ pc[c] = "idle" /\ ops < MaxOps
    /\ pc' = [pc EXCEPT ![c] = IF w = Off THEN "query" ELSE "check"]
    /\ want' = [want EXCEPT ![c] = w]
    /\ alone' = [d \in Callers |-> Idle /\ d = c]
    /\ last' = NoOp
    /\ ops' = ops + 1
    /\ UNCHANGED <<xml, registered, note, faults>>

\* A step fails, or the process is killed.
Killed(c) == /\ pc[c] # "idle"
             /\ Fault /\ Return(c, FALSE)
             /\ UNCHANGED <<xml, registered, note>>

\* A user disables the task: something else than a command has changed it.
UserDisables == /\ task # None /\ on
                /\ on' = FALSE
                /\ alone' = [c \in Callers |-> FALSE]
                /\ last' = NoOp
                /\ UNCHANGED <<xml, task, legacy, note, pc, want, ops, faults>>
-------------------------------------------------------------------------------
(* SetSchedule *)

\* Mutant: no upper limit.
LongEnough(n) == n >= Hour

InRange(n) == Hour <= n /\ n <= Limit

Check(c) == /\ pc[c] = "check"
            /\ \/ InRange(want[c]) /\ Goto(c, "write")
               \/ Return(c, FALSE)
            /\ Fine
            /\ UNCHANGED <<xml, registered, note>>

WriteXml(c) == /\ pc[c] = "write"
               /\ xml' = Torn
               /\ Fine /\ Goto(c, "fill")
               /\ UNCHANGED <<registered, note>>

FillXml(c) == /\ pc[c] = "fill"
              /\ xml' = want[c]
              /\ Fine /\ Goto(c, "create")
              /\ UNCHANGED <<registered, note>>

\* Mutant: an existing task is not replaced.
CreateNew(c) == /\ pc[c] = "create" /\ xml > 0
                /\ task' = IF task = None THEN xml ELSE task
                /\ on' = TRUE /\ legacy' = FALSE
                /\ Fine /\ Return(c, TRUE)
                /\ UNCHANGED <<xml, note>>

\* schtasks /Create /F reads the file that is there then.
Create(c) ==
    /\ pc[c] = "create"
    /\ \/ /\ xml > 0
          /\ task' = xml /\ on' = TRUE /\ legacy' = FALSE
          /\ Fine /\ Return(c, TRUE)
       \/ /\ xml <= 0 /\ UNCHANGED registered
          /\ Fine /\ Return(c, FALSE)
       \/ /\ xml > 0
          /\ task' = xml /\ on' = TRUE /\ legacy' = FALSE
          /\ Fault /\ Return(c, FALSE)
    /\ UNCHANGED <<xml, note>>
-------------------------------------------------------------------------------
(* StopSchedule *)

Query(c) == /\ pc[c] = "query"
            /\ Fine /\ Goto(c, IF task # None THEN "delete" ELSE "remove")
            /\ UNCHANGED <<xml, registered, note>>

\* A task that is gone by now is no error.
Delete(c) ==
    /\ pc[c] = "delete"
    /\ task' = None /\ on' = FALSE /\ legacy' = FALSE
    /\ \/ Fine /\ Goto(c, "remove")
       \/ Fault /\ Return(c, FALSE)
    /\ UNCHANGED <<xml, note>>

RemoveXml(c) == /\ pc[c] = "remove"
             /\ xml' = None
             /\ Fine /\ Goto(c, "note")
             /\ UNCHANGED <<registered, note>>

\* Once the task is gone, an old version's note is overwritten.
WriteNote(c) == /\ pc[c] = "note"
                /\ note' = Off
                /\ Fine /\ Return(c, TRUE)
                /\ UNCHANGED <<xml, registered>>
-------------------------------------------------------------------------------
\* A machine without a schedule, or with that of an old version.
Init == /\ xml = None
        /\ task \in {None, Hour}
        /\ on = (task # None) /\ legacy = on
        /\ note \in IF on THEN {None} ELSE {None, Old}
        /\ pc = [c \in Callers |-> "idle"]
        /\ want = [c \in Callers |-> None]
        /\ alone = [c \in Callers |-> FALSE]
        /\ last = NoOp
        /\ ops = 0 /\ faults = 0

Set(c)  == Check(c) \/ WriteXml(c) \/ FillXml(c) \/ Create(c)
Stop(c) == Query(c) \/ Delete(c) \/ RemoveXml(c) \/ WriteNote(c)

Next == UserDisables \/ \E c \in Callers : Begin(c) \/ Killed(c) \/ Set(c) \/ Stop(c)

Spec == Init /\ [][Next]_vars
-------------------------------------------------------------------------------
\* ScheduleStatus, of a task that does not run: off, or the interval that has to be
\* registered anew, as an error.
Inactive == IF note = Old THEN Old ELSE Off

\* The answers the status may give: of one that does, its interval, or None, an error.
Status == IF task = None \/ ~on THEN {Inactive}
          ELSE {ParseTaskInterval(w) : w \in Written(task)}

\* A command that ran undisturbed and reports success has had its effect, also
\* over a task that the user has disabled or that an old version registered,
\* and the status says so in whatever way Windows writes the interval.
SuccessTakesEffect ==
    last.ok /\ last.alone => /\ Status = {last.want}
                             /\ ~legacy
                             /\ last.want = Off => xml = None

\* However commands overlap and fail, what they leave registered has an interval
\* that was asked for and that the status can read, up to the limit of 31 days.
IntervalIsReadable ==
    task # None => /\ task \in {n \in Requests \cup {Hour} : Hour <= n /\ n <= 31 * Day}
                   /\ \A w \in Written(task) : ParseTaskInterval(w) = task
=============================================================================
