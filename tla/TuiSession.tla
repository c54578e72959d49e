------------------------------ MODULE TuiSession ------------------------------
(***************************************************************************)
(* The message loop of the terminal interface (tui.go).  Update handles    *)
(* one message at a time; what it starts runs in goroutines of their own   *)
(* and answers with a message, in any order and whatever page is shown by  *)
(* then.  An install, an upgrade or an uninstall also reports progress     *)
(* over a channel of its own, which a reader goroutine turns into messages *)
(* one by one.  The editor takes the terminal, and nothing is handled      *)
(* meanwhile: it is one step.                                              *)
(*                                                                         *)
(* Left out: texts, styles and wrapping, the reading offsets, focus (Enter *)
(* is the key of the focused item), the backup switch of the uninstall     *)
(* dialog, the help page, the spinner, and quitting, which ends            *)
(* everything.  The instance is changed by this interface alone.           *)
(***************************************************************************)
EXTENDS Naturals, Sequences, Bags, FiniteSets

CONSTANTS Releases,    \* lists of releases: how many screen lines each takes
          Rows,        \* heights of a page's body; 0 is a terminal too small
          Capacity,    \* of a progress channel: 20 in the code
          Events,      \* bound on progress reports of an action
          MaxCommands  \* bound on commands the user starts

ASSUME SizesAssumption == Rows \subseteq Nat /\ Capacity \in Nat /\ Events \in Nat
ASSUME ReleasesAssumption == Releases \subseteq Seq(Nat)

Presets   == <<1, 1, 1, 1, 1>>  \* schedulePresets, a line each
Reporting == {"install", "upgrade", "uninstall"}

VARIABLES
    mode,      \* the page whose keys are handled
    executing, \* the action waited for, or "none"
    shown,     \* the last status: of the service, or the error there was instead
    loading,   \* a preview is awaited
    versions,  \* the list of releases; empty until it is loaded
    listError, \* it could not be loaded
    selected,  \* selectedIdx + 1, shared by the two list pages
    rows,      \* the height of the body now
    jobs,      \* goroutines that answer with one message
    actions,   \* actions started, with their progress channel and its reader
    service,   \* the service, in truth: "absent", "stopped" or "running"
    changes,   \* changes of the instance and its schedule so far
    source,    \* changes of the subscription source so far
    newest,    \* the latest change made before a status answer was, or its error
    rendered,  \* the latest source a preview answer, or its error, was made from
    started    \* commands the user has started

screen == <<mode, executing, shown, loading, versions, listError, selected>>
world  == <<service, changes, source>>
seen   == <<newest, rendered>>
vars   == <<screen, rows, jobs, actions, world, seen, started>>

\* A status: what it says of the service, and whether it names its version.
Status(of, version) == [of |-> of, version |-> version]

Job(kind) == [kind |-> kind, done |-> FALSE, at |-> 0, service |-> "none", list |-> <<>>]
Go(kind)  == jobs (+) SetToBag({Job(kind)})
Later(x, y) == IF x > y THEN x ELSE y

Init == /\ mode = "status" /\ executing = "none"
        /\ shown = Status("none", FALSE) /\ loading = FALSE
        /\ versions = <<>> /\ listError = FALSE /\ selected = 1
        /\ rows \in Rows
        /\ jobs = SetToBag({Job("status")}) /\ actions = <<>>
        /\ service \in {"absent", "stopped", "running"}
        /\ changes = 0 /\ source = 0 /\ newest = 0 /\ rendered = 0
        /\ started = 0
-------------------------------------------------------------------------------
(* Keys *)

\* A key does something: no action is waited for, and the terminal is large enough.
Listening == executing = "none" /\ rows > 0

\* The user starts a command.
Command == started < MaxCommands /\ started' = started + 1

\* isInstalled.
Installed == shown.of \in {"stopped", "running"}

\* The keys dispatchMenuKey acts on.  Without a status, for want of an answer or
\* for an error, an install may be started all the same.
Offered(a) == CASE a = "install" -> ~Installed
                [] a = "start"   -> shown.of = "stopped"
                [] a \in {"stop", "restart", "reload"} -> shown.of = "running"
                [] a = "autostart" -> Installed

\* startAction and startConfigApply: the action, and the reader of its channel.
StartAction(a) ==
    /\ executing' = a /\ mode' = "status"
    /\ actions' = Append(actions, [name |-> a, stage |-> "works", buffered |-> 0,
                                   left |-> IF a \in Reporting THEN Events ELSE 0, reader |-> IF a = "apply" THEN "gone" ELSE "waits"])
    /\ Command
    /\ UNCHANGED <<shown, loading, versions, listError, selected, rows, jobs, world, seen>>

MenuAction(a) == Listening /\ mode = "status" /\ Offered(a) /\ StartAction(a)

\* r
Refresh == /\ Listening /\ mode = "status"
           /\ jobs' = Go("status")
           /\ Command
           /\ UNCHANGED <<screen, rows, actions, world, seen>>

\* c
OpenConfig ==
    /\ Listening /\ mode = "status" /\ Installed
    /\ mode' = "config"
    /\ loading' = TRUE
    /\ jobs' = Go("preview")
    /\ Command
    /\ UNCHANGED <<executing, shown, versions, listError, selected, rows, actions, world, seen>>

\* Mutant: the selection stays where the other list left it.
OpenVersionsAnywhere ==
    /\ Listening /\ mode = "status" /\ Installed
    /\ mode' = "versions" /\ versions' = <<>> /\ listError' = FALSE
    /\ UNCHANGED selected
    /\ jobs' = Go("versions")
    /\ Command
    /\ UNCHANGED <<executing, shown, loading, rows, actions, world, seen>>

\* 5
OpenVersions ==
    /\ Listening /\ mode = "status" /\ Installed
    /\ mode' = "versions" /\ versions' = <<>> /\ listError' = FALSE
    /\ selected' = 1
    /\ jobs' = Go("versions")
    /\ Command
    /\ UNCHANGED <<executing, shown, loading, rows, actions, world, seen>>

\* t: the preset in effect is selected.
OpenSchedule ==
    /\ Listening /\ mode = "status" /\ Installed
    /\ mode' = "schedule" /\ selected' \in DOMAIN Presets
    /\ UNCHANGED <<executing, shown, loading, versions, listError, rows, jobs, actions, world, seen, started>>

\* u
OpenConfirm ==
    /\ Listening /\ mode = "status" /\ Installed
    /\ mode' = "confirm"
    /\ UNCHANGED <<executing, shown, loading, versions, listError, selected, rows, jobs, actions, world, seen, started>>

\* q, esc or n leaves a page, also when the terminal is too small for anything else.
Leave == /\ executing = "none" /\ mode # "status"
         /\ mode' = "status"
         /\ UNCHANGED <<executing, shown, loading, versions, listError, selected, rows, jobs, actions, world, seen, started>>

\* y in the uninstall dialog.
ConfirmUninstall == Listening /\ mode = "confirm" /\ StartAction("uninstall")

\* Enter on the release that is selected.
ChooseVersion == /\ Listening /\ mode = "versions" /\ versions # <<>>
                 /\ StartAction("upgrade")

\* a on the config page.
ApplyConfig == Listening /\ mode = "config" /\ StartAction("apply")

Items == IF mode = "versions" THEN versions ELSE Presets

\* Up and down.
Select == /\ Listening /\ mode \in {"versions", "schedule"}
          /\ mode = "versions" => ~listError
          /\ \/ selected < Len(Items) /\ selected' = selected + 1
             \/ selected > 1 /\ selected' = selected - 1
          /\ UNCHANGED <<mode, executing, shown, loading, versions, listError, rows, jobs, actions, world, seen, started>>

\* Enter on the schedule page: nothing is waited for.
ChooseSchedule == /\ Listening /\ mode = "schedule"
                  /\ jobs' = Go("schedule")
                  /\ Command
                  /\ UNCHANGED <<screen, rows, actions, world, seen>>

\* r on the config page.
RefreshPreview ==
    /\ Listening /\ mode = "config"
    /\ loading' = TRUE
    /\ jobs' = Go("preview")
    /\ Command
    /\ UNCHANGED <<mode, executing, shown, versions, listError, selected, rows, actions, world, seen>>

\* e on its subscription tab.
EditSource == /\ Listening /\ mode = "config"
              /\ jobs' = Go("edit")
              /\ Command
              /\ UNCHANGED <<screen, rows, actions, world, seen>>

Resize == /\ rows' \in Rows \ {rows}
          /\ UNCHANGED <<screen, jobs, actions, world, seen, started>>

Key == \/ \E a \in {"install", "start", "stop", "restart", "reload", "autostart"} : MenuAction(a)
       \/ Refresh \/ OpenConfig \/ OpenVersions \/ OpenSchedule
       \/ OpenConfirm \/ Leave \/ ConfirmUninstall \/ ChooseVersion \/ ApplyConfig \/ Select
       \/ ChooseSchedule \/ RefreshPreview \/ EditSource
-------------------------------------------------------------------------------
(* Goroutines *)

Answer(j, answer) == jobs' = (jobs (-) SetToBag({j})) (+) SetToBag({answer})
Ready(kind, done) == {j \in BagToSet(jobs) : j.kind = kind /\ j.done = done}

\* fetchStatusCmd: the service as it is, or an error.
FetchStatus == \E j \in Ready("status", FALSE), known \in {service, "error"} :
    /\ Answer(j, [j EXCEPT !.done = TRUE, !.at = changes, !.service = known])
    /\ UNCHANGED <<screen, rows, actions, world, seen, started>>

\* fetchVersionsCmd: the releases, or an error.
FetchVersions == \E j \in Ready("versions", FALSE), list \in Releases \union {<<>>} :
    /\ Answer(j, [j EXCEPT !.done = TRUE, !.list = list])
    /\ UNCHANGED <<screen, rows, actions, world, seen, started>>

\* fetchConfigPreview: the config, or an error.
FetchPreview == \E j \in Ready("preview", FALSE) :
    /\ Answer(j, [j EXCEPT !.done = TRUE, !.at = source])
    /\ UNCHANGED <<screen, rows, actions, world, seen, started>>

\* scheduleCommand: also one that fails may have changed something.
ChangeSchedule == \E j \in Ready("schedule", FALSE) :
    /\ Answer(j, [j EXCEPT !.done = TRUE])
    /\ changes' = changes + 1
    /\ UNCHANGED <<screen, rows, actions, service, source, seen, started>>

\* editSubscriptionCmd
Edit == \E j \in Ready("edit", FALSE) :
    /\ Answer(j, [j EXCEPT !.done = TRUE])
    /\ source' \in {source, source + 1}
    /\ UNCHANGED <<screen, rows, actions, service, changes, seen, started>>

\* What an action may leave; one that fails, also the service as it was.
Effect(a) == CASE a = "start"     -> IF service = "absent" THEN {} ELSE {"running"}
               [] a = "stop"      -> IF service = "absent" THEN {} ELSE {"stopped"}
               [] a = "restart"   -> IF service = "absent" THEN {} ELSE {"running"}
               [] a = "install"   -> IF service = "absent" THEN {"running"} ELSE {}
               [] a = "uninstall" -> IF service = "absent" THEN {} ELSE {"absent", "stopped"}
               [] OTHER           -> {service}

\* A progress report waits while the channel is full.
Report(i) ==
    /\ actions[i].left > 0 /\ actions[i].buffered < Capacity
    /\ actions' = [actions EXCEPT ![i].left = @ - 1, ![i].buffered = @ + 1]
    /\ UNCHANGED <<screen, rows, jobs, world, seen, started>>

\* The action is over and its channel closed.
Finish(i) ==
    /\ actions[i].stage = "works" /\ actions[i].left = 0
    /\ actions' = [actions EXCEPT ![i].stage = "done"]
    /\ service' \in Effect(actions[i].name) \union {service}
    /\ changes' = changes + 1
    /\ UNCHANGED <<screen, rows, jobs, source, seen, started>>

\* progressReaderCmd
Read(i) ==
    /\ actions[i].reader = "waits"
    /\ \/ /\ actions[i].buffered > 0
          /\ actions' = [actions EXCEPT ![i].buffered = @ - 1, ![i].reader = "holds"]
       \/ /\ actions[i].buffered = 0 /\ actions[i].stage # "works"
          /\ actions' = [actions EXCEPT ![i].reader = "gone"]
    /\ UNCHANGED <<screen, rows, jobs, world, seen, started>>
-------------------------------------------------------------------------------
(* Update, given an answer *)

Take(j) == jobs (-) SetToBag({j})

\* The status of an installed core names its version if the core could be asked.
ShowStatus == \E j \in Ready("status", TRUE), named \in BOOLEAN :
    /\ jobs' = Take(j)
    /\ shown' = Status(j.service, named) /\ (named => j.service \in {"stopped", "running"})
    /\ newest' = Later(newest, j.at)
    /\ UNCHANGED <<mode, executing, loading, versions, listError, selected, rows, actions, world, rendered, started>>

ShowVersions == \E j \in Ready("versions", TRUE) :
    /\ jobs' = Take(j)
    /\ listError' = (j.list = <<>>) /\ versions' = j.list
    /\ UNCHANGED <<mode, executing, shown, loading, selected, rows, actions, world, seen, started>>

\* Content that could not be rendered leaves the last one in place.
ShowPreview == \E j \in Ready("preview", TRUE) :
    /\ jobs' = Take(j)
    /\ loading' = FALSE
    /\ rendered' = Later(rendered, j.at)
    /\ UNCHANGED <<mode, executing, shown, versions, listError, selected, rows, actions, world, newest, started>>

\* Mutant: whatever is waited for, it is taken to be over.
ScheduleEndsAll == \E j \in Ready("schedule", TRUE) :
    /\ jobs' = Take(j) (+) SetToBag({Job("status")})
    /\ mode' = "status" /\ executing' = "none"
    /\ UNCHANGED <<shown, loading, versions, listError, selected, rows, actions, world, seen, started>>

\* Mutant: no refresh follows.
ScheduleDoneUnseen == \E j \in Ready("schedule", TRUE) :
    /\ jobs' = Take(j)
    /\ mode' = "status"
    /\ UNCHANGED <<executing, shown, loading, versions, listError, selected, rows, actions, world, seen, started>>

\* The page is left, whichever it is by now.
ScheduleDone == \E j \in Ready("schedule", TRUE) :
    /\ jobs' = Take(j) (+) SetToBag({Job("status")})
    /\ mode' = "status"
    /\ UNCHANGED <<executing, shown, loading, versions, listError, selected, rows, actions, world, seen, started>>

\* The preview is rendered again, whatever page it is for.
EditDone == \E j \in Ready("edit", TRUE) :
    /\ jobs' = Take(j) (+) SetToBag({Job("preview")})
    /\ loading' = TRUE
    /\ UNCHANGED <<mode, executing, shown, versions, listError, selected, rows, actions, world, seen, started>>

ShowProgress(i) ==
    /\ actions[i].reader = "holds"
    /\ actions' = [actions EXCEPT ![i].reader = "waits"]
    /\ UNCHANGED <<screen, rows, jobs, world, seen, started>>

\* Mutant: the time is taken from the last answer, not from the start.
LingerAnew(i) ==
    /\ actions[i].stage \in {"done", "lingers"} /\ actions[i].name = "reload" /\ executing = "reload"
    /\ actions' = [actions EXCEPT ![i].stage = IF @ = "done" THEN "lingers" ELSE "done"]
    /\ UNCHANGED <<screen, rows, jobs, world, seen, started>>

\* A reload that was too fast to be seen is answered again a moment later.
Linger(i) ==
    /\ actions[i].stage = "done" /\ actions[i].name = "reload" /\ executing = "reload"
    /\ actions' = [actions EXCEPT ![i].stage = "lingers"]
    /\ UNCHANGED <<screen, rows, jobs, world, seen, started>>

ActionDone(i) ==
    /\ actions[i].stage \in {"done", "lingers"}
    /\ executing' = "none" /\ mode' = "status"
    /\ actions' = [actions EXCEPT ![i].stage = "over"]
    /\ jobs' = Go("status")
    /\ UNCHANGED <<shown, loading, versions, listError, selected, rows, world, seen, started>>

JobStep == \/ FetchStatus \/ FetchVersions \/ FetchPreview \/ ChangeSchedule \/ Edit
            \/ ShowStatus \/ ShowVersions \/ ShowPreview \/ ScheduleDone \/ EditDone

ActionStep(i) == /\ i \in DOMAIN actions
                 /\ Report(i) \/ Finish(i) \/ Read(i) \/ ShowProgress(i) \/ Linger(i) \/ ActionDone(i)

Next == Key \/ Resize \/ JobStep \/ \E i \in DOMAIN actions : ActionStep(i)

\* Goroutines run, and the loop takes what they answer.
Spec == Init /\ [][Next]_vars /\ WF_vars(\E i \in DOMAIN actions : ActionStep(i))
-------------------------------------------------------------------------------
(* The list pages: what of a list is on screen (listWindow). *)

\* The screen lines of some of the items, each by its item and its place in it.
ScreenLines(items, from, to) == UNION {{i} \X (1..items[i]) : i \in from..to}

Lines(items, from, to) == Cardinality(ScreenLines(items, from, to))

\* The first item shown: as far above the selected one as that leaves it whole.
FirstShown(items, at, room) ==
    LET fits == {i \in 1..at : Lines(items, i, at) <= room}
    IN  IF fits = {} THEN at ELSE CHOOSE i \in fits : \A j \in fits : i <= j

\* Mutant: the lines above the list are not subtracted.
RoomInAll(above, height) == height

\* The line above the list is left out when nothing else would fit.
Room(above, height) == IF above < height THEN height - above ELSE height

\* How many lines of item `at` are on screen.
LinesShown(items, at, above, height) ==
    LET first  == FirstShown(items, at, Room(above, height))
        before == Lines(items, first, at - 1) + (IF above < height THEN above ELSE 0)
    IN  IF before >= height THEN 0
        ELSE IF before + items[at] <= height THEN items[at] ELSE height - before

\* The current schedule, or the installed version when the status names it, is in a
\* line above the list.
Above == IF mode = "versions" /\ ~shown.version THEN 0 ELSE 1

ListPages == {"versions", "schedule"}

\* currentPage: before the first status, and after one that was an error, no page of
\* a mode is on screen, though its keys are in effect.
Page == IF shown.of = "none" THEN "checking"
        ELSE IF shown.of = "error" THEN "error"
        ELSE IF executing # "none" THEN "executing" ELSE mode
-------------------------------------------------------------------------------
\* At most one action is under way, and as long as one is the interface waits
\* for it, whatever answers come in meanwhile (tui.go:369-371, 488-500).
OneActionAtATime ==
    LET open == {i \in DOMAIN actions : actions[i].stage # "over"}
    IN  IF executing = "none" THEN open = {}
        ELSE \E i \in open : open = {i} /\ actions[i].name = executing

\* The interface does not wait for ever, with all keys ignored: an action ends and
\* its answer is taken, also a reload's, which is put off once (tui.go:369-371,
\* 488-499), and whatever has been reported meanwhile.
ActionsEnd == executing # "none" ~> executing = "none"

\* The selection names an item of the list that keys go to, which Enter acts on.
\* Whenever a list is on screen so is that item: whole, if it can be.  It is not on
\* screen while the page of a status error is (tui.go:668-683, 1342-1372, 1418-1459).
SelectionIsShown ==
    /\ Listening /\ mode \in ListPages /\ Items # <<>> => selected \in DOMAIN Items
    /\ rows > 0 /\ Page \in ListPages /\ Items # <<>> =>
          LinesShown(Items, selected, Above, rows) >=
              IF Items[selected] <= Room(Above, rows) THEN Items[selected] ELSE Room(Above, rows)

\* Once everything has been answered, the status has been asked for after every
\* change the interface has made, failed or not, and answered with it or an error;
\* so has, on the config page, the preview of the source it has set.  What is shown
\* is no older, unless an older answer came in last (tui.go:471-481, 499).
Quiet == jobs = EmptyBag /\ \A i \in DOMAIN actions : actions[i].stage = "over"

EverythingIsRefreshed ==
    Quiet => /\ newest = changes
             /\ mode = "config" => rendered = source /\ ~loading
===============================================================================
