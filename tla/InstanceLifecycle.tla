--------------------------- MODULE InstanceLifecycle ---------------------------
(***************************************************************************)
(* Installing and uninstalling the managed instance on Linux               *)
(* (internal/manager/lifecycle_impl.go:57-553), together with the two      *)
(* things that outlive or precede an installation: the config pipeline,    *)
(* which makes the config directory and leaves a journal when it is killed *)
(* (config.go; here only what an installation can see of it), and the      *)
(* commands that do not take the instance lock (service_impl.go,           *)
(* native_scheduler.go).                                                   *)
(*                                                                         *)
(* The installation root holds the binary and the config directory, the    *)
(* manager root the subscription and the config journal.  Operations are   *)
(* numbered, and whatever exists on disk is the number of the operation    *)
(* that made it (None when it does not exist), so that what an earlier     *)
(* installation left behind can be told from what the present one made.    *)
(***************************************************************************)
EXTENDS Naturals

CONSTANTS Ops,         \* operations processes may start
          Unlocked,    \* commands that act without the instance lock
          Cancels,     \* operations whose caller may cancel
          EarlyConfig, \* whether the config pipeline is used before an install
          MaxOps,      \* bound on operations
          MaxFaults    \* bound on crashes and failing steps

Installs   == {"install", "local"}
Uninstalls == {"uninstall", "keep"}
Configs    == {"set", "apply"}

ASSUME OpsAssumption == /\ Ops \subseteq Installs \cup Uninstalls \cup Configs
                        /\ Unlocked \subseteq {"start", "schedule"}
                        /\ Cancels \subseteq Installs \cup Uninstalls
                        /\ EarlyConfig \in BOOLEAN
ASSUME BoundsAssumption == MaxOps \in Nat /\ MaxFaults \in Nat

None == 0

VARIABLES
    binary,    \* the operation that installed the binary, or None
    staged,    \* whether binary.tmp.<version> or binary.tmp.local exists
    dir,       \* the operation that made the config directory, or None
    config,    \* the operation config.yaml's data comes from, or None
    unit,      \* whether mihomo.service exists
    enabled,   \* whether the service starts at boot
    running,   \* whether the core runs
    timer,     \* whether the subscription timer is set
    state,     \* whether the state directory exists
    sub,       \* the operation that chose the stored subscription, or None
    journal,   \* the stamp of the config directory that holds the backup the
               \* config journal names; None when no journal needs one
    pc,        \* next step of the lock holder; "idle" when the lock is free
    op,        \* the operation it runs, or ran last
    found,     \* what it found when it began (bookkeeping)
    cancelled, \* whether its caller has cancelled
    bad,       \* whether undoing or cleaning up has failed
    result,    \* how the last operation ended
    ops,       \* operations so far, the stamp of the present one
    faults,    \* crashes and failing steps so far
    asked      \* unlocked commands that have checked and are about to act

install == <<binary, staged, dir, config, unit>>
service == <<enabled, running, timer>>
manager == <<state, sub, journal>>
holder  == <<pc, op, found, cancelled, bad, result>>
vars    == <<install, service, manager, holder, ops, faults, asked>>

Init == /\ binary = None /\ dir = None /\ config = None
        /\ sub = None /\ journal = None /\ state = FALSE
        /\ staged = FALSE /\ unit = FALSE
        /\ enabled = FALSE /\ running = FALSE /\ timer = FALSE
        /\ pc = "idle" /\ op = "none" /\ result = "none"
        /\ found = "nothing" /\ cancelled = FALSE /\ bad = FALSE
        /\ ops = 0 /\ faults = 0 /\ asked = {}

\* Mutant: a config directory does not stand in the way.
OccupiedByBinary == binary # None \/ unit

\* ensureInstallTargetAvailable: any of the three stands in an install's way.
Occupied == binary # None \/ dir # None \/ unit

-------------------------------------------------------------------------------
Ok     == UNCHANGED faults
Faulty == faults < MaxFaults /\ faults' = faults + 1

Goto(l)   == pc' = l /\ UNCHANGED <<op, found, cancelled, bad, result>>
Return(r) == /\ pc' = "idle" /\ result' = r
             /\ cancelled' = FALSE /\ bad' = FALSE /\ UNCHANGED <<op, found>>

\* A command given a cancelled context fails; any step may fail by itself.
Fails == IF cancelled THEN Ok ELSE Faulty

\* systemctl (external).  A unit without a file is known only while it runs;
\* an unknown unit cannot be stopped, one without a file cannot be disabled.
\* A command that fails may have acted.
Known == unit \/ running
StopCore == /\ running' = FALSE
            /\ Known /\ Ok
StopCoreFails == /\ running' = FALSE \/ UNCHANGED running
                 /\ IF Known THEN Faulty ELSE Ok
Disable == /\ enabled' = FALSE
           /\ unit /\ Ok
DisableFails == /\ enabled' = FALSE \/ UNCHANGED enabled
                /\ IF unit THEN Faulty ELSE Ok
-------------------------------------------------------------------------------
Begin(o) ==
    /\ pc = "idle" /\ ops < MaxOps /\ ops' = ops + 1
    /\ o \in Configs => binary # None \/ EarlyConfig
    /\ pc' = CASE o \in Installs   -> "check"
               [] o \in Uninstalls -> "present"
               [] o \in Configs    -> "prepare"
    /\ op' = o /\ result' = "none" /\ cancelled' = FALSE /\ bad' = FALSE
    /\ found' = IF binary # None \/ dir # None \/ unit THEN "installation"
                ELSE IF staged \/ enabled \/ running THEN "traces" ELSE "nothing"
    /\ UNCHANGED <<install, service, manager, faults, asked>>

\* The caller's context ends; what is already under way does not.
Cancel == /\ pc # "idle" /\ op \in Cancels /\ ~cancelled /\ cancelled' = TRUE
          /\ UNCHANGED <<install, service, manager, pc, op, found, bad, result,
                         ops, faults, asked>>

\* Killed: the kernel releases the lock.  A directory being removed may be gone
\* in part; everything else a step does is done whole or not at all.
Crash ==
    /\ pc # "idle" /\ Faulty /\ Return("crashed")
    /\ IF pc = "roots"
       THEN /\ binary' \in {binary, None} /\ config' \in {config, None}
            /\ dir' \in {dir} \cup (IF config' = None THEN {None} ELSE {})
       ELSE UNCHANGED <<binary, config, dir>>
    /\ UNCHANGED <<staged, unit, service, manager, ops, asked>>
-------------------------------------------------------------------------------
(* Install and InstallFromLocal *)

Check ==
    /\ pc = "check"
    /\ \/ Occupied /\ Ok /\ Return("already")
       \/ ~Occupied /\ Ok /\ Goto("stage")
       \/ Fails /\ Return("error")
    /\ UNCHANGED <<install, service, manager, ops, asked>>

\* Downloading, verifying and unpacking, or copying a local file, to the staging
\* name.  The network or the caller may end it; what is there is then removed.  When
\* that happens before the download begins, an older staging file stays.
Stage ==
    /\ pc = "stage"
    /\ \/ staged' = TRUE /\ Ok /\ Goto("deploy")
       \/ staged' = FALSE /\ Ok /\ Return("error")
       \/ UNCHANGED staged /\ Ok /\ Return("error")
       \/ staged' = TRUE /\ Faulty /\ Return("unclean")
    /\ UNCHANGED <<binary, dir, config, unit, service, manager, ops, asked>>

\* The point of no return: before it an install owns nothing but its staging
\* file, after it every failure goes through rollbackInstall.
Deploy ==
    /\ pc = "deploy"
    /\ \/ /\ ~cancelled /\ ~Occupied /\ Ok /\ Goto("confDir")
          /\ binary' = ops /\ staged' = FALSE
       \/ /\ (Occupied /\ Ok) \/ Fails
          /\ Goto("dropStaged") /\ UNCHANGED <<binary, staged>>
    /\ UNCHANGED <<dir, config, unit, service, manager, ops, asked>>

\* Mutant: only the staging file is removed.
NoRollback == Goto("dropStaged")

Rollback == Goto("undoStop")

\* A bootstrap step does its work, or fails and is rolled back.  The caller's
\* context is looked at before some of them.
Bootstrap(from, to) ==
    /\ pc = from
    /\ \/ Ok /\ Goto(to)
       \/ Faulty /\ Rollback

Checked(from, to) ==
    /\ pc = from
    /\ \/ ~cancelled /\ Ok /\ Goto(to)
       \/ Fails /\ Rollback

MakeConfigDir ==
    /\ Checked("confDir", "stateDir")
    /\ dir' = IF pc' = "stateDir" THEN ops ELSE dir
    /\ UNCHANGED <<binary, staged, config, unit, service, manager, ops, asked>>

MakeStateDir ==
    /\ Bootstrap("stateDir", "files")
    /\ state' = TRUE \/ (pc' = "undoStop" /\ UNCHANGED state)
    /\ UNCHANGED <<install, service, sub, journal, ops, asked>>

\* override.yaml, then config.yaml, in place.
WriteDefaults ==
    /\ Bootstrap("files", "unit")
    /\ config' = ops \/ (pc' = "undoStop" /\ UNCHANGED config)
    /\ UNCHANGED <<binary, staged, dir, unit, service, manager, ops, asked>>

WriteUnit ==
    /\ Bootstrap("unit", "register")
    /\ unit' = TRUE \/ (pc' = "undoStop" /\ UNCHANGED unit)
    /\ UNCHANGED <<binary, staged, dir, config, service, manager, ops, asked>>

\* systemctl daemon-reload; enabling the unit only when asked to.
Register ==
    /\ \/ Checked("register", "enable")
       \/ Checked("register", "start")
    /\ UNCHANGED <<install, service, manager, ops, asked>>

EnableAutoStart ==
    /\ Checked("enable", "start")
    /\ enabled' = TRUE \/ (pc' = "undoStop" /\ UNCHANGED enabled)
    /\ UNCHANGED <<install, running, timer, manager, ops, asked>>

\* Mutant: a core that does not start is not rolled back.
StartCoreOrGiveUp ==
    /\ pc = "start"
    /\ \/ ~cancelled /\ running' = TRUE /\ Ok /\ Return("success")
       \/ (running' = TRUE \/ UNCHANGED running) /\ Fails /\ Goto("dropStaged")
    /\ UNCHANGED <<install, enabled, timer, manager, ops, asked>>

\* The last step: a caller that cancels while the core starts gets a rollback.
StartCore ==
    /\ pc = "start"
    /\ \/ /\ ~cancelled /\ running' = TRUE /\ Ok
          /\ IF op = "local" THEN Goto("dropLocal") ELSE Return("success")
       \/ (running' = TRUE \/ UNCHANGED running) /\ Fails /\ Rollback
    /\ UNCHANGED <<install, enabled, timer, manager, ops, asked>>
-------------------------------------------------------------------------------
(* rollbackInstall: every step is tried, whatever the one before it did, and   *)
(* none of them looks at the caller's context.                                 *)

\* The next step is tried all the same, and the failure reported.
GoOn(l) == pc' = l /\ bad' = TRUE /\ UNCHANGED <<op, found, cancelled, result>>

UndoStop ==
    /\ pc = "undoStop"
    /\ \/ StopCore /\ Goto("undoDisable")
       \/ StopCoreFails /\ GoOn("undoDisable")
    /\ UNCHANGED <<install, enabled, timer, manager, ops, asked>>

UndoDisable ==
    /\ pc = "undoDisable"
    /\ \/ Disable /\ Goto("undoBinary")
       \/ DisableFails /\ GoOn("undoBinary")
    /\ UNCHANGED <<install, running, timer, manager, ops, asked>>

UndoBinary ==
    /\ pc = "undoBinary"
    /\ \/ binary' = None /\ Ok /\ Goto("undoConfig")
       \/ UNCHANGED binary /\ Faulty /\ GoOn("undoConfig")
    /\ UNCHANGED <<staged, dir, config, unit, service, manager, ops, asked>>

\* Mutant: config.yaml is removed, its directory stays.
UndoConfigFile ==
    /\ pc = "undoConfig" /\ config' = None /\ Ok /\ Goto("undoUnit")
    /\ UNCHANGED <<binary, staged, dir, unit, service, manager, ops, asked>>

UndoConfig ==
    /\ pc = "undoConfig"
    /\ \/ dir' = None /\ config' = None /\ Ok /\ Goto("undoUnit")
       \/ /\ UNCHANGED dir /\ config' \in {config, None}
          /\ Faulty /\ GoOn("undoUnit")
    /\ UNCHANGED <<binary, staged, unit, service, manager, ops, asked>>

UndoUnit ==
    /\ pc = "undoUnit"
    /\ \/ unit' = FALSE /\ Ok /\ Goto("dropStaged")
       \/ UNCHANGED unit /\ Faulty /\ GoOn("dropStaged")
    /\ UNCHANGED <<binary, staged, dir, config, service, manager, ops, asked>>

\* Mutant: there is always a staging file to remove.
DropStagedIfAny ==
    /\ pc = "dropStaged" /\ staged
    /\ staged' = FALSE /\ Ok /\ Return(IF bad THEN "unclean" ELSE "error")
    /\ UNCHANGED <<binary, dir, config, unit, service, manager, ops, asked>>

\* Whatever made installBinary fail, the staging file goes.
DropStaged ==
    /\ pc = "dropStaged"
    /\ \/ staged' = FALSE /\ Ok /\ Return(IF bad THEN "unclean" ELSE "error")
       \/ UNCHANGED staged /\ Faulty /\ Return("unclean")
    /\ UNCHANGED <<binary, dir, config, unit, service, manager, ops, asked>>

\* A local install removes its staging file after a success too, and returns an
\* error when it cannot, with everything installed.
DropLocal ==
    /\ pc = "dropLocal"
    /\ \/ staged' = FALSE /\ Ok /\ Return("success")
       \/ UNCHANGED staged /\ Faulty /\ Return("unclean")
    /\ UNCHANGED <<binary, dir, config, unit, service, manager, ops, asked>>
-------------------------------------------------------------------------------
(* Uninstall *)

Present ==
    /\ pc = "present"
    /\ \/ binary # None /\ ~cancelled /\ Ok /\ Goto("unschedule")
       \/ binary = None /\ ~cancelled /\ Ok /\ Return("absent")
       \/ Fails /\ Return("error")
    /\ UNCHANGED <<install, service, manager, ops, asked>>

\* StopSchedule, whose last step writes "off" into the state directory.
Unschedule ==
    /\ pc = "unschedule"
    /\ \/ timer' = FALSE /\ state /\ ~cancelled /\ Ok /\ Goto("stop")
       \/ /\ timer' = FALSE \/ UNCHANGED timer
          /\ IF state THEN Fails ELSE Ok
          /\ Return("error")
    /\ UNCHANGED <<install, enabled, running, manager, ops, asked>>

StopRunning ==
    /\ pc = "stop"
    /\ \/ running' = FALSE /\ ~cancelled /\ Ok /\ Goto("disable")
       \/ (running' = FALSE \/ UNCHANGED running) /\ Fails /\ Return("error")
    /\ UNCHANGED <<install, enabled, timer, manager, ops, asked>>

Unregister ==
    /\ pc = "disable"
    /\ \/ Disable /\ ~cancelled /\ Goto("dropUnit")
       \/ /\ enabled' = FALSE \/ UNCHANGED enabled
          /\ IF unit THEN Fails ELSE Ok
          /\ Return("error")
    /\ UNCHANGED <<install, running, timer, manager, ops, asked>>

Cleanup == Goto(IF op = "keep" THEN "move" ELSE "roots")

\* removeServiceUnit.
DropUnit ==
    /\ pc = "dropUnit"
    /\ \/ unit /\ unit' = FALSE /\ Ok /\ Goto("reload")
       \/ ~unit /\ UNCHANGED unit /\ Ok /\ Cleanup
       \/ UNCHANGED unit /\ Faulty /\ Return("error")
    /\ UNCHANGED <<binary, staged, dir, config, service, manager, ops, asked>>

ReloadUnits ==
    /\ pc = "reload"
    /\ \/ ~cancelled /\ Ok /\ Cleanup
       \/ Fails /\ Return("error")
    /\ UNCHANGED <<install, service, manager, ops, asked>>

\* Keeping a backup renames the installation root and leaves the manager root.
Move ==
    /\ pc = "move"
    /\ \/ /\ binary' = None /\ dir' = None /\ config' = None /\ staged' = FALSE
          /\ Ok /\ Return("success")
       \/ /\ UNCHANGED <<binary, dir, config, staged>>
          /\ Faulty /\ Return("error")
    /\ UNCHANGED <<unit, service, manager, ops, asked>>

\* Both roots are tried, whatever became of the first.
RemoveRoot ==
    /\ pc = "roots"
    /\ \/ /\ binary' = None /\ dir' = None /\ config' = None /\ staged' = FALSE
          /\ Ok /\ Goto("managerRoot")
       \/ /\ binary' \in {binary, None} /\ config' \in {config, None}
          /\ UNCHANGED <<dir, staged>>
          /\ Faulty /\ GoOn("managerRoot")
    /\ UNCHANGED <<unit, service, manager, ops, asked>>

\* Mutants: what became of the first root is forgotten; the subscription stays.
RemoveSecondRoot ==
    /\ pc = "managerRoot" /\ state' = FALSE /\ sub' = None /\ journal' = None
    /\ Ok /\ Return("success")
    /\ UNCHANGED <<install, service, ops, asked>>
RemoveJournal ==
    /\ pc = "managerRoot" /\ journal' = None
    /\ Ok /\ Return(IF bad THEN "error" ELSE "success")
    /\ UNCHANGED <<install, service, state, sub, ops, asked>>

RemoveManagerRoot ==
    /\ pc = "managerRoot"
    /\ \/ /\ state' = FALSE /\ sub' = None /\ journal' = None
          /\ Ok /\ Return(IF bad THEN "error" ELSE "success")
       \/ /\ UNCHANGED state
          /\ sub' \in {sub, None} /\ journal' \in {journal, None}
          /\ Faulty /\ Return("error")
    /\ UNCHANGED <<install, service, ops, asked>>
-------------------------------------------------------------------------------
(* The config pipeline, as far as an installation can see it: ConfigPipeline   *)
(* has every step of it.                                                       *)

\* A journal is recovered from its backup, before anything else is done.
Prepare ==
    /\ pc = "prepare"
    /\ state' = TRUE
    /\ \/ journal \in {None, dir} /\ journal' = None /\ Ok /\ Goto("configure")
       \/ journal \notin {None, dir} /\ UNCHANGED journal /\ Ok /\ Return("error")
       \/ UNCHANGED journal /\ Faulty /\ Return("error")
    /\ UNCHANGED <<install, service, sub, ops, asked>>

SetSource ==
    /\ pc = "configure" /\ op = "set"
    /\ \/ sub' = ops /\ Ok /\ Return("success")
       \/ UNCHANGED sub /\ Faulty /\ Return("error")
    /\ UNCHANGED <<install, service, state, journal, ops, asked>>

\* Staging makes the config directory; without a binary nothing validates what
\* was staged.  A config that replaces another leaves a journal meanwhile.
Apply ==
    /\ pc = "configure" /\ op = "apply"
    /\ dir' = IF dir = None THEN ops ELSE dir
    /\ \/ /\ binary # None /\ config' = IF sub = None THEN ops ELSE sub
          /\ journal' = IF config = None THEN None ELSE dir
          /\ Ok /\ Goto("resolve")
       \/ UNCHANGED <<config, journal>> /\ Ok /\ Return("error")
    /\ UNCHANGED <<binary, staged, unit, service, state, sub, ops, asked>>

Resolve ==
    /\ pc = "resolve"
    /\ \/ journal' = None /\ Ok /\ Return("success")
       \/ UNCHANGED journal /\ Faulty /\ Return("error")
    /\ UNCHANGED <<install, service, state, sub, ops, asked>>
-------------------------------------------------------------------------------
(* ServiceControl.Start and SetSchedule take no lock: what they checked may be *)
(* over when they act.                                                         *)

Ask(c) ==
    /\ c \in Unlocked /\ asked' = asked \cup {c}
    /\ binary # None
    /\ c = "start" => ~running
    /\ UNCHANGED <<install, service, manager, holder, ops, faults>>

ActStart ==
    /\ "start" \in asked /\ asked' = asked \ {"start"}
    /\ running' = (running \/ (unit /\ binary # None))
    /\ UNCHANGED <<install, enabled, timer, manager, holder, ops, faults>>

ActSchedule ==
    /\ "schedule" \in asked /\ asked' = asked \ {"schedule"}
    /\ timer' = TRUE
    /\ UNCHANGED <<install, enabled, running, manager, holder, ops, faults>>
-------------------------------------------------------------------------------
InstallStep == Check \/ Stage \/ Deploy \/ MakeConfigDir \/ MakeStateDir
                 \/ WriteDefaults \/ WriteUnit \/ Register \/ EnableAutoStart
                 \/ StartCore \/ DropStaged \/ DropLocal
RollbackStep == UndoStop \/ UndoDisable \/ UndoBinary \/ UndoConfig \/ UndoUnit
UninstallStep == Present \/ Unschedule \/ StopRunning \/ Unregister \/ DropUnit
                   \/ ReloadUnits \/ Move \/ RemoveRoot \/ RemoveManagerRoot
ConfigStep == Prepare \/ SetSource \/ Apply \/ Resolve
Step == InstallStep \/ RollbackStep \/ UninstallStep \/ ConfigStep

Next == \/ \E o \in Ops : Begin(o)
        \/ Step \/ Cancel \/ Crash
        \/ \E c \in Unlocked : Ask(c)
        \/ ActStart \/ ActSchedule

\* The process that holds the lock goes on unless it is killed.
Spec == Init /\ [][Next]_vars /\ WF_vars(Step)
-------------------------------------------------------------------------------
Ended(o, r) == pc = "idle" /\ op \in o /\ result \in r

\* Neither a file of the installation nor a trace of its registration is left.
Gone == /\ binary = None /\ dir = None /\ config = None
        /\ ~unit /\ ~enabled

\* A failed install whose rollback reports no error of its own leaves nothing behind,
\* whichever step failed and whenever the caller cancelled: the binary, the config
\* directory, the unit, the service and the staging file are gone.  The rollback does
\* report one whenever the unit was not written yet, since stopping and disabling it
\* then fails.  That is no promise, but if all that went wrong is that the caller
\* cancelled, nothing is left then, either (lifecycle_impl.go:218-251).
FailedInstallLeavesNothing ==
    Ended(Installs, {"error"} \cup IF faults = 0 THEN {"unclean"} ELSE {})
      /\ found = "nothing"
        => Gone /\ ~staged

\* An install that finds a binary, a config directory or a unit in its place
\* touches none of them, nor the service (lifecycle_impl.go:57-72, 391).
RefusesExisting ==
    [][(op \in Installs /\ found = "installation")
          => UNCHANGED <<install, enabled>>]_vars

\* An uninstall that reports success has removed the installation, deregistered
\* its service, and, unless it keeps a backup, removed what the manager knew of
\* it (lifecycle_impl.go:484-529).
UninstallLeavesNothing ==
    Ended(Uninstalls, {"success"})
        => /\ Gone
           /\ (op = "uninstall" => ~state /\ sub = None /\ journal = None)

\* A failed install leaves nothing, and neither does a successful uninstall
\* (lifecycle_impl.go:218-251, 484-529).
LeavesNothing == FailedInstallLeavesNothing /\ UninstallLeavesNothing

\* After either, the core and the subscription timer are stopped, unless a command
\* that takes no lock has set them going again (lifecycle_impl.go:231, 484-498).
ServiceIsStopped ==
    /\ Ended(Uninstalls, {"success"}) => ~running /\ ~timer
    /\ Ended(Installs, {"error"}) /\ found = "nothing" => ~running

\* An installation starts clean: while no uninstall keeps a backup or fails, the
\* config it runs with and the subscription it syncs are never older than the
\* installation itself (lifecycle_impl.go:520).
StartsClean ==
    pc = "idle" /\ binary # None
        => config \in {None} \cup binary..MaxOps
             /\ sub \in {None} \cup binary..MaxOps

\* Between operations the instance can be installed or uninstalled: a binary
\* without its unit or its state directory could be neither, because systemctl
\* does not disable a missing unit; nor could a config directory or a unit
\* without a binary.
NeverStuck ==
    pc = "idle" => IF binary = None THEN ~Occupied ELSE unit /\ state

\* Every operation returns, with the lock released.
OperationsEnd == pc # "idle" ~> pc = "idle"
===============================================================================
