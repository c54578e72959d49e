------------------------ MODULE InstanceLifecycleProofs ------------------------
(***************************************************************************)
(* What an install or an uninstall leaves behind, for any operations,      *)
(* commands and bounds: the invariants follow an operation from step to    *)
(* step and say what it still finds there of the installation it makes,    *)
(* undoes or removes.                                                      *)
(***************************************************************************)
EXTENDS MCInstanceLifecycle, TLAPS

\* The steps of each kind of operation, in the order of the code.
Staging     == {"check", "stage", "deploy"}
Bootstraps  == {"confDir", "stateDir", "files", "unit", "register", "enable",
                "start"}
Undoing     == {"undoStop", "undoDisable", "undoBinary", "undoConfig",
                "undoUnit"}
Installing  == Staging \cup Bootstraps \cup Undoing
                   \cup {"dropStaged", "dropLocal"}
Removing    == {"dropUnit", "reload", "move", "roots", "managerRoot"}
Uninstalling == {"present", "unschedule", "stop", "disable"} \cup Removing
Configuring == {"prepare", "configure", "resolve"}

\* Whatever is on disk was made by an operation that has begun.
Stamps ==
    /\ ops \in 0..MaxOps /\ faults \in Nat
    /\ binary \in 0..ops /\ dir \in 0..ops /\ config \in 0..ops
    /\ sub \in 0..ops /\ journal \in 0..ops

\* Each step belongs to an operation, and no config is without its directory.
ControlInv ==
    /\ pc # "idle" => ops > 0
    /\ pc \in Installing => op \in Installs
    /\ pc \in Uninstalling => op \in Uninstalls
    /\ pc \in Configuring => op \in Configs
    /\ pc = "move" => op = "keep"
    /\ pc \in {"roots", "managerRoot"} => op = "uninstall"
    /\ dir = None => config = None
    /\ pc \in {"stateDir", "files"} => dir # None

\* An install that finds an installation returns as soon as it has looked.
RefusalInv ==
    op \in Installs /\ found = "installation" =>
        /\ pc \in {"idle", "check"}
        /\ pc = "check" => Occupied

\* What a step of rollbackInstall could not undo: that took a fault and will be
\* reported.
Left == bad /\ faults > 0

\* An install that finds nothing: its staging file until it deploys, what it
\* has made from then on, and less of it with every step of its rollback.
UndoneInv ==
    op \in Installs /\ found = "nothing" =>
        /\ pc \in Staging => Gone
        /\ staged => pc \in {"deploy", "dropStaged", "dropLocal", "idle"}
        /\ pc \in {"confDir", "stateDir", "files", "unit"} => ~enabled
        /\ pc \in {"register", "enable", "start"} => unit
        /\ pc \in {"undoStop", "undoDisable"} /\ enabled => unit
        /\ pc \in {"undoBinary", "undoConfig", "undoUnit", "dropStaged"}
               /\ enabled => Left
        /\ pc \in {"undoConfig", "undoUnit", "dropStaged"}
               /\ binary # None => Left
        /\ pc \in {"undoUnit", "dropStaged"} /\ dir # None => Left
        /\ pc = "dropStaged" /\ unit => Left

\* An uninstall deregisters the service, then removes the unit, then the roots.
RemovedInv ==
    /\ pc \in Removing => ~enabled
    /\ pc \in Removing \ {"dropUnit"} => ~unit
    /\ pc = "managerRoot" /\ ~bad => binary = None /\ dir = None

\* The inductive invariant of what is left behind.
LeftInv == UndoneInv /\ RemovedInv /\ LeavesNothing

\* The inductive invariant of all operations.
LifecycleInv == Stamps /\ ControlInv /\ RefusalInv /\ LeftInv

\* While every command takes the lock, the core runs from its start until it is
\* stopped, and only a core that could not be stopped is left by a rollback.
StoppedInv ==
    locked =>
        /\ asked = {}
        /\ op \in Installs /\ found = "nothing" =>
               /\ pc \in Staging \cup Bootstraps => ~running
               /\ pc \in (Undoing \ {"undoStop"}) \cup {"dropStaged"} =>
                      (running => bad)
        /\ pc \in Uninstalling \ {"present", "unschedule"} => ~timer
        /\ pc \in Removing \cup {"disable"} => ~running
        /\ ServiceIsStopped

\* An installation that can be used and removed, which is not younger than its
\* config and its subscription; and none, where one can be made.
Since(stamp) == {None} \cup stamp..MaxOps
Whole   == /\ binary # None /\ unit /\ state
           /\ config \in Since(binary) /\ sub \in Since(binary)
Nothing == binary = None /\ dir = None /\ ~unit /\ sub = None

\* In plain behaviours an operation begins with a whole installation or none,
\* and what it has made or removed of one follows from its step.
PlainInv ==
    plain =>
        /\ faults = 0 /\ asked = {} /\ op # "keep"
        /\ op \in Uninstalls => ~cancelled
        /\ pc \in {"idle", "check", "present"} => Whole \/ Nothing
        /\ pc \in {"stage", "deploy", "dropStaged"} => Nothing
        /\ pc \in Configuring => Whole
        /\ pc \in {"unschedule", "stop", "disable", "dropUnit"} => Whole
        /\ pc \in {"start", "dropLocal"} => Whole
        /\ pc \in Bootstraps => /\ binary = ops /\ sub = None
                               /\ config \in {None, ops}
        /\ pc \in {"files", "unit", "register", "enable"} => state
        /\ pc \in {"register", "enable"} => unit
        /\ pc \in Undoing => sub = None
        /\ pc \in {"undoConfig", "undoUnit"} => binary = None
        /\ pc = "undoUnit" => dir = None
        /\ pc \in {"reload", "roots", "managerRoot"} => ~unit
        /\ pc = "managerRoot" => binary = None /\ dir = None
-------------------------------------------------------------------------------
\* Every stamp is of an operation that has begun.
LEMMA StampsStep == Stamps /\ ControlInv /\ [Next]_vars => Stamps'
<1> SUFFICES ASSUME Stamps, ControlInv, [Next]_vars PROVE Stamps'
  OBVIOUS
<1>0. ops \in Nat /\ MaxOps \in Nat /\ ops <= MaxOps /\ faults \in Nat
  BY BoundsAssumption DEF Stamps
<1> USE DEF Stamps, None, Ok, Faulty, Fails, Goto, Return, GoOn, install,
        service, manager
<1>1. CASE \E o \in Ops : Begin(o)
  BY <1>0, <1>1 DEF Begin
<1>2. CASE Check \/ Stage \/ Deploy \/ DropStaged \/ DropLocal
  BY <1>0, <1>2 DEF Check, Stage, Deploy, DropStaged, DropLocal
<1>3. CASE \/ MakeConfigDir \/ MakeStateDir \/ WriteDefaults \/ WriteUnit
           \/ Register \/ EnableAutoStart \/ StartCore
  BY <1>0, <1>3 DEF MakeConfigDir, MakeStateDir, WriteDefaults, WriteUnit,
     Register, EnableAutoStart, StartCore, Bootstrap, Checked, Rollback
<1>4. CASE UndoStop \/ UndoDisable
  BY <1>0, <1>4 DEF UndoStop, UndoDisable, StopCore, StopCoreFails, Disable,
     DisableFails
<1>5. CASE UndoBinary \/ UndoConfig \/ UndoUnit
  BY <1>0, <1>5 DEF UndoBinary, UndoConfig, UndoUnit
<1>6. CASE Present \/ Unschedule \/ StopRunning \/ Unregister
  BY <1>0, <1>6 DEF Present, Unschedule, StopRunning, Unregister, Disable
<1>7. CASE DropUnit \/ ReloadUnits \/ Move \/ RemoveRoot \/ RemoveManagerRoot
  BY <1>0, <1>7 DEF DropUnit, ReloadUnits, Cleanup, Move, RemoveRoot,
     RemoveManagerRoot
<1>8. CASE ConfigStep
  BY <1>0, <1>8 DEF ConfigStep, Prepare, SetSource, Apply, Resolve
<1>9. CASE Cancel \/ Crash
  BY <1>0, <1>9 DEF Cancel, Crash
<1>10. CASE (\E c \in Unlocked : Ask(c)) \/ ActStart \/ ActSchedule
  BY <1>10 DEF Ask, ActStart, ActSchedule, holder
<1>11. CASE UNCHANGED vars
  BY <1>11 DEF vars, holder
<1> QED
  BY <1>1, <1>2, <1>3, <1>4, <1>5, <1>6, <1>8, <1>9, <1>10, <1>11, <1>7 DEF
     Next, Step, InstallStep, RollbackStep, UninstallStep

\* Every step hands on to one of the same operation.
LEMMA ControlStep == Stamps /\ ControlInv /\ [Next]_vars => ControlInv'
<1> SUFFICES ASSUME Stamps, ControlInv, [Next]_vars PROVE ControlInv'
  OBVIOUS
<1>0. ops \in Nat
  BY DEF Stamps
<1> USE DEF ControlInv, Installs, Uninstalls, Configs, Staging, Bootstraps,
        Undoing, Installing, Removing, Uninstalling, Configuring, None, Goto,
        Return, GoOn, install, service, manager
<1>1. CASE \E o \in Ops : Begin(o)
  BY <1>0, <1>1, OpsAssumption DEF Begin
<1>2. CASE InstallStep
  BY <1>0, <1>2 DEF InstallStep, Check, Stage, Deploy, MakeConfigDir,
     MakeStateDir, WriteDefaults, WriteUnit, Register, EnableAutoStart,
     StartCore, DropStaged, DropLocal, Bootstrap, Checked, Rollback
<1>3. CASE RollbackStep
  BY <1>3 DEF RollbackStep, UndoStop, UndoDisable, UndoBinary, UndoConfig,
     UndoUnit
<1>4. CASE UninstallStep
  BY <1>4 DEF UninstallStep, Present, Unschedule, StopRunning, Unregister,
     DropUnit, ReloadUnits, Cleanup, Move, RemoveRoot, RemoveManagerRoot
<1>5. CASE ConfigStep
  BY <1>0, <1>5 DEF ConfigStep, Prepare, SetSource, Apply, Resolve
<1>6. CASE Cancel \/ Crash
  BY <1>6 DEF Cancel, Crash
<1>7. CASE (\E c \in Unlocked : Ask(c)) \/ ActStart \/ ActSchedule
  BY <1>7 DEF Ask, ActStart, ActSchedule, holder
<1>8. CASE UNCHANGED vars
  BY <1>8 DEF vars, holder
<1> QED
  BY <1>1, <1>2, <1>3, <1>4, <1>5, <1>6, <1>7, <1>8 DEF Next, Step
\* An install that found an installation does not get past its check.
LEMMA RefusalStep == ControlInv /\ RefusalInv /\ [Next]_vars => RefusalInv'
<1> SUFFICES ASSUME ControlInv, RefusalInv, [Next]_vars PROVE RefusalInv'
  OBVIOUS
<1> USE DEF ControlInv, RefusalInv, Occupied, Installs, Uninstalls, Configs,
        Staging, Bootstraps, Undoing, Installing, Removing, Uninstalling,
        Configuring, None, Ok, Faulty, Fails, Goto, Return, GoOn, install,
        service, manager
<1>1. CASE \E o \in Ops : Begin(o)
  BY <1>1, OpsAssumption DEF Begin
<1>2. CASE Check \/ Stage \/ Deploy \/ DropStaged \/ DropLocal
  BY <1>2 DEF Check, Stage, Deploy, DropStaged, DropLocal
<1>3. CASE \/ MakeConfigDir \/ MakeStateDir \/ WriteDefaults \/ WriteUnit
           \/ Register \/ EnableAutoStart \/ StartCore
  BY <1>3 DEF MakeConfigDir, MakeStateDir, WriteDefaults, WriteUnit, Register,
     EnableAutoStart, StartCore, Bootstrap, Checked, Rollback
<1>4. CASE RollbackStep
  BY <1>4 DEF RollbackStep, UndoStop, UndoDisable, UndoBinary, UndoConfig,
     UndoUnit, StopCore, StopCoreFails, Disable, DisableFails
<1>5. CASE UninstallStep
  BY <1>5 DEF UninstallStep, Present, Unschedule, StopRunning, Unregister,
     Disable, DropUnit, ReloadUnits, Cleanup, Move, RemoveRoot,
     RemoveManagerRoot
<1>6. CASE ConfigStep
  BY <1>6 DEF ConfigStep, Prepare, SetSource, Apply, Resolve
<1>7. CASE Cancel \/ Crash
  BY <1>7 DEF Cancel, Crash
<1>8. CASE (\E c \in Unlocked : Ask(c)) \/ ActStart \/ ActSchedule
  BY <1>8 DEF Ask, ActStart, ActSchedule, holder
<1>9. CASE UNCHANGED vars
  BY <1>9 DEF vars, holder
<1> QED
  BY <1>1, <1>2, <1>3, <1>4, <1>5, <1>6, <1>7, <1>8, <1>9 DEF Next, Step,
     InstallStep

\* An install makes and undoes what it should.
LEMMA UndoneStep ==
    Stamps /\ ControlInv /\ RefusalInv /\ UndoneInv /\ [Next]_vars => UndoneInv'
<1> SUFFICES ASSUME Stamps, ControlInv, RefusalInv, UndoneInv, [Next]_vars
             PROVE  UndoneInv'
  OBVIOUS
<1>0. faults \in Nat
  BY DEF Stamps
<1> USE DEF ControlInv, UndoneInv, Left, Gone, Installs, Uninstalls, Configs,
        Staging, Bootstraps, Undoing, Installing, Removing, Uninstalling,
        Configuring, None, Ok, Faulty, Fails, Goto, Return, GoOn, install,
        service, manager
<1>1. CASE \E o \in Ops : Begin(o)
  BY <1>0, <1>1, OpsAssumption DEF Begin
<1>2. CASE Check \/ Stage \/ Deploy \/ DropStaged \/ DropLocal
  BY <1>0, <1>2 DEF Check, Stage, Deploy, DropStaged, DropLocal
<1>3. CASE \/ MakeConfigDir \/ MakeStateDir \/ WriteDefaults \/ WriteUnit
           \/ Register \/ EnableAutoStart \/ StartCore
  BY <1>0, <1>3 DEF MakeConfigDir, MakeStateDir, WriteDefaults, WriteUnit,
     Register, EnableAutoStart, StartCore, Bootstrap, Checked, Rollback
<1>4. CASE RollbackStep
  BY <1>0, <1>4 DEF RollbackStep, UndoStop, UndoDisable, UndoBinary,
     UndoConfig, UndoUnit, StopCore, StopCoreFails, Disable, DisableFails
<1>5. CASE UninstallStep
  BY <1>0, <1>5 DEF UninstallStep, Present, Unschedule, StopRunning,
     Unregister, Disable, DropUnit, ReloadUnits, Cleanup, Move, RemoveRoot,
     RemoveManagerRoot
<1>6. CASE ConfigStep
  BY <1>0, <1>6 DEF ConfigStep, Prepare, SetSource, Apply, Resolve
<1>7. CASE Cancel \/ Crash
  BY <1>0, <1>7 DEF Cancel, Crash
<1>8. CASE (\E c \in Unlocked : Ask(c)) \/ ActStart \/ ActSchedule
  BY <1>0, <1>8 DEF Ask, ActStart, ActSchedule, holder
<1>9. CASE UNCHANGED vars
  BY <1>0, <1>9 DEF vars, holder
<1> QED
  BY <1>1, <1>2, <1>3, <1>4, <1>5, <1>6, <1>7, <1>8, <1>9 DEF Next, Step,
     InstallStep

\* An uninstall removes what it should.
LEMMA RemovedStep == ControlInv /\ RemovedInv /\ [Next]_vars => RemovedInv'
<1> SUFFICES ASSUME ControlInv, RemovedInv, [Next]_vars PROVE RemovedInv'
  OBVIOUS
<1> USE DEF ControlInv, RemovedInv, Installs, Uninstalls, Configs, Staging,
        Bootstraps, Undoing, Installing, Removing, Uninstalling, Configuring,
        None, Ok, Faulty, Fails, Goto, Return, GoOn, install, service, manager
<1>1. CASE \E o \in Ops : Begin(o)
  BY <1>1, OpsAssumption DEF Begin
<1>2. CASE Check \/ Stage \/ Deploy \/ DropStaged \/ DropLocal
  BY <1>2 DEF Check, Stage, Deploy, DropStaged, DropLocal
<1>3. CASE \/ MakeConfigDir \/ MakeStateDir \/ WriteDefaults \/ WriteUnit
           \/ Register \/ EnableAutoStart \/ StartCore
  BY <1>3 DEF MakeConfigDir, MakeStateDir, WriteDefaults, WriteUnit, Register,
     EnableAutoStart, StartCore, Bootstrap, Checked, Rollback
<1>4. CASE RollbackStep
  BY <1>4 DEF RollbackStep, UndoStop, UndoDisable, UndoBinary, UndoConfig,
     UndoUnit, StopCore, StopCoreFails, Disable, DisableFails
<1>5. CASE UninstallStep
  BY <1>5 DEF UninstallStep, Present, Unschedule, StopRunning, Unregister,
     Disable, DropUnit, ReloadUnits, Cleanup, Move, RemoveRoot,
     RemoveManagerRoot
<1>6. CASE ConfigStep
  BY <1>6 DEF ConfigStep, Prepare, SetSource, Apply, Resolve
<1>7. CASE Cancel \/ Crash
  BY <1>7 DEF Cancel, Crash
<1>8. CASE (\E c \in Unlocked : Ask(c)) \/ ActStart \/ ActSchedule
  BY <1>8 DEF Ask, ActStart, ActSchedule, holder
<1>9. CASE UNCHANGED vars
  BY <1>9 DEF vars, holder
<1> QED
  BY <1>1, <1>2, <1>3, <1>4, <1>5, <1>6, <1>7, <1>8, <1>9 DEF Next, Step,
     InstallStep

\* What is left when the operation ends follows from its last step.
LEMMA LeavesStep ==
    Stamps /\ ControlInv /\ LeftInv /\ [Next]_vars => LeavesNothing'
<1> SUFFICES ASSUME Stamps, ControlInv, LeftInv, [Next]_vars
             PROVE  LeavesNothing'
  OBVIOUS
<1>0. faults \in Nat
  BY DEF Stamps
<1> USE DEF ControlInv, LeftInv, UndoneInv, RemovedInv, Left, LeavesNothing,
        FailedInstallLeavesNothing, UninstallLeavesNothing, Ended, Gone,
        Installs, Uninstalls, Configs, Staging, Bootstraps, Undoing,
        Installing, Removing, Uninstalling, Configuring, None, Ok, Faulty,
        Fails, Goto, Return, GoOn, install, service, manager
<1>1. CASE \E o \in Ops : Begin(o)
  BY <1>0, <1>1, OpsAssumption DEF Begin
<1>2. CASE Check \/ Stage \/ Deploy \/ DropStaged \/ DropLocal
  BY <1>0, <1>2 DEF Check, Stage, Deploy, DropStaged, DropLocal
<1>3. CASE \/ MakeConfigDir \/ MakeStateDir \/ WriteDefaults \/ WriteUnit
           \/ Register \/ EnableAutoStart \/ StartCore
  BY <1>0, <1>3 DEF MakeConfigDir, MakeStateDir, WriteDefaults, WriteUnit,
     Register, EnableAutoStart, StartCore, Bootstrap, Checked, Rollback
<1>4. CASE RollbackStep
  BY <1>0, <1>4 DEF RollbackStep, UndoStop, UndoDisable, UndoBinary,
     UndoConfig, UndoUnit, StopCore, StopCoreFails, Disable, DisableFails
<1>5. CASE UninstallStep
  BY <1>0, <1>5 DEF UninstallStep, Present, Unschedule, StopRunning,
     Unregister, Disable, DropUnit, ReloadUnits, Cleanup, Move, RemoveRoot,
     RemoveManagerRoot
<1>6. CASE ConfigStep
  BY <1>0, <1>6 DEF ConfigStep, Prepare, SetSource, Apply, Resolve
<1>7. CASE Cancel \/ Crash
  BY <1>0, <1>7 DEF Cancel, Crash
<1>8. CASE (\E c \in Unlocked : Ask(c)) \/ ActStart \/ ActSchedule
  BY <1>0, <1>8 DEF Ask, ActStart, ActSchedule, holder
<1>9. CASE UNCHANGED vars
  BY <1>0, <1>9 DEF vars, holder
<1> QED
  BY <1>1, <1>2, <1>3, <1>4, <1>5, <1>6, <1>7, <1>8, <1>9 DEF Next, Step,
     InstallStep
-------------------------------------------------------------------------------
\* While every command takes the lock only its holder starts or stops anything.
LEMMA StoppedStep ==
    ControlInv /\ RefusalInv /\ StoppedInv /\ [MCNext]_<<vars, locked, plain>>
        => StoppedInv'
<1> SUFFICES ASSUME ControlInv, RefusalInv, StoppedInv, locked',
                    [MCNext]_<<vars, locked, plain>>
             PROVE  StoppedInv'
  BY DEF StoppedInv
<1>n. [Next]_vars
  BY DEF MCNext
<1>0. locked /\ asked = {} /\ asked' = {}
  BY DEF MCNext, StoppedInv, vars
<1> USE DEF ControlInv, StoppedInv, ServiceIsStopped, Ended, Occupied,
        Installs, Uninstalls, Configs, Staging, Bootstraps, Undoing,
        Installing, Removing, Uninstalling, Configuring, None, Ok, Faulty,
        Fails, Goto, Return, GoOn, install, service, manager
<1>1. CASE \E o \in Ops : Begin(o)
  BY <1>0, <1>1, OpsAssumption DEF Begin
<1>2. CASE Check \/ Stage \/ Deploy \/ DropStaged \/ DropLocal
  BY <1>0, <1>2 DEF Check, Stage, Deploy, DropStaged, DropLocal
<1>3. CASE \/ MakeConfigDir \/ MakeStateDir \/ WriteDefaults \/ WriteUnit
           \/ Register \/ EnableAutoStart \/ StartCore
  BY <1>0, <1>3 DEF MakeConfigDir, MakeStateDir, WriteDefaults, WriteUnit,
     Register, EnableAutoStart, StartCore, Bootstrap, Checked, Rollback
<1>4. CASE RollbackStep
  BY <1>0, <1>4 DEF RollbackStep, UndoStop, UndoDisable, UndoBinary,
     UndoConfig, UndoUnit, StopCore, StopCoreFails, Disable, DisableFails
<1>5. CASE UninstallStep
  BY <1>0, <1>5 DEF UninstallStep, Present, Unschedule, StopRunning,
     Unregister, Disable, DropUnit, ReloadUnits, Cleanup, Move, RemoveRoot,
     RemoveManagerRoot
<1>6. CASE ConfigStep
  BY <1>0, <1>6 DEF ConfigStep, Prepare, SetSource, Apply, Resolve
<1>7. CASE Cancel \/ Crash
  BY <1>0, <1>7 DEF Cancel, Crash
<1>8. CASE (\E c \in Unlocked : Ask(c)) \/ ActStart \/ ActSchedule
  BY <1>0, <1>8 DEF Ask, ActStart, ActSchedule, holder
<1>9. CASE UNCHANGED vars
  BY <1>0, <1>9 DEF vars, holder
<1> QED
  BY <1>n, <1>1, <1>2, <1>3, <1>4, <1>5, <1>6, <1>7, <1>8, <1>9 DEF Next, Step,
     InstallStep

\* A plain step goes from whole or nothing to whole or nothing.
LEMMA PlainStep ==
    Stamps /\ ControlInv /\ RefusalInv /\ PlainInv
        /\ [MCNext]_<<vars, locked, plain>> => PlainInv'
<1> SUFFICES ASSUME Stamps, ControlInv, RefusalInv, PlainInv, plain',
                    [MCNext]_<<vars, locked, plain>>
             PROVE  PlainInv'
  BY DEF PlainInv
<1>n. [Next]_vars
  BY DEF MCNext
<1>0. /\ plain /\ asked = {} /\ asked' = {} /\ faults = 0 /\ faults' = 0
      /\ op' # "keep" /\ ~(cancelled' /\ op' \in Uninstalls)
      /\ ~(pc = "idle" /\ pc' = "prepare" /\ binary = None)
  <2>1. CASE MCNext
    <3>1. /\ plain /\ asked' = {} /\ faults' = 0 /\ op' # "keep"
          /\ ~(cancelled' /\ op' \in Uninstalls)
          /\ ~(pc = "idle" /\ pc' = "prepare" /\ binary = None)
      BY <2>1, Zenon DEF MCNext
    <3> QED
      BY <3>1 DEF PlainInv
  <2>2. CASE UNCHANGED <<vars, locked, plain>>
    BY <2>2 DEF PlainInv, vars, holder
  <2> QED
    BY <2>1, <2>2
<1>s. /\ ops \in 0..MaxOps /\ binary \in 0..ops /\ MaxOps \in Nat
  BY BoundsAssumption DEF Stamps
<1>f. ~Faulty
  BY <1>0, 0 # 0 + 1 DEF Faulty
<1> USE DEF ControlInv, PlainInv, Whole, Nothing, Since, Occupied, Installs,
        Uninstalls, Configs, Staging, Bootstraps, Undoing, Installing,
        Removing, Uninstalling, Configuring, None, Ok, Fails, Goto, Return,
        GoOn, install, service, manager
<1>1. CASE \E o \in Ops : Begin(o)
  BY <1>0, <1>f, <1>s, <1>1, OpsAssumption DEF Begin
<1>2. CASE Check \/ Stage \/ Deploy \/ DropStaged \/ DropLocal
  BY <1>0, <1>f, <1>s, <1>2 DEF Check, Stage, Deploy, DropStaged, DropLocal
<1>3. CASE \/ MakeConfigDir \/ MakeStateDir \/ WriteDefaults \/ WriteUnit
           \/ Register \/ EnableAutoStart \/ StartCore
  BY <1>0, <1>f, <1>s, <1>3 DEF MakeConfigDir, MakeStateDir, WriteDefaults,
     WriteUnit, Register, EnableAutoStart, StartCore, Bootstrap, Checked,
     Rollback
<1>4. CASE RollbackStep
  BY <1>0, <1>f, <1>4 DEF RollbackStep, UndoStop, UndoDisable, UndoBinary,
     UndoConfig, UndoUnit, StopCore, StopCoreFails, Disable, DisableFails
<1>5. CASE UninstallStep
  BY <1>0, <1>f, <1>5 DEF UninstallStep, Present, Unschedule, StopRunning,
     Unregister, Disable, DropUnit, ReloadUnits, Cleanup, Move, RemoveRoot,
     RemoveManagerRoot
<1>6. CASE ConfigStep
  BY <1>0, <1>f, <1>s, <1>6 DEF ConfigStep, Prepare, SetSource, Apply, Resolve
<1>7. CASE Cancel \/ Crash
  BY <1>0, <1>f, <1>s, <1>7 DEF Cancel, Crash
<1>8. CASE (\E c \in Unlocked : Ask(c)) \/ ActStart \/ ActSchedule
  BY <1>0, <1>f, <1>s, <1>8 DEF Ask, ActStart, ActSchedule, holder
<1>9. CASE UNCHANGED vars
  BY <1>0, <1>f, <1>s, <1>9 DEF vars, holder
<1> QED
  BY <1>n, <1>1, <1>2, <1>3, <1>4, <1>5, <1>6, <1>7, <1>8, <1>9 DEF Next, Step,
     InstallStep
-------------------------------------------------------------------------------
\* In the beginning there is nothing.
LEMMA LifecycleInit == Init => LifecycleInv
  BY BoundsAssumption DEF Init, LifecycleInv, Stamps, ControlInv, RefusalInv,
     LeftInv, UndoneInv, RemovedInv, LeavesNothing, FailedInstallLeavesNothing,
     UninstallLeavesNothing, Ended, Installs, Installing, Uninstalling,
     Configuring, Staging, Bootstraps, Undoing, Removing, None, Gone, Left

\* Every step keeps the invariant.
LEMMA LifecycleStep == LifecycleInv /\ [Next]_vars => LifecycleInv'
  BY StampsStep, ControlStep, RefusalStep, UndoneStep, RemovedStep, LeavesStep
     DEF LifecycleInv, LeftInv

\* An operation finds and leaves what its steps say.
THEOREM LifecycleCorrect == Spec => []LifecycleInv
  BY LifecycleInit, LifecycleStep, PTL DEF Spec

(***************************************************************************)
(* An install that fails, at whatever step, or is cancelled at any, leaves *)
(* nothing behind unless its rollback reports an error of its own; if only *)
(* the caller cancelled, it leaves nothing even then.  An uninstall that   *)
(* succeeds leaves nothing, either (lifecycle_impl.go:218-251, 484-529).   *)
(***************************************************************************)
THEOREM NothingIsLeft == Spec => []LeavesNothing
<1>1. LifecycleInv => LeavesNothing
  BY DEF LifecycleInv, LeftInv
<1> QED
  BY <1>1, LifecycleCorrect, PTL

(***************************************************************************)
(* An install that finds a binary, a config directory or a unit changes    *)
(* none of them, nor the service (lifecycle_impl.go:57-72, 391).           *)
(***************************************************************************)
THEOREM ExistingIsRefused == Spec => RefusesExisting
<1>1. ASSUME ControlInv, RefusalInv, [Next]_vars,
             op \in Installs, found = "installation"
      PROVE  UNCHANGED <<install, enabled>>
  <2>1. pc \in {"idle", "check"} /\ (pc = "check" => Occupied)
    BY <1>1 DEF RefusalInv
  <2>2. ~RollbackStep /\ ~UninstallStep /\ ~ConfigStep
    BY <2>1 DEF RollbackStep, UndoStop, UndoDisable, UndoBinary, UndoConfig,
       UndoUnit, UninstallStep, Present, Unschedule, StopRunning, Unregister,
       DropUnit, ReloadUnits, Move, RemoveRoot, RemoveManagerRoot, ConfigStep,
       Prepare, SetSource, Apply, Resolve
  <2>3. CASE InstallStep
    BY <2>1, <2>3 DEF InstallStep, Check, Stage, Deploy, MakeConfigDir,
       MakeStateDir, WriteDefaults, WriteUnit, Register, EnableAutoStart,
       StartCore, DropStaged, DropLocal, Bootstrap, Checked, install, service
  <2>4. CASE ~InstallStep
    BY <1>1, <2>1, <2>2, <2>4 DEF Next, Step, Begin, Cancel, Crash, Ask,
       ActStart, ActSchedule, vars, install, service
  <2> QED
    BY <2>3, <2>4
<1> QED
  BY <1>1, LifecycleCorrect, PTL DEF Spec, LifecycleInv, RefusesExisting
-------------------------------------------------------------------------------
\* The same invariant, of the behaviours that remember what has happened.
LEMMA MCLifecycle == MCSpec => []LifecycleInv
<1>1. MCInit => LifecycleInv
  BY LifecycleInit DEF MCInit
<1>2. LifecycleInv /\ [MCNext]_<<vars, locked, plain>> => LifecycleInv'
  BY LifecycleStep DEF MCNext
<1> QED
  BY <1>1, <1>2, PTL DEF MCSpec

(***************************************************************************)
(* While every command takes the lock, an uninstall that succeeds and an   *)
(* install that fails leave the core and the timer stopped                 *)
(* (lifecycle_impl.go:231, 484-498).                                       *)
(***************************************************************************)
THEOREM ServiceStaysStopped == MCSpec => []StopsWhatItLeaves
<1>1. MCInit => StoppedInv
  BY DEF MCInit, Init, StoppedInv, ServiceIsStopped, Ended, Installs, Staging,
     Bootstraps, Undoing, Removing, Uninstalling
<1>2. LifecycleInv /\ StoppedInv /\ [MCNext]_<<vars, locked, plain>>
          => StoppedInv'
  BY StoppedStep DEF LifecycleInv
<1>3. StoppedInv => StopsWhatItLeaves
  BY DEF StoppedInv, StopsWhatItLeaves
<1> QED
  BY <1>1, <1>2, <1>3, MCLifecycle, PTL DEF MCSpec

(***************************************************************************)
(* While nothing fails and no backup is kept, an installation starts clean *)
(* and the next operation finds one that it can use and remove, or none    *)
(* that stands in its way (lifecycle_impl.go:57-72, 465-483, 520).         *)
(***************************************************************************)
THEOREM PlainGoesOn == MCSpec => []GoesOnWhenPlain
<1>1. MCInit => PlainInv
  BY DEF MCInit, Init, PlainInv, Nothing, Configuring, Bootstraps, Undoing,
     None
<1>2. LifecycleInv /\ PlainInv /\ [MCNext]_<<vars, locked, plain>>
          => PlainInv'
  BY PlainStep DEF LifecycleInv
<1>3. PlainInv => GoesOnWhenPlain
  BY DEF PlainInv, GoesOnWhenPlain, StartsClean, NeverStuck, Whole, Nothing,
     Since, Occupied, None
<1> QED
  BY <1>1, <1>2, <1>3, MCLifecycle, PTL DEF MCSpec
===============================================================================
