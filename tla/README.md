# mihomo-manage in TLA+

mihomo-manage installs, upgrades, configures and supervises one mihomo core on
a Linux or Windows machine. It is a command line and a terminal interface over
a handful of managers (`internal/manager`), and each invocation is a process of
its own: a user's command, the terminal interface and the scheduled
`subscription sync` may all run at once. What they share is a directory of
files and one service of the operating system. Nothing is kept in memory
between two commands, so everything hard about the program is in the order of
its file operations: what a crash between two of them leaves behind, and what
the next command makes of it.

This directory holds a model of that, the configurations with which TLC checks
it, and theorems about it that TLAPS checks.

## Inventory

| Component | State | Operations | Talks to |
|---|---|---|---|
| Config pipeline (`config.go`) | config, subscription data, source URL and marker, transaction journal, backups, staging files, apply status | set source, preview, sync, fetch, apply, validate, last apply, adopt | instance lock, downloads, validator (the core binary), reload (service manager) |
| Core upgrade and recovery (`lifecycle_impl.go:565-785`, `lifecycle_transaction.go`) | binary, its backup, staged binary, upgrade journal, the running core | upgrade; recovery at the start of every lifecycle writer | instance lock, release source, service manager |
| Install and uninstall (`lifecycle_impl.go:228-563`) | binary, config directory, service unit, manager root | install, install from a local file, uninstall | instance lock, service manager, schedule |
| Service control (`service_impl.go`) | none of its own | start, stop, restart, reload, autostart, status | service manager, validation; **no lock** |
| Instance lock (`lock.go`) | a lock file | acquire (poll for two seconds), release | the kernel |
| Schedule (`native_scheduler.go`, `internal/scheduler`) | timer units or a task, an old version's `schedule.txt` | set, stop, status | systemd or the Windows task scheduler; **no lock** |
| Override merge (`merge.go`) | none | merge two YAML trees | called by the pipeline |
| Adoption (`adopt.go`) | override file | adopt a hand-edited config | merge, pipeline files |
| OS service managers (`servicemanager.go`, `service_windows.go`) | the service | start, stop, restart, register, ... | systemd or the Windows service manager |
| Terminal interface (`tui.go`) | page, action waited for, last answers, lists and their selection | keys, and the answers of its goroutines | every manager |
| Command line (`main.go`, `internal/cli`) | none | one manager call per command | every manager |

The behaviours that are hard to get right, and to test:

* **Crashes between file operations.** An apply renames the config and the
  subscription data in two steps and an upgrade moves two binaries; both keep a
  journal, and both are recovered by the next command that takes the lock. The
  recovery may itself fail, or be killed, half way.
* **Failing steps.** Every removal, rename, write and service command may fail;
  the error paths do most of the work and call each other.
* **Readers and commands without the lock.** `LastConfigApply` reads two files
  one after the other; `start`, `stop` and `restart` act on a service that an
  upgrade is stopping and starting.
* **Torn files.** `OSSystem.WriteFile` truncates before it writes. Status and
  journal are written beside and renamed; restores and the source files are not.
* **Two installations, one directory.** What an uninstall, an apply or a `set` leaves
  behind is found by the next install.
* **Data written now and merged later.** An adopted value is merged with every
  subscription that comes after it.
* **Late answers.** Goroutines of the terminal interface answer after the page has
  changed, and an error among the answers hides that page.
* **Liveness.** A journal has to be resolved some time, the lock given back, a waiter
  answered, an action of the interface end.

`PROJECT.json` lists these hazards one by one, at the lines where they bite, with
the properties that cover them.

What makes each component correct: the pipeline's applies are atomic and its
report true; a source that was chosen is usable; an upgrade is atomic, its old
binary never lost, and the service is left as it was; an install that fails can be
repeated and an uninstall leaves nothing; the lock excludes and nobody waits for
ever; the timer exists exactly when the schedule says so; merging obeys its
reference definition, and adopting and merging give the adopted config; the
interface waits for what is really under way and has seen every change it made.

## Modules

| Module | What it is |
|---|---|
| `AtomicConfig` | What the pipeline promises: config, subscription and report change in one step. |
| `ConfigPipeline` | The pipeline, one action per step that a crash can separate from the next, with the properties. |
| `UpgradeTransaction` | The upgrade, the recovery of an interrupted one, and the service commands that do not take the lock. |
| `InstanceLifecycle` | Install, its rollback and uninstall, between the config pipeline and the unlocked commands. |
| `OperationLock` | The lock all of these take. |
| `LinuxSchedule`, `WindowsSchedule` | Setting and stopping the update timer, over systemd units and over the task scheduler. |
| `OverrideMerge` | The merge of `override.yaml` into the subscription, as operators. |
| `RenderReference` | What the repository's README promises of a render, stated without following the merge. |
| `ConfigAdoption` | Adopting a hand-edited config, between edits, fetches and applies; uses `OverrideMerge`. |
| `TuiSession` | The message loop of the terminal interface. |
| `MC...` | The instances for TLC; `MCSchedule` joins the two schedules, `MCRendering` renders and adoptions. |
| `ConfigPipelineProofs` | Theorems about the pipeline: its transaction, that it implements `AtomicConfig`, its leftovers and sources. |
| `OverrideMergeProofs` | What the merge makes of its inputs, and lemmas about its lists and levels. |
| `RenderAdoptionProofs` | Theorems about `RenderReference` and `ConfigAdoption`. |
| `UpgradeTransactionProofs`, `InstanceLifecycleProofs`, `ScheduleProofs`, `OperationLockProofs`, `TuiSessionProofs` | Theorems about the module, or the instance `MC...`, of that name. |

The modules meet where the code does. Every operation of `ConfigPipeline`,
`UpgradeTransaction`, `InstanceLifecycle` and `ConfigAdoption` holds the lock of
`OperationLock`, and takes from it only what is proved there: one holder, no lock
held for the dead. `InstanceLifecycle` keeps of the pipeline what an installation
can see of it (the directories, the subscription, a journal that a killed apply
leaves) and of an interrupted upgrade nothing but that it has been recovered first.
The schedule takes no lock; its commands next to an uninstall are in
`InstanceLifecycle`, next to each other in the schedule modules.

### ConfigPipeline

The files are variables: `cfg` (config.yaml), `sub`, `url` and `marker` (the
subscription data, its URL and the name of the source in use), `staged`, `cand`,
`cfgBak`, `subBak` (what an apply writes beside them), `journal` and `status`. A
content is a model value: `Absent`, `Torn` (a write in place was cut short), or a
subscription; the override file is fixed, so a config is named by the
subscription it is rendered from (`Render`), and `Base` is the config without
one. `pc`, `op`, `mode`, `tx`, `bad`, `outcome` and `snap` are the local
variables of the process that holds the lock; `pc = "idle"` means that the lock is
free. `live` is the config the core has loaded, `rpc`, `rstatus` and `rfloor`
belong to a reader of the last apply.

| Code | Actions |
|---|---|
| `acquireConfigUpdate`, `prepareLocked` | `Begin`, `Prepared` |
| `recoverConfigTransactionLocked` | `RecoverNothing`, `RecoverCommitted`, `RecoverUncommitted`, `RecoverFails`, then `RestoreConfig`, `RestoreSubscription`, `RestoreFailed` |
| `cleanupConfigTransaction` | `CleanStaging`, `CleanBackup`, `CleanMarker` |
| `subscriptionSource`, `refreshSubscription`, `FetchSubscription` | `ResolveSource`, `Download`, `StoreFetched` |
| `applyLocked` | `Stage`, `Validate`, `RecordPending`, `Reload`, `RecordOutcome`, `RemoveJournal`, `RecordFailure` |
| `commitConfig` | `Backup`, `JournalPrepared`, `CommitConfig`, `JournalConfigCommitted`, `CommitSubscription`, `JournalCommitted`, `Rollback`, `Abort` |
| `SetSubscriptionSource` | `SetFirst`, `SetSecond`, `SetMarker`, `UndoData`, `UndoUrl`, `UndoMarker` |
| `lastConfigApply` | `ReadStatus`, `ReadJournal` |
| a killed process | `Crash` |
| a restart of the core | `CoreRestarts` |

A step that touches a file has a disjunct in which that fails; `Faulty` counts it.
A rejected config, an unreachable server, an empty answer and a canceled caller
are no faults and are not counted. The backup a restore reads is chosen by the
journal, so `tx` is either the transaction of this process or the one it read.

`AtomicConfig` is implemented under the refinement mapping `LogicalConfig`,
`LogicalSubscription`, `Reported`: while the journal says that a transaction is
not committed, the instance's config is what a rollback would restore, and the
report is what `lastConfigApply` would answer. Under it a commit is the single
step that writes the journal state `committed`; renames, restores and cleanups
are stuttering steps.

### UpgradeTransaction

A binary is a version: the code compares hashes. `binary`, `backup`, `temp` (the
set of versions with a staging file), `journal` are the files; `running` is the
version the running core was started from. `was` is `wasRunning` of the upgrade,
or of the journal in a recovery. `failing` says that the upgrade has failed and
its deferred function recovers before it returns (`lifecycle_impl.go:618-622`).
`Recover`, `Match`, `ConfirmMatch`, `CleanTemp`, `CleanJournal` are
`recoverUpgradeTransaction` and `cleanupUpgradeTransaction`; the `Restore` actions
are `restoreBinary`, which the upgrade and the recovery share; the actions from
`Check` to `Complete` are `Upgrade` in the order of its code. `Begin("install")`
stands for any other lifecycle writer: it recovers, and then finds the core
installed.

`ServiceCheck` and `ServiceAct` are the checks and then the command of `Start`,
`Stop` and `Restart`; anything may happen between the two. `CoreStops` is a core that
exits by itself. `wanted` is bookkeeping for the properties and no action reads it.

### InstanceLifecycle

Operations are numbered, and what exists on disk is the number of the operation that
made it, so that what an earlier installation left can be told from what this one
made. `binary`, `dir`, `config`, `unit`, `staged` are the installation root, `state`,
`sub`, `journal` the manager root, `enabled`, `running`, `timer` what systemd knows.
The actions from `Check` to `DropStaged` are `Install` and `installBinary` in the order
of the code (`DropLocal` for `InstallFromLocal`), the `Undo` actions `rollbackInstall`,
those from `Present` to `RemoveManagerRoot` `Uninstall`; `Prepare`, `SetSource`, `Apply`
and `Resolve` are the pipeline. The caller may cancel at any step (`Cancel`), and the
steps that look at its context then fail; the rollback runs with a context of its own.
Disabling a unit that has no file is an error, as it is for systemctl. Linux only.

### OperationLock

The kernel locks an inode, so inodes are modelled: `path` is the inode the lock file's
name leads to, `fd[p]` the one process `p` has open, `locks[i]` who holds the lock of
inode `i`. `TryLock` and `Poll` are the first try and the ticker, `GiveUp` the deadline,
`Abandon` a cancelled context or another error, `Die` the death of the process. At the
deadline both channels of the `select` are ready and either may be taken. Removing the
roots leaves the path alone because the lock lies outside them.

### LinuxSchedule and WindowsSchedule

Each writes files in place (`Torn` in between), then tells the system. On Linux systemd has a
view of its own: what it has loaded (`loaded`, `trigger`), what runs (`active`) and what a
boot would start (`enabled`, and the files). On Windows the task scheduler keeps the
definition and may write its interval in another way than it was given: `Written` is the
set of durations in days, hours, minutes and seconds that mean the same, and
`ParseTaskInterval` reads them as the code does, part after part (`ReadTo`), with the bound
before each product. `note` is `schedule.txt`, in which an old version kept its interval; a status
that finds nothing running answers with an error as long as it does (`Inactive`). On Linux the
timer file counts in seconds, and what an interval has beyond whole ones is dropped by the code
and left out of the model: "takes effect" is about intervals of whole seconds.
Callers run their steps in any order, may fail or be killed at each of them.

### OverrideMerge, RenderReference and ConfigAdoption

A YAML node is a record with a kind, a tag (plain, `!replace`, `!delete`) and its contents.
A mapping is a function from all keys, with `Missing` at those it does not have, because key
order is outside the merge's contract; `flaw` says that one of its keys is repeated or carries
a directive. The operators follow the functions of `merge.go` one by one. Where the code
recurses into a value, an operator does one node, given what became of the nodes below
(`Strip`, `Merge`, `Adopt`), and a function goes down the levels: `stripped[d]`, `merge[d]` and
`adopt[d]` are about documents at most `d` nodes deep, up to `Depth`, which stands for the limit
the YAML parser has. Written like this it can be proved about.

`RenderReference` takes one pair of inputs (`data`, `overlay`) and renders it (`rendered`); its
invariants state the README's promises by looking at places of the result.
`ConfigAdoption` makes every command one step: each holds the lock throughout, and the
override is replaced by a rename. `kept` remembers what has been adopted, for the
properties.

### TuiSession

`Update` takes one message at a time, so a key and an answer are one step each; what it starts is
an element of the bag `jobs` (it works, then its answer waits to be taken) or, for an action, of
`actions` with its channel (`buffered`), the reports it has still to make (`left`) and the
goroutine that reads them (`reader`). `mode` is the page, `executing` the action waited
for, `shown` the last status (the service, and whether its version is named, or that there was an
error), `selected` the index both list pages share. `Page` is what is on screen, which is not
always the page of the mode: before the first status, and after one that was an error, it is a
page of its own, though keys go by the mode. `service`, `changes` and `source` are the
instance outside, `newest` and `rendered` what the answers so far have known of it. The
window of a list (`listWindow`) is computed from the number of screen lines of its items, which
`Lines` counts as a set of pairs (item, line of the item).
The editor takes the terminal and is one step.

| Code | Actions |
|---|---|
| key handlers (`tui.go:369-577, 643-777`) | `MenuAction`, `Refresh`, the `Open` actions, `Leave`, `ConfirmUninstall`, `ChooseVersion`, `ApplyConfig`, `Select`, `ChooseSchedule`, `RefreshPreview`, `EditSource` |
| commands (`tui.go:217-345, 704-714, 810-819`) | `FetchStatus`, `FetchVersions`, `FetchPreview`, `ChangeSchedule`, `Edit`, `Report`, `Finish`, `Read` |
| answers (`tui.go:434-500`) | `ShowStatus`, `ShowVersions`, `ShowPreview`, `ScheduleDone`, `EditDone`, `ShowProgress`, `Linger`, `ActionDone` |

## Runs

Passing runs:

| Run | Question | Bounds |
|---|---|---|
| `pipeline_atomicity` | Are applies atomic and reported truthfully, by the report and to a reader without the lock? | 2 contents, 2 applies, 2 faults |
| `pipeline_sources` | With every operation, and the core restarted meanwhile: does choosing a source leave one usable source or the old files, does every operation end, and is every interrupted apply resolved unless its backup is lost? | 2 contents, 1 apply, 2 faults |
| `upgrade_atomicity` | Is an upgrade atomic, never without its old binary, truthful and resolved some time; and the core, left alone, as it was and running what is installed? | 3 versions, 2 upgrades, 2 faults, all service commands, a core that exits |
| `instance_lifecycle` | What do failed installs and uninstalls leave, does an install respect what it finds, can the instance always go on? | 4 operations, 2 faults, cancellation, unlocked commands |
| `lock_exclusion` | One holder, no lock held for the dead, an answer for everyone? | 3 processes, 3 polls, 2 inodes |
| `schedules` | Does a schedule command that succeeds take effect, is the status honest, can it read what is registered? | 2 callers, 4 commands, 2 faults; 4 intervals on Windows |
| `rendering` | Does the merge give what README.md:85-97 promises? Does adopting settle, touch nothing else, and last? | 64 649 states of chosen inputs; 3 subscriptions, 3 overrides, edits of 4 fields |
| `tui_session` | However late answers come: is the right action waited for, is the selection on screen with its list, is every change seen, does every action end? | 2 commands, 1 report over a channel of 2, heights 0 and 3 |

Some promises hold only while nothing out of the ordinary has happened. For those an MC
module keeps a history variable: `alone` (no service command, no core that exits),
`locked` (no command without the lock) and `plain` (neither that nor a fault, a kept backup, a
cancelled uninstall or a config before an install). So one run checks both what always
holds and what holds then.

What the stronger properties say:

* `ImplementsAtomicConfig`: the refinement described above.
* `OnlyALostBackupWedges`: a journal that is never resolved is one whose subscription backup is
  gone; it is the exact complement of the violation below.
* `UpgradeInv`, `TransactionInv`: the inductive invariants, which the proofs use.
* `RunsAsBeforeAlone`: left alone, an instance with nothing to recover has its core as before
  the upgrade, and what runs is the installed binary.
* `GoesOnWhenPlain`: an installation never takes up the source or the journal of an earlier one, and
  there is never a binary that cannot be uninstalled or a trace that an install refuses.
* `StopsWhatItLeaves`: the timer and the core are stopped with what they belong to, if every
  command takes the lock.
* `AdoptedValuesSurvive`: an adopted value is in every config rendered later, over other
  subscriptions too.
* `PairsLeaveAnHonestStatus`: for two overlapping commands; see below for three.
* `EverythingIsRefreshed`: every change the interface has made, successful or not, is followed by a
  status answer that knows of it; what is shown may still be an earlier answer that came in last.

Runs that TLC must find violated; each is something the repository says that the
code does not do:

* `pipeline_wedged` (`JournalsGetResolved`). `cleanupConfigTransaction` removes
  the backup of the subscription data before the journal. In a rollback of an
  uncommitted sync, a crash between the two, or a journal that cannot be removed,
  leaves a journal whose backup is gone: every later command fails in its recovery
  with "reading backup". Applies of stored data have no such backup.
* `pipeline_stale_reader` (`ReaderIsNotBehind`). A reader that has read the status
  file while the outcome of a committed apply is only in the journal, and looks for
  the journal when it is gone, answers with the attempt before. It needs no fault,
  only the interleaving. What does hold is that the answer is never older than the
  status file it has read (`AnswerNotBehindStatusFile`).
* `adopt_provider` (`AdoptionSettles`). Below `rule-providers` and `proxy-providers` an
  entry replaces the subscription's whole, and a `!delete` inside it is an error. Adopting
  the removal of a key inside an entry writes one, and every render after it fails.
* `merge_repeated` (`RepeatedItemsAreRejected`). The repository's README.md:94 says that an override
  which repeats a named item is an error. If there is no subscription, or one that is no mapping, and
  the override has no directive, it is handed on as it is (`merge.go:61-63, 77-81`): only its keys
  have been looked at, and two proxies of one name become the config. `MistakesAreRejected` says
  for every subscription and override which mistakes are found.

Bounds. Two subscription contents tell old from new, which is all the pipeline
compares; a third would be a fresh name for one of them. Two attempts are needed for
a report to be older than another, and two faults for a crash in the recovery from a
crash, or for a failing step in a rollback; `pipeline_sources` needs two faults so that
the undo itself may fail, and one attempt, because it asks nothing of two reports.
`MaxAttempts` counts applies only: the other operations are unbounded. Three versions and two
upgrades let an upgrade find the backup of an earlier one and upgrade to the version in the
backup. Four operations are install, failed or killed uninstall, config command, install. Three
processes are a holder, a waiter that gives up and one that gets the lock. Four schedule
commands with two faults are two that fail in different places, two that overlap, and one
undisturbed after that; the caller names and the two Linux intervals are symmetric, and no
property of that run is temporal. The Windows intervals are one below an hour, the limit of 31
days, the limit plus a second, and one that needs every unit. The merge inputs cover every rule by
itself to the depth at which it can nest: four levels are the document, a field, an entry of it
and a value in that, and the rules of the merge tell no deeper places apart. In `rendering` the confirmation needs two fields
instead of five, so that the boundary is met. In `tui_session` two commands are what it takes for an answer
to arrive while something else is waited for; a body of 3 lines holds neither list, and
with 0 the terminal is too small for any key but leaving. A channel of 2 for one report is like
the code's, which has room for 20 where an action makes at most 15. The list of releases has the same
length whenever it is loaded: see "Known behaviours".

Fairness. `FairSpec` of `ConfigPipeline` says that a process that holds the lock goes
on (it waits for no other process, and its downloads have a timeout) and that somebody
runs a command again some time, which the schedule does. It says nothing of crashes:
they are bounded by `MaxFaults`, that is, liveness is about what happens once files can
be written. `MCSpec` of the upgrade says the same; there it is the user who
runs a lifecycle command again, and `UpgradesGetResolved` is about a system in which service commands end.
In `InstanceLifecycle` only the holder goes on. In `OperationLock` the waiters are
scheduled, which their timers see to, and a holder may keep the lock for ever. In
`TuiSession` the goroutines of an action run and the loop takes what they answer: one weak fairness
over all steps of actions, of which there is one under way; no key is ever required. The other modules assume no fairness and state no liveness.

Deadlock is checked where a system has no reason to stop. `upgrade_atomicity` checks it too;
`instance_lifecycle`, `schedules` and `rendering` may stop, at the bound on
operations or commands, or after the one render.

## Known behaviours

Seen while modelling, and without a run of their own:

* The page of a status error offers `r) Retry` and is shown before any other, but keys still go to
  the page that was opened meanwhile: `r`, `5`, the list arrives, the status fails. Then `r` does
  nothing, and Up, Down and Enter act on a list nobody sees. `SelectionIsShown` keeps the two
  apart: what keys act on is an item of the list they go to, and that item is on screen whenever a
  list is.
* A `start` between the upgrade's stop and its first rename leaves the old core running. The
  upgrade's own start then changes nothing, its check that the core runs is satisfied, and
  it reports success. `alone` excludes it.
* An uninstall that keeps a backup moves the config backup of a killed apply away and leaves
  the journal that names it: config commands of the next installation fail in their recovery.
* A bootstrap step that fails before the unit is written is rolled back, but the rollback then
  reports an error as well, because it stops and disables a unit that is not there.
* An uninstall killed between removing the unit and the binary, or an install killed before
  it has written the unit, leaves a binary that neither command accepts.
* `SetSchedule` checks for an installation and then acts without the lock: the timer may be set
  after an uninstall has stopped it. `locked` excludes it.
* Of three overlapping schedule commands, a stop may take the service of one set and leave the
  timer of another: systemd then has a timer that cannot fire, and the status shows it as active.
* An adopted removal of a nested key makes later renders fail once a subscription arrives that
  does not have the key; `AdoptedValuesSurvive` is about renders that succeed.
* Two status requests may be answered in the wrong order, and the older answer then stays on screen
  until the next. An edit of the subscription source is followed by a new preview and no
  new status. A status that could not be had counts as one: the interface has asked, and shows
  the error. That page also hides the page of an action under way.
* The answer to an earlier request for the list of releases may replace a longer list by a shorter one
  under the selection, which Enter would then look up out of range. It takes two requests, and
  a release that is withdrawn between them.

## Proofs

`ConfigPipelineProofs` proves, for every set of contents, every set of operations
and every bound:

* `TypeCorrect`: `Spec => []TypeOK`. `TypeStep` has one step per action; the lemmas
  before it say what the shared pieces (a release, a cleanup, a restore that tears a
  file) do to the types.
* `TransactionCorrect`: `Spec => []TransactionInv`, and from it
  `ReportNamesConfigCorrect`. `ReportNamesConfig` is not inductive: that the journal's
  pending status names the config on disk holds only because of how the transaction got
  there. `TransactionInv` adds `ModeInv` (which steps belong to recovery, rollback
  and commit), `JournalInv` (what the journal on disk says against the transaction in
  memory at every step; that nothing else is journalled while an apply prepares) and
  `ConfigInv` (where the new and the old config are at every step: staged, renamed,
  or in the backup that the journal names).
* `AppliedIsLiveCorrect`, assuming `~ServiceRestarts`: while the last apply is reported
  applied, the core has loaded the config it names. The strengthening `LiveInv` says the
  same of the outcome an apply is about to record. With restarts in the middle of a
  commit the core may load a config that is then rolled back, so the assumption is needed.
* `PipelineIsAtomic`: `Spec => ImplementsAtomicConfig`. The initial states map to the initial
  state of `AtomicConfig`, and every step to one of its steps or a stutter, with a lemma for
  each kind: the steps that keep what the files amount to, the commit, the outcome, a failed
  attempt, a crash, and storing subscription data. `TransactionInv` does not say enough about
  the subscription, which `AtomicConfig` has and `ReportNamesConfig` does not mention.
  `RefinementInv` adds which operation is at which step (`OpInv`), that the attempt under way
  is later than every recorded one, so that a report never goes back (`ClockInv`), and where
  the current subscription and the one being committed are: in place, candidate or backup
  (`SubscriptionInv`).
* `AnswerIsNotBehind`: the reader without the lock. It rests on `ClockInv` alone: attempts are
  recorded in the order of their numbers, and the status file a reader has read is at most as
  late as the one that is there when it reads the journal.
* `NothingLeaksCorrect`, with `LeakInv`: without a fault no step that only a fault leads to is
  ever reached, and each file of an attempt exists only between the step that makes it and the
  one that moves or removes it.
* `SetSourceIsUsable` and `RollbackIsExact`, with `SourcesInv`: what the steps of
  `SetSubscriptionSource` have already written, and that the steps of its rollback have put
  back what they could while there was one fault only. `LastStep` says which steps an answer
  can come from.

`UpgradeTransactionProofs` proves, for every set of versions, every choice of service
commands and every bound:

* `TypeCorrect`: `Spec => []TypeOK`, with a lemma for each part of the state (files,
  steps, memory of the lock holder, service and counters).
* `UpgradeCorrect`: `Spec => []UpgradeInv`, one step per action. None of the properties is
  inductive: that the backup may be put back is known only because the journal named the
  binary that was moved there. `UpgradeInv` says which operation is at which step with
  which journal (`PhaseInv`), where the old and the new binary are (`BinaryInv`) and what
  staging file is left (`StagingInv`).
* From it `OldBinaryKept`, `UpgradesAtomic`, `SuccessIsInstalled` and `StagingFirst`: the
  first is implied by `UpgradeInv`; the others are action properties, and `UpgradeInv`
  before a step says enough of the few actions that change journal or binary, or answer.
* `RunsAsBefore`: `MCSpec => []RunsAsBeforeAlone`, with the history variable `alone` that the
  runs keep. `ServiceInv` follows `wanted` through the journal into the memory of whoever holds
  the lock (`Knowing`), says where nothing can be running (`Stopped`), and that the service is
  as it was wherever the journal may go.

`InstanceLifecycleProofs` proves, for any operations, commands and bounds:

* `NothingIsLeft` and `ExistingIsRefused`: `Spec => []LifecycleInv`, and from it the property of
  states and the one of steps. `Stamps` and `ControlInv` are the types and the control flow;
  `RefusalInv` says that an install that found something goes no further than its check,
  `UndoneInv` what an install on an empty machine has made at each step and what its
  rollback has not yet taken away, `RemovedInv` the same of an uninstall.
* `ServiceStaysStopped`: `StoppedInv`, while every command takes the lock.
* `PlainGoesOn`: `PlainInv`, while nothing out of the ordinary happens. Each step is between a
  whole installation (`Whole`) and none (`Nothing`), and the stamps show that its
  config and its subscription are not older than its binary (`Since`).

`ScheduleProofs` proves, for any callers, intervals and bounds:

* `UndisturbedTakesEffect`, on both systems: `AloneInv` follows a command that nobody overlaps and
  says which of its writes it finds, `EffectInv` that nothing but another command undoes them;
  `WinAloneInv` and `WinEffectInv` say it of Windows.
* `PairsAreHonest`: `CountInv` (two callers inside are two commands), `ReloadInv` (while no
  command fails, systemd knows the files as they are unless someone has still to reload) and
  `PairInv` (a stopping command finds a running timer only if the other has ended since).
* `EveryFormIsRead`: `ParseTaskInterval` reads any interval of up to 31 days back from each form
  in `Written`. The durations have at most five parts, so that the parser's recursive function
  exists is shown by giving it (`ReadInOrder`) and needs no induction; the rest is arithmetic of
  days, hours, minutes and seconds within the bound. From it `RegisteredIsReadable`.


`OperationLockProofs` proves, for any set of processes, any deadline and any number of inodes:

* `Invariance`: `Spec => []Inv`. Mutual exclusion is not inductive: it rests on everyone having
  the same inode open (`OneInode`) and on the lock set of that inode being exactly the holder
  (`Exclusive`).
* From it `LockExcludes` and `LockIsNotOrphaned`.

`TuiSessionProofs` proves `OneActionHolds`, `Spec => []OneActionAtATime`, for any lists, heights,
channel capacity and number of reports and commands. The property is inductive once the
actions are known to be a sequence of records (`OneActionInv`): a key starts an action only when
none is waited for, so when none is open, and the answer that ends the waiting is that of
the open action, so none is left. Every other answer leaves both alone, which is what the
mutant of `ScheduleDone` undoes. Two more theorems are about what the interface shows:

* `ChangesAreSeen` gives `EverythingIsRefreshed`. Its invariant (`RefreshInv`) says who has
  yet to show what is not seen: while no status answer has known of the last change, a
  status answer is on its way that does or has not been made yet, or a schedule command or an action
  is done that Update will follow with one (`ChangesInv`); so for the source and its previews
  (`SourceInv`), and a preview that is waited for is on its way (`LoadingInv`). Answers are a bag, so that
  taking one may leave another just like it: `OneMore` and `OneLess` are all the proof needs of it.
* `SelectionStays` gives `SelectionIsShown`, under the hypothesis that the list of releases has the
  same length whenever it is loaded; without it the code does not have the property, see "Known
  behaviours". The selection stays in every list there may be (`SelectionInv`), whatever page is on screen
  meanwhile, and `SelectedIsShown` says of the window itself that it shows all of the selected item
  that has room. The lines of a list
  are counted as a finite set rather than summed, because a sum over a list of any length would need
  an induction.

`OverrideMergeProofs` proves what the next module needs of the merge, for any keys, texts,
terminal rules and limit of nesting:

* `MergeMakesConfigs`: what comes out of a merge is config data without directives or repeated
  keys, something handed on as it was, or an error. The functions over the levels have
  no induction of their own here: `Recursion` shows that a function defined level by level
  exists and has its equation, by giving it, and `Climb` that a set of levels with 0 in it and
  closed under the step holds all of them. From these come the equation and the type of each
  of `stripped`, `merge` and of the documents.
* The same is done along lists, where the merge builds its result item by item. The lemmas say
  what `Without`, `ReplaceNamed` and the replacement of an item in a list do to its order
  (`WithoutItems`, `WithoutConcat`, `MappedConcat`, `DeleteStep`, `ReplaceStep`).

`RenderAdoptionProofs` proves of a render, of any pair of inputs:

* `NoDirectiveIsRendered`: `RenderInv`, that what was rendered is the merge of the two, and
  `MergeMakesConfigs`.
* `RulesStandBeforeTheFallback`: `MergedRules` follows `mergeRules` through the overlay's items.
  What is left of the subscription's rules is the list without the texts deleted so far, what
  is to be added are the additions so far, and the two never share a text.
* `ItemsStayInTheirOrder`: `ItemsAreMergedByName`. `MergeIdentityArray` changes its list in place,
  the property describes the whole result at once. `MergedSoFar` is the bridge: after any
  number of the overlay's items the list is `NamesMerged` of them, the subscription's places that
  are left, in their order, with what now stands in each, then the new names. A step deletes a
  name (`DeleteName`), puts an item at the first place of its name and drops the
  other places (`OldName`), or appends it (`NewName`); `Follows` says which names were seen,
  and `PromisedIs` that the end is what the property says.
* `FieldsAreOnTheRightSide`: `FieldsComeFromTheRightSide`, for every path of either document or of the
  result. `Walked` goes down a path and says of each place on it what the result has there:
  what the subscription has, if the override has nothing there; the merge of the two mappings, as
  long as the override decides nothing (`Undecided`, `Mixed`); nothing, below a deletion; what
  the override has, without its directives, below a value that is taken from it (`Shown`); or
  a list merged by name. `DecidesThere` ties the place where that changes to the first place at which
  the override decides.
* `MistakesAreErrors`: `MistakesAreRejected`, both ways and for every subscription, one that is missing or
  no mapping included: a render that is asked to do any of the things the repository forbids (its
  README.md:94) fails, and no other does, unless the subscription cannot be read. The one
  exception is in the property: the items of an array are looked at only if there is a
  mapping to merge with or a directive, which `merge_repeated` shows to be less than the
  README promises. Without a mapping the merge starts from nothing (`NothingToMerge`); a document
  without directives that is handed on has no mistake but a repeated key (`PlainIsRight`). An error
  anywhere in the recursion becomes the error of the whole, so the proof climbs from the leaves:
  `WrongFrom(p)` says that there is a mistake at the path `p` or further on, `WrongStep` that it is
  at `p` or from one of the keys there. On every level a value that replaces what there was cannot
  be stripped exactly if `WrongFrom` its path (`SettledFails`), and a mapping cannot be merged
  exactly then (`MergeFails`); where the override repeats a key, it is rejected before any merge,
  and `NoneRepeated` finds the mistake. For an array merged item by item, `Sound` says the mistakes
  of its first items; one item more is accepted if and only if it adds none (`IdentityFits`,
  `RuleFits`), so the first mistake ends the merge, and a list without one is merged (`NamesFail`,
  `RulesFail`). Planning this proof showed a mistake the property had left out, a key repeated in a
  mapping inside a list, which is an error in the code too (merge.go:177-182); the property and the
  inputs of the run have it now.

and of adoptions, between edits, fetches and applies in any order:

* `AdoptionInvariant`: `AdoptInv`, that every adopted value stands in the override as adoption
  writes it; no subscription is mentioned, and that is why the next two hold of later ones.
* `WhatIsAdoptedSurvives`: `AdoptedValuesSurvive`. `KeptInMerge` climbs the levels: what adoption
  writes for a value, merged with anything, keeps the value.
* `AdoptionSettlesOrFails`: after an adoption no field differs, or the override cannot be
  rendered any more, and the second only if a provider map was adopted. `MergeGivesBack` says
  that what is written for a value, merged with the subscription it was compared with,
  gives the value; inside a provider map (`MergeInProviders`) that, or an error.
* `AdoptionsSettle` and `AdoptionsChangeNothingElse`: the run's two action properties, under the
  hypothesis `Keys \cap ProviderMaps = {}`. It is needed: with provider maps the first is what
  `adopt_provider` refutes.

The theorems rest on the `ASSUME`s of the modules about their constants, and on
nothing else: the bound on faults is any natural number.

Proved and not among the runs' properties: the type invariants and `Inv` where a run would only
repeat them; `StagingGoesFirst`, which `UpgradeInv` implies; and `EveryFormIsRead`, of which the
run checks four intervals as `RegisteredIntervalIsReadable`. `RequestsAssumption` (an interval
asked for is a number of seconds other than zero, which means off) is what the commands of the
schedule are called with.

Only model-checked:

* Liveness under fairness, which this prover cannot handle: `OperationsEnd`,
  `OnlyALostBackupWedges`, `UpgradesGetResolved`, `Answered`, `ActionsEnd`.

Every safety invariant and every step property of the passing runs is a theorem.

## Not modelled, and why

* In the pipeline: the migration of a legacy template and journals written before there was a
  pending status (one-time conversions of old data), the stale flag of the status answer, and
  `ValidateConfig` reading the config after it has given the lock back, whose answer nothing keeps.
* In service control: `Status`, `SetAutoStart` and `Reload` as commands of their own; each is one
  call of the service manager. The reload at the end of an apply is modelled.
* The Windows service host and its registration (`service_host_windows.go`, `service_windows.go`):
  the service manager is seen from its callers, as commands that act or fail. An install on
  Windows, which registers without a unit file, would need them.
* In the terminal interface: texts, wrapping, styles and layout, focus, reading offsets, the help
  page, the backup switch and quitting.
* The command line, the log viewer, the editor and the elevated child: one call each, and no state.
* In the merge: aliases, which the code treats as it does scalars (`merge.go:199-220`), and
  subscriptions that repeat a key, for which the result cannot be decoded (`merge.go:119-126`).
* Fractions of a second in an interval of the Linux timer, which the code drops.
* Paths, HTTP, checksums, decompression and permissions: no state that two steps could disagree on.

What would come next: the legacy conversions of the pipeline; the Windows
registration.
