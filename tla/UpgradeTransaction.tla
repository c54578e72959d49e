-------------------------- MODULE UpgradeTransaction --------------------------
(***************************************************************************)
(* Upgrading the mihomo core (internal/manager/lifecycle_impl.go:565-785)  *)
(* and recovering an interrupted upgrade (lifecycle_transaction.go): the   *)
(* process that holds the instance lock replaces the binary step by step.  *)
(* Between any two steps it may be killed, a file operation or a service   *)
(* command may fail, the caller may cancel, and the start, stop and        *)
(* restart commands of service_impl.go, which do not take the lock, may    *)
(* act on the same service.                                                *)
(*                                                                         *)
(* A binary is named by its version: the code tells two apart by hash.     *)
(***************************************************************************)
EXTENDS Naturals

CONSTANTS Versions,    \* binaries
          None,        \* no file there; no core running
          ServiceOps,  \* what ServiceControl is asked to do meanwhile
          CoreExits,   \* whether a running core may exit by itself
          MaxUpgrades, \* bound on upgrades
          MaxFaults    \* bound on crashes and failing operations

ASSUME VersionsAssumption == None \notin Versions
ASSUME ServiceAssumption == /\ ServiceOps \subseteq {"start", "stop", "restart"}
                            /\ CoreExits \in BOOLEAN
ASSUME BoundsAssumption == MaxUpgrades \in Nat /\ MaxFaults \in Nat

VARIABLES
    binary,   \* the installed binary
    backup,   \* backups/mihomo.bak
    temp,     \* versions whose staging file, mihomo.tmp.<version>, exists
    journal,  \* upgrade-transaction.json
    running,  \* the version the running core was started from
    pc,       \* next step of the lock holder; "idle" when the lock is free
    op,       \* the operation it runs
    target,   \* the version this upgrade has downloaded
    was,      \* whether the upgrade, or the one recovered, found a core running
    failing,  \* whether the upgrade has failed and recovers before it returns
    restored, \* restoreBinary: the binary is back
    clean,    \* restoreBinary: no error so far
    result,   \* how the last operation ended
    upgrades, \* upgrades started so far
    faults,   \* crashes and failed operations so far
    asked,    \* what ServiceControl has checked and is about to do
    wanted    \* whether the core ran before, or was last asked to (bookkeeping)

disk   == <<binary, backup, temp, journal>>
holder == <<pc, op, target, was, failing, restored, clean, result>>
others == <<upgrades, asked, wanted>>
vars   == <<disk, running, holder, faults, others>>

Files == Versions \cup {None}

\* A journal in state "none" stands for a journal file that does not exist.
Journals  == [state : {"none", "in-progress", "completed"}, old : Files,
              was : BOOLEAN, temp : Files]
NoJournal == [state |-> "none", old |-> None, was |-> FALSE, temp |-> None]

Steps == {"idle", "recover", "match", "confirmMatch", "cleanTemp",
          "cleanJournal", "restoreStop", "restoreRemove", "restoreRename",
          "restoreTemp", "restoreStart", "restoreConfirm", "check", "download",
          "probe", "journal", "stop", "resume", "dropTemp", "backup", "replace",
          "start", "confirm", "complete"}

FilesOK == /\ binary \in Files /\ backup \in Files /\ temp \subseteq Versions
           /\ journal \in Journals

HolderOK == /\ op \in {"none", "upgrade", "install"}
            /\ target \in Files
            /\ was \in BOOLEAN /\ failing \in BOOLEAN
            /\ restored \in BOOLEAN /\ clean \in BOOLEAN
            /\ result \in {"none", "success", "error", "crashed"}

WorldOK == /\ running \in Files /\ wanted \in BOOLEAN
           /\ upgrades \in 0..MaxUpgrades /\ faults \in 0..MaxFaults
           /\ asked \in ServiceOps \cup {"none"}

TypeOK == FilesOK /\ pc \in Steps /\ HolderOK /\ WorldOK

Init == /\ binary \in Versions
        /\ backup \in Files
        /\ temp = {} /\ journal = NoJournal
        /\ running \in {None, binary} /\ wanted = (running # None)
        /\ pc = "idle" /\ op = "none" /\ target = None /\ result = "none"
        /\ was = FALSE /\ failing = FALSE /\ restored = FALSE /\ clean = FALSE
        /\ upgrades = 0 /\ faults = 0 /\ asked = "none"
-------------------------------------------------------------------------------
Ok     == UNCHANGED faults
Faulty == faults < MaxFaults /\ faults' = faults + 1

Goto(l) == /\ pc' = l
           /\ UNCHANGED <<op, target, was, failing, restored, clean, result>>

Return(r) == /\ pc' = "idle" /\ op' = "none" /\ target' = None /\ result' = r
             /\ was' = FALSE /\ failing' = FALSE
             /\ restored' = FALSE /\ clean' = FALSE

\* The upgrade itself is running, not the recovery before or after it.
Upgrading == op = "upgrade" /\ target # None /\ ~failing

\* The upgrade returns an error: its deferred function recovers first.
Fail == /\ pc' = "recover" /\ failing' = TRUE
        /\ UNCHANGED <<op, target, was, restored, clean, result>>

\* The service manager.  Starting a core that runs changes nothing; a core that
\* was started may exit at once, which the command does not tell.  A command
\* that fails may have acted.
IsRunning == running # None
Started   == IF IsRunning THEN running ELSE binary

Start      == \/ running' = Started /\ Ok
              \/ UNCHANGED running /\ Faulty
StartFails == running' \in {running, Started} /\ Faulty
Stop       == running' = None /\ Ok
StopFails  == running' \in {running, None} /\ Faulty

Removed(v) == temp' = temp \ {v}
-------------------------------------------------------------------------------
\* Every lifecycle writer recovers before it does anything, with the lock held.
\* An install is any other writer: it then finds the core installed.
Begin(o) ==
    /\ pc = "idle"
    /\ IF o = "upgrade" THEN upgrades < MaxUpgrades /\ upgrades' = upgrades + 1
                        ELSE UNCHANGED upgrades
    /\ pc' = "recover" /\ op' = o
    /\ UNCHANGED <<disk, running, target, was, failing, restored, clean, result,
                   faults, asked, wanted>>

\* recoverUpgradeTransaction has ended without an error.
Recovered == IF op = "upgrade" /\ ~failing THEN Goto("check")
                                           ELSE Return("error")

\* Mutants: the binary is not looked at; a backup is never the old binary.
NeverReplaced == FALSE
NoBackup == FALSE

\* The hash comparisons that tell an untouched binary from a replacement.
Replaced == binary # journal.old
BackupMatches == backup = journal.old

Recover ==
    /\ pc = "recover"
    /\ \/ journal.state = "none" /\ Recovered /\ Ok
       \/ journal.state = "completed" /\ Goto("cleanTemp") /\ Ok
       \/ /\ journal.state = "in-progress"
          /\ IF Replaced /\ ~BackupMatches THEN Return("error")
             ELSE /\ pc' = IF Replaced THEN "restoreStop" ELSE "match"
                  /\ was' = journal.was
                  /\ UNCHANGED <<op, target, failing, restored, clean, result>>
          /\ Ok
       \/ Return("error") /\ Faulty
    /\ UNCHANGED <<disk, running, others>>

\* Mutant: the service is left as the interrupted upgrade left it.
ServiceNotLookedAt == TRUE

ServiceMatches == IsRunning = was

\* The binary is the old one: the service has to be as it was.
Match ==
    /\ pc = "match"
    /\ \/ ServiceMatches /\ Goto("cleanTemp") /\ UNCHANGED running /\ Ok
       \/ /\ ~ServiceMatches /\ Goto("confirmMatch")
          /\ IF was THEN Start ELSE Stop
       \/ /\ ~ServiceMatches /\ Return("error")
          /\ IF was THEN StartFails ELSE StopFails
       \/ Return("error") /\ UNCHANGED running /\ Faulty
    /\ UNCHANGED <<disk, others>>

ConfirmMatch ==
    /\ pc = "confirmMatch"
    /\ \/ ServiceMatches /\ Goto("cleanTemp") /\ Ok
       \/ ~ServiceMatches /\ Return("error") /\ Ok
       \/ Return("error") /\ Faulty
    /\ UNCHANGED <<disk, running, others>>

\* cleanupUpgradeTransaction, at the end of a recovery or of an upgrade.
CleanupFails == Faulty /\ IF Upgrading THEN Fail ELSE Return("error")

\* Mutant: only the journal is removed.
StagingForgotten == UNCHANGED temp

CleanedUp == Removed(journal.temp)

CleanTemp ==
    /\ pc = "cleanTemp"
    /\ \/ CleanedUp /\ Goto("cleanJournal") /\ Ok
       \/ UNCHANGED temp /\ CleanupFails
    /\ UNCHANGED <<binary, backup, journal, running, others>>

CleanJournal ==
    /\ pc = "cleanJournal"
    /\ \/ /\ journal' = NoJournal /\ Ok
          /\ IF Upgrading THEN Return("success") ELSE Recovered
       \/ UNCHANGED journal /\ CleanupFails
    /\ UNCHANGED <<binary, backup, temp, running, others>>
-------------------------------------------------------------------------------
\* restoreBinary: puts the backup back.  It is called by the upgrade, which goes
\* on to recover whatever it answers, and by the recovery.

\* Mutant: its error is ignored.
ErrorsIgnored(ok) == IF Upgrading THEN Fail ELSE Goto("cleanTemp")

RestoreEnds(ok) == IF Upgrading THEN Fail
                   ELSE IF ok THEN Goto("cleanTemp") ELSE Return("error")

\* Mutant: a core that runs the new binary is not stopped.
RestoreOverRunning ==
    /\ pc = "restoreStop" /\ Goto("restoreRemove")
    /\ UNCHANGED <<disk, running, faults, others>>

RestoreStop ==
    /\ pc = "restoreStop"
    /\ \/ Stop /\ Goto("restoreRemove")
       \/ StopFails /\ RestoreEnds(FALSE)
    /\ UNCHANGED <<disk, others>>

RestoreRemove ==
    /\ pc = "restoreRemove"
    /\ pc' = "restoreRename"
    /\ \/ binary' = None /\ restored' = TRUE /\ clean' = TRUE /\ Ok
       \/ UNCHANGED binary /\ restored' = FALSE /\ clean' = FALSE /\ Faulty
    /\ UNCHANGED <<backup, temp, journal, running, op, target, was, failing,
                   result, others>>

RestoreRename ==
    /\ pc = "restoreRename"
    /\ pc' = "restoreTemp"
    /\ \/ /\ backup # None /\ binary' = backup /\ backup' = None
          /\ UNCHANGED <<restored, clean>> /\ Ok
       \/ /\ UNCHANGED <<binary, backup>> /\ restored' = FALSE /\ clean' = FALSE
          /\ IF backup = None THEN Ok ELSE Faulty
    /\ UNCHANGED <<temp, journal, running, op, target, was, failing, result,
                   others>>

RestoreTemp ==
    /\ pc = "restoreTemp"
    /\ \/ Removed(journal.temp) /\ UNCHANGED clean /\ Ok
       \/ UNCHANGED temp /\ clean' = FALSE /\ Faulty
    /\ pc' = IF was /\ restored THEN "restoreStart" ELSE "restoreConfirm"
    /\ UNCHANGED <<binary, backup, journal, running, op, target, was, failing,
                   restored, result, others>>

RestoreStart ==
    /\ pc = "restoreStart"
    /\ \/ Start /\ Goto("restoreConfirm")
       \/ StartFails /\ RestoreEnds(FALSE)
    /\ UNCHANGED <<disk, others>>

RestoreConfirm ==
    /\ pc = "restoreConfirm"
    /\ \/ RestoreEnds(clean /\ restored /\ ServiceMatches) /\ Ok
       \/ RestoreEnds(FALSE) /\ Faulty
    /\ UNCHANGED <<disk, running, others>>
-------------------------------------------------------------------------------
\* Upgrade, from the recovery on.
Check ==
    /\ pc = "check"
    /\ \/ binary # None /\ Goto("download") /\ Ok
       \/ binary = None /\ Return("error") /\ Ok
       \/ Return("error") /\ Faulty
    /\ UNCHANGED <<disk, running, others>>

\* An upgrade that is given up before its journal removes the staging file.
GiveUp(v) == /\ Return("error")
             /\ \/ Removed(v) /\ Ok
                \/ UNCHANGED temp /\ Faulty

\* The version may not resolve, its checksum be unavailable or not match.
Download(v) ==
    /\ pc = "download"
    /\ \/ /\ temp' = temp \cup {v} /\ pc' = "probe" /\ target' = v
          /\ UNCHANGED <<op, was, failing, restored, clean, result>> /\ Ok
       \/ GiveUp(v)
       \/ Return("error") /\ UNCHANGED temp /\ Ok
       \/ Return("error") /\ temp' = temp \cup {v} /\ Faulty
    /\ UNCHANGED <<binary, backup, journal, running, others>>

Probe ==
    /\ pc = "probe"
    /\ \/ /\ was' = IsRunning /\ pc' = "journal"
          /\ UNCHANGED <<temp, op, target, failing, restored, clean, result>>
          /\ Ok
       \/ GiveUp(target)
    /\ UNCHANGED <<binary, backup, journal, running, others>>

WriteJournal ==
    /\ pc = "journal"
    /\ \/ /\ journal' = [state |-> "in-progress", old |-> binary, was |-> was,
                         temp |-> target]
          /\ Goto(IF was THEN "stop" ELSE "backup")
          /\ UNCHANGED temp /\ Ok
       \/ UNCHANGED journal /\ GiveUp(target)
    /\ UNCHANGED <<binary, backup, running, others>>

\* The service is stopped; the caller may have canceled meanwhile.
StopService ==
    /\ pc = "stop"
    /\ \/ Stop /\ Goto("backup")
       \/ StopFails /\ Goto("resume")
    /\ UNCHANGED <<disk, others>>

\* resumeService, for an upgrade that has not touched the binary.
Resume ==
    /\ pc = "resume"
    /\ IF was THEN (Start \/ StartFails) ELSE (UNCHANGED running /\ Ok)
    /\ Goto("dropTemp")
    /\ UNCHANGED <<disk, others>>

DropTemp ==
    /\ pc = "dropTemp"
    /\ Fail
    /\ \/ Removed(journal.temp) /\ Ok
       \/ UNCHANGED temp /\ Faulty
    /\ UNCHANGED <<binary, backup, journal, running, others>>

\* Before the new binary is there, the service needs no stop if it was stopped.
BackupBinary ==
    /\ pc = "backup"
    /\ \/ /\ binary' = None /\ backup' = binary /\ Ok
          /\ \/ Goto("replace")
             \/ Goto(IF was THEN "restoreStop" ELSE "restoreRemove")
       \/ UNCHANGED <<binary, backup>> /\ Goto("resume") /\ Ok
       \/ UNCHANGED <<binary, backup>> /\ Goto("resume") /\ Faulty
    /\ UNCHANGED <<temp, journal, running, others>>

\* Mutant: the new binary is made executable and never moved.
OnlyChmod == UNCHANGED <<binary, temp>>

Moved == binary' = target /\ Removed(target)

ReplaceBinary ==
    /\ pc = "replace"
    /\ \/ Moved /\ Ok /\ (Goto("start") \/ Goto("restoreStop"))
       \/ /\ UNCHANGED <<binary, temp>> /\ Faulty
          /\ Goto(IF was THEN "restoreStop" ELSE "restoreRemove")
    /\ UNCHANGED <<backup, journal, running, others>>

\* A core that was stopped has to be stopped still; one that ran is started.
StartService ==
    /\ pc = "start"
    /\ \/ /\ ~was /\ Goto(IF IsRunning THEN "restoreStop" ELSE "complete")
          /\ UNCHANGED running /\ Ok
       \/ ~was /\ Goto("restoreStop") /\ UNCHANGED running /\ Faulty
       \/ was /\ Start /\ (Goto("confirm") \/ Goto("restoreStop"))
       \/ was /\ StartFails /\ Goto("restoreStop")
    /\ UNCHANGED <<disk, others>>

Confirm ==
    /\ pc = "confirm"
    /\ \/ Goto(IF IsRunning THEN "complete" ELSE "restoreStop") /\ Ok
       \/ Goto("restoreStop") /\ Faulty
    /\ UNCHANGED <<disk, running, others>>

Completed == [journal EXCEPT !.state = "completed"]

\* completeUpgradeTransaction: the upgrade is not undone from here on.
Complete ==
    /\ pc = "complete"
    /\ \/ journal' = Completed /\ Goto("cleanTemp") /\ Ok
       \/ UNCHANGED journal /\ Fail /\ Faulty
    /\ UNCHANGED <<binary, backup, temp, running, others>>
-------------------------------------------------------------------------------
\* The process is killed: the files and the core stay, everything else goes.
Crash == /\ pc # "idle"
         /\ Faulty
         /\ Return("crashed")
         /\ UNCHANGED <<disk, running, others>>

CoreStops == /\ CoreExits /\ IsRunning
             /\ running' = None
             /\ Faulty
             /\ UNCHANGED <<disk, holder, others>>

\* Start, Stop and Restart of ServiceControl: the checks, and then the command,
\* with whatever the lock holder does in between.
ServiceCheck(o) ==
    /\ asked = "none" /\ binary # None
    /\ o = "start" => ~IsRunning
    /\ o = "stop" => IsRunning
    /\ asked' = o
    /\ UNCHANGED <<disk, running, holder, faults, upgrades, wanted>>

ServiceAct ==
    /\ asked # "none" /\ asked' = "none"
    /\ \/ asked = "start" /\ running' = Started
       \/ asked = "stop" /\ running' = None
       \/ asked = "restart" /\ running' = binary
    /\ wanted' = (asked # "stop")
    /\ UNCHANGED <<disk, holder, faults, upgrades>>

RecoveryStep == \/ Recover \/ Match \/ ConfirmMatch \/ CleanTemp \/ CleanJournal

RestoreStep == \/ RestoreStop \/ RestoreRemove \/ RestoreRename
               \/ RestoreTemp \/ RestoreStart \/ RestoreConfirm

UpgradeStep == \/ Check \/ (\E v \in Versions : Download(v)) \/ Probe
               \/ WriteJournal \/ StopService \/ Resume \/ DropTemp
               \/ BackupBinary \/ ReplaceBinary \/ StartService \/ Confirm
               \/ Complete

Step == RecoveryStep \/ RestoreStep \/ UpgradeStep

Next == \/ Step
        \/ \E o \in {"upgrade", "install"} : Begin(o)
        \/ Crash \/ CoreStops
        \/ \E o \in ServiceOps : ServiceCheck(o)
        \/ ServiceAct

Spec == Init /\ [][Next]_vars

\* The holder of the lock goes on, and the operator tries again some time.
FairSpec == Spec /\ WF_vars(Step) /\ WF_vars(Begin("install"))
-------------------------------------------------------------------------------
\* Nothing is being done and nothing is left to recover.
Settled == pc = "idle" /\ journal.state = "none"

\* An upgrade in progress can be undone: the binary it found is in place or in
\* the backup (lifecycle_transaction.go:91-103 needs it there); and when no
\* journal is left, there is a binary.
OldBinaryIsKept ==
    /\ journal.state = "in-progress" => journal.old \in {binary, backup}
    /\ Settled => binary # None

\* The version the instance has: that of the binary, or, while an upgrade may
\* still be undone, that of the binary it found.
Installed == IF journal.state = "in-progress" THEN journal.old ELSE binary

\* The installed version changes in one step, which records the upgrade as
\* completed with the new binary in place; no crash, failure, cancellation or
\* recovery changes it (lifecycle_impl.go:618-622, lifecycle_transaction.go:61).
UpgradesAreAtomic ==
    [][Installed' # Installed => /\ journal.state = "in-progress"
                                 /\ journal'.state = "completed"
                                 /\ Upgrading /\ binary = target]_vars

\* An upgrade that answers with success has installed the version it
\* downloaded, and leaves neither journal nor staging file
\* (lifecycle_impl.go:699-722).
SuccessMeansInstalled ==
    [][pc # "idle" /\ pc' = "idle" /\ result' = "success"
       => /\ binary' = target /\ journal'.state = "none"
          /\ target \notin temp']_vars

\* The journal outlives the staging file it names: a crash between the two
\* removals leaves nothing that no recovery would find
\* (lifecycle_transaction.go:54-59).
StagingGoesFirst ==
    [][journal.state # "none" /\ journal'.state = "none"
       => journal.temp \notin temp]_vars

\* When nothing is left to recover, the core runs if it ran before and is
\* stopped if it was stopped, whatever failed on the way, unless someone else
\* starts or stops it (lifecycle_transaction.go:110-129, lifecycle_impl.go:682).
ServiceIsRestored == Settled => IsRunning = wanted

\* When nothing is left to recover, a running core is the installed one.
RunsWhatIsInstalled == Settled /\ IsRunning => running = binary

\* An interrupted upgrade does not stay: once faults and the service commands of
\* others stop, the next command that takes the lock resolves it
\* (lifecycle_transaction.go:69-131).
UpgradesGetResolved == <>[](asked = "none") => []<>(journal.state = "none")
-------------------------------------------------------------------------------
(***************************************************************************)
(* The inductive invariant.                                                *)
(***************************************************************************)
Preparing == {"check", "download", "probe", "journal"}
Untouched == {"stop", "resume", "dropTemp", "backup"}
Replacing == {"start", "confirm", "complete"}
Matching  == {"match", "confirmMatch"}
Restoring == {"restoreStop", "restoreRemove", "restoreRename"}
RestoreEnding == {"restoreTemp", "restoreStart", "restoreConfirm"}
Cleaning  == {"cleanTemp", "cleanJournal"}

\* Which operation is at which step, with which journal.
PhaseInv ==
    /\ pc = "idle" => op = "none" /\ target = None /\ ~failing
    /\ pc \in Preparing => op = "upgrade" /\ ~failing /\ journal.state = "none"
    /\ pc \in {"probe", "journal"} => target # None
    /\ pc \in Untouched \cup {"replace"} \cup Replacing
          => Upgrading /\ journal.state = "in-progress"
    /\ pc \in {"recover"} \cup Matching => ~Upgrading
    /\ pc \in Matching \cup Restoring \cup RestoreEnding
          => journal.state = "in-progress"
    /\ pc \in Cleaning => /\ journal.state # "none"
                          /\ Upgrading => journal.state = "completed"

\* Where the old binary and the new one are.
BinaryInv ==
    /\ IF journal.state = "in-progress"
       THEN journal.old # None /\ journal.old \in {binary, backup}
       ELSE binary # None
    /\ journal.state = "in-progress" /\ pc \in Untouched \cup Matching \cup Cleaning
          => binary = journal.old
    /\ pc \in {"replace"} \cup Replacing \cup Restoring => backup = journal.old
    /\ pc \in RestoreEnding /\ restored => binary = journal.old
    /\ pc \in Replacing \/ (Upgrading /\ pc \in Cleaning) => binary = target

\* The journal names the staging file, and outlives it.
StagingInv ==
    /\ Upgrading /\ journal.state # "none" => journal.temp = target
    /\ pc = "cleanJournal" => journal.temp \notin temp

\* What journal, binaries and the next step of the lock holder say of each other
\* between any two steps of an upgrade or a recovery.
UpgradeInv == PhaseInv /\ BinaryInv /\ StagingInv
===============================================================================
