----------------------- MODULE UpgradeTransactionProofs -----------------------
(***************************************************************************)
(* Proofs about UpgradeTransaction, for any set of versions, any service   *)
(* commands and any bounds.                                                *)
(*                                                                         *)
(* UpgradeInv is inductive together with TypeOK.  It implies               *)
(* OldBinaryIsKept, and it says enough of the state before a step for the  *)
(* three action properties about the installed version, success and the    *)
(* order of the clean-up.  ServiceInv, inductive with both, follows the    *)
(* service while nobody but the lock holder acts on it.                    *)
(***************************************************************************)
EXTENDS MCUpgradeTransaction, TLAPS

LEMMA TypeInit == Init => TypeOK
<1> SUFFICES ASSUME Init PROVE TypeOK
  OBVIOUS
<1> USE VersionsAssumption, BoundsAssumption DEF Init
<1>1. FilesOK
  BY DEF FilesOK, Files, NoJournal, Journals
<1>2. pc \in Steps
  BY DEF Steps
<1>3. HolderOK
  BY DEF HolderOK, Files
<1>4. wanted \in BOOLEAN
  OBVIOUS
<1>5. WorldOK
  BY <1>4 DEF WorldOK, Files
<1> QED
  BY <1>1, <1>2, <1>3, <1>5 DEF TypeOK

\* The files keep their types.
LEMMA FilesType == TypeOK /\ Next => FilesOK'
<1> SUFFICES ASSUME TypeOK, Next PROVE FilesOK'
  OBVIOUS
<1> USE VersionsAssumption DEF TypeOK, FilesOK, Files, disk, Removed
<1>a. NoJournal \in Journals
  BY DEF NoJournal, Journals
<1>1. CASE RecoveryStep
  BY <1>a, <1>1 DEF RecoveryStep, Recover, Match, ConfirmMatch, CleanTemp,
     CleanJournal, CleanedUp
<1>2. CASE RestoreStep
  BY <1>2 DEF RestoreStep, RestoreStop, RestoreRemove, RestoreRename,
     RestoreTemp, RestoreStart, RestoreConfirm
<1>3. CASE UpgradeStep
  BY <1>3 DEF UpgradeStep, Check, Download, Probe, GiveUp, WriteJournal,
     StopService, Resume, DropTemp, BackupBinary, ReplaceBinary, Moved,
     StartService, Confirm, Complete, Completed, Journals, HolderOK
<1>4. CASE UNCHANGED disk
  BY <1>4
<1> QED
  BY <1>1, <1>2, <1>3, <1>4 DEF Next, Step, Begin, Crash, CoreStops,
     ServiceCheck, ServiceAct

\* Every step leads to a step.
LEMMA StepsType == TypeOK /\ Next => pc' \in Steps
<1> SUFFICES ASSUME TypeOK, Next PROVE pc' \in Steps
  OBVIOUS
<1> USE DEF TypeOK, Steps, Goto, Return, Fail, holder
<1>1. CASE RecoveryStep
  BY <1>1 DEF RecoveryStep, Recover, Recovered, Match, ConfirmMatch, CleanTemp,
     CleanJournal, CleanupFails
<1>2. CASE RestoreStep
  BY <1>2 DEF RestoreStep, RestoreStop, RestoreRemove, RestoreRename,
     RestoreTemp, RestoreStart, RestoreConfirm, RestoreEnds
<1>3. CASE UpgradeStep
  BY <1>3 DEF UpgradeStep, Check, Download, Probe, GiveUp, WriteJournal,
     StopService, Resume, DropTemp, BackupBinary, ReplaceBinary, StartService,
     Confirm, Complete
<1> QED
  BY <1>1, <1>2, <1>3 DEF Next, Step, Begin, Crash, CoreStops, ServiceCheck,
     ServiceAct

\* What the lock holder remembers keeps its types.
LEMMA HolderType == TypeOK /\ Next => HolderOK'
<1> SUFFICES ASSUME TypeOK, Next PROVE HolderOK'
  OBVIOUS
<1> USE DEF TypeOK, HolderOK, WorldOK, FilesOK, Journals, Goto, Return, Fail,
        holder, Files
<1>1. CASE RecoveryStep
  BY <1>1 DEF RecoveryStep, Recover, Recovered, Match, ConfirmMatch, CleanTemp,
     CleanJournal, CleanupFails
<1>2. CASE RestoreStep
  BY <1>2 DEF RestoreStep, RestoreStop, RestoreRemove, RestoreRename,
     RestoreTemp, RestoreStart, RestoreConfirm, RestoreEnds
<1>3. CASE Check \/ (\E v \in Versions : Download(v)) \/ Probe \/ WriteJournal
  BY <1>3 DEF Check, Download, Probe, IsRunning, GiveUp, WriteJournal
<1>4. CASE StopService \/ Resume \/ DropTemp \/ BackupBinary \/ ReplaceBinary
          \/ StartService \/ Confirm \/ Complete
  BY <1>4 DEF StopService, Resume, DropTemp, BackupBinary, ReplaceBinary,
     StartService, Confirm, Complete
<1> QED
  BY <1>1, <1>2, <1>3, <1>4 DEF Next, Step, UpgradeStep, Begin, Crash,
     CoreStops, ServiceCheck, ServiceAct

\* The service, its commands and the counters keep their types.
LEMMA WorldType == TypeOK /\ Next => WorldOK'
<1> SUFFICES ASSUME TypeOK, Next PROVE WorldOK'
  OBVIOUS
<1> USE BoundsAssumption DEF TypeOK, FilesOK, WorldOK, Files, disk, others, Ok,
        Faulty, Start, Started, Stop, StartFails, StopFails
<1>1. CASE RecoveryStep
  BY <1>1 DEF RecoveryStep, Recover, Recovered, Match, ConfirmMatch, CleanTemp,
     CleanJournal, CleanupFails
<1>2. CASE RestoreStep
  BY <1>2 DEF RestoreStep, RestoreStop, RestoreRemove, RestoreRename,
     RestoreTemp, RestoreStart, RestoreConfirm, RestoreEnds
<1>3. CASE UpgradeStep
  BY <1>3 DEF UpgradeStep, Check, Download, Probe, GiveUp, WriteJournal,
     StopService, Resume, DropTemp, BackupBinary, ReplaceBinary, StartService,
     Confirm, Complete
<1>4. CASE Crash \/ CoreStops
  BY <1>4 DEF Crash, CoreStops
<1>5. CASE ServiceAct
  <2>1. wanted' \in BOOLEAN
    BY <1>5 DEF ServiceAct
  <2> QED
    BY <1>5, <2>1 DEF ServiceAct
<1>6. CASE \E o \in ServiceOps : ServiceCheck(o)
  BY <1>6 DEF ServiceCheck
<1>7. CASE \E o \in {"upgrade", "install"} : Begin(o)
  BY <1>7 DEF Begin
<1> QED
  BY <1>1, <1>2, <1>3, <1>4, <1>6, <1>7, <1>5 DEF Next, Step

\* Every step keeps every type.
LEMMA TypeStep == TypeOK /\ [Next]_vars => TypeOK'
<1>1. CASE UNCHANGED vars
  BY <1>1 DEF vars, disk, holder, others, TypeOK, FilesOK, HolderOK, WorldOK
<1>2. CASE Next
  BY <1>2, FilesType, StepsType, HolderType, WorldType DEF TypeOK
<1> QED
  BY <1>1, <1>2

\* Every variable keeps its type.
THEOREM TypeCorrect == Spec => []TypeOK
<1> QED
  BY TypeInit, TypeStep, PTL DEF Spec
-------------------------------------------------------------------------------
LEMMA UpgradeInit == Init => UpgradeInv
  BY VersionsAssumption DEF Init, NoJournal, UpgradeInv, PhaseInv, BinaryInv,
     StagingInv, Upgrading, Preparing, Untouched, Replacing, Matching,
     Restoring, RestoreEnding, Cleaning

\* Every step keeps the invariant.
LEMMA UpgradeInvStep == TypeOK /\ UpgradeInv /\ [Next]_vars => UpgradeInv'
<1> SUFFICES ASSUME TypeOK, UpgradeInv, [Next]_vars PROVE UpgradeInv'
  OBVIOUS
<1> USE VersionsAssumption DEF TypeOK, FilesOK, HolderOK, WorldOK, Files,
        Journals, UpgradeInv, PhaseInv, BinaryInv, StagingInv, Upgrading,
        Preparing, Untouched, Replacing, Matching, Restoring, RestoreEnding,
        Cleaning, disk, holder, others, Goto, Return, Fail
<1>a. CASE UNCHANGED vars
  BY <1>a DEF vars
<1>1. CASE Recover
  BY <1>1 DEF Recover, Recovered, Replaced, BackupMatches
<1>2. CASE Match
  BY <1>2 DEF Match
<1>3. CASE ConfirmMatch
  BY <1>3 DEF ConfirmMatch
<1>4. CASE CleanTemp
  BY <1>4 DEF CleanTemp, CleanedUp, Removed, CleanupFails
<1>5. CASE CleanJournal
  BY <1>5 DEF CleanJournal, NoJournal, Recovered, CleanupFails
<1>6. CASE RestoreStop
  BY <1>6 DEF RestoreStop, RestoreEnds
<1>7. CASE RestoreRemove
  BY <1>7 DEF RestoreRemove
<1>8. CASE RestoreRename
  BY <1>8 DEF RestoreRename
<1>9. CASE RestoreTemp
  BY <1>9 DEF RestoreTemp
<1>10. CASE RestoreStart
  BY <1>10 DEF RestoreStart, RestoreEnds
<1>11. CASE RestoreConfirm
  BY <1>11 DEF RestoreConfirm, RestoreEnds
<1>12. CASE Check
  BY <1>12 DEF Check
<1>13. CASE \E v \in Versions : Download(v)
  BY <1>13 DEF Download, GiveUp
<1>14. CASE Probe
  BY <1>14 DEF Probe, GiveUp
<1>15. CASE WriteJournal
  BY <1>15 DEF WriteJournal, GiveUp
<1>16. CASE StopService
  BY <1>16 DEF StopService
<1>17. CASE Resume
  BY <1>17 DEF Resume
<1>18. CASE DropTemp
  BY <1>18 DEF DropTemp
<1>19. CASE BackupBinary
  BY <1>19 DEF BackupBinary
<1>20. CASE ReplaceBinary
  BY <1>20 DEF ReplaceBinary, Moved, Removed
<1>21. CASE StartService
  BY <1>21 DEF StartService
<1>22. CASE Confirm
  BY <1>22 DEF Confirm
<1>23. CASE Complete
  BY <1>23 DEF Complete, Completed
<1>24. CASE Crash
  BY <1>24 DEF Crash
<1>25. CASE CoreStops
  BY <1>25 DEF CoreStops
<1>26. CASE ServiceAct
  BY <1>26 DEF ServiceAct
<1>27. CASE \E o \in {"upgrade", "install"} : Begin(o)
  BY <1>27 DEF Begin
<1>28. CASE \E o \in ServiceOps : ServiceCheck(o)
  BY <1>28 DEF ServiceCheck
<1> QED
  BY <1>a, <1>1, <1>2, <1>3, <1>4, <1>5, <1>6, <1>7, <1>8, <1>9, <1>10, <1>11,
     <1>12, <1>13, <1>14, <1>15, <1>16, <1>17, <1>18, <1>19, <1>20, <1>21,
     <1>22, <1>23, <1>24, <1>25, <1>26, <1>27, <1>28 DEF Next, Step,
     RecoveryStep, RestoreStep, UpgradeStep

\* What journal, binaries and next step say of each other holds in every
\* reachable state.
THEOREM UpgradeCorrect == Spec => []UpgradeInv
<1> QED
  BY UpgradeInit, UpgradeInvStep, TypeCorrect, PTL DEF Spec

\* The binary an upgrade found is in place or in the backup until the upgrade is
\* completed or undone, and no upgrade leaves an instance without a binary.
THEOREM OldBinaryKept == Spec => []OldBinaryIsKept
<1>1. UpgradeInv => OldBinaryIsKept
  BY DEF UpgradeInv, BinaryInv, OldBinaryIsKept, Settled
<1> QED
  BY <1>1, UpgradeCorrect, PTL
-------------------------------------------------------------------------------
\* The actions that change the journal.
LEMMA JournalStep ==
    ASSUME Next, journal' # journal
    PROVE  CleanJournal \/ WriteJournal \/ Complete
  BY DEF Next, Step, RecoveryStep, RestoreStep, UpgradeStep, disk, Recover,
     Match, ConfirmMatch, CleanTemp, RestoreStop, RestoreRemove, RestoreRename,
     RestoreTemp, RestoreStart, RestoreConfirm, Check, Download, Probe,
     StopService, Resume, DropTemp, BackupBinary, ReplaceBinary, StartService,
     Confirm, Begin, Crash, CoreStops, ServiceCheck, ServiceAct

\* The actions that change the binary.
LEMMA BinaryStep ==
    ASSUME Next, binary' # binary
    PROVE  RestoreRemove \/ RestoreRename \/ BackupBinary \/ ReplaceBinary
  BY DEF Next, Step, RecoveryStep, RestoreStep, UpgradeStep, disk, Recover,
     Match, ConfirmMatch, CleanTemp, CleanJournal, RestoreStop, RestoreTemp,
     RestoreStart, RestoreConfirm, Check, Download, Probe, WriteJournal,
     StopService, Resume, DropTemp, StartService, Confirm, Complete, Begin,
     Crash, CoreStops, ServiceCheck, ServiceAct

\* Only the step that records an upgrade as completed changes the version the
\* instance has.
THEOREM UpgradesAtomic == Spec => UpgradesAreAtomic
<1> DEFINE A == Installed' # Installed => /\ journal.state = "in-progress"
                                          /\ journal'.state = "completed"
                                          /\ Upgrading /\ binary = target
<1>1. ASSUME TypeOK, UpgradeInv, Next PROVE A
  <2> SUFFICES ASSUME Installed' # Installed
               PROVE  /\ journal.state = "in-progress"
                      /\ journal'.state = "completed"
                      /\ Upgrading /\ binary = target
    OBVIOUS
  <2> USE <1>1 DEF Installed, UpgradeInv, PhaseInv, BinaryInv, TypeOK, FilesOK,
          Journals, Files
  <2>1. CASE CleanJournal
    BY <2>1 DEF CleanJournal, NoJournal, Cleaning
  <2>2. CASE WriteJournal
    BY <2>2 DEF WriteJournal, Preparing
  <2>3. CASE Complete
    BY <2>3 DEF Complete, Completed, Replacing
  <2>4. CASE RestoreRemove \/ RestoreRename \/ BackupBinary \/ ReplaceBinary
    BY <2>4 DEF RestoreRemove, RestoreRename, BackupBinary, ReplaceBinary,
       Restoring, Untouched
  <2> QED
    BY <2>1, <2>2, <2>3, <2>4, JournalStep, BinaryStep
<1>2. TypeOK /\ UpgradeInv /\ [Next]_vars => [A]_vars
  BY <1>1
<1> QED
  BY <1>2, TypeCorrect, UpgradeCorrect, PTL DEF Spec, UpgradesAreAtomic

\* Success is what the last step of the clean-up of a completed upgrade answers.
THEOREM SuccessIsInstalled == Spec => SuccessMeansInstalled
<1> DEFINE A == pc # "idle" /\ pc' = "idle" /\ result' = "success"
                => /\ binary' = target /\ journal'.state = "none"
                   /\ target \notin temp'
<1>1. ASSUME TypeOK, UpgradeInv, Next PROVE A
  <2> SUFFICES ASSUME pc # "idle", pc' = "idle", result' = "success"
               PROVE  /\ binary' = target /\ journal'.state = "none"
                      /\ target \notin temp'
    OBVIOUS
  <2>1. CleanJournal /\ Upgrading
    BY <1>1 DEF Next, Step, RecoveryStep, RestoreStep, UpgradeStep, Recover,
       Recovered, Match, ConfirmMatch, CleanTemp, CleanJournal, CleanupFails,
       RestoreStop, RestoreRemove, RestoreRename, RestoreTemp, RestoreStart,
       RestoreConfirm, RestoreEnds, Check, Download, GiveUp, Probe,
       WriteJournal, StopService, Resume, DropTemp, BackupBinary,
       ReplaceBinary, StartService, Confirm, Complete, Begin, Crash, CoreStops,
       ServiceCheck, ServiceAct, holder, Goto, Fail, Return
  <2> QED
    BY <1>1, <2>1 DEF CleanJournal, CleanupFails, Return, Fail, NoJournal,
       UpgradeInv, PhaseInv, BinaryInv, StagingInv, Cleaning
<1>2. TypeOK /\ UpgradeInv /\ [Next]_vars => [A]_vars
  BY <1>1
<1> QED
  BY <1>2, TypeCorrect, UpgradeCorrect, PTL DEF Spec, SuccessMeansInstalled

\* The journal is removed after the staging file it names.
THEOREM StagingFirst == Spec => StagingGoesFirst
<1> DEFINE A == journal.state # "none" /\ journal'.state = "none"
                => journal.temp \notin temp
<1>1. ASSUME TypeOK, UpgradeInv, Next PROVE A
  <2>1. CASE CleanJournal
    BY <1>1, <2>1 DEF CleanJournal, UpgradeInv, StagingInv
  <2>2. CASE WriteJournal \/ Complete
    BY <1>1, <2>2 DEF WriteJournal, Complete, Completed, TypeOK, FilesOK,
       Journals
  <2> QED
    BY <1>1, <2>1, <2>2, JournalStep
<1>2. TypeOK /\ UpgradeInv /\ [Next]_vars => [A]_vars
  BY <1>1
<1> QED
  BY <1>2, TypeCorrect, UpgradeCorrect, PTL DEF Spec, StagingGoesFirst
-------------------------------------------------------------------------------
\* Where nothing can be running: the service is stopped, and not started yet.
Stopped == {"backup", "replace", "restoreRemove", "restoreRename",
            "restoreTemp", "restoreStart"}

\* Where the lock holder, if it has to, knows whether a core ran before.
Knowing == {"journal", "replace"} \cup Untouched \cup Replacing \cup Matching
             \cup Restoring \cup RestoreEnding

\* Left alone, a running core is the installed binary at every step.  Whether one
\* ran before is in the journal, and known to the lock holder, while the service
\* may differ from it; where the journal may go, the service no longer does.
ServiceInv ==
    alone =>
        /\ asked = "none"
        /\ IsRunning => running = binary
        /\ pc \in Stopped => ~IsRunning
        /\ journal.state = "in-progress" => journal.was = wanted
        /\ pc \in Knowing => was = wanted
        /\ pc = "confirm" => wanted
        /\ journal.state # "in-progress" \/ pc \in {"complete"} \cup Cleaning
              => IsRunning = wanted

\* In the beginning a running core is the installed one.
LEMMA ServiceInit == MCInit => ServiceInv
  BY DEF MCInit, Init, ServiceInv, Stopped, Knowing, Untouched, Replacing,
     Matching, Restoring, RestoreEnding, Cleaning, NoJournal, IsRunning

\* What the lock holder does to the service.
LEMMA ServiceStep ==
    TypeOK /\ UpgradeInv /\ ServiceInv /\ [MCNext]_<<vars, alone>>
        => ServiceInv'
<1> SUFFICES ASSUME TypeOK, UpgradeInv, ServiceInv, alone',
                    [MCNext]_<<vars, alone>>
             PROVE  ServiceInv'
  BY DEF ServiceInv
<1>0. /\ alone /\ asked = "none" /\ asked' = "none"
      /\ [Next]_vars /\ (CoreStops => UNCHANGED vars)
  <2>1. CASE MCNext
    <3>1. Next /\ alone /\ asked' = "none" /\ ~CoreStops
      BY <2>1, Zenon DEF MCNext
    <3> QED
      BY <3>1 DEF ServiceInv
  <2>2. CASE UNCHANGED <<vars, alone>>
    BY <2>2 DEF ServiceInv, vars, others
  <2> QED
    BY <2>1, <2>2
<1>t. /\ wanted \in BOOLEAN /\ was \in BOOLEAN /\ journal \in Journals
      /\ binary \in Files /\ backup \in Files /\ target \in Files
  BY DEF TypeOK, FilesOK, HolderOK, WorldOK
<1> USE DEF ServiceInv, Stopped, Knowing, Preparing, Untouched, Replacing,
        Matching, Restoring, RestoreEnding, Cleaning, UpgradeInv, PhaseInv,
        BinaryInv, IsRunning, disk, holder, others, Goto, Return, Fail, Ok
<1>1. CASE Recover
  BY <1>0, <1>t, <1>1 DEF Recover, Recovered, Replaced, BackupMatches
<1>2. CASE Match
  BY <1>0, <1>t, <1>2 DEF Match, ServiceMatches, Start, Stop, StartFails,
     StopFails, Started
<1>3. CASE ConfirmMatch
  BY <1>0, <1>t, <1>3 DEF ConfirmMatch, ServiceMatches
<1>4. CASE CleanTemp
  BY <1>0, <1>t, <1>4 DEF CleanTemp, CleanupFails
<1>5. CASE CleanJournal
  BY <1>0, <1>t, <1>5 DEF CleanJournal, CleanupFails, Recovered, NoJournal
<1>6. CASE RestoreStop
  BY <1>0, <1>t, <1>6 DEF RestoreStop, RestoreEnds, Stop, StopFails
<1>7. CASE RestoreRemove \/ RestoreRename \/ RestoreTemp
  BY <1>0, <1>t, <1>7 DEF RestoreRemove, RestoreRename, RestoreTemp
<1>8. CASE RestoreStart
  BY <1>0, <1>t, <1>8 DEF RestoreStart, RestoreEnds, Start, StartFails, Started
<1>9. CASE RestoreConfirm
  BY <1>0, <1>t, <1>9 DEF RestoreConfirm, RestoreEnds, ServiceMatches
<1>10. CASE Check \/ (\E v \in Versions : Download(v)) \/ Probe
  BY <1>0, <1>t, <1>10 DEF Check, Download, Probe, GiveUp
<1>11. CASE WriteJournal
  BY <1>0, <1>t, <1>11 DEF WriteJournal, GiveUp
<1>12. CASE StopService
  BY <1>0, <1>t, <1>12 DEF StopService, Stop, StopFails
<1>13. CASE Resume
  BY <1>0, <1>t, <1>13 DEF Resume, Start, StartFails, Started
<1>14. CASE DropTemp \/ BackupBinary \/ ReplaceBinary
  BY <1>0, <1>t, <1>14 DEF DropTemp, BackupBinary, ReplaceBinary, Moved
<1>15. CASE StartService
  BY <1>0, <1>t, <1>15 DEF StartService, Start, StartFails, Started
<1>16. CASE Confirm
  BY <1>0, <1>t, <1>16 DEF Confirm
<1>17. CASE Complete
  BY <1>0, <1>t, <1>17 DEF Complete, Completed, Journals
<1>18. CASE Crash
  BY <1>0, <1>t, <1>18 DEF Crash
<1>19. CASE ServiceAct \/ (\E o \in ServiceOps : ServiceCheck(o))
  BY <1>0, <1>19, ServiceAssumption DEF ServiceAct, ServiceCheck
<1>20. CASE \E o \in {"upgrade", "install"} : Begin(o)
  BY <1>0, <1>t, <1>20 DEF Begin
<1>21. CASE UNCHANGED vars
  BY <1>0, <1>t, <1>21 DEF vars
<1> QED
  BY <1>0, <1>1, <1>2, <1>3, <1>4, <1>5, <1>6, <1>7, <1>8, <1>9, <1>10, <1>11,
     <1>12, <1>13, <1>14, <1>15, <1>16, <1>17, <1>18, <1>19, <1>20, <1>21 DEF
     Next, Step, RecoveryStep, RestoreStep, UpgradeStep
\* What remembers whether the upgrade is alone changes no step of it.
LEMMA MCUpgrade == MCSpec => [](TypeOK /\ UpgradeInv)
<1>1. MCInit => TypeOK /\ UpgradeInv
  BY TypeInit, UpgradeInit DEF MCInit
<1>2. TypeOK /\ UpgradeInv /\ [MCNext]_<<vars, alone>> => (TypeOK /\ UpgradeInv)'
  BY TypeStep, UpgradeInvStep DEF MCNext
<1> QED
  BY <1>1, <1>2, PTL DEF MCSpec

(***************************************************************************)
(* Left alone, an instance with nothing to recover runs if it ran before   *)
(* and only then, and runs the binary it has, whatever failed or crashed,  *)
(* however often, and however many upgrades there were                     *)
(* (lifecycle_transaction.go:69-131, lifecycle_impl.go:565-785).           *)
(***************************************************************************)
THEOREM RunsAsBefore == MCSpec => []RunsAsBeforeAlone
<1>1. ServiceInv => RunsAsBeforeAlone
  BY DEF ServiceInv, RunsAsBeforeAlone, ServiceIsRestored, RunsWhatIsInstalled,
     Settled
<1> QED
  BY <1>1, ServiceInit, ServiceStep, MCUpgrade, PTL DEF MCSpec
===============================================================================
