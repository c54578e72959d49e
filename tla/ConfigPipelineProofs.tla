------------------------- MODULE ConfigPipelineProofs -------------------------
(***************************************************************************)
(* Proofs about ConfigPipeline, for any set of subscription contents, any  *)
(* set of operations and any bounds.                                       *)
(*                                                                         *)
(* TransactionInv is the inductive strengthening of ReportNamesConfig: it  *)
(* says, for each place the lock holder can be at, which journal is on     *)
(* disk, that the backup, the staged file and the config it will put in    *)
(* place are the right ones, and what it is about to report.  LiveInv adds *)
(* what the core has loaded.                                               *)
(*                                                                         *)
(* RefinementInv says which operation is at which step, that the attempt   *)
(* under way is later than all others, and where the current subscription  *)
(* is; with it, every step of the pipeline is a step of AtomicConfig or    *)
(* leaves unchanged what the files amount to.  LeakInv and SourcesInv say  *)
(* what the operations leave on disk: nothing of an attempt when no step   *)
(* fails, and, of SetSubscriptionSource, a source that can be used or the  *)
(* files it found.                                                         *)
(***************************************************************************)
EXTENDS ConfigPipeline, TLAPS

\* The values variables start from are of their kinds.
LEMMA Constants ==
    /\ NoStatus \in Statuses
    /\ NoTx \in Transactions
    /\ NoSnap \in [sub : Subscriptions, url : Urls, marker : Markers]
  BY DEF NoStatus, Statuses, ApplyStates, Subscriptions, NoTx, Transactions,
         JournalStates, NoSnap, Urls, Markers

\* A step that keeps the lock and moves on keeps the types of the memory.
LEMMA Moved ==
    ASSUME HolderOK, pc' \in Steps, UNCHANGED op, snap' = snap,
           mode' = mode \/ mode' \in {"rollback", "commit"},
           tx' = tx \/ tx' \in Transactions,
           bad' = bad \/ bad' \in BOOLEAN,
           outcome' = outcome \/ outcome' \in ApplyStates
    PROVE  HolderOK'
  BY DEF HolderOK

\* Giving up the lock leaves the memory as Init found it.
LEMMA Released == Release => HolderOK'
  BY Constants DEF Release, HolderOK, Steps, ApplyStates

\* So does the end of prepareLocked.
LEMMA PreparedType == ASSUME HolderOK, Prepared PROVE HolderOK'
<1>1. CASE op = "validate" /\ Release
  BY <1>1, Released
<1>2. CASE op # "validate" /\ ~Release
  <2>1. pc' \in Steps
    BY <1>2 DEF Prepared, Goto, Steps
  <2> QED
    BY <1>2, <2>1, Moved, Constants DEF Prepared
<1> QED
  BY <1>1, <1>2, Released DEF Prepared

\* A cut short write leaves a value of the file's kind.
LEMMA TearsType ==
    ASSUME FilesOK
    PROVE  /\ CfgTears \subseteq Contents /\ SubTears \subseteq Subscriptions
           /\ UrlTears \subseteq Urls /\ MarkerTears \subseteq Markers
  BY DEF FilesOK, CfgTears, SubTears, UrlTears, MarkerTears, Contents,
         Subscriptions, Urls, Markers

\* Faults are counted in the naturals.
LEMMA FaultsType ==
    ASSUME WorldOK, Ok \/ Faulty PROVE faults' \in Nat
  BY DEF WorldOK, Ok, Faulty

\* Removing the staging directory keeps types.
LEMMA RemoveStagingType ==
    ASSUME FilesOK, RemoveStaging
    PROVE  /\ staged' \in Contents /\ cand' \in Subscriptions
           /\ Ok \/ Faulty
  BY DEF FilesOK, RemoveStaging, Contents, Subscriptions

\* What is rendered, and what comes out of it.
LEMMA SourceType ==
    ASSUME FilesOK
    PROVE  Source \in Subscriptions /\ Render(Source) \in Contents
  BY DEF FilesOK, Source, Render, Contents, Subscriptions

\* Status and journal together make a status.
LEMMA ResolvedType ==
    ASSUME NEW s \in Statuses, NEW j \in Transactions
    PROVE  Resolved(s, j) \in Statuses
  BY DEF Resolved, Transactions

\* Updates of the transaction record stay transactions.
LEMMA TxType ==
    ASSUME HolderOK
    PROVE  /\ tx.pending \in Statuses /\ tx.pending.data \in Subscriptions
           /\ \A s \in JournalStates : [tx EXCEPT !.state = s] \in Transactions
           /\ \A b \in BOOLEAN : [tx EXCEPT !.subStaged = b] \in Transactions
           /\ \A b, c \in BOOLEAN :
                [tx EXCEPT !.cfgExisted = b, !.subExisted = c] \in Transactions
           /\ \A p \in Statuses : [tx EXCEPT !.pending = p] \in Transactions
           /\ \A st \in ApplyStates :
                [tx.pending EXCEPT !.state = st] \in Statuses
  BY DEF HolderOK, Transactions, Statuses

\* A journal that is written is a transaction.
LEMMA JournalType ==
    ASSUME HolderOK, NEW s \in JournalStates, NEW next \in Steps,
           Journal(s, next), mode' \in {mode, "commit"}
    PROVE  HolderOK' /\ journal' \in Transactions /\ Ok
<1>1. tx' \in Transactions
  BY TxType DEF Journal
<1> QED
  BY <1>1, Moved DEF Journal, Goto

\* Every step keeps every type.
LEMMA TypeStep == TypeOK /\ [Next]_vars => TypeOK'
<1> SUFFICES ASSUME TypeOK, [Next]_vars PROVE TypeOK'
    OBVIOUS
<1> USE DEF TypeOK
<1>a. CASE \E o \in Ops : Begin(o)
  <2>1. FilesOK' /\ WorldOK'
    BY <1>a DEF FilesOK, WorldOK, Begin, files, subFiles, scratch, reader
  <2>2. HolderOK'
    BY <1>a, OpsAssumption DEF HolderOK, Begin, Goto, Steps, AllOps
  <2> QED
    BY <2>1, <2>2
<1>b. CASE UNCHANGED vars
  BY <1>b DEF vars, files, subFiles, scratch, holder, reader, FilesOK, HolderOK,
              WorldOK
<1>1. CASE RecoverNothing
  <2>1. FilesOK'
    BY <1>1 DEF RecoverNothing, FilesOK, files, subFiles, scratch
  <2>2. HolderOK'
    BY <1>1, PreparedType DEF RecoverNothing
  <2>3. WorldOK'
    BY <1>1, FaultsType DEF RecoverNothing, WorldOK, reader
  <2> QED
    BY <2>1, <2>2, <2>3
<1>2. CASE RecoverCommitted
  <2>1. FilesOK'
    BY <1>2, ResolvedType DEF RecoverCommitted, FilesOK, files, subFiles,
       scratch, Reported
  <2>2. HolderOK'
    BY <1>2, Moved, Released DEF RecoverCommitted, Goto, Steps, FilesOK
  <2>3. WorldOK'
    BY <1>2, FaultsType DEF RecoverCommitted, WorldOK, reader
  <2> QED
    BY <2>1, <2>2, <2>3
<1>3. CASE RecoverUncommitted
  <2>1. FilesOK'
    BY <1>3 DEF RecoverUncommitted, FilesOK, files, subFiles, scratch
  <2>2. HolderOK'
    BY <1>3, Moved DEF RecoverUncommitted, Goto, Steps, FilesOK
  <2>3. WorldOK'
    BY <1>3, FaultsType DEF RecoverUncommitted, WorldOK, reader
  <2> QED
    BY <2>1, <2>2, <2>3
<1>4. CASE RecoverFails
  <2>1. FilesOK'
    BY <1>4 DEF RecoverFails, FilesOK, files, subFiles, scratch
  <2>2. HolderOK'
    BY <1>4, Released DEF RecoverFails
  <2>3. WorldOK'
    BY <1>4, FaultsType DEF RecoverFails, WorldOK, reader
  <2> QED
    BY <2>1, <2>2, <2>3
<1>5. CASE RestoreConfig
  <2>1. FilesOK'
    BY <1>5, TearsType DEF RestoreConfig, FilesOK, files, subFiles, scratch,
       Contents, Subscriptions
  <2>2. HolderOK'
    BY <1>5, Moved DEF RestoreConfig, AfterConfig, AfterRestore, Goto,
       Steps, HolderOK
  <2>3. WorldOK'
    BY <1>5, FaultsType DEF RestoreConfig, WorldOK, reader
  <2> QED
    BY <2>1, <2>2, <2>3
<1>6. CASE RestoreSubscription
  <2>1. FilesOK'
    BY <1>6, TearsType DEF RestoreSubscription, FilesOK, files, subFiles,
       scratch, Contents, Subscriptions
  <2>2. HolderOK'
    BY <1>6, Moved DEF RestoreSubscription, AfterRestore, Goto, Steps,
       HolderOK
  <2>3. WorldOK'
    BY <1>6, FaultsType DEF RestoreSubscription, WorldOK, reader
  <2> QED
    BY <2>1, <2>2, <2>3
<1>7. CASE RestoreFailed
  <2>1. FilesOK'
    BY <1>7, RemoveStagingType DEF RestoreFailed, FilesOK, files, subFiles,
       scratch
  <2>2. HolderOK'
    BY <1>7, Moved, Released DEF RestoreFailed, Goto, Stay, Steps
  <2>3. WorldOK'
    BY <1>7, FaultsType, RemoveStagingType DEF RestoreFailed, WorldOK,
       reader
  <2> QED
    BY <2>1, <2>2, <2>3
<1>8. CASE CleanStaging
  <2>1. FilesOK'
    BY <1>8, RemoveStagingType DEF CleanStaging, FilesOK, files, subFiles,
       scratch
  <2>2. HolderOK'
    BY <1>8, Moved DEF CleanStaging, Goto, Steps
  <2>3. WorldOK'
    BY <1>8, FaultsType, RemoveStagingType DEF CleanStaging, WorldOK, reader
  <2> QED
    BY <2>1, <2>2, <2>3
<1>9. CASE CleanBackup
  <2>1. FilesOK'
    BY <1>9 DEF CleanBackup, FilesOK, files, subFiles, scratch,
       Subscriptions
  <2>2. HolderOK'
    BY <1>9, Moved DEF CleanBackup, Goto, Steps
  <2>3. WorldOK'
    BY <1>9, FaultsType DEF CleanBackup, WorldOK, reader
  <2> QED
    BY <2>1, <2>2, <2>3
<1>10. CASE CleanMarker
  <2>1. FilesOK'
    BY <1>10, Constants DEF CleanMarker, FilesOK, files, subFiles, scratch
  <2>2. HolderOK'
    BY <1>10, Moved, Released, PreparedType DEF CleanMarker, Goto, Stay,
       Steps
  <2>3. WorldOK'
    BY <1>10, FaultsType DEF CleanMarker, WorldOK, reader
  <2> QED
    BY <2>1, <2>2, <2>3
<1>11. CASE ResolveSource
  <2>1. FilesOK'
    BY <1>11, TearsType DEF ResolveSource, FilesOK, files, subFiles,
       scratch, SourceResults, Markers
  <2>2. HolderOK'
    BY <1>11, Moved, Released DEF ResolveSource, Resolves, Goto, Stay, Steps
  <2>3. WorldOK'
    BY <1>11, FaultsType DEF ResolveSource, WorldOK, reader
  <2> QED
    BY <2>1, <2>2, <2>3
<1>12. CASE Download
  <2>1. FilesOK'
    BY <1>12 DEF Download, FilesOK, files, subFiles, scratch, Contents,
       Subscriptions
  <2>2. HolderOK'
    BY <1>12, Moved, Released, TxType DEF Download, GivesUp, Goto, Stay,
       Steps
  <2>3. WorldOK'
    BY <1>12, FaultsType DEF Download, WorldOK, reader
  <2> QED
    BY <2>1, <2>2, <2>3
<1>13. CASE StoreFetched
  <2>1. FilesOK'
    BY <1>13 DEF StoreFetched, FilesOK, files, subFiles, scratch,
       Subscriptions
  <2>2. HolderOK'
    BY <1>13, Released DEF StoreFetched
  <2>3. WorldOK'
    BY <1>13, FaultsType DEF StoreFetched, WorldOK, reader
  <2> QED
    BY <2>1, <2>2, <2>3
<1>14. CASE Stage
  <2>1. FilesOK'
    BY <1>14, SourceType, RemoveStagingType DEF Stage, FilesOK, files,
       subFiles, scratch
  <2>2. HolderOK'
    BY <1>14, Moved, TxType, SourceType DEF Stage, WorldOK, Statuses,
       ApplyStates, Goto, Steps
  <2>3. WorldOK'
    BY <1>14, FaultsType, RemoveStagingType DEF Stage, WorldOK, reader
  <2> QED
    BY <2>1, <2>2, <2>3
<1>15. CASE Validate
  <2>1. FilesOK'
    BY <1>15, RemoveStagingType DEF Validate, FilesOK, files, subFiles,
       scratch
  <2>2. HolderOK'
    BY <1>15, Moved DEF Validate, Goto, Steps, ApplyStates
  <2>3. WorldOK'
    BY <1>15, FaultsType, RemoveStagingType DEF Validate, WorldOK, reader
  <2> QED
    BY <2>1, <2>2, <2>3
<1>16. CASE Backup
  <2>1. FilesOK'
    BY <1>16 DEF Backup, FilesOK, files, subFiles, scratch, Contents,
       Subscriptions
  <2>2. HolderOK'
    BY <1>16, Moved, TxType DEF Backup, Goto, Steps, HolderOK, Transactions
  <2>3. WorldOK'
    BY <1>16, FaultsType DEF Backup, WorldOK, reader
  <2> QED
    BY <2>1, <2>2, <2>3
<1>17. CASE Abort
  <2>1. FilesOK'
    BY <1>17, RemoveStagingType DEF Abort, FilesOK, files, subFiles,
       scratch, Subscriptions
  <2>2. HolderOK'
    BY <1>17, Moved DEF Abort, Goto, Stay, Steps
  <2>3. WorldOK'
    BY <1>17, FaultsType, RemoveStagingType DEF Abort, WorldOK, reader
  <2> QED
    BY <2>1, <2>2, <2>3
<1>18. CASE JournalPrepared
  <2>1. FilesOK'
    BY <1>18, JournalType DEF JournalPrepared, FilesOK, files, subFiles,
       scratch, JournalStates, Steps
  <2>2. HolderOK'
    BY <1>18, Moved, JournalType DEF JournalPrepared, JournalStates,
       Rollback, Goto, Stay, Steps
  <2>3. WorldOK'
    BY <1>18, FaultsType, JournalType DEF JournalPrepared, WorldOK, reader,
       JournalStates, Steps
  <2> QED
    BY <2>1, <2>2, <2>3
<1>19. CASE CommitConfig
  <2>1. FilesOK'
    BY <1>19 DEF CommitConfig, FilesOK, files, subFiles, scratch, Contents,
       Subscriptions
  <2>2. HolderOK'
    BY <1>19, Moved DEF CommitConfig, Rollback, Goto, Stay, Steps
  <2>3. WorldOK'
    BY <1>19, FaultsType DEF CommitConfig, WorldOK, reader
  <2> QED
    BY <2>1, <2>2, <2>3
<1>20. CASE JournalConfigCommitted
  <2>1. FilesOK'
    BY <1>20, JournalType DEF JournalConfigCommitted, FilesOK, files,
       subFiles, scratch, JournalStates, Steps
  <2>2. HolderOK'
    BY <1>20, Moved, JournalType DEF JournalConfigCommitted, JournalStates,
       Rollback, Goto, Stay, Steps
  <2>3. WorldOK'
    BY <1>20, FaultsType, JournalType DEF JournalConfigCommitted, WorldOK,
       reader, JournalStates, Steps
  <2> QED
    BY <2>1, <2>2, <2>3
<1>21. CASE CommitSubscription
  <2>1. FilesOK'
    BY <1>21 DEF CommitSubscription, FilesOK, files, subFiles, scratch,
       Subscriptions
  <2>2. HolderOK'
    BY <1>21, Moved DEF CommitSubscription, Rollback, Goto, Stay, Steps
  <2>3. WorldOK'
    BY <1>21, FaultsType DEF CommitSubscription, WorldOK, reader
  <2> QED
    BY <2>1, <2>2, <2>3
<1>22. CASE JournalCommitted
  <2>1. FilesOK'
    BY <1>22, JournalType DEF JournalCommitted, FilesOK, files, subFiles,
       scratch, JournalStates, Steps
  <2>2. HolderOK'
    BY <1>22, Moved, JournalType DEF JournalCommitted, JournalStates,
       Rollback, Goto, Stay, Steps
  <2>3. WorldOK'
    BY <1>22, FaultsType, JournalType DEF JournalCommitted, WorldOK, reader,
       JournalStates, Steps
  <2> QED
    BY <2>1, <2>2, <2>3
<1>23. CASE RecordPending
  <2>1. FilesOK'
    BY <1>23, TxType DEF RecordPending, FilesOK, files, subFiles, scratch
  <2>2. HolderOK'
    BY <1>23, Moved, Released DEF RecordPending, Goto, Stay, Steps
  <2>3. WorldOK'
    BY <1>23, FaultsType DEF RecordPending, WorldOK, reader
  <2> QED
    BY <2>1, <2>2, <2>3
<1>24. CASE Reload
  <2>1. FilesOK'
    BY <1>24 DEF Reload, FilesOK, files, subFiles, scratch
  <2>2. HolderOK'
    BY <1>24, Moved DEF Reload, ReloadState, Goto, Steps, ApplyStates
  <2>3. WorldOK'
    BY <1>24, FaultsType DEF Reload, WorldOK, reader, files, FilesOK
  <2> QED
    BY <2>1, <2>2, <2>3
<1>25. CASE RecordOutcome
  <2>1. FilesOK'
    BY <1>25, TxType DEF RecordOutcome, FilesOK, files, subFiles, scratch,
       HolderOK
  <2>2. HolderOK'
    BY <1>25, Moved, Released DEF RecordOutcome, Goto, Stay, Steps
  <2>3. WorldOK'
    BY <1>25, FaultsType DEF RecordOutcome, WorldOK, reader
  <2> QED
    BY <2>1, <2>2, <2>3
<1>26. CASE RemoveJournal
  <2>1. FilesOK'
    BY <1>26, Constants DEF RemoveJournal, FilesOK, files, subFiles, scratch
  <2>2. HolderOK'
    BY <1>26, Released DEF RemoveJournal
  <2>3. WorldOK'
    BY <1>26, FaultsType DEF RemoveJournal, WorldOK, reader
  <2> QED
    BY <2>1, <2>2, <2>3
<1>27. CASE RecordFailure
  <2>1. FilesOK'
    <3>1. [state |-> outcome, at |-> clock, data |-> tx.pending.data]
             \in Statuses
      BY TxType DEF HolderOK, WorldOK, Statuses
    <3>2. status' \in Statuses
      BY <1>27, <3>1 DEF RecordFailure, FilesOK
    <3> QED
      BY <1>27, <3>2 DEF RecordFailure, FilesOK, subFiles, scratch
  <2>2. HolderOK'
    BY <1>27, Released DEF RecordFailure
  <2>3. WorldOK'
    BY <1>27, FaultsType DEF RecordFailure, WorldOK, reader
  <2> QED
    BY <2>1, <2>2, <2>3
<1>28. CASE SetFirst
  <2>1. FilesOK'
    BY <1>28, TearsType DEF SetFirst, FilesOK, files, subFiles, scratch,
       Subscriptions, Urls
  <2>2. HolderOK'
    <3>1. snap' = [sub |-> sub, url |-> url, marker |-> marker]
      BY <1>28 DEF SetFirst, Undo
    <3>2. snap' \in [sub : Subscriptions, url : Urls, marker : Markers]
      BY <3>1 DEF FilesOK
    <3>3. /\ pc' \in Steps
          /\ UNCHANGED <<op, mode, tx, bad, outcome>>
      BY <1>28 DEF SetFirst, Undo, UndoFrom, Goto, Steps
    <3> QED
      BY <3>2, <3>3 DEF HolderOK
  <2>3. WorldOK'
    BY <1>28, FaultsType DEF SetFirst, WorldOK, reader
  <2> QED
    BY <2>1, <2>2, <2>3
<1>29. CASE SetSecond
  <2>1. FilesOK'
    BY <1>29 DEF SetSecond, FilesOK, files, subFiles, scratch, ClearOther,
       Subscriptions, Urls
  <2>2. HolderOK'
    BY <1>29, Moved, Released DEF SetSecond, Undo, UndoFrom, Goto, Stay,
       Steps
  <2>3. WorldOK'
    BY <1>29, FaultsType DEF SetSecond, WorldOK, reader
  <2> QED
    BY <2>1, <2>2, <2>3
<1>30. CASE SetMarker
  <2>1. FilesOK'
    BY <1>30, TearsType DEF SetMarker, FilesOK, files, subFiles, scratch,
       Markers
  <2>2. HolderOK'
    BY <1>30, Moved, Released DEF SetMarker, Undo, UndoFrom, Goto, Stay,
       Steps
  <2>3. WorldOK'
    BY <1>30, FaultsType DEF SetMarker, WorldOK, reader
  <2> QED
    BY <2>1, <2>2, <2>3
<1>31. CASE UndoData
  <2>1. FilesOK'
    BY <1>31, TearsType DEF UndoData, FilesOK, files, subFiles, scratch,
       HolderOK
  <2>2. HolderOK'
    BY <1>31, Moved DEF UndoData, Goto, Stay, Steps
  <2>3. WorldOK'
    BY <1>31, FaultsType DEF UndoData, WorldOK, reader
  <2> QED
    BY <2>1, <2>2, <2>3
<1>32. CASE UndoUrl
  <2>1. FilesOK'
    BY <1>32, TearsType DEF UndoUrl, FilesOK, files, subFiles, scratch,
       HolderOK
  <2>2. HolderOK'
    BY <1>32, Moved DEF UndoUrl, Goto, Stay, Steps
  <2>3. WorldOK'
    BY <1>32, FaultsType DEF UndoUrl, WorldOK, reader
  <2> QED
    BY <2>1, <2>2, <2>3
<1>33. CASE UndoMarker
  <2>1. FilesOK'
    BY <1>33, TearsType DEF UndoMarker, FilesOK, files, subFiles, scratch,
       HolderOK
  <2>2. HolderOK'
    BY <1>33, Released DEF UndoMarker
  <2>3. WorldOK'
    BY <1>33, FaultsType DEF UndoMarker, WorldOK, reader
  <2> QED
    BY <2>1, <2>2, <2>3
<1>34. CASE Crash
  <2>1. FilesOK'
    BY <1>34, TearsType DEF Crash, FilesOK, files, subFiles, scratch
  <2>2. HolderOK'
    BY <1>34, Released DEF Crash
  <2>3. WorldOK'
    BY <1>34, FaultsType DEF Crash, WorldOK, reader
  <2> QED
    BY <2>1, <2>2, <2>3
<1>35. CASE CoreRestarts
  <2>1. FilesOK'
    BY <1>35 DEF CoreRestarts, FilesOK, files, subFiles, scratch
  <2>2. HolderOK'
    BY <1>35 DEF CoreRestarts, holder, HolderOK
  <2>3. WorldOK'
    BY <1>35, FaultsType DEF CoreRestarts, WorldOK, reader, files, FilesOK
  <2> QED
    BY <2>1, <2>2, <2>3
<1>36. CASE ReadStatus
  <2>1. FilesOK'
    BY <1>36 DEF ReadStatus, FilesOK, files, subFiles, scratch
  <2>2. HolderOK'
    BY <1>36 DEF ReadStatus, holder, HolderOK
  <2>3. WorldOK'
    BY <1>36, FaultsType, ResolvedType DEF ReadStatus, WorldOK, reader,
       Reported, FilesOK, Statuses
  <2> QED
    BY <2>1, <2>2, <2>3
<1>37. CASE ReadJournal
  <2>1. FilesOK'
    BY <1>37 DEF ReadJournal, FilesOK, files, subFiles, scratch
  <2>2. HolderOK'
    BY <1>37 DEF ReadJournal, holder, HolderOK
  <2>3. WorldOK'
    BY <1>37, FaultsType, Constants DEF ReadJournal, WorldOK, reader
  <2> QED
    BY <2>1, <2>2, <2>3
<1> QED
  BY <1>a, <1>b, <1>1, <1>2, <1>3, <1>4, <1>5, <1>6, <1>7, <1>8, <1>9, <1>10, <1>11, <1>12, <1>13, <1>14, <1>15, <1>16, <1>17, <1>18, <1>19, <1>20, <1>21, <1>22, <1>23, <1>24, <1>25, <1>26, <1>27, <1>28, <1>29, <1>30, <1>31, <1>32, <1>33, <1>34, <1>35, <1>36, <1>37 DEF Next, Step, Recovery, Apply, SetSource

\* Every variable starts with its type.
LEMMA TypeInit == Init => TypeOK
<1> SUFFICES ASSUME Init PROVE TypeOK
    OBVIOUS
<1>1. sub \in Subscriptions /\ url \in Urls /\ marker \in Markers
  BY DEF Init, InitialSources, Subscriptions, Urls, Markers
<1>2. cfg \in Contents /\ Absent \in Contents /\ Absent \in Subscriptions
  BY DEF Init, Contents, Subscriptions
<1>3. FilesOK
  BY <1>1, <1>2, Constants DEF Init, FilesOK
<1>4. HolderOK
  BY Constants DEF Init, HolderOK, Steps, ApplyStates
<1>5. WorldOK
  BY <1>2, Constants DEF Init, WorldOK
<1> QED
  BY <1>3, <1>4, <1>5 DEF TypeOK

(***************************************************************************)
(* Every file, the memory of the lock holder and the counters hold values  *)
(* of their kinds in every reachable state.                                *)
(***************************************************************************)
THEOREM TypeCorrect == Spec => []TypeOK
<1>1. Init => TypeOK
  BY TypeInit
<1>2. TypeOK /\ [Next]_vars => TypeOK'
  BY TypeStep
<1> QED
  BY <1>1, <1>2, PTL DEF Spec
-------------------------------------------------------------------------------
\* Every step keeps journal, files and memory in agreement.
LEMMA TransactionStep ==
    TypeOK /\ TransactionInv /\ [Next]_vars => TransactionInv'
<1> SUFFICES ASSUME TypeOK, TransactionInv, [Next]_vars
             PROVE  TransactionInv'
    OBVIOUS
<1> USE DEF TransactionInv, Failures, Restoring, Cleaning, Staged, Renamed,
            Reporting, Unjournalled
<1>a. CASE \E o \in Ops : Begin(o)
  BY <1>a DEF Begin, Goto, files, subFiles, scratch, ModeInv, JournalInv,
     ConfigInv, ReportNamesConfig, NewConfig, LogicalConfig, Uncommitted,
     Reported, Resolved
<1>b. CASE UNCHANGED vars
  BY <1>b DEF vars, files, subFiles, scratch, holder, ModeInv, JournalInv,
     ConfigInv, ReportNamesConfig, NewConfig, LogicalConfig, Uncommitted,
     Reported, Resolved
<1>1. CASE RecoverNothing
  BY <1>1 DEF RecoverNothing, Goto, Release, Prepared, NoTx, files, subFiles,
     scratch, reader, ModeInv, JournalInv, ConfigInv, ReportNamesConfig,
     NewConfig, LogicalConfig, Uncommitted, Reported, Resolved, Same
<1>2. CASE RecoverCommitted
  BY <1>2 DEF RecoverCommitted, Goto, Release, NoTx, Ok, Faulty, subFiles,
     scratch, reader, ModeInv, JournalInv, ConfigInv, ReportNamesConfig,
     NewConfig, LogicalConfig, Uncommitted, Reported, Resolved, Same
<1>3. CASE RecoverUncommitted
  BY <1>3 DEF RecoverUncommitted, Goto, files, subFiles, scratch, reader,
     ModeInv, JournalInv, ConfigInv, ReportNamesConfig, NewConfig,
     LogicalConfig, Uncommitted, Reported, Resolved, Same
<1>4. CASE RecoverFails
  BY <1>4 DEF RecoverFails, Release, NoTx, Faulty, files, subFiles, scratch,
     reader, ModeInv, JournalInv, ConfigInv, ReportNamesConfig, NewConfig,
     LogicalConfig, Uncommitted, Reported, Resolved, Same
<1>5. CASE RestoreConfig
  BY <1>5 DEF RestoreConfig, Goto, AfterRestore, AfterConfig, Ok, Faulty,
     subFiles, scratch, reader, ModeInv, JournalInv, ConfigInv,
     ReportNamesConfig, NewConfig, LogicalConfig, Uncommitted, Reported,
     Resolved, Same
<1>6. CASE RestoreSubscription
  BY <1>6 DEF RestoreSubscription, Goto, AfterRestore, Ok, Faulty, scratch,
     reader, ModeInv, JournalInv, ConfigInv, ReportNamesConfig, NewConfig,
     LogicalConfig, Uncommitted, Reported, Resolved, Same
<1>7. CASE RestoreFailed
  BY <1>7 DEF RestoreFailed, Goto, Stay, Release, RemoveStaging, NoTx, Ok,
     Faulty, subFiles, reader, ModeInv, JournalInv, ConfigInv,
     ReportNamesConfig, NewConfig, LogicalConfig, Uncommitted, Reported,
     Resolved, Same
<1>8. CASE CleanStaging
  BY <1>8 DEF CleanStaging, Goto, RemoveStaging, Ok, Faulty, subFiles, reader,
     ModeInv, JournalInv, ConfigInv, ReportNamesConfig, NewConfig,
     LogicalConfig, Uncommitted, Reported, Resolved, Same
<1>9. CASE CleanBackup
  BY <1>9 DEF CleanBackup, Goto, Ok, Faulty, subFiles, reader, ModeInv,
     JournalInv, ConfigInv, ReportNamesConfig, NewConfig, LogicalConfig,
     Uncommitted, Reported, Resolved, Same
<1>10. CASE CleanMarker
  <2>1. ModeInv'
    BY <1>10 DEF CleanMarker, Goto, Stay, Release, Prepared, CleanupFailed,
       subFiles, scratch, reader, ModeInv
  <2>2. JournalInv'
    BY <1>10 DEF CleanMarker, Goto, Stay, Release, Prepared, CleanupFailed,
       NoTx, Ok, Faulty, subFiles, scratch, reader, ModeInv, JournalInv,
       Uncommitted, Reported, Resolved, Same, TypeOK, HolderOK, FilesOK,
       WorldOK, Transactions, Statuses
  <2>3. ConfigInv'
    BY <1>10 DEF CleanMarker, Goto, Stay, Release, Prepared, CleanupFailed,
       NoTx, Ok, Faulty, subFiles, scratch, reader, ModeInv, JournalInv,
       ConfigInv, NewConfig, LogicalConfig, Uncommitted, Reported, Resolved,
       Same, TypeOK, HolderOK, FilesOK, WorldOK, Transactions, Statuses
  <2>4. ReportNamesConfig'
    BY <1>10 DEF CleanMarker, Goto, Stay, Release, Prepared, CleanupFailed,
       NoTx, Ok, Faulty, subFiles, scratch, reader, ModeInv, JournalInv,
       ConfigInv, ReportNamesConfig, NewConfig, LogicalConfig, Uncommitted,
       Reported, Resolved, Same, TypeOK, HolderOK, FilesOK, WorldOK,
       Transactions, Statuses
  <2> QED
    BY <2>1, <2>2, <2>3, <2>4
<1>11. CASE ResolveSource
  BY <1>11 DEF ResolveSource, Goto, Stay, Release, Resolves, NoTx, Ok, Faulty,
     scratch, reader, ModeInv, JournalInv, ConfigInv, ReportNamesConfig,
     NewConfig, LogicalConfig, Uncommitted, Reported, Resolved, Same
<1>12. CASE Download
  BY <1>12 DEF Download, Goto, Stay, Release, GivesUp, NoTx, Ok, Faulty,
     subFiles, reader, ModeInv, JournalInv, ConfigInv, ReportNamesConfig,
     NewConfig, LogicalConfig, Uncommitted, Reported, Resolved, Same
<1>13. CASE StoreFetched
  BY <1>13 DEF StoreFetched, Release, NoTx, Ok, Faulty, reader, ModeInv,
     JournalInv, ConfigInv, ReportNamesConfig, NewConfig, LogicalConfig,
     Uncommitted, Reported, Resolved, Same
<1>14. CASE Stage
  BY <1>14 DEF Stage, Goto, RemoveStaging, Source, Ok, Faulty, subFiles,
     reader, ModeInv, JournalInv, ConfigInv, ReportNamesConfig, NewConfig,
     LogicalConfig, Uncommitted, Reported, Resolved, Same
<1>15. CASE Validate
  BY <1>15 DEF Validate, Goto, RemoveStaging, Ok, Faulty, subFiles, reader,
     ModeInv, JournalInv, ConfigInv, ReportNamesConfig, NewConfig,
     LogicalConfig, Uncommitted, Reported, Resolved, Same
<1>16. CASE Backup
  <2>1. ModeInv'
    BY <1>16 DEF Backup, Goto, subFiles, reader, ModeInv
  <2>2. JournalInv'
    BY <1>16 DEF Backup, Goto, Ok, Faulty, subFiles, reader, ModeInv,
       JournalInv, Uncommitted, Reported, Resolved, Same, TypeOK, HolderOK,
       FilesOK, WorldOK, Transactions, Statuses
  <2>3. ConfigInv'
    BY <1>16 DEF Backup, Goto, Ok, Faulty, subFiles, reader, ModeInv,
       JournalInv, ConfigInv, NewConfig, LogicalConfig, Uncommitted, Reported,
       Resolved, Same, TypeOK, HolderOK, FilesOK, WorldOK, Transactions,
       Statuses
  <2>4. ReportNamesConfig'
    BY <1>16 DEF Backup, Goto, Ok, Faulty, subFiles, reader, ModeInv,
       JournalInv, ConfigInv, ReportNamesConfig, NewConfig, LogicalConfig,
       Uncommitted, Reported, Resolved, Same, TypeOK, HolderOK, FilesOK,
       WorldOK, Transactions, Statuses
  <2> QED
    BY <2>1, <2>2, <2>3, <2>4
<1>17. CASE Abort
  BY <1>17 DEF Abort, Goto, Stay, RemoveStaging, Ok, Faulty, subFiles, reader,
     ModeInv, JournalInv, ConfigInv, ReportNamesConfig, NewConfig,
     LogicalConfig, Uncommitted, Reported, Resolved, Same
<1>18. CASE JournalPrepared
  <2>1. ModeInv'
    BY <1>18 DEF JournalPrepared, Goto, Stay, Journal, subFiles, scratch,
       reader, ModeInv
  <2>2. JournalInv'
    BY <1>18 DEF JournalPrepared, Goto, Stay, Journal, Ok, Faulty, subFiles,
       scratch, reader, ModeInv, JournalInv, Uncommitted, Reported, Resolved,
       Same, TypeOK, HolderOK, FilesOK, WorldOK, Transactions, Statuses
  <2>3. ConfigInv'
    BY <1>18 DEF JournalPrepared, Goto, Stay, Journal, Ok, Faulty, subFiles,
       scratch, reader, ModeInv, JournalInv, ConfigInv, NewConfig,
       LogicalConfig, Uncommitted, Reported, Resolved, Same, TypeOK, HolderOK,
       FilesOK, WorldOK, Transactions, Statuses
  <2>4. ReportNamesConfig'
    BY <1>18 DEF JournalPrepared, Goto, Stay, Journal, Ok, Faulty, subFiles,
       scratch, reader, ModeInv, JournalInv, ConfigInv, ReportNamesConfig,
       NewConfig, LogicalConfig, Uncommitted, Reported, Resolved, Same,
       TypeOK, HolderOK, FilesOK, WorldOK, Transactions, Statuses
  <2> QED
    BY <2>1, <2>2, <2>3, <2>4
<1>19. CASE CommitConfig
  BY <1>19 DEF CommitConfig, Goto, Stay, Rollback, Ok, Faulty, subFiles,
     reader, ModeInv, JournalInv, ConfigInv, ReportNamesConfig, NewConfig,
     LogicalConfig, Uncommitted, Reported, Resolved, Same
<1>20. CASE JournalConfigCommitted
  <2>1. ModeInv'
    BY <1>20 DEF JournalConfigCommitted, Goto, Rollback, Journal, subFiles,
       scratch, reader, ModeInv
  <2>2. JournalInv'
    BY <1>20 DEF JournalConfigCommitted, Goto, Rollback, Journal, Ok, Faulty,
       subFiles, scratch, reader, ModeInv, JournalInv, Uncommitted, Reported,
       Resolved, Same, TypeOK, HolderOK, FilesOK, WorldOK, Transactions,
       Statuses
  <2>3. ConfigInv'
    BY <1>20 DEF JournalConfigCommitted, Goto, Rollback, Journal, Ok, Faulty,
       subFiles, scratch, reader, ModeInv, JournalInv, ConfigInv, NewConfig,
       LogicalConfig, Uncommitted, Reported, Resolved, Same, TypeOK, HolderOK,
       FilesOK, WorldOK, Transactions, Statuses
  <2>4. ReportNamesConfig'
    BY <1>20 DEF JournalConfigCommitted, Goto, Rollback, Journal, Ok, Faulty,
       subFiles, scratch, reader, ModeInv, JournalInv, ConfigInv,
       ReportNamesConfig, NewConfig, LogicalConfig, Uncommitted, Reported,
       Resolved, Same, TypeOK, HolderOK, FilesOK, WorldOK, Transactions,
       Statuses
  <2> QED
    BY <2>1, <2>2, <2>3, <2>4
<1>21. CASE CommitSubscription
  BY <1>21 DEF CommitSubscription, Goto, Stay, Rollback, Ok, Faulty, reader,
     ModeInv, JournalInv, ConfigInv, ReportNamesConfig, NewConfig,
     LogicalConfig, Uncommitted, Reported, Resolved, Same
<1>22. CASE JournalCommitted
  <2>1. ModeInv'
    BY <1>22 DEF JournalCommitted, Goto, Rollback, Journal, subFiles, scratch,
       reader, ModeInv
  <2>2. JournalInv'
    BY <1>22 DEF JournalCommitted, Goto, Rollback, Journal, Ok, Faulty,
       subFiles, scratch, reader, ModeInv, JournalInv, Uncommitted, Reported,
       Resolved, Same, TypeOK, HolderOK, FilesOK, WorldOK, Transactions,
       Statuses
  <2>3. ConfigInv'
    BY <1>22 DEF JournalCommitted, Goto, Rollback, Journal, Ok, Faulty,
       subFiles, scratch, reader, ModeInv, JournalInv, ConfigInv, NewConfig,
       LogicalConfig, Uncommitted, Reported, Resolved, Same, TypeOK, HolderOK,
       FilesOK, WorldOK, Transactions, Statuses
  <2>4. ReportNamesConfig'
    BY <1>22 DEF JournalCommitted, Goto, Rollback, Journal, Ok, Faulty,
       subFiles, scratch, reader, ModeInv, JournalInv, ConfigInv,
       ReportNamesConfig, NewConfig, LogicalConfig, Uncommitted, Reported,
       Resolved, Same, TypeOK, HolderOK, FilesOK, WorldOK, Transactions,
       Statuses
  <2> QED
    BY <2>1, <2>2, <2>3, <2>4
<1>23. CASE RecordPending
  BY <1>23 DEF RecordPending, Goto, Stay, Release, NoTx, Ok, Faulty, subFiles,
     scratch, reader, ModeInv, JournalInv, ConfigInv, ReportNamesConfig,
     NewConfig, LogicalConfig, Uncommitted, Reported, Resolved, Same
<1>24. CASE Reload
  BY <1>24 DEF Reload, Goto, ReloadState, files, subFiles, scratch, reader,
     ModeInv, JournalInv, ConfigInv, ReportNamesConfig, NewConfig,
     LogicalConfig, Uncommitted, Reported, Resolved, Same
<1>25. CASE RecordOutcome
  <2>1. ModeInv'
    BY <1>25 DEF RecordOutcome, Goto, Stay, Release, subFiles, scratch,
       reader, ModeInv
  <2>2. JournalInv'
    BY <1>25 DEF RecordOutcome, Goto, Stay, Release, NoTx, Ok, Faulty,
       subFiles, scratch, reader, ModeInv, JournalInv, Uncommitted, Reported,
       Resolved, Same, TypeOK, HolderOK, FilesOK, WorldOK, Transactions,
       Statuses
  <2>3. ConfigInv'
    BY <1>25 DEF RecordOutcome, Goto, Stay, Release, NoTx, Ok, Faulty,
       subFiles, scratch, reader, ModeInv, JournalInv, ConfigInv, NewConfig,
       LogicalConfig, Uncommitted, Reported, Resolved, Same, TypeOK, HolderOK,
       FilesOK, WorldOK, Transactions, Statuses
  <2>4. ReportNamesConfig'
    BY <1>25 DEF RecordOutcome, Goto, Stay, Release, NoTx, Ok, Faulty,
       subFiles, scratch, reader, ModeInv, JournalInv, ConfigInv,
       ReportNamesConfig, NewConfig, LogicalConfig, Uncommitted, Reported,
       Resolved, Same, TypeOK, HolderOK, FilesOK, WorldOK, Transactions,
       Statuses
  <2> QED
    BY <2>1, <2>2, <2>3, <2>4
<1>26. CASE RemoveJournal
  BY <1>26 DEF RemoveJournal, Release, NoTx, Ok, Faulty, subFiles, scratch,
     reader, ModeInv, JournalInv, ConfigInv, ReportNamesConfig, NewConfig,
     LogicalConfig, Uncommitted, Reported, Resolved, Same
<1>27. CASE RecordFailure
  BY <1>27 DEF RecordFailure, Release, NoTx, Ok, Faulty, subFiles, scratch,
     reader, ModeInv, JournalInv, ConfigInv, ReportNamesConfig, NewConfig,
     LogicalConfig, Uncommitted, Reported, Resolved, Same
<1>28. CASE SetFirst
  BY <1>28 DEF SetFirst, Goto, Undo, UndoFrom, Ok, Faulty, scratch, reader,
     ModeInv, JournalInv, ConfigInv, ReportNamesConfig, NewConfig,
     LogicalConfig, Uncommitted, Reported, Resolved, Same
<1>29. CASE SetSecond
  BY <1>29 DEF SetSecond, Goto, Stay, ClearOther, Undo, UndoFrom, Ok, Faulty,
     scratch, reader, ModeInv, JournalInv, ConfigInv, ReportNamesConfig,
     NewConfig, LogicalConfig, Uncommitted, Reported, Resolved, Same
<1>30. CASE SetMarker
  BY <1>30 DEF SetMarker, Goto, Release, Undo, UndoFrom, NoTx, Ok, Faulty,
     scratch, reader, ModeInv, JournalInv, ConfigInv, ReportNamesConfig,
     NewConfig, LogicalConfig, Uncommitted, Reported, Resolved, Same
<1>31. CASE UndoData
  BY <1>31 DEF UndoData, Goto, Stay, Ok, Faulty, scratch, reader, ModeInv,
     JournalInv, ConfigInv, ReportNamesConfig, NewConfig, LogicalConfig,
     Uncommitted, Reported, Resolved, Same
<1>32. CASE UndoUrl
  BY <1>32 DEF UndoUrl, Goto, Stay, Ok, Faulty, scratch, reader, ModeInv,
     JournalInv, ConfigInv, ReportNamesConfig, NewConfig, LogicalConfig,
     Uncommitted, Reported, Resolved, Same
<1>33. CASE UndoMarker
  BY <1>33 DEF UndoMarker, Release, NoTx, Ok, Faulty, scratch, reader,
     ModeInv, JournalInv, ConfigInv, ReportNamesConfig, NewConfig,
     LogicalConfig, Uncommitted, Reported, Resolved, Same
<1>34. CASE Crash
  BY <1>34 DEF Crash, Release, NoTx, CfgTears, Faulty, scratch, reader,
     ModeInv, JournalInv, ConfigInv, ReportNamesConfig, NewConfig,
     LogicalConfig, Uncommitted, Reported, Resolved, Same
<1>35. CASE CoreRestarts
  BY <1>35 DEF CoreRestarts, files, subFiles, scratch, holder, reader,
     ModeInv, JournalInv, ConfigInv, ReportNamesConfig, NewConfig,
     LogicalConfig, Uncommitted, Reported, Resolved, Same
<1>36. CASE ReadStatus
  BY <1>36 DEF ReadStatus, files, subFiles, scratch, holder, ModeInv,
     JournalInv, ConfigInv, ReportNamesConfig, NewConfig, LogicalConfig,
     Uncommitted, Reported, Resolved, Same
<1>37. CASE ReadJournal
  BY <1>37 DEF ReadJournal, files, subFiles, scratch, holder, ModeInv,
     JournalInv, ConfigInv, ReportNamesConfig, NewConfig, LogicalConfig,
     Uncommitted, Reported, Resolved, Same
<1> QED
  BY <1>a, <1>b, <1>1, <1>2, <1>3, <1>4, <1>5, <1>6, <1>7, <1>8, <1>9, <1>10,
     <1>11, <1>12, <1>13, <1>14, <1>15, <1>16, <1>17, <1>18, <1>19, <1>20,
     <1>21, <1>22, <1>23, <1>24, <1>25, <1>26, <1>27, <1>28, <1>29, <1>30,
     <1>31, <1>32, <1>33, <1>34, <1>35, <1>36, <1>37 DEF Next, Step, Recovery,
     Apply, SetSource

\* A fresh installation agrees with itself.
LEMMA TransactionInit == Init => TransactionInv
  BY DEF Init, TransactionInv, ModeInv, JournalInv, ConfigInv,
         ReportNamesConfig, Reported, Resolved, NoTx, NoStatus, Failures,
         Restoring, Cleaning, Staged, Renamed, Reporting, Unjournalled

(***************************************************************************)
(* Journal, files and memory agree in every reachable state, whatever      *)
(* crashed, failed or was torn on the way.                                 *)
(***************************************************************************)
THEOREM TransactionCorrect == Spec => []TransactionInv
<1>1. Init => TransactionInv
  BY TransactionInit
<1>2. TypeOK /\ TransactionInv /\ [Next]_vars => TransactionInv'
  BY TransactionStep
<1> QED
  BY <1>1, <1>2, TypeCorrect, PTL DEF Spec

(***************************************************************************)
(* While an attempt is reported committed, the config (with an interrupted *)
(* transaction counted as undone) is the one that attempt rendered.        *)
(***************************************************************************)
THEOREM ReportNamesConfigCorrect == Spec => []ReportNamesConfig
<1>1. TransactionInv => ReportNamesConfig
  BY DEF TransactionInv
<1> QED
  BY <1>1, TransactionCorrect, PTL
-------------------------------------------------------------------------------
\* With no restart behind the pipeline, every step keeps `applied` true.
LEMMA LiveStep ==
    ASSUME ~ServiceRestarts, TypeOK, TransactionInv, LiveInv, [Next]_vars
    PROVE  LiveInv'
<1> USE DEF TransactionInv, LiveInv, AppliedIsLive
<1>a. CASE \E o \in Ops : Begin(o)
  BY <1>a DEF Begin, Goto, files, subFiles, scratch, Reported, Resolved
<1>b. CASE UNCHANGED vars
  BY <1>b DEF vars, files, subFiles, scratch, holder, Reported, Resolved
<1>1. CASE RecoverNothing
  BY <1>1 DEF RecoverNothing, Goto, Release, Prepared, NoTx, files, subFiles,
     scratch, reader, ModeInv, JournalInv, ConfigInv, NewConfig, Uncommitted,
     Reported, Resolved, Same, Failures, Restoring, Cleaning, Reporting,
     Renamed, Unjournalled
<1>2. CASE RecoverCommitted
  BY <1>2 DEF RecoverCommitted, Goto, Release, NoTx, Ok, Faulty, subFiles,
     scratch, reader, ModeInv, JournalInv, ConfigInv, NewConfig, Uncommitted,
     Reported, Resolved, Same, Failures, Restoring, Cleaning, Reporting,
     Renamed, Unjournalled
<1>3. CASE RecoverUncommitted
  BY <1>3 DEF RecoverUncommitted, Goto, files, subFiles, scratch, reader,
     ModeInv, JournalInv, ConfigInv, NewConfig, Uncommitted, Reported,
     Resolved, Same, Failures, Restoring, Cleaning, Reporting, Renamed,
     Unjournalled
<1>4. CASE RecoverFails
  BY <1>4 DEF RecoverFails, Release, NoTx, Faulty, files, subFiles, scratch,
     reader, ModeInv, JournalInv, ConfigInv, NewConfig, Uncommitted, Reported,
     Resolved, Same, Failures, Restoring, Cleaning, Reporting, Renamed,
     Unjournalled
<1>5. CASE RestoreConfig
  BY <1>5 DEF RestoreConfig, Goto, AfterRestore, AfterConfig, Ok, Faulty,
     subFiles, scratch, reader, ModeInv, JournalInv, ConfigInv, NewConfig,
     Uncommitted, Reported, Resolved, Same, Failures, Restoring, Cleaning,
     Reporting, Renamed, Unjournalled
<1>6. CASE RestoreSubscription
  BY <1>6 DEF RestoreSubscription, Goto, AfterRestore, Ok, Faulty, scratch,
     reader, ModeInv, JournalInv, ConfigInv, NewConfig, Uncommitted, Reported,
     Resolved, Same, Failures, Restoring, Cleaning, Reporting, Renamed,
     Unjournalled
<1>7. CASE RestoreFailed
  BY <1>7 DEF RestoreFailed, Goto, Stay, Release, RemoveStaging, NoTx, Ok,
     Faulty, subFiles, reader, ModeInv, JournalInv, ConfigInv, NewConfig,
     Uncommitted, Reported, Resolved, Same, Failures, Restoring, Cleaning,
     Reporting, Renamed, Unjournalled
<1>8. CASE CleanStaging
  BY <1>8 DEF CleanStaging, Goto, RemoveStaging, Ok, Faulty, subFiles, reader,
     ModeInv, JournalInv, ConfigInv, NewConfig, Uncommitted, Reported,
     Resolved, Same, Failures, Restoring, Cleaning, Reporting, Renamed,
     Unjournalled
<1>9. CASE CleanBackup
  BY <1>9 DEF CleanBackup, Goto, Ok, Faulty, subFiles, reader, ModeInv,
     JournalInv, ConfigInv, NewConfig, Uncommitted, Reported, Resolved, Same,
     Failures, Restoring, Cleaning, Reporting, Renamed, Unjournalled
<1>10. CASE CleanMarker
  BY <1>10 DEF CleanMarker, Goto, Stay, Release, Prepared, CleanupFailed,
     NoTx, Ok, Faulty, subFiles, scratch, reader, ModeInv, JournalInv,
     ConfigInv, NewConfig, Uncommitted, Reported, Resolved, Same, Failures,
     Restoring, Cleaning, Reporting, Renamed, Unjournalled, TypeOK, HolderOK,
     FilesOK, WorldOK, Transactions, Statuses
<1>11. CASE ResolveSource
  BY <1>11 DEF ResolveSource, Goto, Stay, Release, Resolves, NoTx, Ok, Faulty,
     scratch, reader, ModeInv, JournalInv, ConfigInv, NewConfig, Uncommitted,
     Reported, Resolved, Same, Failures, Restoring, Cleaning, Reporting,
     Renamed, Unjournalled
<1>12. CASE Download
  BY <1>12 DEF Download, Goto, Stay, Release, GivesUp, NoTx, Ok, Faulty,
     subFiles, reader, ModeInv, JournalInv, ConfigInv, NewConfig, Uncommitted,
     Reported, Resolved, Same, Failures, Restoring, Cleaning, Reporting,
     Renamed, Unjournalled
<1>13. CASE StoreFetched
  BY <1>13 DEF StoreFetched, Release, NoTx, Ok, Faulty, reader, ModeInv,
     JournalInv, ConfigInv, NewConfig, Uncommitted, Reported, Resolved, Same,
     Failures, Restoring, Cleaning, Reporting, Renamed, Unjournalled
<1>14. CASE Stage
  BY <1>14 DEF Stage, Goto, RemoveStaging, Source, Ok, Faulty, subFiles,
     reader, ModeInv, JournalInv, ConfigInv, NewConfig, Uncommitted, Reported,
     Resolved, Same, Failures, Restoring, Cleaning, Reporting, Renamed,
     Unjournalled
<1>15. CASE Validate
  BY <1>15 DEF Validate, Goto, RemoveStaging, Ok, Faulty, subFiles, reader,
     ModeInv, JournalInv, ConfigInv, NewConfig, Uncommitted, Reported,
     Resolved, Same, Failures, Restoring, Cleaning, Reporting, Renamed,
     Unjournalled
<1>16. CASE Backup
  BY <1>16 DEF Backup, Goto, Ok, Faulty, subFiles, reader, ModeInv,
     JournalInv, ConfigInv, NewConfig, Uncommitted, Reported, Resolved, Same,
     Failures, Restoring, Cleaning, Reporting, Renamed, Unjournalled
<1>17. CASE Abort
  BY <1>17 DEF Abort, Goto, Stay, RemoveStaging, Ok, Faulty, subFiles, reader,
     ModeInv, JournalInv, ConfigInv, NewConfig, Uncommitted, Reported,
     Resolved, Same, Failures, Restoring, Cleaning, Reporting, Renamed,
     Unjournalled
<1>18. CASE JournalPrepared
  BY <1>18 DEF JournalPrepared, Goto, Stay, Journal, Ok, Faulty, subFiles,
     scratch, reader, ModeInv, JournalInv, ConfigInv, NewConfig, Uncommitted,
     Reported, Resolved, Same, Failures, Restoring, Cleaning, Reporting,
     Renamed, Unjournalled, TypeOK, HolderOK, FilesOK, WorldOK, Transactions,
     Statuses
<1>19. CASE CommitConfig
  BY <1>19 DEF CommitConfig, Goto, Stay, Rollback, Ok, Faulty, subFiles,
     reader, ModeInv, JournalInv, ConfigInv, NewConfig, Uncommitted, Reported,
     Resolved, Same, Failures, Restoring, Cleaning, Reporting, Renamed,
     Unjournalled
<1>20. CASE JournalConfigCommitted
  BY <1>20 DEF JournalConfigCommitted, Goto, Rollback, Journal, Ok, Faulty,
     subFiles, scratch, reader, ModeInv, JournalInv, ConfigInv, NewConfig,
     Uncommitted, Reported, Resolved, Same, Failures, Restoring, Cleaning,
     Reporting, Renamed, Unjournalled, TypeOK, HolderOK, FilesOK, WorldOK,
     Transactions, Statuses
<1>21. CASE CommitSubscription
  BY <1>21 DEF CommitSubscription, Goto, Stay, Rollback, Ok, Faulty, reader,
     ModeInv, JournalInv, ConfigInv, NewConfig, Uncommitted, Reported,
     Resolved, Same, Failures, Restoring, Cleaning, Reporting, Renamed,
     Unjournalled
<1>22. CASE JournalCommitted
  BY <1>22 DEF JournalCommitted, Goto, Rollback, Journal, Ok, Faulty,
     subFiles, scratch, reader, ModeInv, JournalInv, ConfigInv, NewConfig,
     Uncommitted, Reported, Resolved, Same, Failures, Restoring, Cleaning,
     Reporting, Renamed, Unjournalled, TypeOK, HolderOK, FilesOK, WorldOK,
     Transactions, Statuses
<1>23. CASE RecordPending
  BY <1>23 DEF RecordPending, Goto, Stay, Release, NoTx, Ok, Faulty, subFiles,
     scratch, reader, ModeInv, JournalInv, ConfigInv, NewConfig, Uncommitted,
     Reported, Resolved, Same, Failures, Restoring, Cleaning, Reporting,
     Renamed, Unjournalled
<1>24. CASE Reload
  BY <1>24 DEF Reload, Goto, ReloadState, files, subFiles, scratch, reader,
     ModeInv, JournalInv, ConfigInv, NewConfig, Uncommitted, Reported,
     Resolved, Same, Failures, Restoring, Cleaning, Reporting, Renamed,
     Unjournalled
<1>25. CASE RecordOutcome
  BY <1>25 DEF RecordOutcome, Goto, Stay, Release, NoTx, Ok, Faulty, subFiles,
     scratch, reader, ModeInv, JournalInv, ConfigInv, NewConfig, Uncommitted,
     Reported, Resolved, Same, Failures, Restoring, Cleaning, Reporting,
     Renamed, Unjournalled, TypeOK, HolderOK, FilesOK, WorldOK, Transactions,
     Statuses
<1>26. CASE RemoveJournal
  BY <1>26 DEF RemoveJournal, Release, NoTx, Ok, Faulty, subFiles, scratch,
     reader, ModeInv, JournalInv, ConfigInv, NewConfig, Uncommitted, Reported,
     Resolved, Same, Failures, Restoring, Cleaning, Reporting, Renamed,
     Unjournalled
<1>27. CASE RecordFailure
  BY <1>27 DEF RecordFailure, Release, NoTx, Ok, Faulty, subFiles, scratch,
     reader, ModeInv, JournalInv, ConfigInv, NewConfig, Uncommitted, Reported,
     Resolved, Same, Failures, Restoring, Cleaning, Reporting, Renamed,
     Unjournalled
<1>28. CASE SetFirst
  BY <1>28 DEF SetFirst, Goto, Undo, UndoFrom, Ok, Faulty, scratch, reader,
     ModeInv, JournalInv, ConfigInv, NewConfig, Uncommitted, Reported,
     Resolved, Same, Failures, Restoring, Cleaning, Reporting, Renamed,
     Unjournalled
<1>29. CASE SetSecond
  BY <1>29 DEF SetSecond, Goto, Stay, ClearOther, Undo, UndoFrom, Ok, Faulty,
     scratch, reader, ModeInv, JournalInv, ConfigInv, NewConfig, Uncommitted,
     Reported, Resolved, Same, Failures, Restoring, Cleaning, Reporting,
     Renamed, Unjournalled
<1>30. CASE SetMarker
  BY <1>30 DEF SetMarker, Goto, Release, Undo, UndoFrom, NoTx, Ok, Faulty,
     scratch, reader, ModeInv, JournalInv, ConfigInv, NewConfig, Uncommitted,
     Reported, Resolved, Same, Failures, Restoring, Cleaning, Reporting,
     Renamed, Unjournalled
<1>31. CASE UndoData
  BY <1>31 DEF UndoData, Goto, Stay, Ok, Faulty, scratch, reader, ModeInv,
     JournalInv, ConfigInv, NewConfig, Uncommitted, Reported, Resolved, Same,
     Failures, Restoring, Cleaning, Reporting, Renamed, Unjournalled
<1>32. CASE UndoUrl
  BY <1>32 DEF UndoUrl, Goto, Stay, Ok, Faulty, scratch, reader, ModeInv,
     JournalInv, ConfigInv, NewConfig, Uncommitted, Reported, Resolved, Same,
     Failures, Restoring, Cleaning, Reporting, Renamed, Unjournalled
<1>33. CASE UndoMarker
  BY <1>33 DEF UndoMarker, Release, NoTx, Ok, Faulty, scratch, reader,
     ModeInv, JournalInv, ConfigInv, NewConfig, Uncommitted, Reported,
     Resolved, Same, Failures, Restoring, Cleaning, Reporting, Renamed,
     Unjournalled
<1>34. CASE Crash
  BY <1>34 DEF Crash, Release, NoTx, Faulty, scratch, reader, ModeInv,
     JournalInv, ConfigInv, NewConfig, Uncommitted, Reported, Resolved, Same,
     Failures, Restoring, Cleaning, Reporting, Renamed, Unjournalled
<1>35. CASE CoreRestarts
  BY <1>35 DEF CoreRestarts, files, subFiles, scratch, holder, reader,
     ModeInv, JournalInv, ConfigInv, NewConfig, Uncommitted, Reported,
     Resolved, Same, Failures, Restoring, Cleaning, Reporting, Renamed,
     Unjournalled
<1>36. CASE ReadStatus
  BY <1>36 DEF ReadStatus, files, subFiles, scratch, holder, ModeInv,
     JournalInv, ConfigInv, NewConfig, Uncommitted, Reported, Resolved, Same,
     Failures, Restoring, Cleaning, Reporting, Renamed, Unjournalled
<1>37. CASE ReadJournal
  BY <1>37 DEF ReadJournal, files, subFiles, scratch, holder, ModeInv,
     JournalInv, ConfigInv, NewConfig, Uncommitted, Reported, Resolved, Same,
     Failures, Restoring, Cleaning, Reporting, Renamed, Unjournalled
<1> QED
  BY <1>a, <1>b, <1>1, <1>2, <1>3, <1>4, <1>5, <1>6, <1>7, <1>8, <1>9, <1>10,
     <1>11, <1>12, <1>13, <1>14, <1>15, <1>16, <1>17, <1>18, <1>19, <1>20,
     <1>21, <1>22, <1>23, <1>24, <1>25, <1>26, <1>27, <1>28, <1>29, <1>30,
     <1>31, <1>32, <1>33, <1>34, <1>35, <1>36, <1>37 DEF Next, Step, Recovery,
     Apply, SetSource

\* The status of a fresh installation claims nothing.
LEMMA LiveInit == Init => LiveInv
  BY DEF Init, LiveInv, AppliedIsLive, Reported, Resolved, NoTx, NoStatus

(***************************************************************************)
(* As long as nothing but the pipeline makes the core load a config, an    *)
(* attempt reported `applied` is the one the core is running.              *)
(***************************************************************************)
THEOREM AppliedIsLiveCorrect ==
    ASSUME ~ServiceRestarts PROVE Spec => []AppliedIsLive
<1>1. Init => LiveInv
  BY LiveInit
<1>2. TypeOK /\ TransactionInv /\ LiveInv /\ [Next]_vars => LiveInv'
  BY LiveStep
<1>3. LiveInv => AppliedIsLive
  BY DEF LiveInv
<1> QED
  BY <1>1, <1>2, <1>3, TypeCorrect, TransactionCorrect, PTL DEF Spec
-------------------------------------------------------------------------------
\* The pipeline implements AtomicConfig.

SetSteps == {"set1", "set2", "set3", "undo1", "undo2", "undo3"}

\* Which operation is at which step.
OpInv ==
    /\ pc = "idle" => op = "none"
    /\ pc \in {"stage", "abort", "fail"} \cup Staged \cup Renamed \cup Reporting
           \/ mode # "recovery" => op \in ApplyOps
    /\ pc = "download" => op \in {"sync", "fetch"}
    /\ pc = "storeFetched" => op = "fetch"
    /\ pc \in SetSteps => op \in SetOps

\* No attempt is as late as the one under way, until that one is committed.
ClockInv ==
    /\ status.at <= clock /\ journal.pending.at <= clock
    /\ journal.state = "committed" => status.at <= journal.pending.at
    /\ op \in ApplyOps /\ mode # "commit" =>
           /\ status.at < clock
           /\ journal.state = "committed" => journal.pending.at < clock
    /\ pc \in Staged \cup Renamed => tx.pending.at = clock
    /\ mode = "commit" /\ pc \in Cleaning \cup {"recordPending"} =>
           status.at < tx.pending.at
    /\ pc \in {"reload", "recordOutcome"} => status = tx.pending
    /\ rpc = "journal" => rstatus.at <= status.at

\* Where the subscription is that is current, and the one that will be.
SubscriptionInv ==
    /\ pc \in {"renameCfg"} \cup Renamed \cup Restoring \cup Cleaning =>
           /\ journal.subStaged = tx.subStaged
           /\ journal.subExisted = tx.subExisted
    /\ pc \in {"prepare", "renameCfg"} \cup Renamed =>
           (tx.subStaged /\ tx.subExisted => subBak # Absent)
    /\ pc = "prepare" /\ tx.subStaged => /\ tx.subExisted = (sub # Absent)
                                         /\ subBak = sub
    /\ pc \in Staged \cup {"markCfg", "renameSub"} => tx.pending.data = Source
    /\ pc = "markCommitted" => tx.pending.data = sub
    /\ pc \in {"renameSub", "restoreSub"} => tx.subStaged
    /\ pc \in Cleaning => sub = LogicalSubscription

\* The inductive invariant of the refinement, next to TransactionInv.
RefinementInv == OpInv /\ ClockInv /\ SubscriptionInv
-------------------------------------------------------------------------------
\* Every step is one of the operation that should be there.
LEMMA OpStep == TypeOK /\ TransactionInv /\ OpInv /\ [Next]_vars => OpInv'
<1> SUFFICES ASSUME TypeOK, TransactionInv, OpInv, [Next]_vars PROVE OpInv'
    OBVIOUS
<1> USE DEF OpInv, ApplyOps, SetOps, SetSteps, Staged, Renamed, Reporting,
        Goto, Stay, Release
<1>1. CASE \E o \in Ops : Begin(o)
  BY <1>1 DEF Begin
<1>2. CASE Recovery
  BY <1>2 DEF Recovery, RecoverNothing, RecoverCommitted, RecoverUncommitted,
     RecoverFails, RestoreConfig, RestoreSubscription, RestoreFailed,
     CleanStaging, CleanBackup, CleanMarker, Prepared, AfterConfig,
     AfterRestore, TransactionInv, ModeInv, Restoring, Cleaning
<1>3. CASE \/ ResolveSource \/ Download \/ StoreFetched \/ Stage \/ Validate
           \/ Backup \/ Abort
  BY <1>3 DEF ResolveSource, Resolves, Download, GivesUp, StoreFetched, Stage,
     Validate, Backup, Abort
<1>4. CASE \/ JournalPrepared \/ CommitConfig \/ JournalConfigCommitted
           \/ CommitSubscription \/ JournalCommitted
  BY <1>4 DEF JournalPrepared, CommitConfig, JournalConfigCommitted,
     CommitSubscription, JournalCommitted, Journal, Rollback
<1>5. CASE \/ RecordPending \/ Reload \/ RecordOutcome \/ RemoveJournal
           \/ RecordFailure
  BY <1>5 DEF RecordPending, Reload, RecordOutcome, RemoveJournal,
     RecordFailure
<1>6. CASE SetSource
  BY <1>6 DEF SetSource, SetFirst, SetSecond, SetMarker, UndoData, UndoUrl,
     UndoMarker, Undo, UndoFrom
<1>7. CASE Crash \/ CoreRestarts \/ ReadStatus \/ ReadJournal \/ UNCHANGED vars
  BY <1>7 DEF Crash, CoreRestarts, ReadStatus, ReadJournal, vars, holder
<1> QED
  BY <1>1, <1>2, <1>3, <1>4, <1>5, <1>6, <1>7 DEF Next, Step, Apply
-------------------------------------------------------------------------------
\* The attempts that status, journal and memory speak of are numbers.
LEMMA Attempts ==
    ASSUME TypeOK
    PROVE  /\ clock \in Nat /\ status.at \in Nat /\ journal.pending.at \in Nat
           /\ tx.pending.at \in Nat /\ rstatus.at \in Nat
  BY DEF TypeOK, FilesOK, HolderOK, WorldOK, Statuses, Transactions

\* Attempts are numbered upwards, and recorded in that order.
LEMMA ClockStep ==
    ASSUME TypeOK, TransactionInv, OpInv, ClockInv, [Next]_vars PROVE ClockInv'
<1>0. /\ clock \in Nat /\ status.at \in Nat /\ journal.pending.at \in Nat
      /\ tx.pending.at \in Nat /\ rstatus.at \in Nat
  BY Attempts
<1>t. tx \in Transactions /\ journal \in Transactions
  BY DEF TypeOK, FilesOK, HolderOK
<1> USE DEF ClockInv, ApplyOps, SetOps, Staged, Renamed, Reporting, Cleaning,
        Restoring, Goto, Stay, Release
<1>1. CASE \E o \in Ops : Begin(o)
  BY <1>0, <1>1 DEF Begin, files, reader, OpInv
<1>2. CASE \/ RecoverNothing \/ RecoverCommitted \/ RecoverUncommitted
           \/ RecoverFails
  BY <1>0, <1>2 DEF RecoverNothing, RecoverCommitted, RecoverUncommitted,
     RecoverFails, Prepared, files, reader, Reported, Resolved, Same,
     TransactionInv, ModeInv, Uncommitted, OpInv
<1>3. CASE \/ RestoreConfig \/ RestoreSubscription \/ RestoreFailed
           \/ CleanStaging \/ CleanBackup
  BY <1>0, <1>3 DEF RestoreConfig, RestoreSubscription, RestoreFailed,
     CleanStaging, CleanBackup, AfterConfig, AfterRestore, reader,
     TransactionInv, ModeInv
<1>4. CASE CleanMarker
  BY <1>0, <1>4 DEF CleanMarker, Prepared, reader, TransactionInv, ModeInv,
     NoTx, NoStatus, OpInv
<1>5. CASE ResolveSource \/ Download \/ StoreFetched
  BY <1>0, <1>t, <1>5 DEF ResolveSource, Resolves, Download, GivesUp,
     StoreFetched, reader, Transactions, TransactionInv, ModeInv, OpInv
<1>6. CASE Stage
  BY <1>0, <1>t, <1>6 DEF Stage, reader, Transactions, TransactionInv,
     ModeInv, OpInv
<1>7. CASE Validate
  BY <1>0, <1>t, <1>7 DEF Validate, reader, TransactionInv, ModeInv, OpInv
<1>8. CASE Backup
  BY <1>0, <1>t, <1>8 DEF Backup, reader, Transactions, TransactionInv,
     ModeInv, OpInv
<1>9. CASE Abort
  BY <1>0, <1>t, <1>9 DEF Abort, reader, TransactionInv, ModeInv, OpInv
<1>10. CASE \/ JournalPrepared \/ CommitConfig \/ JournalConfigCommitted
            \/ CommitSubscription \/ JournalCommitted
  BY <1>0, <1>t, <1>10 DEF JournalPrepared, CommitConfig,
     JournalConfigCommitted, CommitSubscription, JournalCommitted, Journal,
     Rollback, reader, Transactions, TransactionInv, ModeInv, OpInv
<1>11. CASE RecordPending
  BY <1>0, <1>t, <1>11 DEF RecordPending, reader, TransactionInv, ModeInv,
     JournalInv, OpInv
<1>12. CASE Reload
  BY <1>0, <1>t, <1>12 DEF Reload, files, reader, TransactionInv, ModeInv,
     JournalInv, OpInv
<1>13. CASE RecordOutcome
  BY <1>0, <1>t, <1>13 DEF RecordOutcome, reader, Transactions, Statuses,
     TransactionInv, ModeInv, JournalInv, OpInv
<1>14. CASE RemoveJournal
  BY <1>0, <1>t, <1>14 DEF RemoveJournal, reader, TransactionInv, ModeInv,
     JournalInv, OpInv, NoTx, NoStatus
<1>15. CASE RecordFailure
  BY <1>0, <1>t, <1>15 DEF RecordFailure, reader, TransactionInv, ModeInv,
     JournalInv, OpInv
<1>16. CASE SetSource
  BY <1>16 DEF SetSource, SetFirst, SetSecond, SetMarker, UndoData, UndoUrl,
     UndoMarker, Undo, UndoFrom, reader, OpInv, SetSteps
<1>17. CASE \/ Crash \/ CoreRestarts \/ ReadStatus \/ ReadJournal
            \/ UNCHANGED vars
  BY <1>0, <1>17 DEF Crash, CoreRestarts, ReadStatus, ReadJournal, vars, holder,
     files, reader, NoStatus
<1> QED
  BY <1>1, <1>2, <1>3, <1>4, <1>5, <1>6, <1>7, <1>8, <1>9, <1>10, <1>11,
     <1>12, <1>13, <1>14, <1>15, <1>16, <1>17 DEF Next, Step, Recovery, Apply
-------------------------------------------------------------------------------
\* Backup, candidate and data are where the next step needs them.
LEMMA SubscriptionStep ==
    ASSUME TypeOK, TransactionInv, OpInv, SubscriptionInv, [Next]_vars
    PROVE  SubscriptionInv'
<1>t. tx \in Transactions /\ journal \in Transactions
  BY DEF TypeOK, FilesOK, HolderOK
<1> USE DEF SubscriptionInv, LogicalSubscription, Uncommitted, Source,
        Restoring, Cleaning, Staged, Renamed, Reporting, Goto, Stay, Release
<1>a. CASE \E o \in Ops : Begin(o)
  BY <1>a DEF Begin, files, subFiles, scratch
<1>1. CASE RecoverNothing
  BY <1>1 DEF RecoverNothing, Prepared, files, subFiles, scratch
<1>2. CASE RecoverCommitted
  BY <1>2 DEF RecoverCommitted, subFiles, scratch
<1>3. CASE RecoverUncommitted
  BY <1>3 DEF RecoverUncommitted, files, subFiles, scratch
<1>4. CASE RecoverFails
  BY <1>4 DEF RecoverFails, files, subFiles, scratch
<1>5. CASE RestoreConfig
  BY <1>5 DEF RestoreConfig, AfterConfig, AfterRestore, subFiles, scratch,
     TransactionInv, JournalInv
<1>6. CASE RestoreSubscription
  BY <1>6 DEF RestoreSubscription, AfterRestore, scratch, TransactionInv,
     JournalInv
<1>7. CASE RestoreFailed
  BY <1>7 DEF RestoreFailed, RemoveStaging, subFiles, TransactionInv,
     JournalInv
<1>8. CASE CleanStaging
  BY <1>8 DEF CleanStaging, RemoveStaging, subFiles
<1>9. CASE CleanBackup
  BY <1>9 DEF CleanBackup, subFiles, TransactionInv, JournalInv
<1>10. CASE CleanMarker
  BY <1>10 DEF CleanMarker, Prepared, NoTx, subFiles, scratch
<1>11. CASE ResolveSource
  BY <1>11 DEF ResolveSource, Resolves, scratch
<1>12. CASE Download
  BY <1>12 DEF Download, GivesUp, subFiles
<1>13. CASE StoreFetched
  BY <1>13 DEF StoreFetched
<1>14. CASE Stage
  BY <1>14, <1>t DEF Stage, subFiles, Transactions
<1>15. CASE Validate
  BY <1>15 DEF Validate, RemoveStaging, subFiles
<1>16. CASE Backup
  BY <1>16, <1>t DEF Backup, subFiles, Transactions
<1>17. CASE Abort
  BY <1>17 DEF Abort, subFiles
<1>18. CASE JournalPrepared
  BY <1>18, <1>t DEF JournalPrepared, Journal, subFiles, scratch, Transactions
<1>19. CASE CommitConfig
  BY <1>19 DEF CommitConfig, Rollback, subFiles
<1>20. CASE JournalConfigCommitted
  BY <1>20, <1>t DEF JournalConfigCommitted, Journal, Rollback, subFiles,
     scratch, Transactions
<1>21. CASE CommitSubscription
  BY <1>21 DEF CommitSubscription, Rollback
<1>22. CASE JournalCommitted
  BY <1>22, <1>t DEF JournalCommitted, Journal, Rollback, subFiles, scratch,
     Transactions
<1>23. CASE RecordPending \/ RecordOutcome \/ RemoveJournal \/ RecordFailure
  BY <1>23 DEF RecordPending, RecordOutcome, RemoveJournal, RecordFailure,
     subFiles, scratch
<1>24. CASE Reload
  BY <1>24 DEF Reload, files, subFiles, scratch
<1>25. CASE SetSource
  BY <1>25 DEF SetSource, SetFirst, SetSecond, SetMarker, UndoData, UndoUrl,
     UndoMarker, Undo, UndoFrom, scratch
<1>26. CASE Crash
  BY <1>26 DEF Crash, scratch
<1>27. CASE CoreRestarts \/ ReadStatus \/ ReadJournal \/ UNCHANGED vars
  BY <1>27 DEF CoreRestarts, ReadStatus, ReadJournal, vars, holder, files,
     subFiles, scratch
<1> QED
  BY <1>a, <1>1, <1>2, <1>3, <1>4, <1>5, <1>6, <1>7, <1>8, <1>9, <1>10, <1>11,
     <1>12, <1>13, <1>14, <1>15, <1>16, <1>17, <1>18, <1>19, <1>20, <1>21,
     <1>22, <1>23, <1>24, <1>25, <1>26, <1>27 DEF Next, Step, Recovery, Apply
-------------------------------------------------------------------------------
\* What the files amount to, taken together.
Logical == <<LogicalConfig, LogicalSubscription, Reported>>

\* What the subscription amounts to is subscription data, or none, or torn.
LEMMA LogicalType == TypeOK => LogicalSubscription \in Subscriptions
  BY DEF TypeOK, FilesOK, LogicalSubscription, Subscriptions

\* A step that changes no more than who runs stutters, or begins or ends storing.
LEMMA QuietStep ==
    ASSUME TypeOK, UNCHANGED Logical PROVE [Atomic!Next]_Atomic!vars
<1> DEFINE storing == op \in SetOps \cup {"fetch"}
<1>1. CASE storing' <=> storing
  BY <1>1 DEF Atomic!vars, Logical
<1>2. CASE storing /\ ~storing'
  <2>1. Atomic!Store
    BY <1>2, LogicalType DEF Atomic!Store, Atomic!Subscriptions, Subscriptions,
       Logical
  <2> QED
    BY <2>1 DEF Atomic!Next
<1>3. CASE ~storing /\ storing'
  <2>1. Atomic!StartStoring
    BY <1>3 DEF Atomic!StartStoring, Logical
  <2> QED
    BY <2>1 DEF Atomic!Next
<1> QED
  BY <1>1, <1>2, <1>3

\* A step of an operation that stores subscription data changes nothing else.
LEMMA StoringStep ==
    ASSUME TypeOK', op \in SetOps \cup {"fetch"}, UNCHANGED <<LogicalConfig, Reported>>
    PROVE  [Atomic!Next]_Atomic!vars
<1>1. LogicalSubscription' \in Subscriptions
  BY DEF TypeOK, FilesOK, LogicalSubscription, Subscriptions
<1>2. Atomic!Store
  BY <1>1 DEF Atomic!Store, Atomic!Subscriptions, Subscriptions
<1> QED
  BY <1>2 DEF Atomic!Next

\* A fresh installation is a fresh AtomicConfig.
LEMMA RefinesInit == Init => Atomic!Init
<1> SUFFICES ASSUME Init PROVE Atomic!Init
  OBVIOUS
<1>1. LogicalConfig = cfg /\ LogicalSubscription = sub /\ Reported = NoStatus
  BY DEF Init, LogicalConfig, LogicalSubscription, Uncommitted, Reported,
     Resolved, NoTx
<1>2. sub \in Subscriptions
  BY TypeInit DEF TypeOK, FilesOK
<1>3. op \notin SetOps \cup {"fetch"}
  BY DEF Init, SetOps
<1> QED
  BY <1>1, <1>2, <1>3 DEF Init, Atomic!Init, Atomic!Subscriptions,
     Subscriptions, Atomic!NoReport, NoStatus
\* The steps that leave what the files amount to as it was.
LEMMA KeepingStep ==
    ASSUME TypeOK, TransactionInv, RefinementInv, [Next]_vars,
           ~StoreFetched, ~JournalCommitted, ~RecordOutcome, ~RecordFailure, ~SetSource, ~Crash
    PROVE  UNCHANGED Logical
<1>t. tx \in Transactions /\ journal \in Transactions
  BY DEF TypeOK, FilesOK, HolderOK
<1> USE DEF Logical, LogicalConfig, LogicalSubscription, Uncommitted, Reported,
        Resolved, RefinementInv, TransactionInv, JournalInv, SubscriptionInv,
        ConfigInv, Restoring, Cleaning, Staged, Renamed, Reporting,
        Unjournalled
<1>a. CASE \E o \in Ops : Begin(o)
  BY <1>a DEF Begin, files, subFiles, scratch
<1>1. CASE RecoverNothing \/ RecoverUncommitted \/ RecoverFails
  BY <1>1 DEF RecoverNothing, RecoverUncommitted, RecoverFails, files,
     subFiles, scratch
<1>2. CASE RecoverCommitted
  BY <1>2 DEF RecoverCommitted, subFiles, scratch, Same
<1>3. CASE RestoreConfig
  BY <1>3 DEF RestoreConfig, subFiles, scratch
<1>4. CASE RestoreSubscription
  BY <1>4 DEF RestoreSubscription, SubTears, scratch
<1>5. CASE RestoreFailed \/ CleanStaging
  BY <1>5 DEF RestoreFailed, CleanStaging, subFiles
<1>6. CASE CleanBackup
  BY <1>6 DEF CleanBackup, subFiles
<1>7. CASE CleanMarker
  BY <1>7 DEF CleanMarker, NoTx, Same, ModeInv, subFiles, scratch
<1>8. CASE ResolveSource \/ Download
  BY <1>8 DEF ResolveSource, Download, subFiles, scratch
<1>9. CASE Stage \/ Validate \/ Backup \/ Abort
  BY <1>9 DEF Stage, Validate, Backup, Abort, subFiles
<1>10. CASE JournalPrepared
  BY <1>10, <1>t DEF JournalPrepared, Journal, subFiles, scratch, Transactions
<1>11. CASE CommitConfig
  BY <1>11 DEF CommitConfig, subFiles
<1>12. CASE JournalConfigCommitted
  BY <1>12, <1>t DEF JournalConfigCommitted, Journal, subFiles, scratch,
     Transactions
<1>13. CASE CommitSubscription
  BY <1>13 DEF CommitSubscription
<1>14. CASE RecordPending
  <2>1. /\ journal.state = "committed" /\ journal.pending = tx.pending
        /\ status.at < tx.pending.at
    BY <1>14 DEF RecordPending, ClockInv, ModeInv
  <2>2. ~Same(status, journal.pending)
    BY <2>1, Attempts DEF Same
  <2>3. UNCHANGED <<cfg, sub, cfgBak, subBak, journal>> /\ status' \in {status, tx.pending}
    BY <1>14 DEF RecordPending, subFiles, scratch
  <2> QED
    BY <2>1, <2>2, <2>3
<1>15. CASE Reload
  BY <1>15 DEF Reload, files, subFiles, scratch
<1>16. CASE RemoveJournal
  BY <1>16 DEF RemoveJournal, NoTx, subFiles, scratch
<1>17. CASE CoreRestarts \/ ReadStatus \/ ReadJournal \/ UNCHANGED vars
  BY <1>17 DEF CoreRestarts, ReadStatus, ReadJournal, vars, files, subFiles,
     scratch
<1> QED
  BY <1>a, <1>1, <1>2, <1>3, <1>4, <1>5, <1>6, <1>7, <1>8, <1>9, <1>10, <1>11,
     <1>12, <1>13, <1>14, <1>15, <1>16, <1>17 DEF Next, Step, Recovery, Apply

\* Config, subscription and report change together when the journal says so.
LEMMA CommitStep ==
    ASSUME TypeOK, TransactionInv, RefinementInv, JournalCommitted
    PROVE  [Atomic!Next]_Atomic!vars
<1>t. tx \in Transactions /\ journal \in Transactions
  BY DEF TypeOK, FilesOK, HolderOK
<1>1. CASE UNCHANGED journal
  <2>1. UNCHANGED Logical
    BY <1>1 DEF JournalCommitted, Logical, LogicalConfig, LogicalSubscription,
       Uncommitted, Reported, Resolved, scratch, subFiles
  <2> QED
    BY <2>1, QuietStep
<1>2. CASE journal' # journal
  <2>1. /\ pc = "markCommitted" /\ journal' = tx' /\ tx' = [tx EXCEPT !.state = "committed"]
        /\ UNCHANGED <<cfg, sub, status, op, clock>>
    BY <1>2 DEF JournalCommitted, Journal, subFiles
  <2>2. journal'.state = "committed" /\ journal'.pending = tx.pending
    BY <1>t, <2>1 DEF Transactions
  <2>3. /\ cfg = Render(tx.pending.data) /\ sub = tx.pending.data /\ tx.pending.state = "pending-reload"
        /\ op \in ApplyOps /\ status.at < tx.pending.at /\ tx.pending.at = clock
        /\ journal.state \in {"prepared", "config-committed"}
    BY <2>1 DEF TransactionInv, ConfigInv, JournalInv, ModeInv, NewConfig,
       RefinementInv, OpInv, ClockInv, SubscriptionInv, Renamed, Restoring,
       Cleaning, Reporting, Uncommitted
  <2>4. tx.pending \in Statuses /\ status.at \in Nat
    BY <1>t DEF Transactions, TypeOK, FilesOK, Statuses
  <2>5. Reported = status /\ Reported' = tx.pending
    BY <2>1, <2>2, <2>3, <2>4 DEF Reported, Resolved, Same
  <2>6. LogicalConfig' = Render(LogicalSubscription') /\ LogicalSubscription' = tx.pending.data
    BY <2>1, <2>2, <2>3 DEF LogicalConfig, LogicalSubscription, Uncommitted
  <2>7. tx.pending = [state |-> "pending-reload", at |-> tx.pending.at, data |-> tx.pending.data]
    BY <2>3, <2>4 DEF Statuses
  <2>8. tx.pending.data \in Subscriptions /\ tx.pending.at > status.at
    BY <2>3, <2>4 DEF Statuses
  <2>9. op \notin SetOps \cup {"fetch"} /\ op' \notin SetOps \cup {"fetch"}
    BY <2>1, <2>3 DEF SetOps, ApplyOps
  <2>10. Atomic!Commit
    BY <2>5, <2>6, <2>7, <2>8, <2>9 DEF Atomic!Commit, Atomic!Subscriptions,
       Subscriptions, Atomic!Render, Render
  <2> QED
    BY <2>10 DEF Atomic!Next
<1> QED
  BY <1>1, <1>2
\* A reload that succeeded confirms the report; one that did not leaves it.
LEMMA OutcomeStep ==
    ASSUME TypeOK, TransactionInv, RefinementInv, RecordOutcome
    PROVE  [Atomic!Next]_Atomic!vars
<1>t. tx \in Transactions /\ journal \in Transactions
  BY DEF TypeOK, FilesOK, HolderOK
<1>1. /\ journal.state = "committed" /\ journal.pending = tx.pending /\ status = tx.pending
      /\ tx.pending.state = "pending-reload" /\ outcome \in {"applied", "pending-reload"}
      /\ op \in ApplyOps
  BY DEF RecordOutcome, TransactionInv, ModeInv, JournalInv, ConfigInv,
     RefinementInv, OpInv, ClockInv, Reporting
<1>2. UNCHANGED <<cfg, sub, subBak, journal>> /\ (op' = op \/ op' = "none")
  BY DEF RecordOutcome, Stay, Release, scratch, subFiles
<1>3. tx.pending \in Statuses
  BY <1>t DEF Transactions
<1>4. Reported = tx.pending /\ UNCHANGED <<LogicalConfig, LogicalSubscription>>
  BY <1>1, <1>2 DEF Reported, Resolved, Same, LogicalConfig,
     LogicalSubscription, Uncommitted
<1>5. op \notin SetOps \cup {"fetch"} /\ op' \notin SetOps \cup {"fetch"}
  BY <1>1, <1>2 DEF SetOps, ApplyOps
<1>6. CASE UNCHANGED status
  BY <1>2, <1>4, <1>6, QuietStep DEF Logical, Reported
<1>7. CASE status' = [tx.pending EXCEPT !.state = outcome]
  <2>1. Same(status', tx.pending)
    BY <1>1, <1>3, <1>7 DEF Same, Statuses
  <2>2. Reported' = [tx.pending EXCEPT !.state = outcome]
    BY <1>1, <1>2, <1>7, <2>1 DEF Reported, Resolved
  <2>3. CASE outcome = "applied"
    <3>1. Atomic!Confirm
      BY <1>1, <1>4, <1>5, <2>2, <2>3 DEF Atomic!Confirm
    <3> QED
      BY <3>1 DEF Atomic!Next
  <2>4. CASE outcome = "pending-reload"
    <3>1. Reported' = Reported
      BY <1>1, <1>3, <1>4, <2>2, <2>4 DEF Statuses
    <3> QED
      BY <1>4, <3>1, QuietStep DEF Logical
  <2> QED
    BY <1>1, <2>3, <2>4
<1> QED
  BY <1>6, <1>7 DEF RecordOutcome

\* A failed attempt reports itself and nothing else.
LEMMA FailureStep ==
    ASSUME TypeOK, TransactionInv, RefinementInv, RecordFailure
    PROVE  [Atomic!Next]_Atomic!vars
<1>1. /\ journal.state # "committed" /\ outcome \in Failures /\ op \in ApplyOps
      /\ status.at < clock
  BY DEF RecordFailure, TransactionInv, ModeInv, JournalInv, RefinementInv,
     OpInv, ClockInv, Reporting
<1>2. UNCHANGED <<cfg, sub, cfgBak, subBak, journal>> /\ op' = "none"
  BY DEF RecordFailure, Release, scratch, subFiles
<1>3. Reported = status /\ Reported' = status' /\ UNCHANGED <<LogicalConfig, LogicalSubscription>>
  BY <1>1, <1>2 DEF Reported, Resolved, LogicalConfig, LogicalSubscription,
     Uncommitted
<1>4. CASE UNCHANGED status
  BY <1>3, <1>4, QuietStep DEF Logical
<1>5. CASE status' = [state |-> outcome, at |-> clock, data |-> tx.pending.data]
  <2>1. op \notin SetOps \cup {"fetch"} /\ op' \notin SetOps \cup {"fetch"}
    BY <1>1, <1>2 DEF SetOps, ApplyOps
  <2>2. Atomic!Fail
    BY <1>1, <1>3, <1>5, <2>1, Attempts DEF Atomic!Fail, Failures
  <2> QED
    BY <2>2 DEF Atomic!Next
<1> QED
  BY <1>4, <1>5 DEF RecordFailure

\* A crash in the middle of a write tears a file that recovery replaces, or the
\* one that is being stored.
LEMMA CrashStep ==
    ASSUME TypeOK, TransactionInv, RefinementInv, Crash, TypeOK'
    PROVE  [Atomic!Next]_Atomic!vars
<1>1. UNCHANGED <<cfgBak, subBak, journal, status>>
  BY DEF Crash, scratch
<1>2. UNCHANGED <<LogicalConfig, Reported>>
  BY <1>1 DEF Crash, CfgTears, LogicalConfig, Uncommitted, Reported,
     TransactionInv, JournalInv, Restoring
<1>3. CASE UNCHANGED sub
  BY <1>1, <1>2, <1>3, QuietStep DEF Logical, LogicalSubscription, Uncommitted
<1>4. CASE pc = "restoreSub" /\ tx.subExisted /\ subBak # Absent
  <2>1. UNCHANGED LogicalSubscription
    BY <1>1, <1>4 DEF LogicalSubscription, Uncommitted, TransactionInv,
       JournalInv, RefinementInv, SubscriptionInv, Restoring
  <2> QED
    BY <1>2, <2>1, QuietStep DEF Logical
<1>5. CASE pc \in {"set1", "undo1"}
  BY <1>2, <1>5, StoringStep DEF RefinementInv, OpInv, SetSteps
<1> QED
  BY <1>3, <1>4, <1>5 DEF Crash, SubTears

\* Fetching and setting a source store subscription data.
LEMMA StoringSteps ==
    ASSUME TypeOK, TransactionInv, RefinementInv, TypeOK', StoreFetched \/ SetSource
    PROVE  [Atomic!Next]_Atomic!vars
<1>1. op \in SetOps \cup {"fetch"} /\ journal.state = "none"
  BY DEF StoreFetched, SetSource, SetFirst, SetSecond, SetMarker, UndoData,
     UndoUrl, UndoMarker, RefinementInv, OpInv, SetSteps, TransactionInv,
     JournalInv, Unjournalled
<1>2. UNCHANGED <<cfg, journal, status>>
  BY DEF StoreFetched, SetSource, SetFirst, SetSecond, SetMarker, UndoData,
     UndoUrl, UndoMarker
<1>3. UNCHANGED <<LogicalConfig, Reported>>
  BY <1>1, <1>2 DEF LogicalConfig, Reported, Uncommitted
<1> QED
  BY <1>1, <1>3, StoringStep

\* Every step maps to a step of AtomicConfig or a stutter.
LEMMA RefinesStep ==
    TypeOK /\ TypeOK' /\ TransactionInv /\ RefinementInv /\ [Next]_vars
        => [Atomic!Next]_Atomic!vars
<1> SUFFICES ASSUME TypeOK, TypeOK', TransactionInv, RefinementInv, [Next]_vars
             PROVE  [Atomic!Next]_Atomic!vars
  OBVIOUS
<1>1. CASE StoreFetched \/ SetSource
  BY <1>1, StoringSteps
<1>2. CASE JournalCommitted
  BY <1>2, CommitStep
<1>3. CASE RecordOutcome
  BY <1>3, OutcomeStep
<1>4. CASE RecordFailure
  BY <1>4, FailureStep
<1>5. CASE Crash
  BY <1>5, CrashStep
<1> QED
  BY <1>1, <1>2, <1>3, <1>4, <1>5, KeepingStep, QuietStep

\* In the beginning there is no attempt.
LEMMA RefinementInit == Init => RefinementInv
  BY DEF Init, RefinementInv, OpInv, ClockInv, SubscriptionInv, SetSteps,
     Staged, Renamed, Reporting, Restoring, Cleaning, ApplyOps, NoTx, NoStatus

-------------------------------------------------------------------------------
\* Operations, attempts and the subscription are as the invariant says.
THEOREM RefinementCorrect == Spec => []RefinementInv
<1>1. TypeOK /\ TransactionInv /\ RefinementInv /\ [Next]_vars => RefinementInv'
  BY OpStep, ClockStep, SubscriptionStep DEF RefinementInv
<1> QED
  BY <1>1, RefinementInit, TypeCorrect, TransactionCorrect, PTL DEF Spec

(***************************************************************************)
(* The pipeline is atomic to its callers: whatever crashes, fails or is    *)
(* torn, config and subscription become current in one step, recovery      *)
(* moves neither, a failed attempt leaves both alone and the report never  *)
(* goes back (config.go:170-262, 659-752, 828-912; config_manager.go:8-19). *)
(***************************************************************************)
THEOREM PipelineIsAtomic == Spec => ImplementsAtomicConfig
<1>1. Init => Atomic!Init
  BY RefinesInit
<1>2. TypeOK /\ TypeOK' /\ TransactionInv /\ RefinementInv /\ [Next]_vars
          => [Atomic!Next]_Atomic!vars
  BY RefinesStep
<1> QED
  BY <1>1, <1>2, TypeCorrect, TransactionCorrect, RefinementCorrect, PTL DEF
     Spec, ImplementsAtomicConfig, Atomic!Spec

(***************************************************************************)
(* LastConfigApply, which reads without the lock, never answers with an    *)
(* attempt older than the status file it has read (config.go:940-970).     *)
(***************************************************************************)
THEOREM AnswerIsNotBehind == Spec => AnswerNotBehindStatusFile
<1>1. ASSUME TypeOK, RefinementInv, rpc = "journal" PROVE Answer.at >= rstatus.at
  <2>1. /\ rstatus.at <= status.at
        /\ journal.state = "committed" => status.at <= journal.pending.at
    BY <1>1 DEF RefinementInv, ClockInv
  <2>2. journal.state = "committed" => journal.pending.at >= rstatus.at
    BY <1>1, <2>1, Attempts
  <2> QED
    BY <1>1, <2>2, Attempts DEF Answer, Resolved
<1> QED
  BY <1>1, TypeCorrect, RefinementCorrect, PTL DEF AnswerNotBehindStatusFile
-------------------------------------------------------------------------------
\* What is left on disk.

\* Where only a fault leads.
Undoing == Restoring \cup {"abort", "cleanMarker", "undo1", "undo2", "undo3"}

\* Where an attempt that has committed cleans up.
Committed == {"cleanStaging", "cleanBackup"}

\* Without a fault, what each step of an attempt may find of its files.
LeakInv ==
    faults = 0 =>
        /\ pc \notin Undoing
        /\ pc \in Committed => mode = "commit"
        /\ staged # Absent => pc \in Staged
        /\ cand # Absent =>
               \/ /\ pc \in {"stage", "markCfg", "renameSub"} \cup Staged
                  /\ tx.subStaged
               \/ pc = "storeFetched"
        /\ subBak # Absent =>
               /\ pc \in {"prepare", "renameCfg"} \cup Renamed \cup Committed
               /\ tx.subExisted
        /\ journal # NoTx =>
               pc \in {"renameCfg"} \cup Renamed \cup Committed \cup Reporting

\* The sources while SetSubscriptionSource changes them.  Only a fault makes it
\* undo, so while there has been only one the undoing itself has not failed.
SourcesInv ==
    /\ pc \in {"set1", "set2", "set3"} => op \in SetOps
    /\ pc \in {"set2", "set3"} =>
           IF op = "setRemote" THEN url = "url" ELSE sub \in Data
    /\ pc = "set3" =>
           IF op = "setRemote" THEN sub = Absent ELSE url = "none"
    /\ pc \in {"undo1", "undo2", "undo3"} => faults > 0
    /\ pc \in {"undo2", "undo3"} /\ faults = 1 => sub = snap.sub
    /\ pc = "undo3" /\ faults = 1 => url = snap.url
-------------------------------------------------------------------------------
\* A step without a fault leaves what it should, and none leads to undoing.
LEMMA LeakStep == TypeOK /\ LeakInv /\ [Next]_vars => LeakInv'
<1> SUFFICES ASSUME TypeOK, LeakInv, [Next]_vars, faults' = 0 PROVE LeakInv'
  BY DEF LeakInv
<1>0. faults \in Nat /\ tx \in Transactions
  BY DEF TypeOK, WorldOK, HolderOK
<1>f. faults' = faults /\ faults = 0 /\ ~Faulty
  <2>1. faults' = faults \/ faults' = faults + 1
    BY DEF Next, Step, Recovery, Apply, SetSource, Begin, RecoverNothing,
       RecoverCommitted, RecoverUncommitted, RecoverFails, RestoreConfig,
       RestoreSubscription, RestoreFailed, CleanStaging, CleanBackup,
       CleanMarker, RemoveStaging, ResolveSource, Download, StoreFetched,
       Stage, Validate, Backup, Abort, JournalPrepared, CommitConfig,
       JournalConfigCommitted, CommitSubscription, JournalCommitted, Journal,
       RecordPending, Reload, RecordOutcome, RemoveJournal, RecordFailure,
       SetFirst, SetSecond, SetMarker, UndoData, UndoUrl, UndoMarker, Crash,
       CoreRestarts, ReadStatus, ReadJournal, vars, Ok, Faulty
  <2> QED
    BY <1>0, <2>1 DEF Faulty
<1> USE DEF LeakInv, Undoing, Committed, Restoring, Staged, Renamed, Reporting,
        Goto, Stay, Release
<1>1. CASE \E o \in Ops : Begin(o)
  BY <1>f, <1>1 DEF Begin, files, scratch
<1>2. CASE Recovery
  BY <1>f, <1>2 DEF Recovery, RecoverNothing, RecoverCommitted,
     RecoverUncommitted, RecoverFails, RestoreConfig, RestoreSubscription,
     RestoreFailed, CleanStaging, CleanBackup, CleanMarker, RemoveStaging,
     Prepared, files, scratch, NoTx
<1>3. CASE ResolveSource \/ Download \/ StoreFetched
  BY <1>0, <1>f, <1>3 DEF ResolveSource, Resolves, Download, GivesUp,
     StoreFetched, scratch, Transactions
<1>4. CASE Stage
  BY <1>0, <1>f, <1>4 DEF Stage, RemoveStaging, Transactions
<1>5. CASE Validate \/ Backup \/ Abort
  BY <1>0, <1>f, <1>5 DEF Validate, Backup, Abort, RemoveStaging, Transactions
<1>6. CASE \/ JournalPrepared \/ CommitConfig \/ JournalConfigCommitted
           \/ CommitSubscription \/ JournalCommitted
  BY <1>0, <1>f, <1>6 DEF JournalPrepared, CommitConfig,
     JournalConfigCommitted, CommitSubscription, JournalCommitted, Journal,
     scratch, Transactions
<1>7. CASE \/ RecordPending \/ Reload \/ RecordOutcome
           \/ RemoveJournal \/ RecordFailure
  BY <1>f, <1>7 DEF RecordPending, Reload, RecordOutcome, RemoveJournal,
     RecordFailure, files, scratch
<1>8. CASE SetSource
  BY <1>f, <1>8 DEF SetSource, SetFirst, SetSecond, SetMarker, UndoData,
     UndoUrl, UndoMarker, Undo, UndoFrom, scratch
<1>9. CASE Crash \/ CoreRestarts \/ ReadStatus \/ ReadJournal \/ UNCHANGED vars
  BY <1>f, <1>9 DEF Crash, CoreRestarts, ReadStatus, ReadJournal, vars, holder,
     files, scratch
<1> QED
  BY <1>1, <1>2, <1>3, <1>4, <1>5, <1>6, <1>7, <1>8, <1>9 DEF Next, Step, Apply

\* Every step of SetSubscriptionSource leaves the sources as the next one needs
\* them; the others do not come near.
LEMMA SourcesStep == TypeOK /\ SourcesInv /\ [Next]_vars => SourcesInv'
<1> SUFFICES ASSUME TypeOK, SourcesInv, [Next]_vars PROVE SourcesInv'
  OBVIOUS
<1>0. faults \in Nat
  BY DEF TypeOK, WorldOK
<1> USE DEF SourcesInv, SetOps, Goto, Stay, Release
<1>1. CASE \E o \in Ops : Begin(o)
  BY <1>0, <1>1 DEF Begin
<1>2. CASE Recovery
  BY <1>0, <1>2 DEF Recovery, RecoverNothing, RecoverCommitted,
     RecoverUncommitted, RecoverFails, RestoreConfig, RestoreSubscription,
     RestoreFailed, CleanStaging, CleanBackup, CleanMarker, AfterConfig,
     AfterRestore, Prepared
<1>3. CASE Apply
  BY <1>0, <1>3 DEF Apply, ResolveSource, Resolves, Download, GivesUp,
     StoreFetched, Stage, Validate, Backup, Abort, JournalPrepared,
     CommitConfig, JournalConfigCommitted, CommitSubscription,
     JournalCommitted, Journal, Rollback, RecordPending, Reload, RecordOutcome,
     RemoveJournal, RecordFailure
<1>4. CASE SetFirst \/ SetSecond \/ SetMarker
  BY <1>0, <1>4 DEF SetFirst, SetSecond, SetMarker, ClearOther, Undo, UndoFrom,
     Ok, Faulty
<1>5. CASE UndoData \/ UndoUrl \/ UndoMarker
  BY <1>0, <1>5 DEF UndoData, UndoUrl, UndoMarker, Ok, Faulty
<1>6. CASE Crash \/ CoreRestarts \/ ReadStatus \/ ReadJournal \/ UNCHANGED vars
  BY <1>0, <1>6 DEF Crash, CoreRestarts, ReadStatus, ReadJournal, vars, holder,
     files, subFiles
<1> QED
  BY <1>1, <1>2, <1>3, <1>4, <1>5, <1>6 DEF Next, Step, SetSource

\* In the beginning there is no attempt, and no file of one.
LEMMA LeakInit == Init => LeakInv
  BY DEF Init, LeakInv, Undoing, Committed, Restoring, Staged, Renamed

\* In the beginning no source is being set.
LEMMA SourcesInit == Init => SourcesInv
  BY DEF Init, SourcesInv

-------------------------------------------------------------------------------
\* While nothing fails, every file of an attempt is where its step expects it.
THEOREM LeakCorrect == Spec => []LeakInv
  BY LeakInit, LeakStep, TypeCorrect, PTL DEF Spec

\* The sources are as the steps that set or restore them need them.
THEOREM SourcesCorrect == Spec => []SourcesInv
  BY SourcesInit, SourcesStep, TypeCorrect, PTL DEF Spec

(***************************************************************************)
(* Without a crash or a failing file operation no operation leaves a       *)
(* staging directory, a candidate, a subscription backup or a journal      *)
(* behind (config.go:170-262, 610-752, 828-912).                           *)
(***************************************************************************)
THEOREM NothingLeaksCorrect == Spec => []NothingLeaks
<1>1. LeakInv => NothingLeaks
  BY DEF LeakInv, NothingLeaks, Committed, Staged, Renamed, Reporting
<1> QED
  BY <1>1, LeakCorrect, PTL

\* SetSubscriptionSource returns by its last step, or dies.
LEMMA LastStep ==
    ASSUME [Next]_vars, pc \in {"set3", "undo3"}, pc' = "idle"
    PROVE  \/ pc = "set3" /\ SetMarker
           \/ pc = "undo3" /\ UndoMarker
           \/ Crash
<1>1. ~Recovery /\ ~Apply
  BY DEF Recovery, RecoverNothing, RecoverCommitted, RecoverUncommitted,
     RecoverFails, RestoreConfig, RestoreSubscription, RestoreFailed,
     CleanStaging, CleanBackup, CleanMarker, Apply, ResolveSource, Download,
     StoreFetched, Stage, Validate, Backup, Abort, JournalPrepared,
     CommitConfig, JournalConfigCommitted, CommitSubscription,
     JournalCommitted, RecordPending, Reload, RecordOutcome, RemoveJournal,
     RecordFailure
<1>2. pc' # pc
  OBVIOUS
<1> QED
  BY <1>1, <1>2 DEF Next, Step, Begin, SetSource, SetFirst, SetSecond,
     SetMarker, UndoData, UndoUrl, UndoMarker, CoreRestarts, ReadStatus,
     ReadJournal, vars, holder

(***************************************************************************)
(* When SetSubscriptionSource returns success, the next operation resolves *)
(* the source it set, whatever torn or conflicting files it found          *)
(* (config.go:311-375, 402-468).                                           *)
(***************************************************************************)
THEOREM SetSourceIsUsable == Spec => SetLeavesUsableSource
<1>1. ASSUME TypeOK, SourcesInv, [Next]_vars, pc = "set3", pc' = "idle",
             faults' = faults
      PROVE  SourceResults' = {IF op = "setRemote" THEN "remote" ELSE "local"}
  <2>1. SetMarker /\ ~Faulty
    BY <1>1, LastStep DEF Crash, Faulty, TypeOK, WorldOK
  <2>2. /\ marker' = IF op = "setRemote" THEN "remote" ELSE "local"
        /\ UNCHANGED <<sub, url>>
    BY <2>1 DEF SetMarker
  <2>3. /\ op \in {"setRemote", "setLocal"}
        /\ IF op = "setRemote" THEN url = "url" ELSE sub \in Data
    BY <1>1 DEF SourcesInv, SetOps
  <2> QED
    BY <2>2, <2>3 DEF SourceResults
<1> QED
  BY <1>1, TypeCorrect, SourcesCorrect, PTL DEF Spec, SetLeavesUsableSource

(***************************************************************************)
(* When one write of SetSubscriptionSource fails and nothing else does,    *)
(* its rollback leaves the three files as they were (config.go:279-305).   *)
(***************************************************************************)
THEOREM RollbackIsExact == Spec => RollbackRestoresSources
<1>1. ASSUME TypeOK, SourcesInv, [Next]_vars, pc = "undo3", pc' = "idle",
             faults' = 1
      PROVE  [sub |-> sub', url |-> url', marker |-> marker'] = snap
  <2>1. UndoMarker /\ ~Faulty /\ faults = 1
    BY <1>1, LastStep DEF Crash, UndoMarker, Ok, Faulty, TypeOK, WorldOK,
       SourcesInv
  <2>2. sub' = snap.sub /\ url' = snap.url /\ marker' = snap.marker
    BY <1>1, <2>1 DEF UndoMarker, SourcesInv
  <2> QED
    BY <1>1, <2>2 DEF TypeOK, HolderOK
<1> QED
  BY <1>1, TypeCorrect, SourcesCorrect, PTL DEF Spec, RollbackRestoresSources
===============================================================================
