---------------------------- MODULE ConfigPipeline ----------------------------
(***************************************************************************)
(* The config update pipeline (internal/manager/config.go): one process at *)
(* a time holds the instance lock and runs one operation, step by step, on *)
(* the files of the config directory and of the state directory.  Between  *)
(* any two steps the process may be killed, a file operation may fail, the *)
(* core may be restarted behind the manager's back, and another process    *)
(* may be reading the last apply status, which takes no lock.              *)
(*                                                                         *)
(* A file holds a subscription content, or is Absent, or is Torn: writing  *)
(* in place truncates first (system.go:82-99), so a write cut short leaves *)
(* neither content.  Writing beside and renaming is one step.  The         *)
(* override file is fixed, so a config is named by the subscription        *)
(* content it is rendered from.                                            *)
(***************************************************************************)
EXTENDS Naturals

CONSTANTS Data,            \* subscription contents
          Absent,          \* there is no such file
          Torn,            \* a file whose last write was cut short
          Base,            \* the config rendered when no subscription is stored
          Ops,             \* operations processes may start
          ServiceRestarts, \* whether the core is restarted behind the pipeline
          MaxAttempts,     \* bound on apply attempts
          MaxFaults        \* bound on crashes plus failed file operations

ApplyOps == {"sync", "apply"}
SetOps   == {"setRemote", "setLocal"}
AllOps   == ApplyOps \cup SetOps \cup {"fetch", "preview", "validate"}

ASSUME OpsAssumption == Ops \subseteq AllOps
ASSUME BoundsAssumption == /\ MaxAttempts \in Nat
                           /\ MaxFaults \in Nat
                           /\ ServiceRestarts \in BOOLEAN
ASSUME FilesAssumption == /\ Absent \notin Data
                          /\ Torn \notin Data \cup {Absent}
                          /\ Base \notin Data \cup {Absent, Torn}

VARIABLES
    \* --- files ---
    cfg,      \* config.yaml
    sub,      \* subscription-data.txt
    url,      \* subscription-url.txt
    marker,   \* subscription-source.txt
    staged,   \* config.yaml in the staging directory
    cand,     \* subscription-data.txt.tmp
    cfgBak,   \* config.yaml.bak.N of the latest transaction
    subBak,   \* subscription-data.txt.bak.N of the latest transaction
    journal,  \* the transaction journal
    status,   \* the apply status file
    \* --- the process holding the instance lock ---
    pc,       \* its next step; "idle" when the lock is free
    op,       \* the operation it runs
    mode,     \* why it restores and cleans up: recovery, rollback or commit
    tx,       \* its transaction record
    bad,      \* whether restoring or cleaning up has failed
    outcome,  \* the apply state it will record
    snap,     \* subscription files as SetSubscriptionSource found them
    \* --- the rest of the world ---
    live,     \* the config the running core has loaded
    clock,    \* number of apply attempts so far, the time of the latest
    faults,   \* crashes and failed file operations so far
    rpc,      \* a LastConfigApply reader: "idle" or about to read the "journal"
    rstatus,  \* the status file it has read
    rfloor    \* what the files said of the last attempt when it started

subFiles == <<sub, url, marker>>
scratch  == <<staged, cand, cfgBak, subBak>>
files    == <<cfg, subFiles, scratch, journal, status>>
holder   == <<pc, op, mode, tx, bad, outcome, snap>>
reader   == <<rpc, rstatus, rfloor>>
vars     == <<files, holder, live, clock, faults, reader>>

Subscriptions == Data \cup {Absent, Torn}
Contents      == Subscriptions \cup {Base}
Urls          == {"none", "url", "torn"}
Markers       == {"none", "remote", "local", "torn"}
ApplyStates   == {"unknown", "validation-failed", "apply-failed",
                  "pending-reload", "applied"}
Statuses      == [state : ApplyStates, at : Nat, data : Subscriptions]
NoStatus      == [state |-> "unknown", at |-> 0, data |-> Absent]

\* A journal in state "none" stands for a journal file that does not exist.
JournalStates == {"none", "prepared", "config-committed", "committed"}
Transactions  == [state : JournalStates, cfgExisted : BOOLEAN,
                  subStaged : BOOLEAN, subExisted : BOOLEAN, pending : Statuses]
NoTx == [state |-> "none", cfgExisted |-> FALSE, subStaged |-> FALSE,
         subExisted |-> FALSE, pending |-> NoStatus]
Steps == {"idle", "recover", "restoreCfg", "restoreSub", "restoreFailed",
          "cleanStaging", "cleanBackup", "cleanMarker", "resolve", "download",
          "storeFetched", "stage", "validate", "backup", "abort", "prepare",
          "renameCfg", "markCfg", "renameSub", "markCommitted",
          "recordPending", "reload", "recordOutcome", "removeJournal", "fail",
          "set1", "set2", "set3", "undo1", "undo2", "undo3"}

NoSnap == [sub |-> Absent, url |-> "none", marker |-> "none"]

Render(d) == IF d = Absent THEN Base ELSE d

Same(s, p) == /\ s.state \in {"applied", "pending-reload"}
              /\ s.at = p.at
              /\ s.data = p.data

\* Mutant: the journal is not consulted.
ResolvedFromStatusOnly(s, j) == s

\* What the status file s and the journal j together say of the last attempt.
Resolved(s, j) == IF j.state = "committed" /\ ~Same(s, j.pending)
                  THEN j.pending ELSE s

Reported == Resolved(status, journal)
-------------------------------------------------------------------------------
(***************************************************************************)
(* Steps of the lock holder.  A step that touches a file may fail; a write *)
(* in place that fails, or is cut short by a crash, may leave a torn file. *)
(***************************************************************************)
Ok     == UNCHANGED faults
Faulty == faults < MaxFaults /\ faults' = faults + 1

Goto(l) == pc' = l

Release == /\ pc' = "idle"
           /\ op' = "none"
           /\ mode' = "recovery"
           /\ tx' = NoTx
           /\ bad' = FALSE
           /\ outcome' = "apply-failed"
           /\ snap' = NoSnap

Stay == UNCHANGED <<op, mode, tx, bad, outcome, snap>>

CfgTears == IF pc = "restoreCfg" /\ tx.cfgExisted THEN {cfg, Torn} ELSE {cfg}
SubTears == IF \/ pc = "restoreSub" /\ tx.subExisted /\ subBak # Absent
               \/ pc = "set1" /\ op = "setLocal"
               \/ pc = "undo1" /\ snap.sub # Absent
            THEN {sub, Torn} ELSE {sub}
UrlTears == IF \/ pc = "set1" /\ op = "setRemote"
               \/ pc = "undo2" /\ snap.url # "none"
            THEN {url, "torn"} ELSE {url}

\* A legacy installation has no marker; its one source file implies it.
Migrates == marker = "none" /\ ((url = "none") # (sub = Absent))

MarkerTears == IF \/ pc = "resolve" /\ Migrates
                  \/ pc = "set3"
                  \/ pc = "undo3" /\ snap.marker # "none"
               THEN {marker, "torn"} ELSE {marker}

Begin(o) ==
    /\ pc = "idle"
    /\ o \in ApplyOps => clock < MaxAttempts
    /\ clock' = IF o \in ApplyOps THEN clock + 1 ELSE clock
    /\ Goto("recover")
    /\ op' = o
    /\ UNCHANGED <<mode, tx, bad, outcome, snap, files, live, faults, reader>>

-------------------------------------------------------------------------------
\* Recovery of an interrupted transaction, and the rollback that shares it.

\* prepareLocked is done: ValidateConfig gives up the lock, the rest go on.
Prepared == \/ op = "validate" /\ Release
            \/ /\ op # "validate"
               /\ Goto(IF op \in SetOps THEN "set1" ELSE "resolve")
               /\ tx' = NoTx
               /\ UNCHANGED <<op, mode, bad, outcome, snap>>

RecoverNothing ==
    /\ pc = "recover" /\ journal.state = "none"
    /\ Prepared
    /\ UNCHANGED <<files, live, clock, faults, reader>>

RecoverCommitted ==
    /\ pc = "recover" /\ journal.state = "committed"
    /\ \/ /\ status' = Reported
          /\ Goto("cleanStaging")
          /\ tx' = journal
          /\ UNCHANGED <<op, mode, bad, outcome, snap>>
          /\ Ok
       \/ Faulty /\ Release /\ UNCHANGED status
    /\ UNCHANGED <<cfg, subFiles, scratch, journal, live, clock, reader>>

RecoverUncommitted ==
    /\ pc = "recover" /\ journal.state \in {"prepared", "config-committed"}
    /\ Goto("restoreCfg")
    /\ tx' = journal
    /\ UNCHANGED <<op, mode, bad, outcome, snap, files, live, clock, faults,
                   reader>>

\* prepareLocked cannot read or protect what it has to.
RecoverFails ==
    /\ pc = "recover"
    /\ Faulty /\ Release
    /\ UNCHANGED <<files, live, clock, reader>>

\* Mutants: a failed restore is tried again; the subscription is not restored.
AfterRestoreRetry == Goto(IF bad' THEN "restoreCfg" ELSE "cleanStaging")
AfterConfigNothing == Goto(IF bad' THEN "restoreFailed" ELSE "cleanStaging")

AfterRestore == Goto(IF bad' THEN "restoreFailed" ELSE "cleanStaging")

AfterConfig == IF tx.subStaged THEN Goto("restoreSub") ELSE AfterRestore

RestoreConfig ==
    /\ pc = "restoreCfg"
    /\ \/ /\ tx.cfgExisted => cfgBak # Absent
          /\ cfg' = IF tx.cfgExisted THEN cfgBak ELSE Absent
          /\ UNCHANGED bad /\ Ok
       \/ tx.cfgExisted /\ cfgBak = Absent /\ bad' = TRUE /\ UNCHANGED cfg /\ Ok
       \/ cfg' \in CfgTears /\ bad' = TRUE /\ Faulty
    /\ AfterConfig
    /\ UNCHANGED <<op, mode, tx, outcome, snap, subFiles, scratch, journal,
                   status, live, clock, reader>>

RestoreSubscription ==
    /\ pc = "restoreSub"
    /\ \/ /\ tx.subExisted => subBak # Absent
          /\ sub' = IF tx.subExisted THEN subBak ELSE Absent
          /\ UNCHANGED bad /\ Ok
       \/ tx.subExisted /\ subBak = Absent /\ bad' = TRUE /\ UNCHANGED sub /\ Ok
       \/ sub' \in SubTears /\ bad' = TRUE /\ Faulty
    /\ AfterRestore
    /\ UNCHANGED <<op, mode, tx, outcome, snap, cfg, url, marker, scratch,
                   journal, status, live, clock, reader>>

\* Mutant: the candidate is forgotten.
RemoveStagingOnly == staged' = Absent /\ UNCHANGED cand /\ Ok

\* Remove the staging directory and, if this transaction has one, the candidate.
RemoveStaging ==
    \/ staged' = Absent /\ cand' = (IF tx.subStaged THEN Absent ELSE cand) /\ Ok
    \/ /\ staged' \in {staged, Absent}
       /\ cand' \in IF tx.subStaged THEN {cand, Absent} ELSE {cand}
       /\ Faulty

\* The journal and the backups stay for the next recovery.
RestoreFailed ==
    /\ pc = "restoreFailed"
    /\ \/ mode = "recovery" /\ Release /\ UNCHANGED <<staged, cand, faults>>
       \/ mode = "rollback" /\ RemoveStaging /\ Goto("fail") /\ Stay
    /\ UNCHANGED <<cfg, subFiles, cfgBak, subBak, journal, status, live, clock,
                   reader>>

CleanStaging ==
    /\ pc = "cleanStaging"
    /\ RemoveStaging
    /\ bad' = (bad \/ faults' # faults)
    /\ Goto("cleanBackup")
    /\ UNCHANGED <<op, mode, tx, outcome, snap, cfg, subFiles, cfgBak, subBak,
                   journal, status, live, clock, reader>>

CleanBackup ==
    /\ pc = "cleanBackup"
    /\ \/ subBak' = (IF tx.subExisted THEN Absent ELSE subBak) /\ UNCHANGED bad /\ Ok
       \/ tx.subExisted /\ UNCHANGED subBak /\ bad' = TRUE /\ Faulty
    /\ Goto(IF mode = "commit" THEN "recordPending" ELSE "cleanMarker")
    /\ UNCHANGED <<op, mode, tx, outcome, snap, cfg, subFiles, staged, cand,
                   cfgBak, journal, status, live, clock, reader>>

\* Mutant: what could not be removed is ignored.
CleanupIgnored == FALSE

CleanupFailed == bad \/ faults' # faults

CleanMarker ==
    /\ pc = "cleanMarker"
    /\ \/ journal' = NoTx /\ Ok
       \/ UNCHANGED journal /\ Faulty
    /\ \/ mode = "recovery" /\ ~CleanupFailed /\ Prepared
       \/ mode = "recovery" /\ CleanupFailed /\ Release
       \/ mode = "rollback" /\ Goto("fail") /\ Stay
    /\ UNCHANGED <<cfg, subFiles, scratch, status, live, clock, reader>>
-------------------------------------------------------------------------------
\* The subscription source, and the download of a fresh candidate.

\* The results subscriptionSource may return; a torn file may read as empty.
SourceResults ==
    CASE marker = "remote" -> IF url = "url" THEN {"remote"}
                              ELSE IF url = "none" THEN {"error"}
                              ELSE {"remote", "error"}
      [] marker = "local"  -> IF sub \in Data THEN {"local"}
                              ELSE IF sub = Absent THEN {"error"}
                              ELSE {"local", "error"}
      [] marker = "torn"   -> {"error"}
      [] OTHER -> IF Migrates
                  THEN {IF sub = Absent THEN "remote" ELSE "local"} \cup
                       (IF url = "torn" \/ sub = Torn THEN {"error"} ELSE {})
                  ELSE IF sub = Absent THEN {"none"} ELSE {"error"}

\* Where an operation goes once the source is known.
Resolves(r) ==
    \/ /\ op \in {"fetch", "apply"} /\ r \in {"error", "none"}
       /\ Release
    \/ op = "preview" /\ Release
    \/ op = "fetch" /\ r = "local" /\ Release
    \/ op = "sync" /\ r \in {"error", "none", "local"} /\ Goto("fail") /\ Stay
    \/ op \in {"sync", "fetch"} /\ r = "remote" /\ Goto("download") /\ Stay
    \/ op = "sync" /\ r = "local" /\ Goto("stage") /\ Stay
    \/ op = "apply" /\ r \in {"local", "remote"} /\ Goto("stage") /\ Stay

ResolveSource ==
    /\ pc = "resolve"
    /\ \/ \E r \in SourceResults :
             /\ marker' = IF Migrates /\ r # "error" THEN r ELSE marker
             /\ Resolves(r)
          /\ Ok
       \/ marker' \in MarkerTears /\ Resolves("error") /\ Faulty
    /\ UNCHANGED <<cfg, sub, url, scratch, journal, status, live, clock, reader>>

\* Mutant: the download is tried again, for ever.
Retries == Goto("resolve") /\ Stay

\* Only the combined refresh-and-apply records that it failed.
GivesUp == IF op = "sync" THEN Goto("fail") /\ Stay ELSE Release

\* An unreachable server, an empty answer and a cancelled context are no faults.
Download ==
    /\ pc = "download"
    /\ \/ /\ cand' \in Data /\ Ok
          /\ tx' = [tx EXCEPT !.subStaged = TRUE]
          /\ Goto(IF op = "sync" THEN "stage" ELSE "storeFetched")
          /\ UNCHANGED <<op, mode, bad, outcome, snap>>
       \/ /\ \/ cand' = Absent /\ Ok
             \/ cand' = Torn /\ Faulty
          /\ GivesUp
    /\ UNCHANGED <<cfg, subFiles, staged, cfgBak, subBak, journal, status, live,
                   clock, reader>>

StoreFetched ==
    /\ pc = "storeFetched"
    /\ \/ sub' = cand /\ cand' = Absent /\ Ok
       \/ UNCHANGED sub /\ cand' \in {cand, Absent} /\ Faulty
    /\ Release
    /\ UNCHANGED <<cfg, url, marker, staged, cfgBak, subBak, journal, status,
                   live, clock, reader>>
-------------------------------------------------------------------------------
\* Rendering, validating and committing a config.

\* Mutant: the record names the rendered config in place of its data.
SourceRendered == Render(IF tx.subStaged THEN cand ELSE sub)

Source == IF tx.subStaged THEN cand ELSE sub

Stage ==
    /\ pc = "stage"
    /\ tx' = [tx EXCEPT !.pending = [state |-> "pending-reload", at |-> clock,
                                     data |-> Source]]
    /\ \/ /\ staged' = Render(Source) /\ UNCHANGED cand /\ Ok
          /\ Goto("validate")
       \/ RemoveStaging /\ Goto("fail")
    /\ UNCHANGED <<op, mode, bad, outcome, snap, cfg, subFiles, cfgBak, subBak,
                   journal, status, live, clock, reader>>

Validate ==
    /\ pc = "validate"
    /\ \/ Goto("backup") /\ UNCHANGED <<outcome, staged, cand, faults>>
       \/ /\ outcome' \in {"validation-failed", "apply-failed"}
          /\ RemoveStaging
          /\ Goto("fail")
    /\ UNCHANGED <<op, mode, tx, bad, snap, cfg, subFiles, cfgBak, subBak,
                   journal, status, live, clock, reader>>

Backup ==
    /\ pc = "backup"
    /\ \/ /\ cfgBak' = cfg
          /\ subBak' = IF tx.subStaged THEN sub ELSE subBak
          /\ tx' = [tx EXCEPT !.cfgExisted = cfg # Absent,
                              !.subExisted = tx.subStaged /\ sub # Absent]
          /\ Goto("prepare") /\ Ok
       \/ /\ cfgBak' \in {cfgBak, cfg, Torn}
          /\ subBak' \in IF tx.subStaged THEN {subBak, Torn} ELSE {subBak}
          /\ UNCHANGED tx
          /\ Goto("abort") /\ Faulty
    /\ UNCHANGED <<op, mode, bad, outcome, snap, cfg, subFiles, staged, cand,
                   journal, status, live, clock, reader>>

\* Nothing has been journalled yet: drop what the attempt left and report.
Abort ==
    /\ pc = "abort"
    /\ RemoveStaging
    /\ subBak' \in {Absent} \cup (IF faults' # faults THEN {subBak} ELSE {})
    /\ Goto("fail") /\ Stay
    /\ UNCHANGED <<cfg, subFiles, cfgBak, journal, status, live, clock, reader>>

Rollback == /\ Goto("restoreCfg")
            /\ mode' = "rollback"
            /\ UNCHANGED <<op, tx, bad, outcome, snap>>

\* Journal state s is written, or the attempt gives up as `Otherwise` says.
Journal(s, next) == /\ tx' = [tx EXCEPT !.state = s]
                    /\ journal' = tx'
                    /\ Goto(next)
                    /\ UNCHANGED <<op, bad, outcome, snap>>
                    /\ Ok

JournalPrepared ==
    /\ pc = "prepare"
    /\ \/ Journal("prepared", "renameCfg") /\ UNCHANGED mode
       \/ UNCHANGED journal /\ Goto("abort") /\ Stay /\ Faulty
    /\ UNCHANGED <<cfg, subFiles, scratch, status, live, clock, reader>>

CommitConfig ==
    /\ pc = "renameCfg"
    /\ \/ cfg' = staged /\ staged' = Absent /\ Goto("markCfg") /\ Stay /\ Ok
       \/ UNCHANGED <<cfg, staged>> /\ Rollback /\ Faulty
    /\ UNCHANGED <<subFiles, cand, cfgBak, subBak, journal, status, live, clock,
                   reader>>

JournalConfigCommitted ==
    /\ pc = "markCfg"
    /\ \/ /\ Journal("config-committed",
                     IF tx.subStaged THEN "renameSub" ELSE "markCommitted")
          /\ UNCHANGED mode
       \/ UNCHANGED journal /\ Rollback /\ Faulty
    /\ UNCHANGED <<cfg, subFiles, scratch, status, live, clock, reader>>

CommitSubscription ==
    /\ pc = "renameSub"
    /\ \/ sub' = cand /\ cand' = Absent /\ Goto("markCommitted") /\ Stay /\ Ok
       \/ UNCHANGED <<sub, cand>> /\ Rollback /\ Faulty
    /\ UNCHANGED <<cfg, url, marker, staged, cfgBak, subBak, journal, status,
                   live, clock, reader>>

JournalCommitted ==
    /\ pc = "markCommitted"
    /\ \/ Journal("committed", "cleanStaging") /\ mode' = "commit"
       \/ UNCHANGED journal /\ Rollback /\ Faulty
    /\ UNCHANGED <<cfg, subFiles, scratch, status, live, clock, reader>>
-------------------------------------------------------------------------------
\* The outcome of an attempt.

RecordPending ==
    /\ pc = "recordPending"
    /\ \/ status' = tx.pending /\ Goto("reload") /\ Stay /\ Ok
       \/ UNCHANGED status /\ Release /\ Faulty
    /\ UNCHANGED <<cfg, subFiles, scratch, journal, live, clock, reader>>

\* Mutant: the reload error is dropped.
ReloadStateAlways(succeeded) == "applied"

ReloadState(succeeded) == IF succeeded THEN "applied" ELSE "pending-reload"

\* A reload that reports failure may have taken effect all the same.
Reload ==
    /\ pc = "reload"
    /\ \/ live' = cfg /\ outcome' = ReloadState(TRUE)
       \/ live' \in {live, cfg} /\ outcome' = ReloadState(FALSE)
    /\ Goto("recordOutcome")
    /\ UNCHANGED <<op, mode, tx, bad, snap, files, clock, faults, reader>>

RecordOutcome ==
    /\ pc = "recordOutcome"
    /\ \/ /\ status' = [tx.pending EXCEPT !.state = outcome]
          /\ Goto("removeJournal") /\ Stay /\ Ok
       \/ UNCHANGED status /\ Release /\ Faulty
    /\ UNCHANGED <<cfg, subFiles, scratch, journal, live, clock, reader>>

RemoveJournal ==
    /\ pc = "removeJournal"
    /\ \/ journal' = NoTx /\ Ok
       \/ UNCHANGED journal /\ Faulty
    /\ Release
    /\ UNCHANGED <<cfg, subFiles, scratch, status, live, clock, reader>>

RecordFailure ==
    /\ pc = "fail"
    /\ \/ /\ status' = [state |-> outcome, at |-> clock, data |-> tx.pending.data]
          /\ Ok
       \/ UNCHANGED status /\ Faulty
    /\ Release
    /\ UNCHANGED <<cfg, subFiles, scratch, journal, live, clock, reader>>
-------------------------------------------------------------------------------
\* SetSubscriptionSource: three files in turn, undone from memory on an error.

\* Mutants: the data is not restored; both sources are cleared.
UndoFromUrl == "undo2"
ClearBoth == sub' = Absent /\ url' = "none"

UndoFrom == "undo1"

\* Only the source that is selected stays.
ClearOther == \/ op = "setRemote" /\ sub' = Absent /\ UNCHANGED url
              \/ op = "setLocal" /\ url' = "none" /\ UNCHANGED sub

Undo(s) == Goto(UndoFrom) /\ snap' = s /\ UNCHANGED <<op, mode, tx, bad, outcome>>

SetFirst ==
    /\ pc = "set1"
    /\ LET found == [sub |-> sub, url |-> url, marker |-> marker] IN
       \/ /\ \/ op = "setRemote" /\ url' = "url" /\ UNCHANGED sub
             \/ op = "setLocal" /\ sub' \in Data /\ UNCHANGED url
          /\ Goto("set2") /\ snap' = found
          /\ UNCHANGED <<op, mode, tx, bad, outcome>> /\ Ok
       \/ url' \in UrlTears /\ sub' \in SubTears /\ Undo(found) /\ Faulty
    /\ UNCHANGED <<cfg, marker, scratch, journal, status, live, clock, reader>>

SetSecond ==
    /\ pc = "set2"
    /\ \/ ClearOther /\ Goto("set3") /\ Stay /\ Ok
       \/ UNCHANGED <<url, sub>> /\ Undo(snap) /\ Faulty
    /\ UNCHANGED <<cfg, marker, scratch, journal, status, live, clock, reader>>

SetMarker ==
    /\ pc = "set3"
    /\ \/ /\ marker' = IF op = "setRemote" THEN "remote" ELSE "local"
          /\ Release /\ Ok
       \/ marker' \in MarkerTears /\ Undo(snap) /\ Faulty
    /\ UNCHANGED <<cfg, sub, url, scratch, journal, status, live, clock, reader>>

UndoData ==
    /\ pc = "undo1"
    /\ \/ sub' = snap.sub /\ Ok
       \/ sub' \in SubTears /\ Faulty
    /\ Goto("undo2") /\ Stay
    /\ UNCHANGED <<cfg, url, marker, scratch, journal, status, live, clock,
                   reader>>

UndoUrl ==
    /\ pc = "undo2"
    /\ \/ url' = snap.url /\ Ok
       \/ url' \in UrlTears /\ Faulty
    /\ Goto("undo3") /\ Stay
    /\ UNCHANGED <<cfg, sub, marker, scratch, journal, status, live, clock,
                   reader>>

UndoMarker ==
    /\ pc = "undo3"
    /\ \/ marker' = snap.marker /\ Ok
       \/ marker' \in MarkerTears /\ Faulty
    /\ Release
    /\ UNCHANGED <<cfg, sub, url, scratch, journal, status, live, clock, reader>>
-------------------------------------------------------------------------------
\* The rest of the world.

\* The process is killed: its memory and its lock are gone, the files stay.
Crash ==
    /\ pc # "idle"
    /\ Faulty
    /\ cfg' \in CfgTears /\ sub' \in SubTears
    /\ url' \in UrlTears /\ marker' \in MarkerTears
    /\ Release
    /\ UNCHANGED <<scratch, journal, status, live, clock, reader>>

\* The core is restarted: by systemd, or by ServiceControl, which takes no lock.
CoreRestarts ==
    /\ ServiceRestarts
    /\ cfg # Absent
    /\ live' = cfg
    /\ UNCHANGED <<files, holder, clock, faults, reader>>

\* LastConfigApply reads the status file, and then the journal.
ReadStatus ==
    /\ rpc = "idle"
    /\ rpc' = "journal"
    /\ rstatus' = status
    /\ rfloor' = Reported.at
    /\ UNCHANGED <<files, holder, live, clock, faults>>

Answer == Resolved(rstatus, journal)

ReadJournal ==
    /\ rpc = "journal"
    /\ rpc' = "idle" /\ rstatus' = NoStatus /\ rfloor' = 0
    /\ UNCHANGED <<files, holder, live, clock, faults>>
-------------------------------------------------------------------------------
\* Sources found at start: none, current ones, and those of old installations.
InitialSources ==
    {[url |-> "none", sub |-> Absent, marker |-> "none"],
     [url |-> "url",  sub |-> Absent, marker |-> "none"],
     [url |-> "url",  sub |-> Absent, marker |-> "remote"]}
    \cup [url : {"none"}, sub : Data, marker : {"none", "local"}]
    \cup [url : {"url"},  sub : Data, marker : {"none", "remote"}]

Init ==
    /\ cfg \in {Absent, Base}
    /\ \E s \in InitialSources : sub = s.sub /\ url = s.url /\ marker = s.marker
    /\ staged = Absent /\ cand = Absent /\ cfgBak = Absent /\ subBak = Absent
    /\ journal = NoTx /\ status = NoStatus
    /\ pc = "idle" /\ op = "none" /\ mode = "recovery" /\ tx = NoTx
    /\ bad = FALSE /\ outcome = "apply-failed" /\ snap = NoSnap
    /\ live = cfg /\ clock = 0 /\ faults = 0
    /\ rpc = "idle" /\ rstatus = NoStatus /\ rfloor = 0

Recovery == \/ RecoverNothing \/ RecoverCommitted \/ RecoverUncommitted
            \/ RecoverFails \/ RestoreConfig \/ RestoreSubscription
            \/ RestoreFailed \/ CleanStaging \/ CleanBackup \/ CleanMarker

Apply == \/ ResolveSource \/ Download \/ StoreFetched \/ Stage \/ Validate
         \/ Backup \/ Abort \/ JournalPrepared \/ CommitConfig
         \/ JournalConfigCommitted \/ CommitSubscription \/ JournalCommitted
         \/ RecordPending \/ Reload \/ RecordOutcome \/ RemoveJournal
         \/ RecordFailure

SetSource == \/ SetFirst \/ SetSecond \/ SetMarker
             \/ UndoData \/ UndoUrl \/ UndoMarker

Step == Recovery \/ Apply \/ SetSource

Next == \/ \E o \in Ops : Begin(o)
        \/ Step
        \/ Crash
        \/ CoreRestarts
        \/ ReadStatus \/ ReadJournal

Spec == Init /\ [][Next]_vars

(***************************************************************************)
(* A process that holds the lock keeps running until it returns or dies,   *)
(* and the scheduled `subscription sync`, or a user looking at a preview,  *)
(* comes back for as long as the machine runs.                             *)
(***************************************************************************)
FairSpec == Spec /\ WF_vars(Step) /\ WF_vars(Begin("preview"))
-------------------------------------------------------------------------------
(***************************************************************************)
(* Properties.                                                             *)
(***************************************************************************)

FilesOK ==
    /\ cfg \in Contents /\ sub \in Subscriptions
    /\ url \in Urls /\ marker \in Markers
    /\ staged \in Contents /\ cand \in Subscriptions
    /\ cfgBak \in Contents /\ subBak \in Subscriptions
    /\ journal \in Transactions
    /\ status \in Statuses

HolderOK ==
    /\ pc \in Steps /\ op \in AllOps \cup {"none"}
    /\ mode \in {"recovery", "rollback", "commit"}
    /\ tx \in Transactions
    /\ bad \in BOOLEAN
    /\ outcome \in ApplyStates
    /\ snap \in [sub : Subscriptions, url : Urls, marker : Markers]

WorldOK ==
    /\ live \in Contents
    /\ clock \in Nat /\ faults \in Nat
    /\ rpc \in {"idle", "journal"} /\ rstatus \in Statuses /\ rfloor \in Nat

\* Every variable holds a value of its kind.
TypeOK == FilesOK /\ HolderOK /\ WorldOK

\* What the files amount to: an uncommitted transaction counts as undone.
Uncommitted == journal.state \in {"prepared", "config-committed"}

LogicalConfig == IF Uncommitted
                 THEN IF journal.cfgExisted THEN cfgBak ELSE Absent
                 ELSE cfg

LogicalSubscription ==
    IF Uncommitted /\ journal.subStaged
    THEN IF ~journal.subExisted THEN Absent
         ELSE IF subBak = Absent THEN sub ELSE subBak
    ELSE sub

Atomic == INSTANCE AtomicConfig WITH config <- LogicalConfig,
                                     subscription <- LogicalSubscription,
                                     report <- Reported,
                                     storing <- op \in SetOps \cup {"fetch"}

(***************************************************************************)
(* The pipeline implements AtomicConfig: whatever crashes, fails or is     *)
(* torn, the config and the subscription it was rendered from become       *)
(* current in one step, recovery never moves either, a failed attempt      *)
(* leaves both alone, and the report never goes back to an older attempt.  *)
(***************************************************************************)
ImplementsAtomicConfig == Atomic!Spec

(***************************************************************************)
(* As long as the last attempt is reported committed (pending-reload or    *)
(* applied, config_manager.go:14-15), the config is the one that attempt   *)
(* rendered, also in the middle of the next attempt and after a crash.     *)
(***************************************************************************)
ReportNamesConfig ==
    Reported.state \in {"pending-reload", "applied"} =>
        LogicalConfig = Render(Reported.data)

(***************************************************************************)
(* applied -> config was committed and reload succeeded                    *)
(* (config_manager.go:15): while the last attempt is reported applied, the *)
(* core runs the config of that attempt.                                   *)
(***************************************************************************)
AppliedIsLive == Reported.state = "applied" => live = Render(Reported.data)

(***************************************************************************)
(* Without a crash or a failing file operation no path through an          *)
(* operation, cancelled, rejected or successful, leaves a staging          *)
(* directory, a candidate, a subscription backup or a journal behind.      *)
(***************************************************************************)
NothingLeaks ==
    pc = "idle" /\ faults = 0 =>
        /\ staged = Absent /\ cand = Absent /\ subBak = Absent
        /\ journal = NoTx

(***************************************************************************)
(* SetSubscriptionSource changes three files.  When it returns success the *)
(* source it set is the one the next operation resolves, whatever torn or  *)
(* conflicting files it found.                                             *)
(***************************************************************************)
SetLeavesUsableSource ==
    [][pc = "set3" /\ pc' = "idle" /\ faults' = faults =>
           SourceResults' = {IF op = "setRemote" THEN "remote" ELSE "local"}]_vars

(***************************************************************************)
(* When one of its writes fails and nothing else does, the rollback of     *)
(* SetSubscriptionSource (config.go:297-305) leaves all three files as     *)
(* they were.                                                              *)
(***************************************************************************)
RollbackRestoresSources ==
    [][pc = "undo3" /\ pc' = "idle" /\ faults' = 1 =>
           [sub |-> sub', url |-> url', marker |-> marker'] = snap]_vars

(***************************************************************************)
(* LastConfigApply never answers with an attempt older than the status     *)
(* file it has read: no attempt writes a status while the committed        *)
(* journal of an older one is still there.                                 *)
(***************************************************************************)
AnswerNotBehindStatusFile ==
    [][rpc = "journal" /\ rpc' = "idle" => Answer.at >= rstatus.at]_vars

\* An operation that has the lock gives it back: no step waits for ever.
OperationsEnd == (pc # "idle") ~> (pc = "idle")

(***************************************************************************)
(* "Keep the committed journal until the runtime outcome is durable"       *)
(* (config.go:735), and not longer: a journal an interrupted attempt left  *)
(* is resolved by the operations that follow, once files can be written.   *)
(***************************************************************************)
JournalsGetResolved == (journal.state # "none") ~> (journal.state = "none")

(***************************************************************************)
(* A subscription backup that goes before the journal that still needs it  *)
(* (config.go:204-217) is the one thing that keeps a journal unresolved.   *)
(***************************************************************************)
BackupGone == /\ Uncommitted /\ journal.subStaged /\ journal.subExisted
              /\ subBak = Absent

OnlyALostBackupWedges ==
    (journal.state # "none") ~> (journal.state = "none" \/ BackupGone)

(***************************************************************************)
(* LastConfigApply does not answer with an attempt older than the one the  *)
(* files told of when it was called.                                       *)
(***************************************************************************)
ReaderIsNotBehind ==
    [][rpc = "journal" /\ rpc' = "idle" => Answer.at >= rfloor]_vars
-------------------------------------------------------------------------------
(***************************************************************************)
(* The inductive invariant behind ReportNamesConfig: what the steps of the *)
(* lock holder may rely on, by where the holder is.                        *)
(***************************************************************************)

Failures  == {"apply-failed", "validation-failed"}
Restoring == {"restoreCfg", "restoreSub", "restoreFailed"}
Cleaning  == {"cleanStaging", "cleanBackup", "cleanMarker"}
Staged    == {"validate", "backup", "prepare", "renameCfg"}
Renamed   == {"markCfg", "renameSub", "markCommitted"}
Reporting == {"recordPending", "reload", "recordOutcome", "removeJournal"}
Unjournalled == {"resolve", "download", "storeFetched", "stage", "validate",
                 "backup", "abort", "prepare", "set1", "set2", "set3", "undo1",
                 "undo2", "undo3"}

NewConfig == Render(tx.pending.data)

\* Why the holder is where it is, and what it would record.
ModeInv ==
    /\ mode = "rollback" => pc \in Restoring \cup Cleaning \cup {"fail"}
    /\ mode = "commit"   => pc \in {"cleanStaging", "cleanBackup"} \cup Reporting
    /\ pc \in Reporting  => mode = "commit"
    /\ pc \notin {"recordOutcome", "removeJournal"} => outcome \in Failures
    /\ pc = "recordOutcome" => outcome \in {"applied", "pending-reload"}

\* What the journal on disk says, and that the holder knows it.
JournalInv ==
    /\ pc \in Unjournalled => journal.state = "none"
    /\ pc = "fail" => journal.state # "committed"
    /\ pc \in Renamed \cup Restoring \cup {"renameCfg"} =>
           Uncommitted /\ journal.cfgExisted = tx.cfgExisted
    /\ pc \in Reporting \/ mode = "commit" =>
           /\ journal.state = "committed"
           /\ journal.pending = tx.pending
    /\ pc \in Cleaning /\ mode = "rollback" => Uncommitted
    /\ pc \in Cleaning /\ mode = "recovery" =>
           Uncommitted \/ (journal.state = "committed" /\ status = Reported)

\* Which config is where.
ConfigInv ==
    /\ pc \in Staged => staged = NewConfig
    /\ pc = "prepare" => cfgBak = cfg /\ tx.cfgExisted = (cfg # Absent)
    /\ pc \in Renamed \cup Reporting \/ mode = "commit" => cfg = NewConfig
    /\ pc \in Staged \cup Renamed \cup Reporting \/ mode = "commit" =>
           tx.pending.state = "pending-reload"
    /\ pc = "restoreSub" /\ ~bad => cfg = LogicalConfig
    /\ pc \in Cleaning => cfg = LogicalConfig
    /\ pc = "removeJournal" => Same(status, tx.pending)

(***************************************************************************)
(* The journal, the files and the memory of the lock holder agree at every *)
(* step: in particular what is about to be dropped is no longer needed.    *)
(***************************************************************************)
TransactionInv == ModeInv /\ JournalInv /\ ConfigInv /\ ReportNamesConfig

(***************************************************************************)
(* The reload happens while the attempt is reported pending, so no moment  *)
(* of it contradicts an earlier `applied`.                                 *)
(***************************************************************************)
LiveInv ==
    /\ AppliedIsLive
    /\ pc = "reload" => status = tx.pending
    /\ pc = "recordOutcome" /\ outcome = "applied" => live = cfg
===============================================================================
