----------------------------- MODULE AtomicConfig -----------------------------
(***************************************************************************)
(* What the config pipeline of internal/manager promises its callers, with *)
(* no files, journal or backups in sight: one current configuration, one   *)
(* stored subscription, and one report about the last apply.  The meaning  *)
(* of the report is the state contract in config_manager.go:8-19.          *)
(***************************************************************************)
EXTENDS Naturals

CONSTANTS Data,    \* subscription contents
          Absent,  \* there is no such file
          Torn,    \* a file whose last write was cut short
          Base     \* the config rendered when no subscription is stored

VARIABLES config,        \* contents of the current config
          subscription,  \* contents of the stored subscription
          report,        \* outcome of the last apply attempt
          storing        \* whether `subscription update` or `set` is running

vars == <<config, subscription, report, storing>>

Subscriptions == Data \cup {Absent, Torn}
Contents      == Subscriptions \cup {Base}

\* The config generated from a subscription; the override file is fixed.
Render(d) == IF d = Absent THEN Base ELSE d

ReportStates == {"unknown", "validation-failed", "apply-failed",
                 "pending-reload", "applied"}
Reports == [state : ReportStates, at : Nat, data : Subscriptions]

NoReport == [state |-> "unknown", at |-> 0, data |-> Absent]

Init == /\ config \in {Absent, Base}
        /\ subscription \in Subscriptions
        /\ report = NoReport
        /\ storing = FALSE

(***************************************************************************)
(* A commit changes the config and the subscription it was rendered from   *)
(* together, and is reported as not yet reloaded.                          *)
(***************************************************************************)
Commit == /\ subscription' \in Subscriptions
          /\ config' = Render(subscription')
          /\ report'.at > report.at
          /\ report' = [state |-> "pending-reload", at |-> report'.at,
                        data |-> subscription']
          /\ UNCHANGED storing

\* The reload of the reported attempt succeeded.
Confirm == /\ report.state = "pending-reload"
           /\ report' = [report EXCEPT !.state = "applied"]
           /\ UNCHANGED <<config, subscription, storing>>

\* An attempt that fails leaves the config and the subscription alone.
Fail == /\ report'.state \in {"validation-failed", "apply-failed"}
        /\ report'.at > report.at
        /\ report' = [state |-> report'.state, at |-> report'.at,
                      data |-> report'.data]
        /\ UNCHANGED <<config, subscription, storing>>

\* `subscription update` and `subscription set` replace the stored data only.
Store == /\ storing
         /\ subscription' \in Subscriptions
         /\ storing' \in BOOLEAN
         /\ UNCHANGED <<config, report>>

StartStoring == /\ storing' = TRUE
                /\ UNCHANGED <<config, subscription, report>>

Next == Commit \/ Confirm \/ Fail \/ Store \/ StartStoring

Spec == Init /\ [][Next]_vars
===============================================================================
