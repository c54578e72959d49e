------------------------- MODULE MCUpgradeTransaction -------------------------
(***************************************************************************)
(* Small instances of UpgradeTransaction.  Three versions, because two     *)
(* upgrades may leave a backup that is neither the old nor the new binary. *)
(* Some promises hold only while nobody else acts on the service, and      *)
(* `alone` remembers whether that is so.                                   *)
(***************************************************************************)
EXTENDS UpgradeTransaction

CONSTANTS v1, v2, v3

ThreeVersions == {v1, v2, v3}
Anybody       == {"start", "stop", "restart"}

VARIABLE alone \* no service command has been given, and no core has exited

MCInit == Init /\ alone = TRUE
MCNext == Next /\ alone' = (alone /\ asked' = "none" /\ ~CoreStops)

MCSpec == /\ MCInit /\ [][MCNext]_<<vars, alone>>
          /\ WF_vars(Step) /\ WF_vars(Begin("install"))

\* Left alone, an instance with nothing to recover has its service as it was
\* before, whatever failed and however often, and what runs is the installed
\* binary (lifecycle_transaction.go:110-129, lifecycle_impl.go:682-711).
RunsAsBeforeAlone == alone => ServiceIsRestored /\ RunsWhatIsInstalled
===============================================================================
