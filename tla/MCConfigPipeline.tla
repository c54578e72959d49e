--------------------------- MODULE MCConfigPipeline ---------------------------
(***************************************************************************)
(* Small instances of ConfigPipeline.  Two subscription contents tell an   *)
(* old one from a new one; two attempts let one be interrupted and the     *)
(* next one find it.                                                       *)
(***************************************************************************)
EXTENDS ConfigPipeline

CONSTANTS d1, d2

TwoContents == {d1, d2}

\* Everything that moves the config, the subscription data or the report.
TransactionOps == {"sync", "apply", "fetch", "preview"}

\* Everything there is.
EveryOp == AllOps

\* The refresh-and-apply of the scheduler, and a preview.
SyncOps == {"sync", "preview"}
===============================================================================
