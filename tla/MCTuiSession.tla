----------------------------- MODULE MCTuiSession -----------------------------
(***************************************************************************)
(* A small instance of TuiSession.  The list of releases does not fit its  *)
(* page, and is as long whenever it is loaded.  A channel has room for     *)
(* more than an action reports, as in the code.                            *)
(***************************************************************************)
EXTENDS TuiSession

LongList == {<<1, 2, 1>>}
===============================================================================
