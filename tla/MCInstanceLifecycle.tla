------------------------- MODULE MCInstanceLifecycle -------------------------
(***************************************************************************)
(* Small instances of InstanceLifecycle.  What holds only as long as       *)
(* nothing out of the ordinary happens is stated of the behaviours in      *)
(* which, so far, nothing has.                                             *)
(***************************************************************************)
EXTENDS InstanceLifecycle

Everything == {"install", "local", "uninstall", "keep", "set", "apply"}

Both == {"start", "schedule"}

Callers == {"install", "local", "uninstall", "keep"}

VARIABLES
    locked, \* no command without the lock has been given
    plain   \* nor has a step failed or a process died, an uninstall kept a
            \* backup or been cancelled, or a config come before an install

MCInit == Init /\ locked = TRUE /\ plain = TRUE

MCNext ==
    /\ Next
    /\ locked' = (locked /\ asked' = {})
    /\ plain' = /\ plain /\ asked' = {} /\ faults' = 0 /\ op' # "keep"
                /\ ~(cancelled' /\ op' \in Uninstalls)
                /\ ~(pc = "idle" /\ pc' = "prepare" /\ binary = None)

MCSpec == MCInit /\ [][MCNext]_<<vars, locked, plain>> /\ WF_vars(Step)

\* While every command takes the lock, an uninstall that succeeds and an install
\* that fails leave the core and the timer stopped (lifecycle_impl.go:484-498).
StopsWhatItLeaves == locked => ServiceIsStopped

\* In plain behaviours an installation starts clean, and the instance is never
\* stuck between one that cannot be removed and one that cannot be made
\* (lifecycle_impl.go:57-72, 465-483, 520).
GoesOnWhenPlain == plain => StartsClean /\ NeverStuck
===============================================================================
