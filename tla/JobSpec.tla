------------------------------ MODULE JobSpec ------------------------------
(***************************************************************************)
(* What a client of the job API may rely on.  A job that was accepted ends *)
(* once, and then nothing works on it any more.  Its end stays what it is: *)
(* only a reader of the result takes the record away.  How jobs are run is *)
(* left to JobLifecycle, and so is what excuses it from these promises.    *)
(***************************************************************************)
CONSTANT Expires  (* records may outlive their time and be dropped          *)

VARIABLES
    shown,        (* "none", "open", how the job ended, or "gone"           *)
    over,         (* nothing will work on the job any more                  *)
    excused       (* something has happened that the promises leave out     *)

vars == <<shown, over, excused>>

Init == shown = "none" /\ over = FALSE /\ excused = FALSE

Accept ==
    /\ shown = "none"
    /\ shown' = "open"
    /\ UNCHANGED over

\* The job ends.  If its work had been taken away before, it ends cancelled.
End ==
    /\ shown = "open"
    /\ shown' \in IF over THEN {"cancelled"} ELSE {"succeeded", "failed", "cancelled"}
    /\ over' = TRUE

\* The work ends unseen: it is taken from the queue, or the record has gone.
StopWork ==
    /\ shown \in {"open", "gone"}
    /\ over' = TRUE
    /\ UNCHANGED shown

\* A reader takes the result.
Take ==
    /\ shown = "succeeded"
    /\ shown' = "gone"
    /\ over /\ UNCHANGED over

Expire ==
    /\ Expires /\ shown \notin {"none", "gone"}
    /\ shown' = "gone"
    /\ UNCHANGED over

Next ==
    \/ excused' = TRUE
    \/ /\ excused = FALSE /\ UNCHANGED excused
       /\ Accept \/ End \/ StopWork \/ Take \/ Expire

Spec == Init /\ [][Next]_vars
=============================================================================
