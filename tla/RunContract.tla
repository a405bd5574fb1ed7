---------------------------- MODULE RunContract ----------------------------
(***************************************************************************)
(* What the run API promises to its clients: a run is worked on by at most *)
(* one worker at a time; it pauses for a decision, is taken up again by    *)
(* exactly the decision it was waiting for, and ends once.  A restart of   *)
(* the process takes the worker away, recovery gives the run a new one.    *)
(***************************************************************************)
VARIABLES
  status,  \* the status of the run as the API reports it
  worker   \* somebody executes the run

vars == <<status, worker>>

Ended == {"completed", "failed", "rejected"}

Init == status = "absent" /\ worker = FALSE

Start == status = "absent" /\ status' = "running" /\ worker' = TRUE

(* The worker hands the run to a human, or ends it.                          *)
Pause  == worker /\ status' = "waiting_approval" /\ worker' = FALSE
Finish == worker /\ status' \in Ended /\ worker' = FALSE

(* A decision finds no worker and becomes one.                               *)
Decide == status = "waiting_approval" /\ ~worker /\ status' = "running" /\ worker' = TRUE

(* Retry and restart-from-step: an ended or waiting run is taken up again.   *)
Reopen == status \in Ended \cup {"waiting_approval"} /\ ~worker
          /\ status' = "running" /\ worker' = TRUE

Lose    == worker /\ worker' = FALSE /\ UNCHANGED status
Recover == status = "running" /\ ~worker /\ worker' = TRUE /\ UNCHANGED status

Next == Start \/ Pause \/ Finish \/ Decide \/ Reopen \/ Lose \/ Recover

Spec == Init /\ [][Next]_vars
=============================================================================
