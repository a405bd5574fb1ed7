------------------------ MODULE RunLifecycleContract ------------------------
(***************************************************************************)
(* RunLifecycle implements RunContract: a worker is a handler or task that *)
(* executes the thread, and a rejecting handler that has reached the end   *)
(* (status "completed" is already stored, "rejected" about to be) is still *)
(* working.                                                                *)
(***************************************************************************)
EXTENDS RunLifecycle

Finishing == \E t \in Task : task[t].pc = "verdict"

Contract == INSTANCE RunContract
              WITH status <- IF Finishing THEN "running" ELSE doc.status,
                   worker <- \E t \in Task : Active(t)

(* Clients that decide one at a time, retry and restart, and a process that  *)
(* restarts, see the contract: nobody takes up a run that is being worked on *)
(* and no decision is answered by two workers.                               *)
ImplementsContract == Contract!Spec
=============================================================================
