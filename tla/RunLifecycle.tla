---------------------------- MODULE RunLifecycle ----------------------------
(***************************************************************************)
(* The life of one workflow run in the backend: the MongoDB run document,  *)
(* the LangGraph checkpoint of its thread, the live_runners entry, and the *)
(* asyncio tasks (HTTP handlers, background tasks, startup recovery) that  *)
(* read a copy of the document, work on it across awaits and write the     *)
(* WHOLE copy back (MongoGraphRunRepository.update is a replace_one with   *)
(* upsert).  One action is one await: a database operation and the code    *)
(* that runs up to the next one.                                           *)
(*                                                                         *)
(* The workflow is a line of steps 1..N.  Gates are its human_approval     *)
(* steps, Asks its ask_context steps, Guarded the steps with               *)
(* `when: approved`; every other step is a node body that runs or raises.  *)
(* Branches, loops and the failure sentinel are in StepGraph.              *)
(*                                                                         *)
(* A definition whose comment says "mutant" is a deliberately wrong        *)
(* variant of the one after it; no specification uses it.                  *)
(***************************************************************************)
EXTENDS Integers, FiniteSets

CONSTANTS
  Task,      \* slots for concurrent handlers and background tasks
  N,         \* number of workflow steps
  Gates,     \* the human_approval steps
  Asks,      \* the ask_context steps
  Guarded,   \* the steps that carry `when: approved`
  Notify,    \* a pause posts to Slack and stores the message id
  Registry,  \* yaml_graph_registry holds a runner for the workflow
  Ops,       \* the handlers that clients of this instance use
  Booted,    \* no request arrives while startup recovery is going on
  MaxCrash   \* bound: how often the process restarts

Steps == 1..N
Pauses == Gates \cup Asks

AllOps == {"approve", "reject", "cbApprove", "cbReject", "reply", "output",
           "note", "terminate", "delete", "retry", "restart"}

ASSUME RunAssumption ==
  /\ N \in Nat \ {0}
  /\ Gates \subseteq Steps
  /\ Asks \subseteq Steps
  /\ Guarded \subseteq Steps \ Pauses
  /\ Notify \in BOOLEAN
  /\ Registry \in BOOLEAN
  /\ Booted \in BOOLEAN
  /\ Ops \subseteq AllOps
  /\ MaxCrash \in Nat

VARIABLES
  doc,      \* the run document in MongoDB; status "absent" when there is none
  ckpt,     \* the thread's checkpoint: nodes completed, value of `approved`
  live,     \* live_runners holds a runner for the run
  task,     \* Task -> what the handler in that slot is doing
  recov,    \* startup recovery: its phase and the copy list_incomplete gave it
  crashes,  \* restarts so far (bounded by MaxCrash)
  (* History variables: read by no action of the code. *)
  okd,      \* gates at which some human approval has been accepted
  said,     \* the latest decision accepted at each step
  pass,     \* for each pause, the step at which the value that resumed it was given
  ran,      \* steps whose body has been executed
  ended     \* what the last terminate / delete handler did to the run

vars == <<doc, ckpt, live, task, recov, crashes, okd, said, pass, ran, ended>>
history == <<okd, said, pass, ran, ended>>

-----------------------------------------------------------------------------
(* The run document, the checkpoint and the handlers' local copies.          *)

Status == {"absent", "running", "waiting_approval", "completed", "failed",
           "rejected"}
StepStatus == {"pending", "running", "finished", "failed"}
Flag == {"unset", "yes", "no"}

(* out[i] is the value of `approved` in the stored output of step i, asked    *)
(* whether the state holds the Slack thread of a question: once stored it is *)
(* in every later pause, as the thread's channels keep it.                   *)
Doc == [status : Status, cur : 0..N, st : [Steps -> StepStatus],
        out : [Steps -> Flag], asked : BOOLEAN]

NewDoc(s) == [status |-> s, cur |-> 0, st |-> [i \in Steps |-> "pending"],
              out |-> [i \in Steps |-> "unset"], asked |-> FALSE]
NoDoc == NewDoc("absent")

Checkpoint == [pos : 0..N, appr : Flag]

Pc == {"idle", "mark", "begin", "node", "body", "chunk", "pause", "reset",
       "announce", "verdict", "fail", "retry", "restart", "term", "note", "reply", "output"}
Origin == {"none", "start", "recover"} \cup AllOps

TaskState == [pc : Pc, op : Origin, dec : {"none", "yes", "no"}, gate : 0..N,
              pos : 0..N, flag : Flag, copy : Doc]

Idle == [pc |-> "idle", op |-> "none", dec |-> "none", gate |-> 0,
         pos |-> 0, flag |-> "unset", copy |-> NoDoc]

Streaming == {"begin", "node", "body", "chunk", "pause", "fail"}

IsFree(t) == task[t].pc = "idle"

(* The handler in slot t moves on with the fields of r overridden.           *)
Become(t, r) == task' = [task EXCEPT ![t] = r]
Release(t) == Become(t, Idle)

(* mutants: a running step counts as done; nothing counts as done.           *)
IsLastDoneOrRunning(k, c) ==
  /\ k # 0 => c.st[k] \in {"finished", "running"}
  /\ \A i \in (k + 1)..N : c.st[i] \notin {"finished", "running"}
IsFromScratch(k, c) == k = 0

(* k is the last finished step of c in definition order; 0 when none.        *)
IsLastDone(k, c) ==
  /\ k # 0 => c.st[k] = "finished"
  /\ \A i \in (k + 1)..N : c.st[i] # "finished"

(* f is the value of `approved` in the thread after aupdate_state with the   *)
(* accumulated outputs of the finished steps of c: the channel keeps its     *)
(* value when no output carries the key, otherwise the output that wins is   *)
(* the last one (dict.update) or the first one (setdefault).                 *)
Carriers(c) == {i \in Steps : c.st[i] = "finished" /\ c.out[i] # "unset"}

LastWins(f, c) ==
  \/ Carriers(c) = {} /\ f = ckpt.appr
  \/ \E i \in Carriers(c) : f = c.out[i] /\ \A j \in Carriers(c) : j <= i

FirstWins(f, c) ==
  \/ Carriers(c) = {} /\ f = ckpt.appr
  \/ \E i \in Carriers(c) : f = c.out[i] /\ \A j \in Carriers(c) : j >= i

(* aupdate_state(config, accumulated, as_node=last_done): the thread goes    *)
(* back to just after the last finished step of c.                           *)
Seed(c) == \E k \in 0..N, f \in Flag :
             /\ IsLastDone(k, c)
             /\ LastWins(f, c)
             /\ ckpt' = [pos |-> k, appr |-> f]

(* The runner a handler resumes with: the UI routes accept only the live     *)
(* runner of a run with a definition snapshot, the callback routes fall back *)
(* to the registry.                                                          *)
HasRunner(o) == live \/ (Registry /\ o \notin {"approve", "reject"})

-----------------------------------------------------------------------------
Init ==
  /\ doc = NoDoc
  /\ ckpt = [pos |-> 0, appr |-> "unset"]
  /\ live = FALSE
  /\ task = [t \in Task |-> Idle]
  /\ recov = [phase |-> "list", copy |-> NoDoc]
  /\ crashes = 0
  /\ okd = {}
  /\ said = [i \in Steps |-> "none"]
  /\ pass = [i \in Steps |-> 0]
  /\ ran = {}
  /\ ended = "never"

(* startup() runs recovery as a task of its own: the server accepts requests *)
(* meanwhile.                                                                *)
Serving == Booted => recov.phase = "done"

(* POST /runs: register the runner, insert the document, schedule the graph. *)
StartRun(t) ==
  /\ Serving
  /\ IsFree(t)
  /\ ended = "never"
  /\ LET d == NewDoc("running") IN
       /\ doc' = d
       /\ Become(t, [Idle EXCEPT !.pc = "begin", !.op = "start", !.copy = d])
  /\ live' = TRUE
  /\ ended' = "no"
  /\ UNCHANGED <<ckpt, recov, crashes, okd, said, pass, ran>>

(***************************************************************************)
(* Decisions: approve and reject, from the UI or from a callback link.     *)
(***************************************************************************)

DecisionOps == {"approve", "reject", "cbApprove", "cbReject"}
Verdict(o) == IF o \in {"approve", "cbApprove"} THEN "yes" ELSE "no"

(* mutant: the status is not part of the claim's filter.                     *)
ClaimUnfiltered(t, o) ==
  /\ Serving
  /\ IsFree(t)
  /\ o \in Ops \cap DecisionOps
  /\ doc.status \in {"waiting_approval", "running"}
  /\ live
  /\ doc' = [doc EXCEPT !.status = "running"]
  /\ Become(t, [Idle EXCEPT !.pc = "mark", !.op = o, !.dec = Verdict(o),
                            !.gate = doc.cur, !.copy = doc'])
  /\ said' = [i \in Steps |-> IF i = doc.cur THEN Verdict(o) ELSE said[i]]
  /\ okd' = IF Verdict(o) = "yes" THEN okd \cup {doc.cur} ELSE okd
  /\ UNCHANGED <<ckpt, live, recov, crashes, pass, ran, ended>>

(* claim_for_resume: waiting_approval -> running in one Mongo operation.     *)
(* Without a runner the handler answers 404, the claim already made.         *)
Claim(t, o) ==
  /\ Serving
  /\ IsFree(t)
  /\ o \in Ops \cap DecisionOps
  /\ doc.status = "waiting_approval"
  /\ doc' = [doc EXCEPT !.status = "running"]
  /\ IF HasRunner(o)
       THEN /\ Become(t, [Idle EXCEPT !.pc = "mark", !.op = o,
                                      !.dec = Verdict(o), !.gate = doc.cur,
                                      !.copy = doc'])
            /\ said' = [i \in Steps |-> IF i = doc.cur THEN Verdict(o) ELSE said[i]]
            /\ okd' = IF Verdict(o) = "yes" THEN okd \cup {doc.cur} ELSE okd
       ELSE UNCHANGED <<task, said, okd>>
  /\ UNCHANGED <<ckpt, live, recov, crashes, pass, ran, ended>>

(* The handler marks the paused step finished and writes its copy back.      *)
MarkFinished(t) ==
  /\ task[t].pc = "mark"
  /\ LET c == [task[t].copy EXCEPT
                 !.st = [i \in Steps |-> IF i = task[t].copy.cur THEN "finished" ELSE @[i]]]
     IN /\ doc' = c
        /\ Become(t, [task[t] EXCEPT !.pc = "begin", !.copy = c])
  /\ UNCHANGED <<ckpt, live, recov, crashes, history>>

(***************************************************************************)
(* Handlers that read the document, check it, and write after an await.    *)
(***************************************************************************)

(* Which statuses the first read of each handler lets through.  A Slack reply *)
(* is looked up by its thread among the waiting runs, whatever they wait for. *)
Accepts(o, d) ==
  CASE o = "reply"     -> d.status = "waiting_approval" /\ d.asked
    [] o = "output"    -> d.status = "running"
    [] o = "terminate" -> d.status = "running"
    [] o = "retry"     -> d.status = "failed"
    [] o = "restart"   -> d.status \notin {"absent", "running", "rejected"}
    [] o = "note"      -> d.status # "absent"
    [] OTHER           -> FALSE

Handling(o) == IF o = "terminate" THEN "term" ELSE o

(* run_repository.get (or find_by_ask_context_ts) and the status check.      *)
ReadRun(t, o) ==
  /\ Serving
  /\ IsFree(t)
  /\ o \in Ops
  /\ Accepts(o, doc)
  /\ o \in {"reply", "output"} => HasRunner(o)
  /\ Become(t, [Idle EXCEPT !.pc = Handling(o), !.op = o, !.gate = doc.cur,
                            !.copy = doc])
  /\ UNCHANGED <<doc, ckpt, live, recov, crashes, history>>

(* A Slack thread reply and an agent output are not claimed: the handler     *)
(* writes status running over whatever is there and resumes the thread.      *)
ResumeUnclaimed(t) ==
  /\ task[t].pc \in {"reply", "output"}
  /\ LET c == [task[t].copy EXCEPT !.status = "running"] IN
       /\ doc' = c
       /\ Become(t, [task[t] EXCEPT !.pc = "begin", !.dec = "no", !.copy = c])
  /\ UNCHANGED <<ckpt, live, recov, crashes, history>>

(* An agent output that carries an error: the run and its current step fail. *)
OutputError(t) ==
  /\ task[t].pc = "output"
  /\ doc' = [task[t].copy EXCEPT
               !.status = "failed",
               !.st = [i \in Steps |-> IF i = task[t].copy.cur THEN "failed" ELSE @[i]]]
  /\ Release(t)
  /\ UNCHANGED <<ckpt, live, recov, crashes, history>>

(* Agent progress, question, reply and input: the handler changes keys of    *)
(* run.state only, and writes its whole copy back.                           *)
WriteNote(t) ==
  /\ task[t].pc = "note"
  /\ doc' = task[t].copy
  /\ Release(t)
  /\ UNCHANGED <<ckpt, live, recov, crashes, history>>

(* POST /terminate, after cleanup_run_agents: failed, runner dropped.  The   *)
(* stream that executes the run is not told.                                 *)
Terminate(t) ==
  /\ task[t].pc = "term"
  /\ doc' = [task[t].copy EXCEPT !.status = "failed"]
  /\ live' = FALSE
  /\ ended' = "terminated"
  /\ Release(t)
  /\ UNCHANGED <<ckpt, recov, crashes, okd, said, pass, ran>>

(* DELETE /runs: the runner is dropped and the document deleted.             *)
Delete ==
  /\ Serving
  /\ "delete" \in Ops
  /\ doc.status # "absent"
  /\ doc' = NoDoc
  /\ live' = FALSE
  /\ ended' = "deleted"
  /\ UNCHANGED <<ckpt, task, recov, crashes, okd, said, pass, ran>>

(* POST /retry, after its status check: the thread goes back to the last     *)
(* done step, the failed step and all after it become pending.               *)
Retry(t) ==
  /\ task[t].pc = "retry"
  /\ LET old == task[t].copy
         bad == {i \in Steps : old.st[i] = "failed"}
         c   == [old EXCEPT
                   !.st = [i \in Steps |-> IF \E b \in bad : b <= i THEN "pending" ELSE @[i]],
                   !.status = "running", !.cur = 0]
     IN /\ Seed(old)
        /\ doc' = c
        /\ Become(t, [task[t] EXCEPT !.pc = "begin", !.copy = c])
  /\ live' = TRUE
  /\ ended' = "no"
  /\ UNCHANGED <<recov, crashes, okd, said, pass, ran>>

(* POST /restart-from-step k, after its status check: step k and all after   *)
(* it become pending, the thread goes back to the last done step before k.   *)
RestartFromStep(t, k) ==
  /\ task[t].pc = "restart"
  /\ LET old  == task[t].copy
         kept == [i \in Steps |-> IF i < k THEN old.st[i] ELSE "pending"]
         outs == [i \in Steps |-> IF i < k THEN old.out[i] ELSE "unset"]
         c    == [old EXCEPT !.st = kept, !.out = outs, !.status = "running", !.cur = 0]
     IN /\ \E j \in 0..(k - 1), f \in Flag :
             IsLastDone(j, c) /\ FirstWins(f, c) /\ ckpt' = [pos |-> j, appr |-> f]
        /\ doc' = c
        /\ Become(t, [task[t] EXCEPT !.pc = "begin", !.copy = c])
  /\ live' = TRUE
  /\ ended' = "no"
  /\ UNCHANGED <<recov, crashes, okd, said, pass, ran>>

(***************************************************************************)
(* Streaming: _stream_graph and stream_graph_to_pause.                     *)
(***************************************************************************)

FromCallback == {"cbApprove", "cbReject", "reply", "output", "recover"}
WithBaseUrl  == {"start", "approve", "retry", "restart", "reply", "output"}

(* astream loads the thread's checkpoint; from here on the stream works on   *)
(* its own channels and saves them after every node.                         *)
Begin(t) ==
  /\ task[t].pc = "begin"
  /\ Become(t, [task[t] EXCEPT !.pc = "node", !.pos = ckpt.pos, !.flag = ckpt.appr])
  /\ UNCHANGED <<doc, ckpt, live, recov, crashes, history>>

Node(t) == task[t].pos + 1

(* mutant: the `when` key is not looked at.                                  *)
NeverSkipped(t) == FALSE

Skipped(t) == Node(t) \in Guarded /\ task[t].flag # "yes"

(* _wrap_with_status_running: the step is published as running first.        *)
NodeStart(t) ==
  /\ task[t].pc = "node"
  /\ Node(t) \in Steps
  /\ ~Skipped(t)
  /\ LET c == [task[t].copy EXCEPT !.st[Node(t)] = "running", !.cur = Node(t)] IN
       /\ doc' = c
       /\ Become(t, [task[t] EXCEPT !.pc = "body", !.copy = c])
  /\ UNCHANGED <<ckpt, live, recov, crashes, history>>

(* mutant: the resume value stays for the pauses that follow.                *)
EmitKeepsDecision(t, flag, out) ==
  LET i == Node(t) IN
    /\ ckpt' = [pos |-> i, appr |-> flag]
    /\ Become(t, [task[t] EXCEPT
                    !.pc = "chunk", !.pos = i, !.flag = flag,
                    !.copy = [@ EXCEPT !.st[i] = "finished", !.cur = i, !.out[i] = out]])

(* The node's update is applied and checkpointed, its chunk emitted; the     *)
(* resume value belongs to the first superstep only.                         *)
Emit(t, flag, out) ==
  LET i == Node(t) IN
    /\ ckpt' = [pos |-> i, appr |-> flag]
    /\ Become(t, [task[t] EXCEPT
                    !.pc = "chunk", !.pos = i, !.flag = flag, !.dec = "none",
                    !.copy = [@ EXCEPT !.st[i] = "finished", !.cur = i, !.out[i] = out]])

StoredOut(t) == task[t].copy.out[Node(t)]

(* _wrap_with_when: the flag is falsy, the node returns {}.                  *)
NodeSkip(t) ==
  /\ task[t].pc = "node"
  /\ Node(t) \in Steps
  /\ Skipped(t)
  /\ Emit(t, task[t].flag, StoredOut(t))
  /\ UNCHANGED <<doc, live, recov, crashes, history>>

NodeRun(t) ==
  /\ task[t].pc = "body"
  /\ Node(t) \notin Pauses
  /\ Emit(t, task[t].flag, StoredOut(t))
  /\ ran' = ran \cup {Node(t)}
  /\ UNCHANGED <<doc, live, recov, crashes, okd, said, pass, ended>>

NodeRaise(t) ==
  /\ task[t].pc = "body"
  /\ Node(t) \notin Pauses
  /\ Become(t, [task[t] EXCEPT !.pc = "fail"])
  /\ UNCHANGED <<doc, ckpt, live, recov, crashes, history>>

(* mutants: every resume counts as an approval (a wrong default for the      *)
(* missing key); the decision is not stored as `approved`.                   *)
NodeResumeApproves(t) ==
  /\ task[t].pc = "body"
  /\ Node(t) \in Pauses
  /\ task[t].dec # "none"
  /\ Emit(t, "yes", "yes")
  /\ pass' = [pass EXCEPT ![Node(t)] = task[t].gate]
  /\ UNCHANGED <<doc, live, recov, crashes, okd, said, ran, ended>>
NodeResumeForgets(t) ==
  /\ task[t].pc = "body"
  /\ Node(t) \in Pauses
  /\ task[t].dec # "none"
  /\ Emit(t, task[t].flag, StoredOut(t))
  /\ pass' = [pass EXCEPT ![Node(t)] = task[t].gate]
  /\ UNCHANGED <<doc, live, recov, crashes, okd, said, ran, ended>>

(* interrupt() returns the resume value: a gate stores it as `approved`.     *)
NodeResume(t) ==
  /\ task[t].pc = "body"
  /\ Node(t) \in Pauses
  /\ task[t].dec # "none"
  /\ IF Node(t) \in Gates
       THEN Emit(t, task[t].dec, task[t].dec)
       ELSE Emit(t, task[t].flag, StoredOut(t))
  /\ pass' = [pass EXCEPT ![Node(t)] = task[t].gate]
  /\ UNCHANGED <<doc, live, recov, crashes, okd, said, ran, ended>>

(* interrupt() raises: the stream ends at this step.                         *)
NodePause(t) ==
  /\ task[t].pc = "body"
  /\ Node(t) \in Pauses
  /\ task[t].dec = "none"
  /\ Become(t, [task[t] EXCEPT !.pc = "pause"])
  /\ UNCHANGED <<doc, ckpt, live, recov, crashes, history>>

(* The chunk handler writes the step's status.                               *)
WriteChunk(t) ==
  /\ task[t].pc = "chunk"
  /\ doc' = task[t].copy
  /\ Become(t, [task[t] EXCEPT !.pc = "node"])
  /\ UNCHANGED <<ckpt, live, recov, crashes, history>>

(* stream_graph_to_pause resets the flag of the gate it pauses at, unless it *)
(* is False already.                                                         *)
ResetsFlag(t) ==
  task[t].op \in FromCallback /\ Node(t) \in Gates /\ task[t].flag # "no"

(* With a base URL, a pause is announced and the message id stored.          *)
Announces(t) == Notify /\ task[t].op \in WithBaseUrl

(* mutant: the last node that ran is taken for the one that waits.           *)
WritePauseAtLast(t) ==
  /\ task[t].pc = "pause"
  /\ doc' = [task[t].copy EXCEPT !.status = "waiting_approval", !.cur = task[t].pos]
  /\ Release(t)
  /\ UNCHANGED <<ckpt, live, recov, crashes, history>>

(* The stream ended at an interrupt: the run is waiting_approval.            *)
WritePause(t) ==
  /\ task[t].pc = "pause"
  /\ LET c == [task[t].copy EXCEPT !.status = "waiting_approval", !.cur = Node(t)] IN
       /\ doc' = c
       /\ IF ResetsFlag(t) THEN Become(t, [task[t] EXCEPT !.pc = "reset", !.copy = c])
          ELSE IF Announces(t) THEN Become(t, [task[t] EXCEPT !.pc = "announce", !.copy = c])
          ELSE Release(t)
  /\ UNCHANGED <<ckpt, live, recov, crashes, history>>

(* The writes that follow the waiting_approval write: the flag of the gate   *)
(* is set to False in the thread, and the document written again; ...        *)
WriteReset(t) ==
  /\ task[t].pc = "reset"
  /\ ckpt' = [ckpt EXCEPT !.appr = "no"]
  /\ doc' = task[t].copy
  /\ IF Announces(t) THEN Become(t, [task[t] EXCEPT !.pc = "announce"]) ELSE Release(t)
  /\ UNCHANGED <<live, recov, crashes, history>>

(* ... the Slack message id is stored when Slack has answered; a question     *)
(* that finds a thread of an earlier one is posted there and stores nothing. *)
WriteAnnounced(t) ==
  /\ task[t].pc = "announce"
  /\ doc' = IF Node(t) \notin Asks THEN task[t].copy
            ELSE IF task[t].copy.asked THEN doc
            ELSE [task[t].copy EXCEPT !.asked = TRUE]
  /\ Release(t)
  /\ UNCHANGED <<ckpt, live, recov, crashes, history>>

(* mutant: a rejecting handler does not overwrite completed.                 *)
WriteCompletedAlways(t) ==
  /\ task[t].pc = "node"
  /\ task[t].pos = N
  /\ doc' = [task[t].copy EXCEPT !.status = "completed", !.cur = 0]
  /\ live' = FALSE
  /\ Release(t)
  /\ UNCHANGED <<ckpt, recov, crashes, history>>

(* The stream reached END: the run is completed; a rejecting handler turns   *)
(* that into rejected with a second write.                                   *)
WriteCompleted(t) ==
  /\ task[t].pc = "node"
  /\ task[t].pos = N
  /\ LET c == [task[t].copy EXCEPT !.status = "completed", !.cur = 0] IN
       /\ doc' = c
       /\ IF task[t].op \in {"reject", "cbReject"}
            THEN /\ Become(t, [task[t] EXCEPT !.pc = "verdict", !.copy = c])
                 /\ UNCHANGED live
            ELSE /\ Release(t)
                 /\ live' = (live /\ task[t].op = "reply")
  /\ UNCHANGED <<ckpt, recov, crashes, history>>

(* mutant: a status the other handlers do not know.                          *)
WriteCancelled(t) ==
  /\ task[t].pc = "verdict"
  /\ doc' = [task[t].copy EXCEPT !.status = "cancelled"]
  /\ live' = FALSE
  /\ Release(t)
  /\ UNCHANGED <<ckpt, recov, crashes, history>>

WriteRejected(t) ==
  /\ task[t].pc = "verdict"
  /\ doc' = [task[t].copy EXCEPT !.status = "rejected"]
  /\ live' = FALSE
  /\ Release(t)
  /\ UNCHANGED <<ckpt, recov, crashes, history>>

(* A node raised: the running step and the run are failed.                   *)
WriteFailed(t) ==
  /\ task[t].pc = "fail"
  /\ doc' = [task[t].copy EXCEPT
               !.st = [i \in Steps |-> IF @[i] = "running" THEN "failed" ELSE @[i]],
               !.status = "failed", !.cur = 0]
  /\ live' = (live /\ task[t].op = "reply")
  /\ Release(t)
  /\ UNCHANGED <<ckpt, recov, crashes, history>>

(***************************************************************************)
(* Restart of the process and the recovery task of startup().              *)
(***************************************************************************)

Crash ==
  /\ crashes < MaxCrash
  /\ crashes' = crashes + 1
  /\ task' = [t \in Task |-> Idle]
  /\ live' = FALSE
  /\ recov' = [phase |-> "list", copy |-> NoDoc]
  /\ UNCHANGED <<doc, ckpt, history>>

RecoveryDone == [phase |-> "done", copy |-> NoDoc]

(* mutant: runs that were being executed are not looked for.                 *)
RecoverListWaiting ==
  /\ recov.phase = "list"
  /\ recov' = IF doc.status = "waiting_approval"
                THEN [phase |-> "recover", copy |-> doc]
                ELSE RecoveryDone
  /\ UNCHANGED <<doc, ckpt, live, task, crashes, history>>

(* list_incomplete: requests are already being served.                       *)
RecoverList ==
  /\ recov.phase = "list"
  /\ recov' = IF doc.status \in {"running", "waiting_approval"}
                THEN [phase |-> "recover", copy |-> doc]
                ELSE RecoveryDone
  /\ UNCHANGED <<doc, ckpt, live, task, crashes, history>>

(* A waiting run whose checkpoint is still inside the graph: re-arm it.      *)
RecoverWaiting ==
  /\ recov.phase = "recover"
  /\ recov.copy.status = "waiting_approval"
  /\ ckpt.pos < N
  /\ live' = TRUE
  /\ recov' = RecoveryDone
  /\ UNCHANGED <<doc, ckpt, task, crashes, history>>

(* No pending node in the checkpoint: re-execute from the last done step up  *)
(* to the next pause, without touching the document; a node that raises on   *)
(* the way fails the run.                                                    *)
RecoverRefire ==
  /\ recov.phase = "recover"
  /\ recov.copy.status = "waiting_approval"
  /\ ckpt.pos = N
  /\ \E from, to \in 0..N, f \in Flag :
       /\ IsLastDone(from, recov.copy)
       /\ LastWins(f, recov.copy)
       /\ from <= to
       /\ \A i \in (from + 1)..to : i \notin Pauses
       /\ ckpt' = [pos |-> to, appr |-> f]
       /\ ran' = ran \cup {i \in (from + 1)..to : i \in Guarded => f = "yes"}
       /\ \/ /\ to = N \/ to + 1 \in Pauses
             /\ live' = TRUE
             /\ UNCHANGED doc
          \/ /\ to < N /\ to + 1 \notin Pauses /\ (to + 1 \in Guarded => f = "yes")
             /\ doc' = [recov.copy EXCEPT !.status = "failed"]
             /\ UNCHANGED live
  /\ recov' = RecoveryDone
  /\ UNCHANGED <<task, crashes, okd, said, pass, ended>>

(* A running run: the thread goes back to the last done step and a task      *)
(* streams on from there.                                                    *)
RecoverRunning(t) ==
  /\ recov.phase = "recover"
  /\ recov.copy.status = "running"
  /\ IsFree(t)
  /\ Seed(recov.copy)
  /\ live' = TRUE
  /\ Become(t, [Idle EXCEPT !.pc = "begin", !.op = "recover", !.copy = recov.copy])
  /\ recov' = RecoveryDone
  /\ UNCHANGED <<doc, crashes, history>>

-----------------------------------------------------------------------------
StreamStep(t) ==
  \/ Begin(t) \/ NodeStart(t) \/ NodeSkip(t) \/ NodeRun(t) \/ NodeRaise(t)
  \/ NodeResume(t) \/ NodePause(t) \/ WriteChunk(t) \/ WritePause(t)
  \/ WriteReset(t) \/ WriteAnnounced(t) \/ WriteCompleted(t) \/ WriteRejected(t) \/ WriteFailed(t)

HandlerStep(t) ==
  \/ MarkFinished(t) \/ ResumeUnclaimed(t) \/ OutputError(t) \/ WriteNote(t) \/ Terminate(t)
  \/ Retry(t)
  \/ \E k \in Steps : RestartFromStep(t, k)

Request(t) ==
  \/ StartRun(t)
  \/ \E o \in DecisionOps : Claim(t, o)
  \/ \E o \in AllOps : ReadRun(t, o)

Recovery ==
  \/ RecoverList \/ RecoverWaiting \/ RecoverRefire
  \/ \E t \in Task : RecoverRunning(t)

Next ==
  \/ \E t \in Task : StreamStep(t) \/ HandlerStep(t) \/ Request(t)
  \/ Delete
  \/ Crash
  \/ Recovery

Spec == Init /\ [][Next]_vars

(* The event loop runs every ready task; requests and crashes are not owed.  *)
Fairness ==
  /\ \A t \in Task : WF_vars(StreamStep(t)) /\ WF_vars(HandlerStep(t))
  /\ WF_vars(Recovery)

FairSpec == Spec /\ Fairness

-----------------------------------------------------------------------------
(* TypeOK: every variable has its type; the document and every handler's     *)
(* copy of it are whole run documents.                                       *)
TypeOK ==
  /\ doc \in Doc
  /\ ckpt \in Checkpoint
  /\ live \in BOOLEAN
  /\ task \in [Task -> TaskState]
  /\ recov \in [phase : {"list", "recover", "done"}, copy : Doc]
  /\ crashes \in 0..MaxCrash
  /\ okd \subseteq 0..N
  /\ said \in [Steps -> {"none", "yes", "no"}]
  /\ pass \in [Steps -> 0..N]
  /\ ran \subseteq Steps
  /\ ended \in {"never", "no", "terminated", "deleted"}

Active(t) == task[t].pc \in Streaming \cup {"mark", "verdict"}
Quiet == recov.phase = "done" /\ \A t \in Task : task[t].pc = "idle"

(* No step with `when: approved` is ever executed in a run for which no      *)
(* approval has been accepted, whatever stale copies are written, whatever   *)
(* handlers race, and however often the process restarts.                    *)
NoGuardedWorkWithoutApproval == ran \cap Guarded # {} => okd # {}

(* As long as nobody has approved anything, no trace of an approval exists:  *)
(* not in the checkpoint, not in the document, not in any copy of it, not in *)
(* a resume value under way; and no guarded step is being executed.          *)
NoYes(c) == \A i \in Steps : c.out[i] # "yes"

CleanTask(r) ==
  /\ r.dec # "yes" /\ r.flag # "yes"
  /\ NoYes(r.copy)
  /\ r.pc = "body" => r.pos + 1 \notin Guarded

Unapproved ==
  /\ ckpt.appr # "yes"
  /\ NoYes(doc) /\ NoYes(recov.copy)
  /\ \A t \in Task : CleanTask(task[t])
  /\ ran \cap Guarded = {}

ApprovalInv == okd = {} => Unapproved

(* At most one task executes the run's thread, and none while the document   *)
(* says the run waits for a decision: what claim_for_resume is there for.    *)
OneStream ==
  /\ \A s, t \in Task : Active(s) /\ Active(t) => s = t
  /\ doc.status = "waiting_approval" => \A t \in Task : ~Active(t)

(* A pause is only ever passed with a value that was given at that pause: a  *)
(* decision on one gate is never consumed by another.                        *)
DecisionsReachTheirGate == \A i \in Pauses : pass[i] \in {0, i}

(* A run shown as running has a task that works on it, or recovery is still  *)
(* going to look at it.                                                      *)
RunningHasWorker ==
  doc.status = "running" => ~Quiet

(* When nothing is in flight, a waiting document names the very step at      *)
(* which the checkpoint is interrupted.                                      *)
WaitingMatchesCheckpoint ==
  Quiet /\ doc.status = "waiting_approval" =>
    doc.cur = ckpt.pos + 1 /\ doc.cur \in Pauses

(* An approved run that completes has executed the work the approval was     *)
(* for (steps guarded by a gate whose latest decision is yes).               *)
ApprovalTakesEffect ==
  Quiet /\ doc.status = "completed" =>
    \A i \in Guarded :
      (\E g \in Gates : g < i) /\ (\A g \in Gates : g < i => said[g] = "yes")
        => i \in ran

(* A rejection is final: a run completes only when every rejected pause was  *)
(* followed by a decision in favour.                                         *)
RejectionIsFinal ==
  Quiet /\ doc.status = "completed" =>
    \A p \in Pauses : said[p] = "no" => \E q \in Pauses : q > p /\ said[q] = "yes"

(* No step body is executed behind a pause nobody has decided or answered,   *)
(* whatever is replied, retried or restarted, and wherever the process stops *)
(* and recovery goes on.                                                     *)
NoPauseBypassed ==
  \A i \in ran, g \in Pauses : g < i => pass[g] # 0 \/ said[g] # "none"

(* A gate is passed by approve or reject only, not by an answer to the       *)
(* question of another step.                                                 *)
GatesAreDecided == \A g \in Gates : pass[g] # 0 => said[g] # "none"

(* A guarded step is executed only when the decision last accepted at the    *)
(* gate nearest before it was an approval: not the answer to an ask_context  *)
(* step, nor a decision that lost a race.  Does not hold across restarts,    *)
(* restart-from-step and thread replies, which drop or move decisions.       *)
WorkFollowsDecision ==
  [][\A i \in Guarded : i \in ran' \ ran =>
       \A g \in Gates : g < i /\ (\A h \in Gates : h < i => h <= g)
         => said[g] = "yes"]_vars

(* A finished step is not executed again unless a restart made it pending.   *)
NoStepRedone ==
  [][\A i \in Steps \ Pauses : doc.st[i] = "finished" => doc'.st[i] # "running"]_vars

(* After terminate answered the run stays failed, after delete it stays      *)
(* deleted, until somebody retries or restarts it.                           *)
EndingSticks ==
  /\ ended = "terminated" => doc.status = "failed"
  /\ ended = "deleted" => doc.status = "absent"

(* A run that is running eventually pauses or ends.                          *)
RunSettles == doc.status = "running" ~> doc.status # "running"
=============================================================================
