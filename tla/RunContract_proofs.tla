------------------------ MODULE RunContract_proofs ------------------------
(***************************************************************************)
(* For clients that only decide, a run shown as running always has a       *)
(* worker, and RunLifecycle implements RunContract.  Both rest on the same *)
(* fact about every step: as long as a handler is active the document says *)
(* what that handler's copy says, and it gives up the run and its activity *)
(* in one write.                                                           *)
(***************************************************************************)
EXTENDS RunDecisions_proofs, RunLifecycleContract

WorkerScope == DecisionScope /\ Ops \subseteq DecisionOps

Working == \E t \in Task : Active(t)

WorkerInv ==
  /\ doc.status = "running" => recov.phase # "done" \/ Working
  /\ Working \/ (doc.status = "waiting_approval" /\ recov.phase = "done") => live
  /\ \A t \in Task : Active(t) => doc.status = task[t].copy.status

(* What one step of the active handler can do: it goes on working, or it     *)
(* stores how the run stands and is gone.                                    *)
Continues(t) ==
  /\ task'[t].pc \in Busy
  /\ live' = live
  /\ doc'.status = IF task'[t].pc = "verdict" THEN "completed" ELSE "running"
  /\ task'[t].copy.status = doc'.status

Leaves(t) ==
  /\ task'[t].pc = "idle"
  /\ doc'.status \in {"waiting_approval", "completed", "failed", "rejected"}
  /\ doc'.status = "waiting_approval" => live' = live

Alone(t) ==
  /\ \A s \in Task \ {t} : task'[s] = task[s] /\ ~Active(s)
  /\ recov.phase = "done" /\ UNCHANGED recov

-----------------------------------------------------------------------------
LEMMA ActiveBusy == \A t \in Task : Active(t) <=> task[t].pc \in Busy
BY DEF Active, Busy

LEMMA AloneActs ==
  ASSUME WorkerScope, TypeInv, ClaimInv, NEW t \in Task, Active(t), NEW r, Become(t, r),
         UNCHANGED recov
  PROVE  Alone(t) /\ task'[t] = r
<1>1. task'[t] = r /\ \A s \in Task \ {t} : task'[s] = task[s]
  BY DEF Become, TypeInv, TypeOK
<1>2. (\A s \in Task \ {t} : ~Active(s)) /\ recov.phase = "done"
  BY OthersAside
<1> QED
  BY <1>1, <1>2 DEF Alone

(* A node's update keeps the handler active.                                 *)
LEMMA EmitContinues ==
  ASSUME WorkerScope, TypeInv, ClaimInv, NEW t \in Task, task[t].pc \in {"node", "body"},
         doc.status = task[t].copy.status, NEW f \in Flag, NEW o \in Flag, Emit(t, f, o),
         UNCHANGED <<doc, live, recov>>
  PROVE  Alone(t) /\ Continues(t)
<1> DEFINE i == Node(t)
           d == [task[t].copy EXCEPT !.st[i] = "finished", !.cur = i, !.out[i] = o]
           r == [task[t] EXCEPT !.pc = "chunk", !.pos = i, !.flag = f,
                                !.dec = "none", !.copy = d]
<1>1. Become(t, r)
  BY DEF Emit
<1>2. Fits(task[t], doc.status, ckpt.pos) /\ task[t] \in TaskState /\ task[t].copy \in Doc
  BY SlotTyped DEF ClaimInv
<1>3. d.status = task[t].copy.status
  BY <1>2 DEF Doc
<1>4. r.pc = "chunk" /\ r.copy = d
  <2> HIDE DEF d, i
  <2> QED
    BY <1>2 DEF TaskState
<1>5. task[t].copy.status = "running"
  BY <1>2 DEF Fits, Busy, Streaming
<1>6. Active(t)
  BY DEF Active, Streaming
<1> HIDE DEF r, d
<1>7. Alone(t) /\ task'[t] = r
  BY <1>1, <1>6, AloneActs
<1> QED
  BY <1>3, <1>4, <1>5, <1>7 DEF Continues, Busy, Streaming

(* Every step of a stream works on or gives the run up.                      *)
LEMMA StreamStepWorks ==
  ASSUME WorkerScope, TypeInv, ClaimInv, WorkerInv, NEW t \in Task, StreamStep(t)
  PROVE  Active(t) /\ Alone(t) /\ (Continues(t) \/ Leaves(t))
<1> USE RunAssumption
<1> DEFINE c == task[t].copy
<1>a. /\ task[t] \in TaskState /\ c \in Doc /\ Fits(task[t], doc.status, ckpt.pos)
      /\ WorkerScope /\ DecisionScope
  BY SlotTyped DEF ClaimInv, WorkerScope
<1>b. Active(t)
  <2>1. task[t].pc \in Streaming \cup {"reset", "announce", "verdict"}
    BY DEF StreamStep, Begin, NodeStart, NodeSkip, NodeRun, NodeRaise, NodeResume,
       NodePause, WriteChunk, WritePause, WriteReset, WriteAnnounced, WriteCompleted,
       WriteRejected, WriteFailed, Streaming
  <2> QED
    BY <1>a, <2>1 DEF Fits, Busy, Active, Streaming
<1>c. doc.status = c.status
  BY <1>b DEF WorkerInv
<1>d. task[t].pc # "verdict" => c.status = "running"
  BY <1>a, <1>b, ActiveBusy DEF Fits
<1>1. CASE Begin(t)
  <2> DEFINE r == [task[t] EXCEPT !.pc = "node", !.pos = ckpt.pos, !.flag = ckpt.appr]
  <2>1. /\ Become(t, r) /\ UNCHANGED <<doc, ckpt, live, recov, crashes, history>>
        /\ task[t].pc = "begin"
    BY <1>1 DEF Begin
  <2>2. r.pc = "node" /\ r.copy = c
    BY <1>a DEF TaskState
  <2> HIDE DEF r
  <2> QED
    BY <1>b, <1>c, <1>d, <2>1, <2>2, <1>a, AloneActs DEF Continues, Busy, Streaming
<1>2. CASE NodeStart(t)
  <2> DEFINE d == [c EXCEPT !.st[Node(t)] = "running", !.cur = Node(t)]
             r == [task[t] EXCEPT !.pc = "body", !.copy = d]
  <2>1. doc' = d /\ Become(t, r) /\ UNCHANGED <<ckpt, live, recov, crashes, history>> /\ task[t].pc = "node"
    BY <1>2 DEF NodeStart
  <2>2. d.status = c.status
    BY <1>a DEF Doc
  <2> HIDE DEF d
  <2>3. r.pc = "body" /\ r.copy = d
    BY <1>a DEF TaskState
  <2> HIDE DEF r
  <2> QED
    BY <1>b, <1>c, <1>d, <2>1, <2>2, <2>3, <1>a, AloneActs DEF Continues, Busy, Streaming
<1>3. CASE NodeSkip(t) \/ NodeRun(t)
  <2>1. /\ task[t].pc \in {"node", "body"} /\ Node(t) \in Steps
        /\ Emit(t, task[t].flag, StoredOut(t)) /\ UNCHANGED <<doc, live, recov>>
    BY <1>3, SlotTyped DEF NodeSkip, NodeRun
  <2>2. task[t].flag \in Flag /\ StoredOut(t) \in Flag
    BY <1>a, <2>1 DEF TaskState, Doc, StoredOut
  <2> QED
    BY <1>a, <1>b, <1>c, <2>1, <2>2, EmitContinues
<1>4. CASE NodeRaise(t) \/ NodePause(t) \/ WriteChunk(t)
  <2>1. PICK p \in {"fail", "pause", "node"} :
          /\ Become(t, [task[t] EXCEPT !.pc = p]) /\ UNCHANGED <<live, recov>>
          /\ doc' = doc \/ doc' = c
          /\ task[t].pc \in {"body", "chunk"}
    BY <1>4 DEF NodeRaise, NodePause, WriteChunk
  <2> DEFINE r == [task[t] EXCEPT !.pc = p]
  <2>2. r.pc = p /\ r.copy = c
    BY <1>a DEF TaskState
  <2>3. Become(t, r)
    BY <2>1
  <2> HIDE DEF r
  <2> QED
    BY <1>b, <1>c, <1>d, <2>1, <2>2, <2>3, <1>a, AloneActs DEF Continues, Busy, Streaming
<1>5. CASE NodeResume(t)
  <2>1. /\ task[t].pc = "body" /\ Node(t) \in Steps /\ task[t].dec # "none"
        /\ \/ Emit(t, task[t].dec, task[t].dec)
           \/ Emit(t, task[t].flag, StoredOut(t))
        /\ UNCHANGED <<doc, live, recov>>
    BY <1>5, SlotTyped DEF NodeResume
  <2>2. task[t].flag \in Flag /\ StoredOut(t) \in Flag /\ task[t].dec \in Flag
    BY <1>a, <2>1 DEF TaskState, Doc, StoredOut, Flag
  <2> QED
    BY <1>a, <1>b, <1>c, <2>1, <2>2, EmitContinues
<1>6. CASE WritePause(t)
  <2>1. ~ResetsFlag(t) /\ ~Announces(t)
    BY <1>6, <1>a, PauseIsLast DEF WritePause
  <2>2. /\ doc'.status = "waiting_approval" /\ Become(t, Idle)
        /\ UNCHANGED <<ckpt, live, recov, crashes, history>>
    BY <1>6, <1>a, <2>1 DEF WritePause, Release, Doc
  <2> QED
    BY <1>a, <1>b, <2>2, AloneActs DEF Leaves, Idle
<1>7. CASE WriteReset(t) \/ WriteAnnounced(t)
  BY <1>7, <1>b DEF WriteReset, WriteAnnounced, Active, Streaming
<1>8. CASE WriteCompleted(t)
  <2> DEFINE d == [c EXCEPT !.status = "completed", !.cur = 0]
             r == [task[t] EXCEPT !.pc = "verdict", !.copy = d]
  <2>1. /\ doc' = d /\ UNCHANGED recov
        /\ \/ Become(t, r) /\ live' = live
           \/ Become(t, Idle)
    BY <1>8 DEF WriteCompleted, Release
  <2>2. d.status = "completed"
    BY <1>a DEF Doc
  <2> HIDE DEF d
  <2>3. r.pc = "verdict" /\ r.copy = d
    BY <1>a DEF TaskState
  <2> HIDE DEF r
  <2> QED
    BY <1>a, <1>b, <2>1, <2>2, <2>3, AloneActs DEF Continues, Leaves, Busy, Idle
<1>9. CASE WriteRejected(t) \/ WriteFailed(t)
  <2>1. doc'.status \in {"rejected", "failed"} /\ Become(t, Idle) /\ UNCHANGED recov
    BY <1>9, <1>a DEF WriteRejected, WriteFailed, Release, Doc
  <2> QED
    BY <1>a, <1>b, <2>1, AloneActs DEF Leaves, Idle
<1> QED
  BY <1>1, <1>2, <1>3, <1>4, <1>5, <1>6, <1>7, <1>8, <1>9 DEF StreamStep

(* Handlers of these clients only mark the decided step.                     *)
LEMMA HandlerStepWorks ==
  ASSUME WorkerScope, TypeInv, ClaimInv, WorkerInv, NEW t \in Task, HandlerStep(t)
  PROVE  Active(t) /\ task[t].pc # "verdict" /\ Alone(t) /\ Continues(t)
<1> DEFINE c == task[t].copy
           s == [i \in Steps |-> IF i = c.cur THEN "finished" ELSE c.st[i]]
           d == [c EXCEPT !.st = s]
           r == [task[t] EXCEPT !.pc = "begin", !.copy = d]
<1>a. task[t] \in TaskState /\ c \in Doc /\ Fits(task[t], doc.status, ckpt.pos)
  BY SlotTyped DEF ClaimInv
<1>1. MarkFinished(t)
  <2>1. task[t].pc \in Busy \cup {"idle"}
    BY <1>a DEF Fits, WorkerScope, DecisionOps
  <2> QED
    BY <2>1 DEF HandlerStep, ResumeUnclaimed, OutputError, WriteNote, Terminate, Retry,
       RestartFromStep, Busy, Streaming
<1>2. /\ doc' = d /\ Become(t, r) /\ UNCHANGED <<ckpt, live, recov, crashes, history>>
      /\ task[t].pc = "mark"
  BY <1>1 DEF MarkFinished
<1>3. d.status = c.status
  BY <1>a DEF Doc
<1> HIDE DEF d
<1>4. r.pc = "begin" /\ r.copy = d
  BY <1>a DEF TaskState
<1>5. c.status = "running" /\ Active(t)
  BY <1>a, <1>2 DEF Fits, Busy, Active, Streaming
<1> HIDE DEF r
<1> QED
  BY <1>2, <1>3, <1>4, <1>5, AloneActs DEF Continues, Busy, Streaming

(* The requests that reach a run: it is started, or a waiting run is claimed *)
(* by a handler that finds a runner.                                         *)
TakesUp(t, from) ==
  /\ ~Working /\ doc.status = from
  /\ recov.phase = "done" /\ UNCHANGED recov
  /\ live'
  /\ doc'.status = "running"
  /\ task'[t].pc \in {"mark", "begin"} /\ task'[t].copy.status = "running"
  /\ \A s \in Task \ {t} : task'[s] = task[s]

LEMMA RequestWorks ==
  ASSUME WorkerScope, TypeInv, ClaimInv, WorkerInv, NEW t \in Task, Request(t)
  PROVE  TakesUp(t, "absent") \/ TakesUp(t, "waiting_approval")
<1>a. doc \in Doc /\ task \in [Task -> TaskState]
  BY DEF TypeInv, TypeOK
<1>b. recov.phase = "done"
  BY DEF Request, StartRun, Claim, ReadRun, Serving, WorkerScope, DecisionScope
<1>1. CASE StartRun(t)
  <2> DEFINE d == NewDoc("running")
             r == [Idle EXCEPT !.pc = "begin", !.op = "start", !.copy = d]
  <2>1. /\ doc' = d /\ task' = [task EXCEPT ![t] = r] /\ ended = "never" /\ live' /\ UNCHANGED recov
    BY <1>1 DEF StartRun, Become
  <2>2. d.status = "running"
    BY DEF NewDoc
  <2> HIDE DEF d
  <2>3. r.pc = "begin" /\ r.copy = d
    BY DEF Idle
  <2> HIDE DEF r
  <2>4. doc.status = "absent" /\ ~Working
    BY <2>1 DEF ClaimInv, Unborn, IsFree, Working, Active, Streaming
  <2> QED
    BY <1>a, <1>b, <2>1, <2>2, <2>3, <2>4 DEF TakesUp
<1>2. ASSUME NEW o \in DecisionOps, Claim(t, o) PROVE TakesUp(t, "waiting_approval")
  <2> DEFINE d == [doc EXCEPT !.status = "running"]
             r == [Idle EXCEPT !.pc = "mark", !.op = o, !.dec = Verdict(o),
                               !.gate = doc.cur, !.copy = d]
  <2>1. live /\ HasRunner(o) /\ doc.status = "waiting_approval"
    BY <1>2, <1>b DEF Claim, WorkerInv, HasRunner
  <2>2. doc' = d /\ task' = [task EXCEPT ![t] = r] /\ UNCHANGED <<live, recov>>
    BY <1>2, <2>1 DEF Claim, Become
  <2>3. d.status = "running"
    BY <1>a DEF Doc
  <2> HIDE DEF d
  <2>4. r.pc = "mark" /\ r.copy = d
    BY DEF Idle
  <2> HIDE DEF r
  <2>5. ~Working
    BY <2>1 DEF ClaimInv, Fits, Busy, Working, Active
  <2> QED
    BY <1>a, <1>b, <2>1, <2>2, <2>3, <2>4, <2>5 DEF TakesUp
<1>3. ~\E o \in AllOps : ReadRun(t, o)
  BY DEF ReadRun, Accepts, WorkerScope, DecisionOps
<1> QED
  BY <1>1, <1>2, <1>3 DEF Request

(* A restart takes every worker away, recovery gives a running run a new one.*)
LosesAll ==
  /\ \A t \in Task : task'[t] = Idle
  /\ recov'.phase = "list" /\ UNCHANGED doc

Rearms ==
  /\ recov.phase # "done" /\ UNCHANGED <<doc, task>>
  /\ \/ recov'.phase # "done" /\ live' = live
     \/ doc.status # "running" /\ (doc.status = "waiting_approval" => live')

Adopts(t) ==
  /\ doc.status = "running" /\ UNCHANGED doc /\ live'
  /\ task'[t].pc = "begin" /\ task'[t].copy.status = "running"
  /\ \A s \in Task \ {t} : task'[s] = task[s]

LEMMA ServerWorks ==
  ASSUME WorkerScope, TypeInv, ClaimInv, WorkerInv, Delete \/ Crash \/ Recovery
  PROVE  LosesAll \/ (~Working /\ (Rearms \/ \E t \in Task : Adopts(t)))
<1> USE RunAssumption
<1>a. /\ doc \in Doc /\ task \in [Task -> TaskState] /\ ckpt.pos \in 0..N
      /\ recov.phase \in {"list", "recover", "done"}
  BY DEF TypeInv, TypeOK, Checkpoint
<1>b. recov.phase # "done" => ~Working
  BY DEF ClaimInv, RecoveryAlone, IsFree, Working, Active, Streaming
<1>1. CASE Delete
  BY <1>1 DEF Delete, WorkerScope, DecisionOps
<1>2. CASE Crash
  BY <1>2 DEF Crash, LosesAll
<1>3. CASE RecoverList
  BY <1>3, <1>b DEF RecoverList, RecoveryDone, Rearms
<1>4. CASE RecoverWaiting
  <2>1. recov.copy = doc
    BY <1>4 DEF RecoverWaiting, ClaimInv, RecoveryAlone
  <2> QED
    BY <1>4, <1>b, <2>1 DEF RecoverWaiting, Rearms
<1>5. ~RecoverRefire
  <2> SUFFICES ASSUME recov.phase = "recover", recov.copy.status = "waiting_approval",
                      ckpt.pos = N
               PROVE  FALSE
    BY DEF RecoverRefire
  <2>1. doc.cur = N + 1 /\ doc.cur \in Pauses
    BY DEF ClaimInv, RecoveryAlone, WaitsAtPause
  <2> QED
    BY <2>1 DEF Pauses, Steps
<1>6. ASSUME NEW t \in Task, RecoverRunning(t) PROVE ~Working /\ Adopts(t)
  <2> DEFINE r == [Idle EXCEPT !.pc = "begin", !.op = "recover", !.copy = recov.copy]
  <2>1. /\ recov.phase = "recover" /\ recov.copy.status = "running" /\ live'
        /\ task' = [task EXCEPT ![t] = r] /\ UNCHANGED doc
    BY <1>6 DEF RecoverRunning, Become
  <2>2. recov.copy = doc
    BY <2>1 DEF ClaimInv, RecoveryAlone
  <2>3. r.pc = "begin" /\ r.copy = recov.copy
    BY DEF Idle
  <2> HIDE DEF r
  <2> QED
    BY <1>a, <1>b, <2>1, <2>2, <2>3 DEF Adopts
<1> QED
  BY <1>1, <1>2, <1>3, <1>4, <1>5, <1>6 DEF Recovery

LEMMA InitWorks == Init => WorkerInv
BY DEF Init, WorkerInv, Working, Active, Streaming, NoDoc, NewDoc, Idle

LEMMA NextWorks ==
  ASSUME WorkerScope
  PROVE  TypeInv /\ ClaimInv /\ WorkerInv /\ [Next]_vars => WorkerInv'
<1> SUFFICES ASSUME TypeInv, ClaimInv, WorkerInv, [Next]_vars PROVE WorkerInv'
  OBVIOUS
<1>1. CASE UNCHANGED vars
  BY <1>1 DEF vars, WorkerInv, Working, Active
<1>2. ASSUME NEW t \in Task, StreamStep(t) \/ HandlerStep(t) PROVE WorkerInv'
  <2>1. Active(t) /\ Alone(t) /\ (Continues(t) \/ Leaves(t))
    BY <1>2, StreamStepWorks, HandlerStepWorks
  <2>2. live
    BY <2>1 DEF WorkerInv, Working
  <2>3. \A s \in Task \ {t} : ~Active(s)'
    BY <2>1 DEF Alone, Active
  <2> QED
    BY <2>1, <2>2, <2>3, ActiveBusy
    DEF Continues, Leaves, Alone, WorkerInv, Working, Active, Busy, Streaming
<1>3. ASSUME NEW t \in Task, Request(t) PROVE WorkerInv'
  BY <1>3, RequestWorks DEF TakesUp, WorkerInv, Working, Active, Streaming
<1>4. CASE Delete \/ Crash \/ Recovery
  <2>1. CASE LosesAll
    BY <2>1 DEF LosesAll, WorkerInv, Working, Active, Streaming, Idle
  <2>2. CASE ~Working /\ Rearms
    BY <2>2 DEF Rearms, WorkerInv, Working, Active
  <2>3. ASSUME NEW t \in Task, ~Working, Adopts(t) PROVE WorkerInv'
    BY <2>3 DEF Adopts, WorkerInv, Working, Active, Streaming
  <2> QED
    BY <1>4, <2>1, <2>2, <2>3, ServerWorks
<1> QED
  BY <1>1, <1>2, <1>3, <1>4 DEF Next

LEMMA AlwaysWorks ==
  ASSUME WorkerScope PROVE Spec => [](TypeInv /\ ClaimInv /\ WorkerInv)
<1>1. DecisionScope
  BY DEF WorkerScope
<1> QED
  BY <1>1, AlwaysFits, InitWorks, NextWorks, PTL DEF Spec

(* A run shown as running has a task that works on it, or recovery is still  *)
(* to look at it: nobody can take the run from its worker, and a claim is    *)
(* never made without a runner to resume with (HasRunner).                   *)
THEOREM RunningIsWorkedOn ==
  ASSUME WorkerScope
  PROVE  Spec => []RunningHasWorker
<1>1. WorkerInv => RunningHasWorker
  BY DEF WorkerInv, RunningHasWorker, Quiet, Working, Active, Streaming
<1> QED
  BY <1>1, AlwaysWorks, PTL

(***************************************************************************)
(* The refinement.  shown is the status the mapping gives to the contract, *)
(* Working its worker.                                                     *)
(***************************************************************************)
shown == IF Finishing THEN "running" ELSE doc.status

LEMMA ActiveShowsRunning ==
  ASSUME ClaimInv, WorkerInv, Working
  PROVE  shown = "running"
<1>1. PICK t \in Task : Active(t)
  BY DEF Working
<1>2. CASE task[t].pc = "verdict"
  BY <1>2 DEF shown, Finishing
<1>3. CASE task[t].pc # "verdict"
  <2>1. doc.status = "running"
    BY <1>1, <1>3, ActiveBusy DEF WorkerInv, ClaimInv, Fits
  <2> QED
    BY <2>1 DEF shown
<1> QED
  BY <1>2, <1>3

LEMMA IdleShowsStored == ~Working => ~Finishing /\ shown = doc.status
BY DEF Working, Active, Finishing, shown

(* Every step of the system is a step of the contract or invisible to it.    *)
LEMMA ContractStep ==
  ASSUME WorkerScope, TypeInv, ClaimInv, WorkerInv, ClaimInv', WorkerInv', [Next]_vars
  PROVE  [Contract!Next]_Contract!vars
<1>r. Working => shown = "running"
  BY ActiveShowsRunning
<1>s. Working' => shown' = "running"
  <2>1. ASSUME NEW t \in Task, Active(t)', ~Finishing' PROVE doc'.status = "running"
    BY <2>1, ActiveBusy DEF WorkerInv, ClaimInv, Fits, Finishing, Active, Busy
  <2> QED
    BY <2>1 DEF Working, shown
<1>i. ~Working => shown = doc.status
  BY IdleShowsStored
<1>j. ~Working' => shown' = doc'.status
  BY DEF Working, Active, Finishing, shown
<1>1. CASE UNCHANGED vars
  BY <1>1 DEF vars, Contract!vars, Finishing, Active
<1>2. ASSUME NEW t \in Task, StreamStep(t) \/ HandlerStep(t)
      PROVE  [Contract!Next]_Contract!vars
  <2>1. Active(t) /\ Alone(t) /\ (Continues(t) \/ Leaves(t))
    BY <1>2, StreamStepWorks, HandlerStepWorks
  <2>2. Working
    BY <2>1 DEF Working
  <2>3. CASE Continues(t)
    <3>1. Working'
      BY <2>3 DEF Continues, Working, Active, Busy
    <3> QED
      BY <1>r, <1>s, <2>2, <3>1 DEF Contract!vars, shown, Working
  <2>4. CASE Leaves(t)
    <3>1. ~Working'
      BY <2>1, <2>4 DEF Leaves, Alone, Working, Active, Streaming
    <3>2. shown' \in {"waiting_approval", "completed", "failed", "rejected"}
      BY <1>j, <2>4, <3>1 DEF Leaves
    <3> QED
      BY <2>2, <3>1, <3>2
      DEF Contract!Next, Contract!Pause, Contract!Finish, Contract!Ended, shown, Working
  <2> QED
    BY <2>1, <2>3, <2>4
<1>3. ASSUME NEW t \in Task, Request(t) PROVE [Contract!Next]_Contract!vars
  <2>1. PICK from \in {"absent", "waiting_approval"} : TakesUp(t, from)
    BY <1>3, RequestWorks
  <2>2. ~Working /\ shown = from
    BY <1>i, <2>1 DEF TakesUp
  <2>3. Working' /\ shown' = "running"
    <3>1. Working'
      BY <2>1 DEF TakesUp, Working, Active, Streaming
    <3> QED
      BY <1>s, <3>1
  <2> QED
    BY <2>2, <2>3 DEF Contract!Next, Contract!Start, Contract!Decide, shown, Working
<1>4. CASE Delete \/ Crash \/ Recovery
  <2>1. CASE LosesAll
    <3>1. ~Working' /\ shown' = doc.status
      <4>1. ~Working'
        BY <2>1 DEF LosesAll, Working, Active, Streaming, Idle
      <4> QED
        BY <1>j, <2>1, <4>1 DEF LosesAll
    <3>2. CASE ~Working
      BY <1>i, <3>1, <3>2 DEF Contract!vars, shown, Working
    <3>3. CASE Working
      <4>1. doc.status \in {"running", "completed"}
        <5>1. PICK t \in Task : Active(t)
          BY <3>3 DEF Working
        <5> QED
          BY <5>1, ActiveBusy DEF WorkerInv, ClaimInv, Fits
      <4> QED
        BY <1>r, <3>1, <3>3, <4>1
        DEF Contract!Next, Contract!Lose, Contract!Finish, Contract!Ended, shown, Working
    <3> QED
      BY <3>2, <3>3
  <2>2. CASE ~Working /\ Rearms
    <3>1. ~Working'
      BY <2>2 DEF Rearms, Working, Active
    <3> QED
      BY <1>i, <1>j, <2>2, <3>1 DEF Rearms, Contract!vars, shown, Working
  <2>3. ASSUME NEW t \in Task, ~Working, Adopts(t) PROVE Contract!Next
    <3>1. Working'
      BY <2>3 DEF Adopts, Working, Active, Streaming
    <3>2. shown = "running" /\ shown' = "running"
      BY <1>i, <1>s, <2>3, <3>1 DEF Adopts
    <3> QED
      BY <2>3, <3>1, <3>2 DEF Contract!Next, Contract!Recover, shown, Working
  <2> QED
    BY <1>4, <2>1, <2>2, <2>3, ServerWorks
<1> QED
  BY <1>1, <1>2, <1>3, <1>4 DEF Next

(* Clients that decide see the contract of the run API, across restarts and  *)
(* recovery: at most one worker, a decision answered once, ended once.       *)
THEOREM DecisionsRefineContract ==
  ASSUME WorkerScope
  PROVE  Spec => ImplementsContract
<1>1. Init => Contract!Init
  BY DEF Init, Contract!Init, Finishing, Active, Streaming, Idle, NoDoc, NewDoc
<1>2. /\ TypeInv /\ ClaimInv /\ WorkerInv
      /\ (TypeInv /\ ClaimInv /\ WorkerInv)'
      /\ [Next]_vars
      => [Contract!Next]_Contract!vars
  BY ContractStep
<1> QED
  BY <1>1, <1>2, AlwaysWorks, PTL DEF Spec, ImplementsContract, Contract!Spec
=============================================================================
