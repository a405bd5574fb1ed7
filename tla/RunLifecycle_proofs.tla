------------------------ MODULE RunLifecycle_proofs ------------------------
(***************************************************************************)
(* Theorems about RunLifecycle for every number of tasks, steps, gates and *)
(* restarts, and for every set of handlers that clients use.               *)
(***************************************************************************)
EXTENDS RunLifecycle, TLAPS

(***************************************************************************)
(* Type correctness.  TypeOK alone is not inductive: the node a stream     *)
(* executes or waits at is Node(t) = pos + 1, which is a step only as long *)
(* as the stream has not reached the end of the graph.                     *)
(***************************************************************************)
TypedTask == {r \in TaskState : r.pc \in {"body", "pause"} => r.pos < N}

TypeInv == TypeOK /\ task \in [Task -> TypedTask]

(* The document a run is inserted with, and the copy of an idle slot, are    *)
(* run documents.                                                            *)
LEMMA NewDocTyped == ASSUME NEW s \in Status PROVE NewDoc(s) \in Doc
BY RunAssumption DEF NewDoc, Doc, StepStatus, Flag, Steps

LEMMA IdleTyped == NoDoc \in Doc /\ Idle \in TypedTask
<1>1. NoDoc \in Doc
  BY NewDocTyped DEF NoDoc, Status
<1> QED
  BY <1>1, RunAssumption DEF Idle, TypedTask, TaskState, Pc, Origin, Flag

(* A handler that moves on with a well-typed state keeps the table typed.    *)
LEMMA BecomeTyped ==
  ASSUME TypeInv, NEW t \in Task, NEW r \in TypedTask, Become(t, r)
  PROVE  task' \in [Task -> TypedTask] /\ task' \in [Task -> TaskState]
BY DEF Become, TypeInv, TypedTask

LEMMA ReleaseTyped ==
  ASSUME TypeInv, NEW t \in Task, Release(t)
  PROVE  task' \in [Task -> TypedTask] /\ task' \in [Task -> TaskState]
BY IdleTyped, BecomeTyped DEF Release

(* What a handler knows about its own slot.                                  *)
LEMMA SlotTyped ==
  ASSUME TypeInv, NEW t \in Task
  PROVE  /\ task[t] \in TaskState
         /\ task[t].copy \in Doc
         /\ task[t].pos \in 0..N
         /\ task[t].flag \in Flag
         /\ task[t].pc \in {"body", "pause"} => Node(t) \in Steps
BY RunAssumption DEF TypeInv, TypedTask, TaskState, Node, Steps

(* Setting one step's status, output and the current step of a document.     *)
LEMMA StepSetTyped ==
  ASSUME NEW c \in Doc, NEW i \in Steps, NEW x \in StepStatus, NEW f \in Flag
  PROVE  [c EXCEPT !.st[i] = x, !.cur = i, !.out[i] = f] \in Doc
<1>1. [c.st EXCEPT ![i] = x] \in [Steps -> StepStatus]
  BY DEF Doc
<1>2. [c.out EXCEPT ![i] = f] \in [Steps -> Flag]
  BY DEF Doc
<1>3. i \in 0..N
  BY RunAssumption DEF Steps
<1> QED
  BY <1>1, <1>2, <1>3 DEF Doc

(* A node's update leaves the checkpoint and the stream's slot typed.        *)
LEMMA EmitTyped ==
  ASSUME TypeInv, NEW t \in Task, Node(t) \in Steps,
         NEW f \in Flag, NEW o \in Flag, Emit(t, f, o)
  PROVE  /\ ckpt' \in Checkpoint
         /\ task' \in [Task -> TypedTask] /\ task' \in [Task -> TaskState]
<1> DEFINE i == Node(t)
           d == [task[t].copy EXCEPT !.st[i] = "finished", !.cur = i, !.out[i] = o]
           r == [task[t] EXCEPT !.pc = "chunk", !.pos = i, !.flag = f,
                                !.dec = "none", !.copy = d]
<1>1. d \in Doc
  BY SlotTyped, StepSetTyped DEF StepStatus
<1>2. i \in 0..N
  BY RunAssumption DEF Steps
<1>3. r \in TypedTask
  BY <1>1, <1>2, SlotTyped DEF TypedTask, TaskState, Pc
<1>4. ckpt' = [pos |-> i, appr |-> f] /\ Become(t, r)
  BY DEF Emit
<1> QED
  BY <1>2, <1>3, <1>4, BecomeTyped DEF Checkpoint

(* Every step of a stream keeps the types.                                   *)
LEMMA StreamStepTyped ==
  ASSUME TypeInv, NEW t \in Task, StreamStep(t)
  PROVE  TypeInv'
<1> USE RunAssumption
<1> DEFINE c == task[t].copy
<1>a. TypeOK /\ task[t] \in TaskState /\ c \in Doc
  BY SlotTyped DEF TypeInv
<1>b. 0 \in 0..N
  OBVIOUS
<1>1. CASE Begin(t)
  <2> DEFINE r == [task[t] EXCEPT !.pc = "node", !.pos = ckpt.pos, !.flag = ckpt.appr]
  <2>1. r \in TypedTask
    BY <1>a DEF TypeOK, TypedTask, TaskState, Pc, Checkpoint
  <2>2. Become(t, r) /\ UNCHANGED <<doc, ckpt, live, recov, crashes, history>>
    BY <1>1 DEF Begin
  <2> QED
    BY <1>a, <2>1, <2>2, BecomeTyped DEF TypeInv, TypeOK, history
<1>2. CASE NodeStart(t)
  <2> DEFINE i == Node(t)
             d == [c EXCEPT !.st[i] = "running", !.cur = i]
             r == [task[t] EXCEPT !.pc = "body", !.copy = d]
  <2>1. i \in Steps
    BY <1>2 DEF NodeStart
  <2>2. d \in Doc
    <3>1. c.out[i] \in Flag /\ d = [c EXCEPT !.st[i] = "running", !.cur = i, !.out[i] = c.out[i]]
      BY <1>a, <2>1 DEF Doc
    <3> QED
      BY <1>a, <2>1, <3>1, StepSetTyped DEF StepStatus
  <2>3. task[t].pos < N
    BY <1>a, <2>1 DEF Node, Steps, TaskState
  <2>4. r \in TypedTask
    BY <1>a, <2>2, <2>3 DEF TypedTask, TaskState, Pc
  <2>5. doc' = d /\ Become(t, r) /\ UNCHANGED <<ckpt, live, recov, crashes, history>>
    BY <1>2 DEF NodeStart
  <2> QED
    BY <1>a, <2>2, <2>4, <2>5, BecomeTyped DEF TypeInv, TypeOK, history
<1>3. CASE NodeSkip(t)
  <2>1. Node(t) \in Steps /\ task[t].flag \in Flag /\ StoredOut(t) \in Flag
    BY <1>3, <1>a DEF NodeSkip, TaskState, Doc, StoredOut
  <2>2. Emit(t, task[t].flag, StoredOut(t)) /\ UNCHANGED <<doc, live, recov, crashes, history>>
    BY <1>3 DEF NodeSkip
  <2> QED
    BY <1>a, <2>1, <2>2, EmitTyped DEF TypeInv, TypeOK, history
<1>4. CASE NodeRun(t)
  <2>1. Node(t) \in Steps /\ task[t].flag \in Flag /\ StoredOut(t) \in Flag
    BY <1>4, <1>a, SlotTyped DEF NodeRun, TaskState, Doc, StoredOut
  <2>2. /\ Emit(t, task[t].flag, StoredOut(t))
        /\ ran' = ran \cup {Node(t)}
        /\ UNCHANGED <<doc, live, recov, crashes, okd, said, pass, ended>>
    BY <1>4 DEF NodeRun
  <2> QED
    BY <1>a, <2>1, <2>2, EmitTyped DEF TypeInv, TypeOK
<1>5. CASE NodeRaise(t)
  <2> DEFINE r == [task[t] EXCEPT !.pc = "fail"]
  <2>1. r \in TypedTask
    BY <1>a DEF TypedTask, TaskState, Pc
  <2>2. Become(t, r) /\ UNCHANGED <<doc, ckpt, live, recov, crashes, history>>
    BY <1>5 DEF NodeRaise
  <2> QED
    BY <1>a, <2>1, <2>2, BecomeTyped DEF TypeInv, TypeOK, history
<1>6. CASE NodeResume(t)
  <2>1. /\ Node(t) \in Steps /\ task[t].flag \in Flag /\ StoredOut(t) \in Flag
        /\ task[t].dec \in Flag
    BY <1>6, <1>a, SlotTyped DEF NodeResume, TaskState, Doc, StoredOut, Flag
  <2>2. /\ \/ Emit(t, task[t].dec, task[t].dec)
           \/ Emit(t, task[t].flag, StoredOut(t))
        /\ pass' = [pass EXCEPT ![Node(t)] = task[t].gate]
        /\ UNCHANGED <<doc, live, recov, crashes, okd, said, ran, ended>>
    BY <1>6 DEF NodeResume
  <2>3. ckpt' \in Checkpoint /\ task' \in [Task -> TypedTask] /\ task' \in [Task -> TaskState]
    BY <2>1, <2>2, EmitTyped
  <2>4. pass' \in [Steps -> 0..N]
    BY <1>a, <2>1, <2>2 DEF TypeOK, TaskState
  <2> QED
    BY <1>a, <2>2, <2>3, <2>4 DEF TypeInv, TypeOK
<1>7. CASE NodePause(t)
  <2> DEFINE r == [task[t] EXCEPT !.pc = "pause"]
  <2>1. r \in TypedTask
    BY <1>7, <1>a, SlotTyped DEF NodePause, TypedTask, TaskState, Pc, TypeInv
  <2>2. Become(t, r) /\ UNCHANGED <<doc, ckpt, live, recov, crashes, history>>
    BY <1>7 DEF NodePause
  <2> QED
    BY <1>a, <2>1, <2>2, BecomeTyped DEF TypeInv, TypeOK, history
<1>8. CASE WriteChunk(t)
  <2> DEFINE r == [task[t] EXCEPT !.pc = "node"]
  <2>1. r \in TypedTask
    BY <1>a DEF TypedTask, TaskState, Pc
  <2>2. doc' = c /\ Become(t, r) /\ UNCHANGED <<ckpt, live, recov, crashes, history>>
    BY <1>8 DEF WriteChunk
  <2> QED
    BY <1>a, <2>1, <2>2, BecomeTyped DEF TypeInv, TypeOK, history
<1>9. CASE WritePause(t)
  <2> DEFINE d == [c EXCEPT !.status = "waiting_approval", !.cur = Node(t)]
             r1 == [task[t] EXCEPT !.pc = "reset", !.copy = d]
             r2 == [task[t] EXCEPT !.pc = "announce", !.copy = d]
  <2>1. Node(t) \in 0..N
    BY <1>9, SlotTyped DEF WritePause, Steps
  <2>2. d \in Doc
    BY <1>a, <2>1 DEF Doc, Status
  <2>3. r1 \in TypedTask /\ r2 \in TypedTask
    BY <1>a, <2>2 DEF TypedTask, TaskState, Pc
  <2>4. /\ doc' = d
        /\ Become(t, r1) \/ Become(t, r2) \/ Release(t)
        /\ UNCHANGED <<ckpt, live, recov, crashes, history>>
    BY <1>9 DEF WritePause
  <2>5. task' \in [Task -> TypedTask] /\ task' \in [Task -> TaskState]
    BY <2>3, <2>4, BecomeTyped, ReleaseTyped
  <2> QED
    BY <1>a, <2>2, <2>4, <2>5 DEF TypeInv, TypeOK, history
<1>10. CASE WriteReset(t)
  <2> DEFINE r == [task[t] EXCEPT !.pc = "announce"]
  <2>1. r \in TypedTask
    BY <1>a DEF TypedTask, TaskState, Pc
  <2>2. /\ doc' = c
        /\ ckpt' = [ckpt EXCEPT !.appr = "no"]
        /\ Become(t, r) \/ Release(t)
        /\ UNCHANGED <<live, recov, crashes, history>>
    BY <1>10 DEF WriteReset
  <2>3. task' \in [Task -> TypedTask] /\ task' \in [Task -> TaskState]
    BY <2>1, <2>2, BecomeTyped, ReleaseTyped
  <2> QED
    BY <1>a, <2>2, <2>3 DEF TypeInv, TypeOK, Checkpoint, Flag, history
<1>11. CASE WriteAnnounced(t)
  <2>1. [c EXCEPT !.asked = TRUE] \in Doc
    BY <1>a DEF Doc
  <2>2. doc' \in Doc /\ Release(t) /\ UNCHANGED <<ckpt, live, recov, crashes, history>>
    BY <1>a, <1>11, <2>1 DEF WriteAnnounced, TypeOK
  <2> QED
    BY <1>a, <2>2, ReleaseTyped DEF TypeInv, TypeOK, history
<1>12. CASE WriteCompleted(t)
  <2> DEFINE d == [c EXCEPT !.status = "completed", !.cur = 0]
             r == [task[t] EXCEPT !.pc = "verdict", !.copy = d]
  <2>1. d \in Doc
    BY <1>a, <1>b DEF Doc, Status
  <2>2. r \in TypedTask
    BY <1>a, <2>1 DEF TypedTask, TaskState, Pc
  <2>3. /\ doc' = d
        /\ Become(t, r) \/ Release(t)
        /\ live' \in BOOLEAN
        /\ UNCHANGED <<ckpt, recov, crashes, history>>
    BY <1>a, <1>12 DEF WriteCompleted, TypeOK
  <2>4. task' \in [Task -> TypedTask] /\ task' \in [Task -> TaskState]
    BY <2>2, <2>3, BecomeTyped, ReleaseTyped
  <2> QED
    BY <1>a, <2>1, <2>3, <2>4 DEF TypeInv, TypeOK, history
<1>13. CASE WriteRejected(t)
  <2>1. [c EXCEPT !.status = "rejected"] \in Doc
    BY <1>a DEF Doc, Status
  <2> QED
    BY <1>a, <1>13, <2>1, ReleaseTyped DEF WriteRejected, TypeInv, TypeOK, history
<1>14. CASE WriteFailed(t)
  <2> DEFINE s == [i \in Steps |-> IF c.st[i] = "running" THEN "failed" ELSE c.st[i]]
             d == [c EXCEPT !.st = s, !.status = "failed", !.cur = 0]
  <2>1. s \in [Steps -> StepStatus]
    BY <1>a DEF Doc, StepStatus
  <2>2. d \in Doc
    BY <1>a, <1>b, <2>1 DEF Doc, Status
  <2>3. doc' = d /\ live' \in BOOLEAN /\ Release(t) /\ UNCHANGED <<ckpt, recov, crashes, history>>
    BY <1>a, <1>14 DEF WriteFailed, TypeOK
  <2> QED
    BY <1>a, <2>2, <2>3, ReleaseTyped DEF TypeInv, TypeOK, history
<1> QED
  BY <1>1, <1>2, <1>3, <1>4, <1>5, <1>6, <1>7, <1>8, <1>9, <1>10, <1>11, <1>12,
     <1>13, <1>14 DEF StreamStep

(* Going back to the last finished step leaves a typed checkpoint.           *)
LEMMA SeedTyped == ASSUME NEW c \in Doc, Seed(c) PROVE ckpt' \in Checkpoint
BY DEF Seed, Checkpoint

(* Every step of a handler after its first read keeps the types.             *)
LEMMA HandlerStepTyped ==
  ASSUME TypeInv, NEW t \in Task, HandlerStep(t)
  PROVE  TypeInv'
<1> USE RunAssumption
<1> DEFINE c == task[t].copy
           q(d) == [task[t] EXCEPT !.pc = "begin", !.copy = d]
<1>a. TypeOK /\ task[t] \in TaskState /\ c \in Doc
  BY SlotTyped DEF TypeInv
<1>b. 0 \in 0..N
  OBVIOUS
<1>c. ASSUME NEW d \in Doc PROVE q(d) \in TypedTask
  BY <1>a DEF TypedTask, TaskState, Pc
<1>1. CASE MarkFinished(t)
  <2> DEFINE s == [i \in Steps |-> IF i = c.cur THEN "finished" ELSE c.st[i]]
             d == [c EXCEPT !.st = s]
  <2>1. s \in [Steps -> StepStatus]
    BY <1>a DEF Doc, StepStatus
  <2>2. d \in Doc
    BY <1>a, <2>1 DEF Doc
  <2>3. doc' = d /\ Become(t, q(d)) /\ UNCHANGED <<ckpt, live, recov, crashes, history>>
    BY <1>1 DEF MarkFinished
  <2> HIDE DEF q, d
  <2> QED
    BY <1>a, <1>c, <2>2, <2>3, BecomeTyped DEF TypeInv, TypeOK, history
<1>2. CASE ResumeUnclaimed(t)
  <2> DEFINE d == [c EXCEPT !.status = "running"]
             r == [task[t] EXCEPT !.pc = "begin", !.dec = "no", !.copy = d]
  <2>1. d \in Doc
    BY <1>a DEF Doc, Status
  <2>2. r \in TypedTask
    BY <1>a, <2>1 DEF TypedTask, TaskState, Pc
  <2>3. doc' = d /\ Become(t, r) /\ UNCHANGED <<ckpt, live, recov, crashes, history>>
    BY <1>2 DEF ResumeUnclaimed
  <2> QED
    BY <1>a, <2>1, <2>2, <2>3, BecomeTyped DEF TypeInv, TypeOK, history
<1>3. CASE OutputError(t)
  <2> DEFINE s == [i \in Steps |-> IF i = c.cur THEN "failed" ELSE c.st[i]]
             d == [c EXCEPT !.status = "failed", !.st = s]
  <2>1. s \in [Steps -> StepStatus]
    BY <1>a DEF Doc, StepStatus
  <2>2. d \in Doc
    BY <1>a, <2>1 DEF Doc, Status
  <2>3. doc' = d /\ Release(t) /\ UNCHANGED <<ckpt, live, recov, crashes, history>>
    BY <1>3 DEF OutputError
  <2> QED
    BY <1>a, <2>2, <2>3, ReleaseTyped DEF TypeInv, TypeOK, history
<1>4. CASE WriteNote(t)
  BY <1>a, <1>4, ReleaseTyped DEF WriteNote, TypeInv, TypeOK, history
<1>5. CASE Terminate(t)
  <2>1. [c EXCEPT !.status = "failed"] \in Doc
    BY <1>a DEF Doc, Status
  <2> QED
    BY <1>a, <1>5, <2>1, ReleaseTyped DEF Terminate, TypeInv, TypeOK
<1>6. CASE Retry(t)
  <2> DEFINE bad == {i \in Steps : c.st[i] = "failed"}
             s == [i \in Steps |-> IF \E b \in bad : b <= i THEN "pending" ELSE c.st[i]]
             d == [c EXCEPT !.st = s, !.status = "running", !.cur = 0]
  <2>1. s \in [Steps -> StepStatus]
    BY <1>a DEF Doc, StepStatus
  <2>2. d \in Doc
    BY <1>a, <1>b, <2>1 DEF Doc, Status
  <2>3. /\ Seed(c) /\ doc' = d /\ Become(t, q(d)) /\ live' = TRUE /\ ended' = "no"
        /\ UNCHANGED <<recov, crashes, okd, said, pass, ran>>
    BY <1>6 DEF Retry
  <2> HIDE DEF q, d
  <2> QED
    BY <1>a, <1>c, <2>2, <2>3, BecomeTyped, SeedTyped DEF TypeInv, TypeOK
<1>7. ASSUME NEW k \in Steps, RestartFromStep(t, k) PROVE TypeInv'
  <2> DEFINE s == [i \in Steps |-> IF i < k THEN c.st[i] ELSE "pending"]
             o == [i \in Steps |-> IF i < k THEN c.out[i] ELSE "unset"]
             d == [c EXCEPT !.st = s, !.out = o, !.status = "running", !.cur = 0]
  <2>1. s \in [Steps -> StepStatus] /\ o \in [Steps -> Flag]
    BY <1>a DEF Doc, StepStatus, Flag
  <2>2. d \in Doc
    BY <1>a, <1>b, <2>1 DEF Doc, Status
  <2>3. /\ \E j \in 0..(k - 1), f \in Flag : ckpt' = [pos |-> j, appr |-> f]
        /\ doc' = d /\ Become(t, q(d)) /\ live' = TRUE /\ ended' = "no"
        /\ UNCHANGED <<recov, crashes, okd, said, pass, ran>>
    BY <1>7 DEF RestartFromStep
  <2>4. ckpt' \in Checkpoint
    <3>1. \A j \in 0..(k - 1) : j \in 0..N
      BY DEF Steps
    <3> QED
      BY <2>3, <3>1 DEF Checkpoint
  <2> HIDE DEF q, d
  <2> QED
    BY <1>a, <1>c, <2>2, <2>3, <2>4, BecomeTyped DEF TypeInv, TypeOK
<1> QED
  BY <1>1, <1>2, <1>3, <1>4, <1>5, <1>6, <1>7 DEF HandlerStep

(* Every request keeps the types.                                            *)
LEMMA RequestTyped ==
  ASSUME TypeInv, NEW t \in Task, Request(t)
  PROVE  TypeInv'
<1> USE RunAssumption
<1>a. TypeOK /\ doc \in Doc /\ doc.cur \in 0..N
  BY DEF TypeInv, TypeOK, Doc
<1>1. CASE StartRun(t)
  <2> DEFINE d == NewDoc("running")
             r == [Idle EXCEPT !.pc = "begin", !.op = "start", !.copy = d]
  <2>1. d \in Doc
    BY NewDocTyped DEF Status
  <2>2. r \in TypedTask
    BY <2>1, IdleTyped DEF TypedTask, TaskState, Pc, Origin
  <2>3. /\ doc' = d /\ Become(t, r) /\ live' = TRUE /\ ended' = "no"
        /\ UNCHANGED <<ckpt, recov, crashes, okd, said, pass, ran>>
    BY <1>1 DEF StartRun
  <2> HIDE DEF d
  <2> QED
    BY <1>a, <2>1, <2>2, <2>3, BecomeTyped DEF TypeInv, TypeOK
<1>2. ASSUME NEW o \in DecisionOps, Claim(t, o) PROVE TypeInv'
  <2> DEFINE d == [doc EXCEPT !.status = "running"]
             r == [Idle EXCEPT !.pc = "mark", !.op = o, !.dec = Verdict(o),
                               !.gate = doc.cur, !.copy = d]
  <2>1. d \in Doc
    BY <1>a DEF Doc, Status
  <2>2. Verdict(o) \in {"yes", "no"} /\ o \in Origin
    BY DEF Verdict, Origin, DecisionOps, AllOps
  <2>3. r \in TypedTask
    BY <1>a, <2>1, <2>2, IdleTyped DEF TypedTask, TaskState, Pc
  <2>4. doc' = d /\ UNCHANGED <<ckpt, live, recov, crashes, pass, ran, ended>>
    BY <1>2 DEF Claim
  <2>5. CASE HasRunner(o)
    <3>1. /\ Become(t, r)
          /\ said' = [i \in Steps |-> IF i = doc.cur THEN Verdict(o) ELSE said[i]]
          /\ okd' = IF Verdict(o) = "yes" THEN okd \cup {doc.cur} ELSE okd
      BY <1>2, <2>4, <2>5 DEF Claim
    <3>2. said' \in [Steps -> {"none", "yes", "no"}] /\ okd' \subseteq 0..N
      BY <1>a, <2>2, <3>1 DEF TypeOK
    <3> QED
      BY <1>a, <2>1, <2>3, <2>4, <3>1, <3>2, BecomeTyped DEF TypeInv, TypeOK
  <2>6. CASE ~HasRunner(o)
    <3>1. UNCHANGED <<task, said, okd>>
      BY <1>2, <2>6 DEF Claim
    <3> QED
      BY <1>a, <2>1, <2>4, <3>1 DEF TypeInv, TypeOK
  <2> QED
    BY <2>5, <2>6
<1>3. ASSUME NEW o \in AllOps, ReadRun(t, o) PROVE TypeInv'
  <2> DEFINE r == [Idle EXCEPT !.pc = Handling(o), !.op = o, !.gate = doc.cur,
                               !.copy = doc]
  <2>1. o \in {"reply", "output", "terminate", "retry", "restart", "note"}
    BY <1>3 DEF ReadRun, Accepts, AllOps
  <2>2. /\ Handling(o) \in Pc \ {"body", "pause"}
        /\ o \in Origin
    BY <2>1 DEF Handling, Pc, Origin, AllOps
  <2>3. r \in TypedTask
    BY <1>a, <2>2, IdleTyped DEF TypedTask, TaskState
  <2>4. Become(t, r) /\ UNCHANGED <<doc, ckpt, live, recov, crashes, history>>
    BY <1>3 DEF ReadRun
  <2> QED
    BY <1>a, <2>3, <2>4, BecomeTyped DEF TypeInv, TypeOK, history
<1> QED
  BY <1>1, <1>2, <1>3 DEF Request

(* A restart of the process and every step of recovery keep the types.       *)
LEMMA RecoveryTyped ==
  ASSUME TypeInv, Crash \/ Recovery
  PROVE  TypeInv'
<1> USE RunAssumption
<1>a. TypeOK /\ doc \in Doc /\ recov.copy \in Doc /\ NoDoc \in Doc
  BY IdleTyped DEF TypeInv, TypeOK
<1>b. RecoveryDone \in [phase : {"list", "recover", "done"}, copy : Doc]
  BY <1>a DEF RecoveryDone
<1>1. CASE Crash
  <2>1. Idle \in TypedTask /\ Idle \in TaskState
    BY IdleTyped DEF TypedTask
  <2>2. crashes' \in 0..MaxCrash
    BY <1>1, <1>a DEF Crash, TypeOK
  <2> QED
    BY <1>1, <1>a, <2>1, <2>2 DEF Crash, TypeInv, TypeOK, history
<1>2. CASE RecoverList
  BY <1>2, <1>a, <1>b DEF RecoverList, TypeInv, TypeOK, history
<1>3. CASE RecoverWaiting
  BY <1>3, <1>a, <1>b DEF RecoverWaiting, TypeInv, TypeOK, history
<1>4. CASE RecoverRefire
  <2>1. ckpt' \in Checkpoint
    BY <1>4 DEF RecoverRefire, Checkpoint
  <2>2. ran' \subseteq Steps
    BY <1>4, <1>a DEF RecoverRefire, TypeOK, Steps
  <2>3. doc' \in Doc /\ live' \in BOOLEAN
    <3>1. [recov.copy EXCEPT !.status = "failed"] \in Doc
      BY <1>a DEF Doc, Status
    <3> QED
      BY <1>4, <1>a, <3>1 DEF RecoverRefire, TypeOK
  <2>4. recov' = RecoveryDone /\ UNCHANGED <<task, crashes, okd, said, pass, ended>>
    BY <1>4 DEF RecoverRefire
  <2> QED
    BY <1>a, <1>b, <2>1, <2>2, <2>3, <2>4 DEF TypeInv, TypeOK
<1>5. ASSUME NEW t \in Task, RecoverRunning(t) PROVE TypeInv'
  <2> DEFINE r == [Idle EXCEPT !.pc = "begin", !.op = "recover", !.copy = recov.copy]
  <2>1. r \in TypedTask
    BY <1>a, IdleTyped DEF TypedTask, TaskState, Pc, Origin
  <2>2. /\ Seed(recov.copy) /\ live' = TRUE /\ Become(t, r) /\ recov' = RecoveryDone
        /\ UNCHANGED <<doc, crashes, history>>
    BY <1>5 DEF RecoverRunning
  <2> QED
    BY <1>a, <1>b, <2>1, <2>2, BecomeTyped, SeedTyped DEF TypeInv, TypeOK, history
<1> QED
  BY <1>1, <1>2, <1>3, <1>4, <1>5 DEF Recovery

LEMMA InitTyped == Init => TypeInv
<1> USE RunAssumption
<1> SUFFICES ASSUME Init PROVE TypeInv
  OBVIOUS
<1>1. NoDoc \in Doc /\ Idle \in TypedTask /\ Idle \in TaskState
  BY IdleTyped DEF TypedTask
<1>2. 0 \in 0..N /\ 0 \in 0..MaxCrash
  OBVIOUS
<1> QED
  BY <1>1, <1>2 DEF Init, TypeInv, TypeOK, Checkpoint, Flag

LEMMA NextTyped == TypeInv /\ [Next]_vars => TypeInv'
<1> SUFFICES ASSUME TypeInv, [Next]_vars PROVE TypeInv'
  OBVIOUS
<1>1. CASE \E t \in Task : StreamStep(t) \/ HandlerStep(t) \/ Request(t)
  BY <1>1, StreamStepTyped, HandlerStepTyped, RequestTyped
<1>2. CASE Delete
  BY <1>2, IdleTyped DEF Delete, TypeInv, TypeOK
<1>3. CASE Crash \/ Recovery
  BY <1>3, RecoveryTyped
<1>4. CASE UNCHANGED vars
  BY <1>4 DEF vars, TypeInv, TypeOK
<1> QED
  BY <1>1, <1>2, <1>3, <1>4 DEF Next

(* Every run document, every copy of it and the checkpoint keep their types  *)
(* (TypeOK), whatever handlers, streams and restarts interleave.             *)
THEOREM TypeCorrect == Spec => []TypeOK
<1>1. TypeInv => TypeOK
  BY DEF TypeInv
<1> QED
  BY <1>1, InitTyped, NextTyped, PTL DEF Spec

(***************************************************************************)
(* Approval.  NoGuardedWorkWithoutApproval speaks of what has been         *)
(* executed; what keeps it true is that an approval leaves no trace before *)
(* it is given: ApprovalInv, which together with the types is inductive.   *)
(***************************************************************************)

(* The value a rewound thread gets is the thread's own or one that a stored  *)
(* output carries.                                                           *)
LEMMA SeedClean ==
  ASSUME NEW c \in Doc, NoYes(c), ckpt.appr # "yes"
  PROVE  /\ \A f \in Flag : LastWins(f, c) \/ FirstWins(f, c) => f # "yes"
         /\ Seed(c) => ckpt'.appr # "yes"
<1>1. \A f \in Flag : LastWins(f, c) \/ FirstWins(f, c) => f # "yes"
  BY DEF LastWins, FirstWins, Carriers, NoYes
<1> QED
  BY <1>1 DEF Seed

LEMMA NoDocClean == NoYes(NoDoc) /\ CleanTask(Idle)
BY DEF NoDoc, NewDoc, NoYes, CleanTask, Idle

(* One slot changes: the table stays clean when the slot's new state is.     *)
LEMMA BecomeClean ==
  ASSUME TypeInv, \A s \in Task : CleanTask(task[s]),
         NEW t \in Task, NEW r, CleanTask(r), Become(t, r)
  PROVE  \A s \in Task : CleanTask(task'[s])
BY DEF Become, TypeInv

LEMMA ReleaseClean ==
  ASSUME TypeInv, \A s \in Task : CleanTask(task[s]), NEW t \in Task, Release(t)
  PROVE  \A s \in Task : CleanTask(task'[s])
BY NoDocClean, BecomeClean DEF Release

(* A node's update without an approval in it is clean.                       *)
LEMMA EmitClean ==
  ASSUME TypeInv, Unapproved, NEW t \in Task, Node(t) \in Steps,
         NEW f \in Flag, NEW o \in Flag, f # "yes", o # "yes", Emit(t, f, o)
  PROVE  ckpt'.appr # "yes" /\ \A s \in Task : CleanTask(task'[s])
<1> DEFINE i == Node(t)
           d == [task[t].copy EXCEPT !.st[i] = "finished", !.cur = i, !.out[i] = o]
           r == [task[t] EXCEPT !.pc = "chunk", !.pos = i, !.flag = f,
                                !.dec = "none", !.copy = d]
<1>1. CleanTask(task[t]) /\ task[t] \in TaskState /\ task[t].copy \in Doc
  BY SlotTyped DEF Unapproved
<1>2. NoYes(d)
  BY <1>1 DEF CleanTask, NoYes, Doc
<1>3. CleanTask(r)
  BY <1>1, <1>2 DEF CleanTask, TaskState
<1>4. ckpt' = [pos |-> i, appr |-> f] /\ Become(t, r)
  BY DEF Emit
<1> QED
  BY <1>3, <1>4, BecomeClean DEF Unapproved

(* No step of a stream invents an approval, and none executes a guarded step *)
(* without one.                                                              *)
LEMMA StreamStepClean ==
  ASSUME TypeInv, Unapproved, NEW t \in Task, StreamStep(t)
  PROVE  Unapproved'
<1> DEFINE c == task[t].copy
<1>a. /\ \A s \in Task : CleanTask(task[s])
      /\ CleanTask(task[t]) /\ NoYes(c)
      /\ task[t] \in TaskState /\ c \in Doc
  BY SlotTyped DEF Unapproved, CleanTask
<1>1. CASE Begin(t)
  <2> DEFINE r == [task[t] EXCEPT !.pc = "node", !.pos = ckpt.pos, !.flag = ckpt.appr]
  <2>1. CleanTask(r)
    BY <1>a DEF Unapproved, CleanTask, TaskState
  <2>2. Become(t, r) /\ UNCHANGED <<doc, ckpt, live, recov, crashes, history>>
    BY <1>1 DEF Begin
  <2> QED
    BY <1>a, <2>1, <2>2, BecomeClean DEF Unapproved, NoYes, history
<1>2. CASE NodeStart(t)
  <2> DEFINE i == Node(t)
             d == [c EXCEPT !.st[i] = "running", !.cur = i]
             r == [task[t] EXCEPT !.pc = "body", !.copy = d]
  <2>1. NoYes(d)
    BY <1>a DEF NoYes, Doc
  <2>2. task[t].pos + 1 \notin Guarded
    BY <1>2, <1>a DEF NodeStart, Skipped, Node, CleanTask
  <2>3. CleanTask(r)
    BY <1>a, <2>1, <2>2 DEF CleanTask, TaskState
  <2>4. doc' = d /\ Become(t, r) /\ UNCHANGED <<ckpt, live, recov, crashes, history>>
    BY <1>2 DEF NodeStart
  <2> QED
    BY <1>a, <2>1, <2>3, <2>4, BecomeClean DEF Unapproved, NoYes, history
<1>3. CASE NodeSkip(t)
  <2>1. /\ Node(t) \in Steps /\ task[t].flag \in Flag /\ StoredOut(t) \in Flag
        /\ task[t].flag # "yes" /\ StoredOut(t) # "yes"
    BY <1>3, <1>a DEF NodeSkip, TaskState, Doc, StoredOut, CleanTask, NoYes
  <2>2. Emit(t, task[t].flag, StoredOut(t)) /\ UNCHANGED <<doc, live, recov, crashes, history>>
    BY <1>3 DEF NodeSkip
  <2> QED
    BY <2>1, <2>2, EmitClean DEF Unapproved, NoYes, history
<1>4. CASE NodeRun(t)
  <2>1. /\ Node(t) \in Steps /\ task[t].flag \in Flag /\ StoredOut(t) \in Flag
        /\ task[t].flag # "yes" /\ StoredOut(t) # "yes"
    BY <1>4, <1>a, SlotTyped DEF NodeRun, TaskState, Doc, StoredOut, CleanTask, NoYes
  <2>2. /\ Emit(t, task[t].flag, StoredOut(t))
        /\ ran' = ran \cup {Node(t)}
        /\ UNCHANGED <<doc, live, recov, crashes, okd, said, pass, ended>>
    BY <1>4 DEF NodeRun
  <2>3. Node(t) \notin Guarded
    BY <1>4, <1>a DEF NodeRun, CleanTask, Node
  <2> QED
    BY <2>1, <2>2, <2>3, EmitClean DEF Unapproved, NoYes
<1>5. CASE NodeRaise(t)
  <2> DEFINE r == [task[t] EXCEPT !.pc = "fail"]
  <2>1. CleanTask(r)
    BY <1>a DEF CleanTask, TaskState
  <2>2. Become(t, r) /\ UNCHANGED <<doc, ckpt, live, recov, crashes, history>>
    BY <1>5 DEF NodeRaise
  <2> QED
    BY <1>a, <2>1, <2>2, BecomeClean DEF Unapproved, NoYes, history
<1>6. CASE NodeResume(t)
  <2>1. /\ Node(t) \in Steps /\ task[t].flag \in Flag /\ StoredOut(t) \in Flag
        /\ task[t].dec \in Flag
        /\ task[t].flag # "yes" /\ StoredOut(t) # "yes" /\ task[t].dec # "yes"
    BY <1>6, <1>a, SlotTyped
    DEF NodeResume, TaskState, Doc, StoredOut, CleanTask, NoYes, Flag
  <2>2. /\ \/ Emit(t, task[t].dec, task[t].dec)
           \/ Emit(t, task[t].flag, StoredOut(t))
        /\ UNCHANGED <<doc, live, recov, crashes, okd, said, ran, ended>>
    BY <1>6 DEF NodeResume
  <2> QED
    BY <2>1, <2>2, EmitClean DEF Unapproved, NoYes
<1>7. CASE NodePause(t)
  <2> DEFINE r == [task[t] EXCEPT !.pc = "pause"]
  <2>1. CleanTask(r)
    BY <1>a DEF CleanTask, TaskState
  <2>2. Become(t, r) /\ UNCHANGED <<doc, ckpt, live, recov, crashes, history>>
    BY <1>7 DEF NodePause
  <2> QED
    BY <1>a, <2>1, <2>2, BecomeClean DEF Unapproved, NoYes, history
<1>8. CASE WriteChunk(t)
  <2> DEFINE r == [task[t] EXCEPT !.pc = "node"]
  <2>1. CleanTask(r)
    BY <1>a DEF CleanTask, TaskState
  <2>2. doc' = c /\ Become(t, r) /\ UNCHANGED <<ckpt, live, recov, crashes, history>>
    BY <1>8 DEF WriteChunk
  <2> QED
    BY <1>a, <2>1, <2>2, BecomeClean DEF Unapproved, NoYes, history
<1>9. CASE WritePause(t)
  <2> DEFINE d == [c EXCEPT !.status = "waiting_approval", !.cur = Node(t)]
             r1 == [task[t] EXCEPT !.pc = "reset", !.copy = d]
             r2 == [task[t] EXCEPT !.pc = "announce", !.copy = d]
  <2>1. NoYes(d)
    BY <1>a DEF NoYes, Doc
  <2>2. CleanTask(r1) /\ CleanTask(r2)
    BY <1>a, <2>1 DEF CleanTask, TaskState
  <2>3. /\ doc' = d
        /\ Become(t, r1) \/ Become(t, r2) \/ Release(t)
        /\ UNCHANGED <<ckpt, live, recov, crashes, history>>
    BY <1>9 DEF WritePause
  <2>4. \A s \in Task : CleanTask(task'[s])
    BY <1>a, <2>2, <2>3, BecomeClean, ReleaseClean
  <2> QED
    BY <2>1, <2>3, <2>4 DEF Unapproved, NoYes, history
<1>10. CASE WriteReset(t)
  <2> DEFINE r == [task[t] EXCEPT !.pc = "announce"]
  <2>1. CleanTask(r)
    BY <1>a DEF CleanTask, TaskState
  <2>2. /\ doc' = c
        /\ ckpt' = [ckpt EXCEPT !.appr = "no"]
        /\ Become(t, r) \/ Release(t)
        /\ UNCHANGED <<live, recov, crashes, history>>
    BY <1>10 DEF WriteReset
  <2>3. \A s \in Task : CleanTask(task'[s])
    BY <1>a, <2>1, <2>2, BecomeClean, ReleaseClean
  <2>4. ckpt'.appr # "yes"
    BY <2>2 DEF TypeInv, TypeOK, Checkpoint
  <2> QED
    BY <1>a, <2>2, <2>3, <2>4 DEF Unapproved, NoYes, history
<1>11. CASE WriteAnnounced(t)
  BY <1>a, <1>11, ReleaseClean DEF WriteAnnounced, Unapproved, NoYes, history
<1>12. CASE WriteCompleted(t)
  <2> DEFINE d == [c EXCEPT !.status = "completed", !.cur = 0]
             r == [task[t] EXCEPT !.pc = "verdict", !.copy = d]
  <2>1. NoYes(d)
    BY <1>a DEF NoYes, Doc
  <2>2. CleanTask(r)
    BY <1>a, <2>1 DEF CleanTask, TaskState
  <2>3. /\ doc' = d
        /\ Become(t, r) \/ Release(t)
        /\ UNCHANGED <<ckpt, recov, crashes, history>>
    BY <1>12 DEF WriteCompleted
  <2>4. \A s \in Task : CleanTask(task'[s])
    BY <1>a, <2>2, <2>3, BecomeClean, ReleaseClean
  <2> QED
    BY <2>1, <2>3, <2>4 DEF Unapproved, NoYes, history
<1>13. CASE WriteRejected(t)
  <2>1. NoYes([c EXCEPT !.status = "rejected"])
    BY <1>a DEF NoYes, Doc
  <2> QED
    BY <1>a, <1>13, <2>1, ReleaseClean DEF WriteRejected, Unapproved, NoYes, history
<1>14. CASE WriteFailed(t)
  <2> DEFINE s == [i \in Steps |-> IF c.st[i] = "running" THEN "failed" ELSE c.st[i]]
             d == [c EXCEPT !.st = s, !.status = "failed", !.cur = 0]
  <2>1. NoYes(d)
    BY <1>a DEF NoYes, Doc
  <2>2. doc' = d /\ Release(t) /\ UNCHANGED <<ckpt, recov, crashes, history>>
    BY <1>14 DEF WriteFailed
  <2> HIDE DEF d
  <2> QED
    BY <1>a, <2>1, <2>2, ReleaseClean DEF Unapproved, NoYes, history
<1> QED
  BY <1>1, <1>2, <1>3, <1>4, <1>5, <1>6, <1>7, <1>8, <1>9, <1>10, <1>11, <1>12,
     <1>13, <1>14 DEF StreamStep

(* Handlers write back what they read, and rewind the thread to what the     *)
(* document carries.                                                         *)
LEMMA HandlerStepClean ==
  ASSUME TypeInv, Unapproved, NEW t \in Task, HandlerStep(t)
  PROVE  Unapproved'
<1> DEFINE c == task[t].copy
           q(d) == [task[t] EXCEPT !.pc = "begin", !.copy = d]
<1>a. /\ \A s \in Task : CleanTask(task[s])
      /\ CleanTask(task[t]) /\ NoYes(c)
      /\ task[t] \in TaskState /\ c \in Doc
  BY SlotTyped DEF Unapproved, CleanTask
<1>b. ASSUME NEW d, NoYes(d) PROVE CleanTask(q(d))
  BY <1>a, <1>b DEF CleanTask, TaskState
<1>1. CASE MarkFinished(t)
  <2> DEFINE s == [i \in Steps |-> IF i = c.cur THEN "finished" ELSE c.st[i]]
             d == [c EXCEPT !.st = s]
  <2>1. NoYes(d)
    BY <1>a DEF NoYes, Doc
  <2>2. doc' = d /\ Become(t, q(d)) /\ UNCHANGED <<ckpt, live, recov, crashes, history>>
    BY <1>1 DEF MarkFinished
  <2> HIDE DEF q, d
  <2> QED
    BY <1>a, <1>b, <2>1, <2>2, BecomeClean DEF Unapproved, NoYes, history
<1>2. CASE ResumeUnclaimed(t)
  <2> DEFINE d == [c EXCEPT !.status = "running"]
             r == [task[t] EXCEPT !.pc = "begin", !.dec = "no", !.copy = d]
  <2>1. NoYes(d)
    BY <1>a DEF NoYes, Doc
  <2>2. CleanTask(r)
    BY <1>a, <2>1 DEF CleanTask, TaskState
  <2>3. doc' = d /\ Become(t, r) /\ UNCHANGED <<ckpt, live, recov, crashes, history>>
    BY <1>2 DEF ResumeUnclaimed
  <2> QED
    BY <1>a, <2>1, <2>2, <2>3, BecomeClean DEF Unapproved, NoYes, history
<1>3. CASE OutputError(t)
  <2> DEFINE s == [i \in Steps |-> IF i = c.cur THEN "failed" ELSE c.st[i]]
             d == [c EXCEPT !.status = "failed", !.st = s]
  <2>1. NoYes(d)
    BY <1>a DEF NoYes, Doc
  <2>2. doc' = d /\ Release(t) /\ UNCHANGED <<ckpt, live, recov, crashes, history>>
    BY <1>3 DEF OutputError
  <2> HIDE DEF d
  <2> QED
    BY <1>a, <2>1, <2>2, ReleaseClean DEF Unapproved, NoYes, history
<1>4. CASE WriteNote(t)
  BY <1>a, <1>4, ReleaseClean DEF WriteNote, Unapproved, NoYes, history
<1>5. CASE Terminate(t)
  <2>1. NoYes([c EXCEPT !.status = "failed"])
    BY <1>a DEF NoYes, Doc
  <2> QED
    BY <1>a, <1>5, <2>1, ReleaseClean DEF Terminate, Unapproved, NoYes
<1>6. CASE Retry(t)
  <2> DEFINE bad == {i \in Steps : c.st[i] = "failed"}
             s == [i \in Steps |-> IF \E b \in bad : b <= i THEN "pending" ELSE c.st[i]]
             d == [c EXCEPT !.st = s, !.status = "running", !.cur = 0]
  <2>1. NoYes(d)
    BY <1>a DEF NoYes, Doc
  <2>2. /\ Seed(c) /\ doc' = d /\ Become(t, q(d))
        /\ UNCHANGED <<recov, crashes, okd, said, pass, ran>>
    BY <1>6 DEF Retry
  <2>3. ckpt'.appr # "yes"
    BY <1>a, <2>2, SeedClean DEF Unapproved
  <2> HIDE DEF q, d
  <2> QED
    BY <1>a, <1>b, <2>1, <2>2, <2>3, BecomeClean DEF Unapproved, NoYes
<1>7. ASSUME NEW k \in Steps, RestartFromStep(t, k) PROVE Unapproved'
  <2> DEFINE s == [i \in Steps |-> IF i < k THEN c.st[i] ELSE "pending"]
             o == [i \in Steps |-> IF i < k THEN c.out[i] ELSE "unset"]
             d == [c EXCEPT !.st = s, !.out = o, !.status = "running", !.cur = 0]
  <2>1. NoYes(d)
    BY <1>a DEF NoYes, Doc
  <2>2. d \in Doc
    <3>1. s \in [Steps -> StepStatus] /\ o \in [Steps -> Flag] /\ 0 \in 0..N
      BY <1>a, RunAssumption DEF Doc, StepStatus, Flag
    <3> QED
      BY <1>a, <3>1 DEF Doc, Status
  <2>3. /\ \E j \in 0..(k - 1), f \in Flag :
             FirstWins(f, d) /\ ckpt' = [pos |-> j, appr |-> f]
        /\ doc' = d /\ Become(t, q(d))
        /\ UNCHANGED <<recov, crashes, okd, said, pass, ran>>
    BY <1>7 DEF RestartFromStep
  <2> HIDE DEF q, d
  <2>4. ckpt'.appr # "yes"
    BY <2>1, <2>2, <2>3, SeedClean DEF Unapproved
  <2> QED
    BY <1>a, <1>b, <2>1, <2>3, <2>4, BecomeClean DEF Unapproved, NoYes
<1> QED
  BY <1>1, <1>2, <1>3, <1>4, <1>5, <1>6, <1>7 DEF HandlerStep

(* A request brings an approval in only by accepting one, which okd records. *)
LEMMA RequestClean ==
  ASSUME TypeInv, Unapproved, NEW t \in Task, Request(t), okd' = {}
  PROVE  Unapproved'
<1>a. (\A s \in Task : CleanTask(task[s])) /\ NoYes(doc) /\ doc \in Doc
  BY DEF Unapproved, TypeInv, TypeOK
<1>b. Idle \in TaskState /\ CleanTask(Idle)
  BY IdleTyped, NoDocClean DEF TypedTask
<1>1. CASE StartRun(t)
  <2> DEFINE d == NewDoc("running")
             r == [Idle EXCEPT !.pc = "begin", !.op = "start", !.copy = d]
  <2>1. NoYes(d)
    BY DEF NoYes, NewDoc
  <2>2. CleanTask(r)
    BY <1>b, <2>1 DEF CleanTask, TaskState
  <2>3. doc' = d /\ Become(t, r) /\ UNCHANGED <<ckpt, recov, crashes, okd, said, pass, ran>>
    BY <1>1 DEF StartRun
  <2> HIDE DEF d
  <2> QED
    BY <1>a, <2>1, <2>2, <2>3, BecomeClean DEF Unapproved, NoYes
<1>2. ASSUME NEW o \in DecisionOps, Claim(t, o) PROVE Unapproved'
  <2> DEFINE d == [doc EXCEPT !.status = "running"]
             r == [Idle EXCEPT !.pc = "mark", !.op = o, !.dec = Verdict(o),
                               !.gate = doc.cur, !.copy = d]
  <2>1. NoYes(d)
    BY <1>a DEF NoYes, Doc
  <2>2. doc' = d /\ UNCHANGED <<ckpt, live, recov, crashes, pass, ran, ended>>
    BY <1>2 DEF Claim
  <2>3. CASE HasRunner(o)
    <3>1. Become(t, r) /\ okd' = IF Verdict(o) = "yes" THEN okd \cup {doc.cur} ELSE okd
      BY <1>2, <2>2, <2>3 DEF Claim
    <3>2. CleanTask(r)
      BY <1>b, <2>1, <3>1 DEF CleanTask, TaskState
    <3> QED
      BY <1>a, <2>1, <2>2, <3>1, <3>2, BecomeClean DEF Unapproved, NoYes
  <2>4. CASE ~HasRunner(o)
    BY <1>2, <2>1, <2>2, <2>4 DEF Claim, Unapproved, NoYes
  <2> QED
    BY <2>3, <2>4
<1>3. ASSUME NEW o \in AllOps, ReadRun(t, o) PROVE Unapproved'
  <2> DEFINE r == [Idle EXCEPT !.pc = Handling(o), !.op = o, !.gate = doc.cur,
                               !.copy = doc]
  <2>1. Handling(o) # "body"
    BY DEF Handling, AllOps
  <2>2. CleanTask(r)
    BY <1>a, <1>b, <2>1 DEF CleanTask, TaskState
  <2>3. Become(t, r) /\ UNCHANGED <<doc, ckpt, live, recov, crashes, history>>
    BY <1>3 DEF ReadRun
  <2> QED
    BY <1>a, <2>2, <2>3, BecomeClean DEF Unapproved, NoYes, history
<1> QED
  BY <1>1, <1>2, <1>3 DEF Request

(* A restart forgets the handlers, and recovery rebuilds the thread from the *)
(* document: neither finds an approval that nobody gave.                     *)
LEMMA RecoveryClean ==
  ASSUME TypeInv, Unapproved, Crash \/ Recovery
  PROVE  Unapproved'
<1>a. /\ \A s \in Task : CleanTask(task[s])
      /\ NoYes(doc) /\ NoYes(recov.copy) /\ NoYes(NoDoc)
      /\ doc \in Doc /\ recov.copy \in Doc
      /\ Idle \in TaskState /\ CleanTask(Idle)
  BY IdleTyped, NoDocClean DEF Unapproved, TypeInv, TypeOK, TypedTask
<1>b. NoYes(RecoveryDone.copy)
  BY <1>a DEF RecoveryDone
<1>1. CASE Crash
  BY <1>1, <1>a DEF Crash, Unapproved, NoYes, history
<1>2. CASE RecoverList
  BY <1>2, <1>a, <1>b DEF RecoverList, Unapproved, NoYes, history
<1>3. CASE RecoverWaiting
  BY <1>3, <1>a, <1>b DEF RecoverWaiting, Unapproved, NoYes, history
<1>4. CASE RecoverRefire
  <2>1. PICK from \in 0..N, to \in 0..N, f \in Flag :
          /\ LastWins(f, recov.copy)
          /\ ckpt' = [pos |-> to, appr |-> f]
          /\ ran' = ran \cup {i \in (from + 1)..to : i \in Guarded => f = "yes"}
          /\ doc' = doc \/ doc' = [recov.copy EXCEPT !.status = "failed"]
    BY <1>4 DEF RecoverRefire
  <2>2. f # "yes"
    BY <1>a, <2>1, SeedClean DEF Unapproved
  <2>3. NoYes([recov.copy EXCEPT !.status = "failed"])
    BY <1>a DEF NoYes, Doc
  <2>4. recov' = RecoveryDone /\ UNCHANGED <<task, crashes, okd, said, pass, ended>>
    BY <1>4 DEF RecoverRefire
  <2> QED
    BY <1>a, <1>b, <2>1, <2>2, <2>3, <2>4 DEF Unapproved, NoYes
<1>5. ASSUME NEW t \in Task, RecoverRunning(t) PROVE Unapproved'
  <2> DEFINE r == [Idle EXCEPT !.pc = "begin", !.op = "recover", !.copy = recov.copy]
  <2>1. CleanTask(r)
    BY <1>a DEF CleanTask, TaskState
  <2>2. /\ Seed(recov.copy) /\ Become(t, r) /\ recov' = RecoveryDone
        /\ UNCHANGED <<doc, crashes, history>>
    BY <1>5 DEF RecoverRunning
  <2>3. ckpt'.appr # "yes"
    BY <1>a, <2>2, SeedClean DEF Unapproved
  <2> QED
    BY <1>a, <1>b, <2>1, <2>2, <2>3, BecomeClean DEF Unapproved, NoYes, history
<1> QED
  BY <1>1, <1>2, <1>3, <1>4, <1>5 DEF Recovery

(* The accepted approvals only grow.                                         *)
LEMMA OnlyClaimsDecide == [Next]_vars => okd \subseteq okd'
<1> SUFFICES ASSUME [Next]_vars PROVE okd \subseteq okd'
  OBVIOUS
<1>1. ASSUME NEW t \in Task, StreamStep(t) PROVE okd' = okd
  BY <1>1 DEF StreamStep, Begin, NodeStart, NodeSkip, NodeRun, NodeRaise,
     NodeResume, NodePause, WriteChunk, WritePause, WriteReset, WriteAnnounced,
     WriteCompleted, WriteRejected, WriteFailed, history
<1>2. ASSUME NEW t \in Task, HandlerStep(t) PROVE okd' = okd
  BY <1>2 DEF HandlerStep, MarkFinished, ResumeUnclaimed, OutputError, WriteNote,
     Terminate, Retry, RestartFromStep, history
<1>3. ASSUME NEW t \in Task, Request(t) PROVE okd \subseteq okd'
  BY <1>3 DEF Request, StartRun, Claim, ReadRun, history
<1>4. CASE Delete \/ Crash \/ Recovery
  BY <1>4 DEF Delete, Crash, Recovery, RecoverList, RecoverWaiting, RecoverRefire,
     RecoverRunning, history
<1>5. CASE UNCHANGED vars
  BY <1>5 DEF vars
<1> QED
  BY <1>1, <1>2, <1>3, <1>4, <1>5 DEF Next

(* As long as no approval has been accepted, none is to be found anywhere:   *)
(* neither in the thread nor in any copy of the document (ApprovalInv).      *)
THEOREM NoForgedApproval == Spec => []ApprovalInv
<1> USE RunAssumption
<1>1. Init => TypeInv /\ ApprovalInv
  <2> SUFFICES ASSUME Init PROVE TypeInv /\ ApprovalInv
    OBVIOUS
  <2>1. TypeInv
    BY InitTyped
  <2>2. ApprovalInv
    BY NoDocClean DEF Init, ApprovalInv, Unapproved, NoYes
  <2> QED
    BY <2>1, <2>2
<1>2. TypeInv /\ ApprovalInv /\ [Next]_vars => (TypeInv /\ ApprovalInv)'
  <2> SUFFICES ASSUME TypeInv, ApprovalInv, [Next]_vars, okd' = {}
               PROVE  Unapproved'
    BY NextTyped DEF ApprovalInv
  <2>1. Unapproved
    <3>1. okd \subseteq okd'
      BY OnlyClaimsDecide
    <3> QED
      BY <3>1 DEF ApprovalInv
  <2>2. CASE \E t \in Task : StreamStep(t) \/ HandlerStep(t) \/ Request(t)
    BY <2>1, <2>2, StreamStepClean, HandlerStepClean, RequestClean
  <2>3. CASE Delete
    BY <2>1, <2>3, NoDocClean DEF Delete, Unapproved, NoYes
  <2>4. CASE Crash \/ Recovery
    BY <2>1, <2>4, RecoveryClean
  <2>5. CASE UNCHANGED vars
    BY <2>1, <2>5 DEF vars, Unapproved, NoYes
  <2> QED
    BY <2>2, <2>3, <2>4, <2>5 DEF Next
<1> QED
  BY <1>1, <1>2, PTL DEF Spec

(* No step with `when: approved` is executed in a run for which no approval  *)
(* has been accepted.                                                        *)
THEOREM ApprovalRequired == Spec => []NoGuardedWorkWithoutApproval
<1>1. ApprovalInv => NoGuardedWorkWithoutApproval
  BY DEF ApprovalInv, Unapproved, NoGuardedWorkWithoutApproval
<1> QED
  BY <1>1, NoForgedApproval, PTL

-----------------------------------------------------------------------------
(***************************************************************************)
(* No step behind a pause that nobody has answered.  A step is executed    *)
(* behind the thread's position; the position comes from finished steps of *)
(* a document, from a checkpoint, or from a pause that was resumed.        *)
(***************************************************************************)

(* agent/output resumes without being an answer of a person.                 *)
AnswerScope == "output" \notin Ops

AnsweredAt == {g \in Pauses : pass[g] # 0 \/ said[g] # "none"}

(* Every pause up to and including k is in A; every pause before k is.       *)
Through(A, k) == \A g \in Pauses : g <= k => g \in A
Before(A, k) == \A g \in Pauses : g < k => g \in A

(* What a run document says was done lies behind answered pauses only, and   *)
(* so does the pause it waits at.                                            *)
DocAnswered(A, d) ==
  /\ \A i \in Steps : d.st[i] = "finished" => Through(A, i)
  /\ d.status = "waiting_approval" => d.cur # 0 /\ Before(A, d.cur)

(* A handler works behind answered pauses; a value it resumes with was given *)
(* at a step, and what it marks finished has been decided.                   *)
SlotAnswered(A, r) ==
  /\ DocAnswered(A, r.copy)
  /\ Through(A, r.pos)
  /\ r.dec # "none" \/ r.pc = "reply" => r.gate # 0
  /\ r.pc = "mark" => Through(A, r.copy.cur)
  /\ r.pc # "output"

AnsweredInv ==
  /\ DocAnswered(AnsweredAt, doc) /\ DocAnswered(AnsweredAt, recov.copy)
  /\ Through(AnsweredAt, ckpt.pos)
  /\ \A t \in Task : SlotAnswered(AnsweredAt, task[t])
  /\ \A i \in ran : Before(AnsweredAt, i)

(* Answers are never taken back, so what holds of the pauses answered so far *)
(* holds of those answered later.                                            *)
LEMMA MoreAnswered ==
  ASSUME NEW A, NEW B, A \subseteq B
  PROVE  /\ \A k : (Through(A, k) => Through(B, k)) /\ (Before(A, k) => Before(B, k))
         /\ \A d : DocAnswered(A, d) => DocAnswered(B, d)
         /\ \A r : SlotAnswered(A, r) => SlotAnswered(B, r)
<1>1. \A k : (Through(A, k) => Through(B, k)) /\ (Before(A, k) => Before(B, k))
  BY DEF Through, Before
<1>2. \A d : DocAnswered(A, d) => DocAnswered(B, d)
  BY <1>1 DEF DocAnswered
<1> QED
  BY <1>1, <1>2 DEF SlotAnswered

LEMMA NothingDone ==
  ASSUME NEW A
  PROVE  DocAnswered(A, NoDoc) /\ DocAnswered(A, NewDoc("running"))
         /\ SlotAnswered(A, Idle) /\ Through(A, 0)
<1>1. Through(A, 0)
  BY RunAssumption DEF Through, Pauses, Steps
<1>2. DocAnswered(A, NoDoc) /\ DocAnswered(A, NewDoc("running"))
  BY DEF DocAnswered, NoDoc, NewDoc
<1> QED
  BY <1>1, <1>2 DEF SlotAnswered, Idle

(* A step of the handler in slot t keeps AnsweredInv when what it leaves     *)
(* behind lies behind answered pauses.                                       *)
LEMMA SlotStepAnswered ==
  ASSUME TypeInv, AnsweredInv, AnsweredAt \subseteq AnsweredAt',
         NEW t \in Task, NEW r, Become(t, r), SlotAnswered(AnsweredAt', r),
         DocAnswered(AnsweredAt', doc'), Through(AnsweredAt', ckpt'.pos),
         recov' = recov \/ recov'.copy = NoDoc,
         \A i \in ran' : i \in ran \/ Before(AnsweredAt', i)
  PROVE  AnsweredInv'
<1> DEFINE A == AnsweredAt
           B == AnsweredAt'
<1>1. \A s \in Task : task'[s] = task[s] \/ task'[s] = r
  BY DEF Become, TypeInv
<1>2. \A s \in Task : SlotAnswered(B, task'[s])
  BY <1>1, MoreAnswered DEF AnsweredInv
<1>3. DocAnswered(B, recov'.copy) /\ \A i \in ran' : Before(B, i)
  BY MoreAnswered, NothingDone DEF AnsweredInv
<1> QED
  BY <1>2, <1>3 DEF AnsweredInv

LEMMA StoredTyped ==
  ASSUME TypeInv, NEW t \in Task, Node(t) \in Steps
  PROVE  StoredOut(t) \in Flag
BY SlotTyped DEF StoredOut, Doc

(* A node's update: everything up to the node has been answered.             *)
LEMMA EmitAnswered ==
  ASSUME TypeInv, AnsweredInv, AnsweredAt \subseteq AnsweredAt',
         NEW t \in Task, Node(t) \in Steps, Through(AnsweredAt', Node(t)),
         NEW f \in Flag, NEW o \in Flag, Emit(t, f, o), UNCHANGED <<doc, recov>>,
         \A i \in ran' : i \in ran \/ i = Node(t)
  PROVE  AnsweredInv'
<1> DEFINE i == Node(t)
           B == AnsweredAt'
           d == [task[t].copy EXCEPT !.st[i] = "finished", !.cur = i, !.out[i] = o]
           r == [task[t] EXCEPT !.pc = "chunk", !.pos = i, !.flag = f,
                                !.dec = "none", !.copy = d]
<1>a. task[t] \in TaskState /\ task[t].copy \in Doc /\ i \in 1..N
  BY SlotTyped DEF Steps
<1>b. SlotAnswered(B, task[t]) /\ DocAnswered(B, doc)
  BY MoreAnswered DEF AnsweredInv
<1>1. Before(B, i)
  BY <1>a, RunAssumption DEF Before, Through, Pauses, Steps
<1>2. DocAnswered(B, d)
  BY <1>a, <1>b, <1>1 DEF DocAnswered, SlotAnswered, Doc
<1>3. SlotAnswered(B, r)
  BY <1>a, <1>b, <1>2 DEF SlotAnswered, TaskState
<1>4. ckpt' = [pos |-> i, appr |-> f] /\ Become(t, r)
  BY DEF Emit
<1> QED
  BY <1>b, <1>1, <1>3, <1>4, SlotStepAnswered

(* The node after the thread's position, unless it is a pause.               *)
LEMMA NextNodeAnswered ==
  ASSUME TypeInv, AnsweredInv, NEW t \in Task, Node(t) \in Steps
  PROVE  /\ Before(AnsweredAt, Node(t))
         /\ Node(t) \notin Pauses => Through(AnsweredAt, Node(t))
<1>1. Through(AnsweredAt, task[t].pos) /\ task[t].pos \in 0..N /\ Node(t) = task[t].pos + 1
  BY SlotTyped DEF AnsweredInv, SlotAnswered, Node
<1> QED
  BY <1>1, RunAssumption DEF Through, Before, Pauses, Steps

(* Every step of a stream keeps AnsweredInv.                                 *)
LEMMA StreamStepAnswered ==
  ASSUME TypeInv, AnsweredInv, NEW t \in Task, StreamStep(t)
  PROVE  AnsweredInv'
<1> USE RunAssumption
<1> DEFINE c == task[t].copy
           A == AnsweredAt
<1>a. /\ task[t] \in TaskState /\ c \in Doc
      /\ SlotAnswered(A, task[t]) /\ DocAnswered(A, c) /\ DocAnswered(A, doc)
      /\ Through(A, ckpt.pos) /\ Through(A, task[t].pos)
  BY SlotTyped DEF AnsweredInv, SlotAnswered
<1>b. UNCHANGED <<pass, said>> => AnsweredAt' = A
  BY DEF AnsweredAt
<1>1. ASSUME NEW r, Become(t, r), r.copy = c, r.pos = task[t].pos \/ r.pos = ckpt.pos,
             r.dec = task[t].dec, r.gate = task[t].gate, r.pc \notin {"reply", "mark", "output"},
             doc' = doc \/ doc' = c, ckpt'.pos = ckpt.pos, UNCHANGED <<recov, pass, said, ran>>
      PROVE  AnsweredInv'
  <2>1. SlotAnswered(A, r)
    BY <1>1, <1>a DEF SlotAnswered
  <2> QED
    BY <1>1, <1>a, <1>b, <2>1, SlotStepAnswered
<1>2. ASSUME NEW d, DocAnswered(A, d), doc' = d, ckpt'.pos = ckpt.pos,
             Release(t) \/ \E p \in {"body", "reset", "announce", "verdict"} :
                             Become(t, [task[t] EXCEPT !.pc = p, !.copy = d]),
             UNCHANGED <<recov, pass, said, ran>>
      PROVE  AnsweredInv'
  <2>1. CASE Release(t)
    BY <1>2, <1>a, <1>b, <2>1, NothingDone, SlotStepAnswered DEF Release
  <2>2. ASSUME NEW p \in {"body", "reset", "announce", "verdict"},
               Become(t, [task[t] EXCEPT !.pc = p, !.copy = d])
        PROVE  AnsweredInv'
    <3> DEFINE r == [task[t] EXCEPT !.pc = p, !.copy = d]
    <3>1. SlotAnswered(A, r)
      BY <1>2, <1>a DEF SlotAnswered, TaskState
    <3> QED
      BY <1>2, <1>a, <1>b, <2>2, <3>1, SlotStepAnswered
  <2> QED
    BY <1>2, <2>1, <2>2
<1>3. CASE Begin(t)
  BY <1>1, <1>3, <1>a DEF Begin, TaskState, history
<1>4. CASE NodeStart(t)
  <2> DEFINE d == [c EXCEPT !.st[Node(t)] = "running", !.cur = Node(t)]
  <2>1. /\ Node(t) \in Steps /\ doc' = d
        /\ Become(t, [task[t] EXCEPT !.pc = "body", !.copy = d])
        /\ UNCHANGED <<ckpt, live, recov, crashes, history>>
    BY <1>4 DEF NodeStart
  <2>2. DocAnswered(A, d)
    BY <1>a, <2>1, NextNodeAnswered DEF DocAnswered, Doc, Steps
  <2> HIDE DEF d
  <2> QED
    BY <1>2, <2>1, <2>2 DEF history
<1>5. CASE NodeSkip(t)
  BY <1>5, <1>a, <1>b, NextNodeAnswered, EmitAnswered, SlotTyped, StoredTyped
  DEF NodeSkip, Skipped, Pauses, history
<1>6. CASE NodeRun(t)
  BY <1>6, <1>a, <1>b, NextNodeAnswered, EmitAnswered, SlotTyped, StoredTyped DEF NodeRun
<1>7. CASE NodeRaise(t) \/ NodePause(t)
  BY <1>1, <1>7, <1>a DEF NodeRaise, NodePause, TaskState, history
<1>8. CASE NodeResume(t)
  <2>1. /\ Node(t) \in Pauses /\ task[t].dec # "none" /\ Node(t) \in Steps
        /\ pass' = [pass EXCEPT ![Node(t)] = task[t].gate]
        /\ UNCHANGED <<doc, live, recov, crashes, okd, said, ran, ended>>
    BY <1>8, SlotTyped DEF NodeResume
  <2>2. task[t].gate # 0
    BY <1>a, <2>1 DEF SlotAnswered
  <2>3. A \subseteq AnsweredAt' /\ Node(t) \in AnsweredAt'
    BY <2>1, <2>2 DEF AnsweredAt, TypeInv, TypeOK
  <2>4. Through(AnsweredAt', Node(t))
    <3> DEFINE k == Node(t)
    <3>1. Before(A, k) /\ k \in 1..N /\ k \in AnsweredAt' /\ A \subseteq AnsweredAt'
      BY <2>1, <2>3, NextNodeAnswered DEF Steps
    <3> HIDE DEF k, A
    <3>2. ASSUME NEW g \in Pauses, g <= k PROVE g \in AnsweredAt'
      <4>1. g \in 1..N
        BY DEF Pauses, Steps
      <4>2. g = k \/ g < k
        BY <3>1, <3>2, <4>1
      <4> QED
        BY <3>1, <4>2 DEF Before
    <3> QED
      BY <3>2 DEF Through, k
  <2>5. \E f, o \in Flag : Emit(t, f, o)
    BY <1>8, <1>a, <2>1, SlotTyped, StoredTyped DEF NodeResume, TaskState, Flag
  <2> QED
    BY <2>1, <2>3, <2>4, <2>5, EmitAnswered
<1>9. CASE WriteChunk(t)
  BY <1>1, <1>9, <1>a DEF WriteChunk, TaskState, history
<1>10. CASE WritePause(t)
  <2> DEFINE d == [c EXCEPT !.status = "waiting_approval", !.cur = Node(t)]
  <2>1. /\ doc' = d /\ task[t].pc = "pause"
        /\ UNCHANGED <<ckpt, live, recov, crashes, history>>
        /\ Release(t) \/ \E p \in {"reset", "announce"} :
                            Become(t, [task[t] EXCEPT !.pc = p, !.copy = d])
    BY <1>10 DEF WritePause
  <2>2. DocAnswered(A, d)
    BY <1>a, <2>1, SlotTyped, NextNodeAnswered DEF DocAnswered, Doc, Steps
  <2> HIDE DEF d
  <2> QED
    BY <1>2, <2>1, <2>2 DEF history
<1>11. CASE WriteReset(t)
  <2>1. /\ doc' = c /\ ckpt'.pos = ckpt.pos /\ UNCHANGED <<live, recov, crashes, history>>
        /\ Release(t) \/ Become(t, [task[t] EXCEPT !.pc = "announce"])
    BY <1>11 DEF WriteReset, TypeInv, TypeOK, Checkpoint
  <2>2. [task[t] EXCEPT !.pc = "announce"] = [task[t] EXCEPT !.pc = "announce", !.copy = c]
    BY <1>a DEF TaskState
  <2> QED
    BY <1>2, <1>a, <2>1, <2>2 DEF history
<1>12. CASE WriteAnnounced(t)
  <2> DEFINE d == [c EXCEPT !.asked = TRUE]
  <2>1. DocAnswered(A, d)
    BY <1>a DEF DocAnswered, Doc
  <2>2. /\ Release(t) /\ UNCHANGED <<ckpt, live, recov, crashes, history>>
        /\ doc' = doc \/ doc' = c \/ doc' = d
    BY <1>12 DEF WriteAnnounced
  <2> HIDE DEF d
  <2> QED
    BY <1>2, <1>a, <2>1, <2>2 DEF history
<1>13. CASE WriteCompleted(t)
  <2> DEFINE d == [c EXCEPT !.status = "completed", !.cur = 0]
  <2>1. DocAnswered(A, d)
    BY <1>a DEF DocAnswered, Doc
  <2>2. /\ doc' = d /\ UNCHANGED <<ckpt, recov, crashes, history>>
        /\ Release(t) \/ Become(t, [task[t] EXCEPT !.pc = "verdict", !.copy = d])
    BY <1>13 DEF WriteCompleted
  <2> HIDE DEF d
  <2> QED
    BY <1>2, <2>1, <2>2 DEF history
<1>14. CASE WriteRejected(t)
  <2>1. DocAnswered(A, [c EXCEPT !.status = "rejected"])
    BY <1>a DEF DocAnswered, Doc
  <2> QED
    BY <1>2, <1>14, <2>1 DEF WriteRejected, history
<1>15. CASE WriteFailed(t)
  <2> DEFINE d == [c EXCEPT
                    !.st = [i \in Steps |-> IF c.st[i] = "running" THEN "failed" ELSE c.st[i]],
                    !.status = "failed", !.cur = 0]
  <2>1. DocAnswered(A, d)
    BY <1>a DEF DocAnswered, Doc
  <2>2. doc' = d /\ Release(t) /\ UNCHANGED <<ckpt, recov, crashes, history>>
    BY <1>15 DEF WriteFailed
  <2> HIDE DEF d
  <2> QED
    BY <1>2, <2>1, <2>2 DEF history
<1> QED
  BY <1>3, <1>4, <1>5, <1>6, <1>7, <1>8, <1>9, <1>10, <1>11, <1>12, <1>13, <1>14, <1>15
  DEF StreamStep

(* Going back to the last finished step of a document stays behind answered  *)
(* pauses.                                                                   *)
LEMMA LastDoneAnswered ==
  ASSUME NEW A, NEW c, DocAnswered(A, c), NEW j \in 0..N, IsLastDone(j, c)
  PROVE  Through(A, j)
<1>1. CASE j = 0
  BY <1>1, NothingDone
<1>2. CASE j # 0
  BY <1>2, RunAssumption DEF IsLastDone, DocAnswered, Steps
<1> QED
  BY <1>1, <1>2

LEMMA SeedAnswered ==
  ASSUME NEW A, NEW c, DocAnswered(A, c), Seed(c)
  PROVE  Through(A, ckpt'.pos)
BY LastDoneAnswered DEF Seed

(* Every step of a handler after its first read keeps AnsweredInv.           *)
LEMMA HandlerStepAnswered ==
  ASSUME TypeInv, AnsweredInv, NEW t \in Task, HandlerStep(t)
  PROVE  AnsweredInv'
<1> USE RunAssumption
<1> DEFINE c == task[t].copy
           A == AnsweredAt
           q(d) == [task[t] EXCEPT !.pc = "begin", !.copy = d]
<1>a. /\ task[t] \in TaskState /\ c \in Doc
      /\ SlotAnswered(A, task[t]) /\ DocAnswered(A, c) /\ DocAnswered(A, doc)
      /\ Through(A, ckpt.pos)
  BY SlotTyped DEF AnsweredInv, SlotAnswered
<1>b. UNCHANGED <<pass, said>> => AnsweredAt' = A
  BY DEF AnsweredAt
<1>1. ASSUME NEW d, DocAnswered(A, d), doc' = d, Through(A, ckpt'.pos),
             Release(t) \/ Become(t, q(d)),
             UNCHANGED <<recov, pass, said, ran>>
      PROVE  AnsweredInv'
  <2>1. SlotAnswered(A, q(d)) /\ SlotAnswered(A, Idle)
    BY <1>1, <1>a, NothingDone DEF SlotAnswered, TaskState
  <2> QED
    BY <1>1, <1>a, <1>b, <2>1, SlotStepAnswered DEF Release
<1>2. CASE MarkFinished(t)
  <2> DEFINE d == [c EXCEPT !.st = [i \in Steps |-> IF i = c.cur THEN "finished" ELSE c.st[i]]]
  <2>1. /\ task[t].pc = "mark" /\ doc' = d /\ Become(t, q(d))
        /\ UNCHANGED <<ckpt, live, recov, crashes, history>>
    BY <1>2 DEF MarkFinished
  <2>2. DocAnswered(A, d)
    BY <1>a, <2>1 DEF SlotAnswered, DocAnswered, Doc
  <2> HIDE DEF d, q
  <2> QED
    BY <1>1, <1>a, <2>1, <2>2 DEF history
<1>3. CASE ResumeUnclaimed(t)
  <2> DEFINE d == [c EXCEPT !.status = "running"]
             r == [task[t] EXCEPT !.pc = "begin", !.dec = "no", !.copy = d]
  <2>1. doc' = d /\ Become(t, r) /\ UNCHANGED <<ckpt, live, recov, crashes, history>>
    BY <1>3 DEF ResumeUnclaimed
  <2>2. DocAnswered(A, d)
    BY <1>a DEF DocAnswered, Doc
  <2>3. SlotAnswered(A, r)
    BY <1>a, <1>3, <2>2 DEF ResumeUnclaimed, SlotAnswered, TaskState
  <2> QED
    BY <1>a, <1>b, <2>1, <2>2, <2>3, SlotStepAnswered DEF history
<1>4. CASE OutputError(t)
  BY <1>4, <1>a DEF OutputError, SlotAnswered
<1>5. CASE WriteNote(t)
  BY <1>5, <1>1, <1>a DEF WriteNote, history
<1>6. CASE Terminate(t)
  <2>1. DocAnswered(A, [c EXCEPT !.status = "failed"])
    BY <1>a DEF DocAnswered, Doc
  <2> QED
    BY <1>1, <1>6, <1>a, <2>1 DEF Terminate
<1>7. CASE Retry(t)
  <2> DEFINE bad == {i \in Steps : c.st[i] = "failed"}
             d == [c EXCEPT
                    !.st = [i \in Steps |-> IF \E b \in bad : b <= i THEN "pending" ELSE c.st[i]],
                    !.status = "running", !.cur = 0]
  <2>1. /\ Seed(c) /\ doc' = d /\ Become(t, q(d))
        /\ UNCHANGED <<recov, crashes, okd, said, pass, ran>>
    BY <1>7 DEF Retry
  <2>2. DocAnswered(A, d)
    BY <1>a DEF DocAnswered, Doc
  <2>3. Through(A, ckpt'.pos)
    BY <1>a, <2>1, SeedAnswered
  <2> HIDE DEF d, q
  <2> QED
    BY <1>1, <2>1, <2>2, <2>3
<1>8. ASSUME NEW k \in Steps, RestartFromStep(t, k) PROVE AnsweredInv'
  <2> DEFINE d == [c EXCEPT
                    !.st = [i \in Steps |-> IF i < k THEN c.st[i] ELSE "pending"],
                    !.out = [i \in Steps |-> IF i < k THEN c.out[i] ELSE "unset"],
                    !.status = "running", !.cur = 0]
  <2>1. /\ \E j \in 0..(k - 1), f \in Flag : IsLastDone(j, d) /\ ckpt' = [pos |-> j, appr |-> f]
        /\ doc' = d /\ Become(t, q(d))
        /\ UNCHANGED <<recov, crashes, okd, said, pass, ran>>
    BY <1>8 DEF RestartFromStep
  <2>2. DocAnswered(A, d)
    BY <1>a DEF DocAnswered, Doc
  <2>3. 0..(k - 1) \subseteq 0..N
    BY DEF Steps
  <2> HIDE DEF d, q
  <2>4. Through(A, ckpt'.pos)
    BY <2>1, <2>2, <2>3, LastDoneAnswered
  <2> QED
    BY <1>1, <2>1, <2>2, <2>4
<1> QED
  BY <1>2, <1>3, <1>4, <1>5, <1>6, <1>7, <1>8 DEF HandlerStep

(* A request finds the run as the document has it; a decision that is        *)
(* claimed answers the pause the run waits at.                               *)
LEMMA RequestAnswered ==
  ASSUME AnswerScope, TypeInv, AnsweredInv, NEW t \in Task, Request(t)
  PROVE  AnsweredInv'
<1> USE RunAssumption
<1> DEFINE A == AnsweredAt
<1>a. /\ doc \in Doc /\ DocAnswered(A, doc) /\ Through(A, ckpt.pos)
      /\ Idle \in TaskState /\ SlotAnswered(A, Idle)
  BY IdleTyped, NothingDone DEF AnsweredInv, TypeInv, TypeOK, TypedTask
<1>b. UNCHANGED <<pass, said>> => AnsweredAt' = A
  BY DEF AnsweredAt
<1>1. CASE StartRun(t)
  <2> DEFINE d == NewDoc("running")
             r == [Idle EXCEPT !.pc = "begin", !.op = "start", !.copy = d]
  <2>1. SlotAnswered(A, r) /\ DocAnswered(A, d)
    BY <1>a, NothingDone DEF SlotAnswered, TaskState, Idle
  <2>2. doc' = d /\ Become(t, r) /\ UNCHANGED <<ckpt, recov, crashes, okd, said, pass, ran>>
    BY <1>1 DEF StartRun
  <2> QED
    BY <1>a, <1>b, <2>1, <2>2, SlotStepAnswered
<1>2. ASSUME NEW o \in DecisionOps, Claim(t, o) PROVE AnsweredInv'
  <2> DEFINE d == [doc EXCEPT !.status = "running"]
             r == [Idle EXCEPT !.pc = "mark", !.op = o, !.dec = Verdict(o),
                               !.gate = doc.cur, !.copy = d]
  <2>1. /\ doc.status = "waiting_approval" /\ doc' = d
        /\ UNCHANGED <<ckpt, live, recov, crashes, pass, ran, ended>>
    BY <1>2 DEF Claim
  <2>2. DocAnswered(A, d)
    BY <1>a DEF DocAnswered, Doc
  <2>3. doc.cur \in Steps /\ Before(A, doc.cur)
    BY <1>a, <2>1 DEF DocAnswered, Doc, Steps
  <2>4. CASE HasRunner(o)
    <3>1. /\ Become(t, r)
          /\ said' = [i \in Steps |-> IF i = doc.cur THEN Verdict(o) ELSE said[i]]
      BY <1>2, <2>1, <2>4 DEF Claim
    <3>2. Verdict(o) \in {"yes", "no"}
      BY DEF Verdict
    <3>3. A \subseteq AnsweredAt' /\ (doc.cur \in Pauses => doc.cur \in AnsweredAt')
      BY <2>1, <2>3, <3>1, <3>2 DEF AnsweredAt, Pauses
    <3>4. Through(AnsweredAt', doc.cur)
      BY <2>3, <3>3 DEF Through, Before, Pauses, Steps
    <3>5. DocAnswered(AnsweredAt', d) /\ Through(AnsweredAt', ckpt.pos)
      BY <1>a, <2>2, <3>3, MoreAnswered
    <3>6. d.cur = doc.cur /\ r.copy = d /\ r.pos = 0 /\ r.gate = doc.cur /\ r.pc = "mark"
      BY <1>a DEF Doc, TaskState, Idle
    <3>7. SlotAnswered(AnsweredAt', r)
      <4>1. doc.cur # 0
        BY <2>3 DEF Steps
      <4>2. Through(AnsweredAt', 0)
        BY NothingDone DEF Steps
      <4> HIDE DEF r, d
      <4> QED
        BY <3>4, <3>5, <3>6, <4>1, <4>2 DEF SlotAnswered
    <3> QED
      BY <2>1, <3>1, <3>3, <3>5, <3>7, SlotStepAnswered
  <2>5. CASE ~HasRunner(o)
    <3>1. UNCHANGED <<task, said, okd>>
      BY <1>2, <2>5 DEF Claim
    <3> QED
      BY <1>b, <2>1, <2>2, <3>1 DEF AnsweredInv
  <2> QED
    BY <2>4, <2>5
<1>3. ASSUME NEW o \in AllOps, ReadRun(t, o) PROVE AnsweredInv'
  <2> DEFINE r == [Idle EXCEPT !.pc = Handling(o), !.op = o, !.gate = doc.cur,
                               !.copy = doc]
  <2>1. /\ Become(t, r) /\ o # "output" /\ Accepts(o, doc)
        /\ UNCHANGED <<doc, ckpt, live, recov, crashes, history>>
    BY <1>3 DEF ReadRun, AnswerScope
  <2>2. /\ Handling(o) \notin {"mark", "output"}
        /\ Handling(o) = "reply" => doc.status = "waiting_approval"
    BY <2>1 DEF Handling, AllOps, Accepts
  <2>3. r.copy = doc /\ r.pos = 0 /\ r.gate = doc.cur /\ r.pc = Handling(o) /\ r.dec = "none"
    BY DEF Idle
  <2>4. SlotAnswered(A, r)
    BY <1>a, <2>2, <2>3, NothingDone DEF SlotAnswered, DocAnswered
  <2> QED
    BY <1>a, <1>b, <2>1, <2>4, SlotStepAnswered DEF history
<1> QED
  BY <1>1, <1>2, <1>3 DEF Request

(* A restart forgets the handlers; recovery goes on behind the last finished *)
(* step of the document.                                                     *)
LEMMA ServerAnswered ==
  ASSUME TypeInv, AnsweredInv, Delete \/ Crash \/ Recovery
  PROVE  AnsweredInv'
<1> USE RunAssumption
<1> DEFINE A == AnsweredAt
           c == recov.copy
<1>a. /\ DocAnswered(A, doc) /\ DocAnswered(A, c) /\ DocAnswered(A, NoDoc)
      /\ Through(A, ckpt.pos) /\ SlotAnswered(A, Idle) /\ c \in Doc
  BY NothingDone DEF AnsweredInv, TypeInv, TypeOK
<1>b. UNCHANGED <<pass, said>> => AnsweredAt' = A
  BY DEF AnsweredAt
<1>1. CASE Delete
  BY <1>1, <1>a, <1>b DEF Delete, AnsweredInv
<1>2. CASE Crash
  BY <1>2, <1>a, <1>b DEF Crash, AnsweredInv, history
<1>3. CASE RecoverList \/ RecoverWaiting
  BY <1>3, <1>a, <1>b DEF RecoverList, RecoverWaiting, RecoveryDone, AnsweredInv, history
<1>4. CASE RecoverRefire
  <2>1. PICK from \in 0..N, to \in 0..N, f \in Flag :
          /\ IsLastDone(from, c) /\ from <= to
          /\ \A i \in (from + 1)..to : i \notin Pauses
          /\ ckpt' = [pos |-> to, appr |-> f]
          /\ ran' = ran \cup {i \in (from + 1)..to : i \in Guarded => f = "yes"}
          /\ doc' = doc \/ doc' = [c EXCEPT !.status = "failed"]
    BY <1>4 DEF RecoverRefire
  <2>2. recov' = RecoveryDone /\ UNCHANGED <<task, crashes, okd, said, pass, ended>>
    BY <1>4 DEF RecoverRefire
  <2>3. Through(A, from)
    BY <1>a, <2>1, LastDoneAnswered
  <2>4. Through(A, to)
    BY <2>1, <2>3 DEF Through, Pauses, Steps
  <2>5. \A i \in ran' : i \in ran \/ Before(A, i)
    BY <2>1, <2>4 DEF Through, Before, Pauses, Steps
  <2>6. DocAnswered(A, doc')
    BY <1>a, <2>1 DEF DocAnswered, Doc
  <2> QED
    BY <1>a, <1>b, <2>1, <2>2, <2>4, <2>5, <2>6 DEF AnsweredInv, RecoveryDone
<1>5. ASSUME NEW t \in Task, RecoverRunning(t) PROVE AnsweredInv'
  <2> DEFINE r == [Idle EXCEPT !.pc = "begin", !.op = "recover", !.copy = c]
  <2>1. /\ Seed(c) /\ Become(t, r) /\ recov' = RecoveryDone
        /\ UNCHANGED <<doc, crashes, history>>
    BY <1>5 DEF RecoverRunning
  <2>2. SlotAnswered(A, r)
    BY <1>a DEF SlotAnswered, Idle
  <2>3. Through(A, ckpt'.pos)
    BY <1>a, <2>1, SeedAnswered
  <2> QED
    BY <1>a, <1>b, <2>1, <2>2, <2>3, SlotStepAnswered DEF RecoveryDone, history
<1> QED
  BY <1>1, <1>2, <1>3, <1>4, <1>5 DEF Recovery

(* No step behind a pause is executed before somebody has decided or         *)
(* answered there: for any number of restarts, with replies, retries and     *)
(* restarts from a step, and however the handlers interleave.                *)
THEOREM PausesAreAnswered ==
  ASSUME AnswerScope
  PROVE  Spec => []NoPauseBypassed
<1>1. Init => AnsweredInv
  BY NothingDone DEF Init, AnsweredInv
<1>2. TypeInv /\ AnsweredInv /\ [Next]_vars => AnsweredInv'
  <2> SUFFICES ASSUME TypeInv, AnsweredInv, [Next]_vars PROVE AnsweredInv'
    OBVIOUS
  <2>1. CASE UNCHANGED vars
    BY <2>1 DEF vars, AnsweredInv, AnsweredAt
  <2> QED
    BY <2>1, StreamStepAnswered, HandlerStepAnswered, RequestAnswered, ServerAnswered DEF Next
<1>3. AnsweredInv => NoPauseBypassed
  BY DEF AnsweredInv, AnsweredAt, Before, NoPauseBypassed
<1> QED
  BY <1>1, <1>2, <1>3, InitTyped, NextTyped, PTL DEF Spec
=============================================================================
