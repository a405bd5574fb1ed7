------------------------ MODULE RunDecisions_proofs ------------------------
(***************************************************************************)
(* Theorems about the decisions on a run: who executes it, which decision  *)
(* reaches which pause, and what a decision brings about.  They hold for   *)
(* every number of tasks and steps and every placing of gates, asks and    *)
(* guarded steps; each theorem names the handlers that clients may use.    *)
(*                                                                         *)
(* The invariants speak of one slot at a time: Fits(r, s, k) is what the   *)
(* state r of a handler has to do with the stored status s and the         *)
(* thread's position k.  A step of the one active handler then only has to *)
(* show that its new state fits the new document and checkpoint.           *)
(***************************************************************************)
EXTENDS RunLifecycle_proofs

(* Handlers that decide or end a run, and requests that wait for recovery.   *)
EndingOps == {"terminate", "delete"}

(* No write follows the waiting_approval write of a pause: no message id is  *)
(* stored, and the flag of a gate is never reset (ResetsFlag), because only  *)
(* UI decisions are used or because all gates come before the other pauses.  *)
Untrailed ==
  /\ ~Notify
  /\ \/ Gates = {}
     \/ /\ MaxCrash = 0
        /\ \/ Ops \cap FromCallback = {}
           \/ \A g \in Gates, p \in Pauses : g <= p

DecisionScope == Booted /\ Ops \subseteq DecisionOps \cup EndingOps /\ Untrailed

Busy == Streaming \cup {"mark", "verdict"}
AtNode == {"node", "body", "chunk", "pause", "fail", "verdict"}
Deciding(r) == r.pc \in {"mark", "begin", "node", "body"} /\ r.dec # "none"

Fits(r, s, k) ==
  /\ r.pc \in Busy \cup {"idle", "term"}
  /\ r.pc = "term" => "terminate" \in Ops
  /\ r.pc \in Busy =>
       /\ s # "waiting_approval"
       /\ r.op \in {"start", "recover"} \cup (Ops \cap DecisionOps)
       /\ r.copy.status = IF r.pc = "verdict" THEN "completed" ELSE "running"
       /\ Gates # {} /\ r.op \in FromCallback =>
            r.op # "recover" /\ (Deciding(r) \/ \E p \in Pauses : p <= k)
  /\ r.pc \in AtNode => r.pos = k
  /\ r.pc = "mark" => r.dec # "none" /\ r.copy.cur = r.gate
  /\ Deciding(r) => r.gate = k + 1 /\ r.gate \in Pauses
  /\ r.pc \in {"chunk", "pause"} => r.dec = "none"
  /\ r.pc = "pause" => k + 1 \in Pauses
  /\ r.pc = "verdict" => k = N

(* Recovery has the run for itself: nobody works on it or changes it.        *)
RecoveryAlone ==
  /\ recov.phase # "done" => \A t \in Task : IsFree(t)
  /\ recov.phase = "recover" => recov.copy = doc
  /\ crashes = 0 /\ recov.phase # "done" => doc.status = "absent"

OneActive == \A s, t \in Task : Active(s) /\ Active(t) => s = t

WaitsAtPause ==
  doc.status = "waiting_approval" => doc.cur = ckpt.pos + 1 /\ doc.cur \in Pauses

Unborn == ended = "never" => doc.status = "absent" /\ \A t \in Task : IsFree(t)

ClaimInv ==
  /\ \A t \in Task : Fits(task[t], doc.status, ckpt.pos)
  /\ OneActive /\ WaitsAtPause /\ Unborn /\ RecoveryAlone
  /\ DecisionsReachTheirGate

-----------------------------------------------------------------------------
(* Only the active handler can be anywhere but idle or about to terminate,   *)
(* and while it is there recovery is over.                                   *)
LEMMA OthersAside ==
  ASSUME ClaimInv, NEW t \in Task, Active(t)
  PROVE  /\ \A s \in Task \ {t} :
              /\ task[s].pc \in {"idle", "term"} /\ ~Active(s)
              /\ task[s].pc = "term" => "terminate" \in Ops
         /\ recov.phase = "done" /\ ended # "never"
         /\ doc.status # "waiting_approval"
BY DEF ClaimInv, Fits, OneActive, Active, Busy, Unborn, RecoveryAlone, IsFree, Streaming

LEMMA AsideFits ==
  ASSUME NEW r \in TaskState, r.pc \in {"idle", "term"}, NEW s, NEW k,
         r.pc = "term" => "terminate" \in Ops
  PROVE  Fits(r, s, k)
BY DEF Fits, Busy, AtNode, Deciding, Streaming

(* A step of the active handler keeps ClaimInv when its new state fits.      *)
LEMMA ActiveStepFits ==
  ASSUME TypeInv, ClaimInv, NEW t \in Task, Active(t), NEW r \in TaskState,
         Become(t, r), Fits(r, doc'.status, ckpt'.pos), WaitsAtPause',
         DecisionsReachTheirGate', UNCHANGED <<recov, crashes, ended>>
  PROVE  ClaimInv'
<1>1. task'[t] = r /\ \A s \in Task \ {t} : task'[s] = task[s]
  BY DEF Become, TypeInv, TypeOK
<1>0. \A s \in Task \ {t} :
        /\ task[s].pc \in {"idle", "term"} /\ ~Active(s) /\ task[s] \in TaskState
        /\ task[s].pc = "term" => "terminate" \in Ops
  BY OthersAside DEF TypeInv, TypeOK
<1>2. \A s \in Task : Fits(task'[s], doc'.status, ckpt'.pos)
  BY <1>0, <1>1, AsideFits
<1>3. OneActive'
  BY <1>0, <1>1 DEF OneActive, Active
<1>4. Unborn' /\ RecoveryAlone'
  BY OthersAside DEF Unborn, RecoveryAlone
<1> QED
  BY <1>2, <1>3, <1>4 DEF ClaimInv

LEMMA IdleFits == ASSUME NEW s, NEW k PROVE Idle \in TaskState /\ Fits(Idle, s, k)
BY IdleTyped, AsideFits DEF TypedTask, Idle

(* A node's update moves thread and stream to the node, the decision used.   *)
LEMMA EmitFits ==
  ASSUME TypeInv, ClaimInv, NEW t \in Task, task[t].pc \in {"node", "body"},
         Node(t) \in Steps, NEW f \in Flag, NEW o \in Flag, Emit(t, f, o),
         doc' = doc, DecisionsReachTheirGate', UNCHANGED <<recov, crashes, ended>>
  PROVE  ClaimInv'
<1> USE RunAssumption
<1> DEFINE i == Node(t)
           d == [task[t].copy EXCEPT !.st[i] = "finished", !.cur = i, !.out[i] = o]
           r == [task[t] EXCEPT !.pc = "chunk", !.pos = i, !.flag = f,
                                !.dec = "none", !.copy = d]
<1>1. /\ task[t] \in TaskState /\ task[t].copy \in Doc /\ ckpt.pos \in 0..N
      /\ Fits(task[t], doc.status, ckpt.pos)
  BY SlotTyped DEF TypeInv, TypeOK, Checkpoint, ClaimInv
<1>2. d \in Doc /\ i \in 0..N
  <2>1. d \in Doc
    BY <1>1, StepSetTyped DEF StepStatus
  <2> QED
    BY <2>1 DEF Steps
<1>3. d.status = task[t].copy.status
  BY <1>1 DEF Doc
<1>4. ckpt'.pos = i /\ i = ckpt.pos + 1 /\ Become(t, r)
  BY <1>1 DEF Emit, Fits, AtNode, Node
<1>5. r \in TaskState
  BY <1>1, <1>2 DEF TaskState, Pc
<1>6. Active(t)
  BY DEF Active, Streaming
<1>7. /\ doc.status # "waiting_approval"
      /\ task[t].op \in {"start", "recover"} \cup (Ops \cap DecisionOps)
      /\ task[t].copy.status = "running"
      /\ Gates # {} /\ task[t].op \in FromCallback =>
            task[t].op # "recover" /\ (Deciding(task[t]) \/ \E p \in Pauses : p <= ckpt.pos)
      /\ Deciding(task[t]) => task[t].gate = i /\ task[t].gate \in Pauses
  BY <1>1, <1>4 DEF Fits, Busy, Streaming
<1>8. /\ r.pc = "chunk" /\ r.op = task[t].op /\ r.copy = d /\ r.pos = i /\ r.dec = "none"
  BY <1>1 DEF TaskState
<1>9. Gates # {} /\ task[t].op \in FromCallback => \E p \in Pauses : p <= i
  BY <1>1, <1>4, <1>7 DEF Pauses, Steps
<1>10. Fits(r, doc'.status, ckpt'.pos)
  <2> HIDE DEF r, d, i
  <2> QED
    BY <1>3, <1>4, <1>7, <1>8, <1>9 DEF Fits, Busy, Streaming, AtNode, Deciding
<1> HIDE DEF r
<1> QED
  BY <1>4, <1>5, <1>6, <1>7, <1>10, ActiveStepFits DEF WaitsAtPause

(* The waiting_approval write of a pause is the last one.                    *)
LEMMA PauseIsLast ==
  ASSUME DecisionScope, TypeInv, ClaimInv, NEW t \in Task, task[t].pc = "pause"
  PROVE  ~ResetsFlag(t) /\ ~Announces(t)
<1>a. /\ ckpt.pos \in 0..N /\ Fits(task[t], doc.status, ckpt.pos)
  BY DEF TypeInv, TypeOK, Checkpoint, ClaimInv
<1>1. /\ task[t].op \in {"start", "recover"} \cup (Ops \cap DecisionOps)
      /\ Node(t) = ckpt.pos + 1 /\ Node(t) \in Pauses
      /\ Gates # {} /\ task[t].op \in FromCallback =>
            task[t].op # "recover" /\ \E p \in Pauses : p <= ckpt.pos
  BY <1>a DEF Fits, Busy, Streaming, Deciding, AtNode, Node
<1>2. ~ResetsFlag(t)
  <2> SUFFICES ASSUME task[t].op \in FromCallback, Node(t) \in Gates PROVE FALSE
    BY DEF ResetsFlag
  <2>1. PICK p \in Pauses : p <= ckpt.pos
    BY <1>1
  <2>2. ~(Node(t) <= p)
    BY <1>a, <1>1, <2>1, RunAssumption DEF Pauses, Steps
  <2>3. task[t].op \in Ops
    BY <1>1 DEF FromCallback
  <2> QED
    BY <2>2, <2>3 DEF DecisionScope, Untrailed
<1>3. ~Announces(t)
  BY DEF Announces, DecisionScope, Untrailed
<1> QED
  BY <1>2, <1>3

(* Every step of a stream keeps ClaimInv: at a pause it goes on only with    *)
(* the decision that was claimed there, and it writes nothing once the run   *)
(* waits.                                                                    *)
LEMMA StreamStepFits ==
  ASSUME DecisionScope, TypeInv, ClaimInv, NEW t \in Task, StreamStep(t)
  PROVE  ClaimInv'
<1> USE RunAssumption
<1> DEFINE c == task[t].copy
<1>a. /\ task[t] \in TaskState /\ c \in Doc /\ ckpt.pos \in 0..N /\ pass \in [Steps -> 0..N]
      /\ Fits(task[t], doc.status, ckpt.pos) /\ DecisionsReachTheirGate
  BY SlotTyped DEF TypeInv, TypeOK, Checkpoint, ClaimInv
<1>b. Active(t)
  <2>1. task[t].pc \in Streaming \cup {"reset", "announce", "verdict"}
    BY DEF StreamStep, Begin, NodeStart, NodeSkip, NodeRun, NodeRaise, NodeResume,
       NodePause, WriteChunk, WritePause, WriteReset, WriteAnnounced, WriteCompleted,
       WriteRejected, WriteFailed, Streaming
  <2> QED
    BY <1>a, <2>1 DEF Fits, Busy, Active, Streaming
<1>c. doc.status # "waiting_approval"
  BY <1>b, OthersAside
<1>1. CASE Begin(t)
  <2> DEFINE r == [task[t] EXCEPT !.pc = "node", !.pos = ckpt.pos, !.flag = ckpt.appr]
  <2>1. r \in TaskState
    BY <1>a DEF TypeInv, TypeOK, TaskState, Pc, Checkpoint
  <2>2. Become(t, r) /\ UNCHANGED <<doc, ckpt, live, recov, crashes, history>> /\ task[t].pc = "begin"
    BY <1>1 DEF Begin
  <2>3. Fits(r, doc'.status, ckpt'.pos)
    BY <1>a, <2>2 DEF TaskState, Fits, Busy, Streaming, AtNode, Deciding
  <2> QED
    BY <1>a, <1>b, <1>c, <2>1, <2>2, <2>3, ActiveStepFits
    DEF WaitsAtPause, DecisionsReachTheirGate, history
<1>2. CASE NodeStart(t)
  <2> DEFINE i == Node(t)
             d == [c EXCEPT !.st[i] = "running", !.cur = i]
             r == [task[t] EXCEPT !.pc = "body", !.copy = d]
  <2>1. i \in Steps /\ task[t].pc = "node"
    BY <1>2 DEF NodeStart
  <2>2. d \in Doc /\ d.status = c.status
    <3>1. c.out[i] \in Flag /\ d = [c EXCEPT !.st[i] = "running", !.cur = i, !.out[i] = c.out[i]]
      BY <1>a, <2>1 DEF Doc
    <3> QED
      BY <1>a, <2>1, <3>1, StepSetTyped DEF StepStatus, Doc
  <2>3. doc' = d /\ Become(t, r) /\ UNCHANGED <<ckpt, live, recov, crashes, history>>
    BY <1>2 DEF NodeStart
  <2>4. r \in TaskState
    BY <1>a, <2>2 DEF TaskState, Pc
  <2>5. Fits(r, doc'.status, ckpt'.pos) /\ d.status # "waiting_approval"
    BY <1>a, <2>1, <2>2, <2>3 DEF TaskState, Fits, Busy, Streaming, AtNode, Deciding
  <2> HIDE DEF d, r
  <2> QED
    BY <1>a, <1>b, <2>3, <2>4, <2>5, ActiveStepFits
    DEF WaitsAtPause, DecisionsReachTheirGate, history
<1>3. CASE NodeSkip(t)
  <2>1. Node(t) \in Steps /\ task[t].flag \in Flag /\ StoredOut(t) \in Flag
    BY <1>3, <1>a DEF NodeSkip, TaskState, Doc, StoredOut
  <2> QED
    BY <1>3, <1>a, <2>1, EmitFits DEF NodeSkip, DecisionsReachTheirGate, history
<1>4. CASE NodeRun(t)
  <2>1. Node(t) \in Steps /\ task[t].flag \in Flag /\ StoredOut(t) \in Flag
    BY <1>4, <1>a, SlotTyped DEF NodeRun, TaskState, Doc, StoredOut
  <2> QED
    BY <1>4, <1>a, <2>1, EmitFits DEF NodeRun, DecisionsReachTheirGate
<1>5. CASE NodeRaise(t)
  <2> DEFINE r == [task[t] EXCEPT !.pc = "fail"]
  <2>1. r \in TaskState
    BY <1>a DEF TaskState, Pc
  <2>2. /\ Become(t, r) /\ UNCHANGED <<doc, ckpt, live, recov, crashes, history>>
        /\ task[t].pc = "body" /\ Node(t) \notin Pauses
    BY <1>5 DEF NodeRaise
  <2>3. ~Deciding(task[t])
    BY <1>a, <2>2 DEF Fits, AtNode, Node
  <2>4. Fits(r, doc'.status, ckpt'.pos)
    BY <1>a, <2>2, <2>3 DEF TaskState, Fits, Busy, Streaming, AtNode, Deciding
  <2> QED
    BY <1>a, <1>b, <1>c, <2>1, <2>2, <2>4, ActiveStepFits
    DEF WaitsAtPause, DecisionsReachTheirGate, history
<1>6. CASE NodeResume(t)
  <2>1. /\ Node(t) \in Steps /\ task[t].flag \in Flag /\ StoredOut(t) \in Flag
        /\ task[t].dec \in Flag /\ task[t].dec # "none" /\ task[t].pc = "body"
    BY <1>6, <1>a, SlotTyped DEF NodeResume, TaskState, Doc, StoredOut, Flag
  <2>2. /\ \/ Emit(t, task[t].dec, task[t].dec)
           \/ Emit(t, task[t].flag, StoredOut(t))
        /\ pass' = [pass EXCEPT ![Node(t)] = task[t].gate]
        /\ UNCHANGED <<doc, live, recov, crashes, okd, said, ran, ended>>
    BY <1>6 DEF NodeResume
  <2>3. task[t].gate = Node(t)
    BY <1>a, <2>1 DEF Fits, Deciding, AtNode, Node
  <2>4. DecisionsReachTheirGate'
    BY <1>a, <2>1, <2>2, <2>3 DEF DecisionsReachTheirGate, Pauses
  <2> QED
    BY <2>1, <2>2, <2>4, EmitFits
<1>7. CASE NodePause(t)
  <2> DEFINE r == [task[t] EXCEPT !.pc = "pause"]
  <2>1. r \in TaskState
    BY <1>a DEF TaskState, Pc
  <2>2. /\ Become(t, r) /\ UNCHANGED <<doc, ckpt, live, recov, crashes, history>>
        /\ task[t].pc = "body" /\ task[t].dec = "none" /\ task[t].pos + 1 \in Pauses
    BY <1>7 DEF NodePause, Node
  <2>3. Fits(r, doc'.status, ckpt'.pos)
    BY <1>a, <2>2 DEF TaskState, Fits, Busy, Streaming, AtNode, Deciding
  <2> QED
    BY <1>a, <1>b, <1>c, <2>1, <2>2, <2>3, ActiveStepFits
    DEF WaitsAtPause, DecisionsReachTheirGate, history
<1>8. CASE WriteChunk(t)
  <2> DEFINE r == [task[t] EXCEPT !.pc = "node"]
  <2>1. r \in TaskState
    BY <1>a DEF TaskState, Pc
  <2>2. doc' = c /\ Become(t, r) /\ UNCHANGED <<ckpt, live, recov, crashes, history>> /\ task[t].pc = "chunk"
    BY <1>8 DEF WriteChunk
  <2>3. Fits(r, doc'.status, ckpt'.pos) /\ c.status # "waiting_approval"
    BY <1>a, <2>2 DEF TaskState, Fits, Busy, Streaming, AtNode, Deciding
  <2> QED
    BY <1>a, <1>b, <2>1, <2>2, <2>3, ActiveStepFits
    DEF WaitsAtPause, DecisionsReachTheirGate, history
<1>9. CASE WritePause(t)
  <2> DEFINE d == [c EXCEPT !.status = "waiting_approval", !.cur = Node(t)]
  <2>1. /\ task[t].pc = "pause" /\ task[t].op \in {"start", "recover"} \cup (Ops \cap DecisionOps)
        /\ Node(t) = ckpt.pos + 1 /\ Node(t) \in Pauses
    BY <1>9, <1>a DEF WritePause, Fits, Busy, Streaming, Deciding, AtNode, Node
  <2>2. ~ResetsFlag(t) /\ ~Announces(t)
    BY <1>9, <1>a, PauseIsLast DEF WritePause
  <2>4. doc' = d /\ Become(t, Idle) /\ UNCHANGED <<ckpt, live, recov, crashes, history>>
    BY <1>9, <2>2 DEF WritePause, Release
  <2>5. WaitsAtPause'
    BY <1>a, <2>1, <2>4 DEF WaitsAtPause, Doc
  <2> HIDE DEF d
  <2> QED
    BY <1>a, <1>b, <2>4, <2>5, IdleFits, ActiveStepFits DEF DecisionsReachTheirGate, history
<1>10. CASE WriteReset(t) \/ WriteAnnounced(t)
  BY <1>10, <1>b DEF WriteReset, WriteAnnounced, Active, Streaming
<1>11. CASE WriteCompleted(t)
  <2> DEFINE d == [c EXCEPT !.status = "completed", !.cur = 0]
             r == [task[t] EXCEPT !.pc = "verdict", !.copy = d]
  <2>1. /\ doc' = d
        /\ Become(t, r) \/ Become(t, Idle)
        /\ UNCHANGED <<ckpt, recov, crashes, history>>
        /\ task[t].pc = "node" /\ task[t].pos = N
    BY <1>11 DEF WriteCompleted, Release
  <2>2. d \in Doc /\ d.status = "completed"
    <3>1. 0 \in 0..N
      OBVIOUS
    <3> QED
      BY <1>a, <3>1 DEF Doc, Status
  <2>3. r \in TaskState
    BY <1>a, <2>2 DEF TaskState, Pc
  <2>4. ~Deciding(task[t]) /\ ckpt.pos = N
    BY <1>a, <2>1 DEF Fits, AtNode, Deciding, Pauses, Steps
  <2>5. Fits(r, doc'.status, ckpt'.pos) /\ WaitsAtPause'
    <3> HIDE DEF d
    <3>1. r.pc = "verdict" /\ r.op = task[t].op /\ r.pos = task[t].pos /\ r.copy = d
      BY <1>a DEF TaskState
    <3> HIDE DEF r
    <3>2. doc'.status = "completed" /\ ckpt' = ckpt
      BY <2>1, <2>2
    <3> QED
      BY <1>a, <2>1, <2>2, <2>4, <3>1, <3>2
      DEF Fits, Busy, AtNode, Deciding, Streaming, WaitsAtPause
  <2> HIDE DEF d, r
  <2> QED
    BY <1>a, <1>b, <2>1, <2>3, <2>5, IdleFits, ActiveStepFits DEF DecisionsReachTheirGate, history
<1>12. CASE WriteRejected(t)
  <2>1. /\ doc' = [c EXCEPT !.status = "rejected"] /\ Become(t, Idle)
        /\ UNCHANGED <<ckpt, recov, crashes, history>>
    BY <1>12 DEF WriteRejected, Release
  <2>2. WaitsAtPause'
    BY <1>a, <2>1 DEF WaitsAtPause, Doc
  <2> QED
    BY <1>a, <1>b, <2>1, <2>2, IdleFits, ActiveStepFits DEF DecisionsReachTheirGate, history
<1>13. CASE WriteFailed(t)
  <2>1. /\ doc'.status = "failed" /\ Become(t, Idle)
        /\ UNCHANGED <<ckpt, recov, crashes, history>>
    BY <1>13, <1>a DEF WriteFailed, Release, Doc
  <2> QED
    BY <1>a, <1>b, <2>1, IdleFits, ActiveStepFits DEF WaitsAtPause, DecisionsReachTheirGate, history
<1> QED
  BY <1>1, <1>2, <1>3, <1>4, <1>5, <1>6, <1>7, <1>8, <1>9, <1>10, <1>11, <1>12, <1>13
  DEF StreamStep

(* Deciding and terminating are the only handlers of these clients; a        *)
(* decision marks its step, a terminate writes failed over whatever is there.*)
LEMMA HandlerStepFits ==
  ASSUME DecisionScope, TypeInv, ClaimInv, NEW t \in Task, HandlerStep(t)
  PROVE  ClaimInv'
<1> DEFINE c == task[t].copy
<1>a. /\ task[t] \in TaskState /\ c \in Doc /\ task \in [Task -> TaskState]
      /\ \A s \in Task : Fits(task[s], doc.status, ckpt.pos)
      /\ DecisionsReachTheirGate
  BY SlotTyped DEF TypeInv, TypeOK, ClaimInv
<1>b. task[t].pc \in Busy \cup {"idle", "term"}
  BY <1>a DEF Fits
<1>1. CASE MarkFinished(t)
  <2> DEFINE s == [i \in Steps |-> IF i = c.cur THEN "finished" ELSE c.st[i]]
             d == [c EXCEPT !.st = s]
             r == [task[t] EXCEPT !.pc = "begin", !.copy = d]
  <2>1. /\ doc' = d /\ Become(t, r) /\ UNCHANGED <<ckpt, live, recov, crashes, history>>
        /\ task[t].pc = "mark"
    BY <1>1 DEF MarkFinished
  <2>2. d \in Doc /\ d.status = c.status
    <3>1. s \in [Steps -> StepStatus]
      BY <1>a DEF Doc, StepStatus
    <3> QED
      BY <1>a, <3>1 DEF Doc
  <2> HIDE DEF d
  <2>3. /\ r \in TaskState /\ r.pc = "begin" /\ r.copy = d /\ r.op = task[t].op
        /\ r.dec = task[t].dec /\ r.gate = task[t].gate
    BY <1>a, <2>2 DEF TaskState, Pc
  <2> HIDE DEF r
  <2>4. Active(t) /\ Fits(r, doc'.status, ckpt'.pos) /\ doc'.status = "running"
    BY <1>a, <2>1, <2>2, <2>3 DEF Active, Fits, Busy, Streaming, AtNode, Deciding
  <2> QED
    BY <1>a, <2>1, <2>3, <2>4, ActiveStepFits
    DEF WaitsAtPause, DecisionsReachTheirGate, history
<1>2. CASE Terminate(t)
  <2>1. /\ doc'.status = "failed" /\ task' = [task EXCEPT ![t] = Idle]
        /\ ended' = "terminated" /\ UNCHANGED <<ckpt, recov, crashes, pass>>
        /\ task[t].pc = "term"
    BY <1>2, <1>a DEF Terminate, Release, Become, Doc
  <2>2. \A s \in Task : Fits(task'[s], doc'.status, ckpt'.pos)
    BY <1>a, <2>1, IdleFits DEF Fits
  <2>3. OneActive'
    BY <1>a, <2>1 DEF OneActive, Active, ClaimInv, Idle, Streaming
  <2>4. RecoveryAlone'
    BY <2>1 DEF RecoveryAlone, ClaimInv, IsFree
  <2> QED
    BY <1>a, <2>1, <2>2, <2>3, <2>4
    DEF ClaimInv, WaitsAtPause, Unborn, DecisionsReachTheirGate
<1>3. ~(\/ ResumeUnclaimed(t) \/ OutputError(t) \/ WriteNote(t) \/ Retry(t)
        \/ \E k \in Steps : RestartFromStep(t, k))
  BY <1>b DEF ResumeUnclaimed, OutputError, WriteNote, Retry, RestartFromStep, Busy, Streaming
<1> QED
  BY <1>1, <1>2, <1>3 DEF HandlerStep

(* A request finds recovery over.  A decision claims a run that nobody works *)
(* on, at the pause its document and its checkpoint agree on.                *)
LEMMA RequestFits ==
  ASSUME DecisionScope, TypeInv, ClaimInv, NEW t \in Task, Request(t)
  PROVE  ClaimInv'
<1> USE RunAssumption
<1>a. /\ doc \in Doc /\ task \in [Task -> TaskState] /\ ckpt.pos \in 0..N
      /\ \A s \in Task : Fits(task[s], doc.status, ckpt.pos)
      /\ DecisionsReachTheirGate
  BY DEF TypeInv, TypeOK, ClaimInv, Checkpoint
<1>b. Serving /\ IsFree(t) /\ recov.phase = "done"
  BY DEF Request, StartRun, Claim, ReadRun, Serving, DecisionScope
<1>i. Idle \in TaskState /\ Idle.copy \in Doc
  BY IdleTyped DEF TypedTask, Idle
<1>1. CASE StartRun(t)
  <2> DEFINE d == NewDoc("running")
             r == [Idle EXCEPT !.pc = "begin", !.op = "start", !.copy = d]
  <2>1. /\ doc' = d /\ task' = [task EXCEPT ![t] = r] /\ ended' = "no" /\ ended = "never"
        /\ UNCHANGED <<ckpt, recov, crashes, okd, said, pass, ran>>
    BY <1>1 DEF StartRun, Become
  <2>2. d \in Doc /\ d.status = "running"
    BY NewDocTyped DEF Status, NewDoc
  <2> HIDE DEF d
  <2>3. r.pc = "begin" /\ r.op = "start" /\ r.copy = d /\ r.dec = "none"
    BY DEF Idle
  <2> HIDE DEF r
  <2>4. Fits(r, doc'.status, ckpt'.pos)
    BY <2>1, <2>2, <2>3 DEF Fits, Busy, Streaming, AtNode, Deciding, FromCallback
  <2>5. \A s \in Task \ {t} : task'[s] = task[s] /\ task[s].pc = "idle"
    BY <1>a, <2>1 DEF ClaimInv, Unborn, IsFree
  <2>6. \A s \in Task : Fits(task'[s], doc'.status, ckpt'.pos)
    BY <1>a, <2>1, <2>4, <2>5, AsideFits
  <2>7. OneActive'
    BY <2>5 DEF OneActive, Active, Streaming
  <2> QED
    BY <1>a, <1>b, <2>1, <2>2, <2>6, <2>7
    DEF ClaimInv, WaitsAtPause, Unborn, RecoveryAlone, DecisionsReachTheirGate
<1>2. ASSUME NEW o \in DecisionOps, Claim(t, o) PROVE ClaimInv'
  <2> DEFINE d == [doc EXCEPT !.status = "running"]
             r == [Idle EXCEPT !.pc = "mark", !.op = o, !.dec = Verdict(o),
                               !.gate = doc.cur, !.copy = d]
  <2>1. /\ doc' = d /\ UNCHANGED <<ckpt, live, recov, crashes, pass, ran, ended>>
        /\ doc.status = "waiting_approval" /\ o \in Ops
    BY <1>2 DEF Claim
  <2>2. d.status = "running" /\ d.cur = doc.cur
    BY <1>a DEF Doc
  <2>3. /\ doc.cur = ckpt.pos + 1 /\ doc.cur \in Pauses /\ ended # "never"
        /\ \A s \in Task : ~Active(s)
    BY <1>a, <2>1 DEF ClaimInv, WaitsAtPause, Unborn, Fits, Busy, Active
  <2>4. \A s \in Task : Fits(task[s], d.status, ckpt.pos)
    BY <1>a, <2>2 DEF Fits
  <2>5. task' = task \/ task' = [task EXCEPT ![t] = r]
    BY <1>2, <2>1 DEF Claim, Become
  <2> HIDE DEF d
  <2>6. /\ r.pc = "mark" /\ r.op = o /\ r.copy = d /\ r.gate = doc.cur
        /\ r.dec = Verdict(o)
    BY DEF Idle
  <2> HIDE DEF r
  <2>7. Fits(r, d.status, ckpt.pos)
    BY <2>1, <2>2, <2>3, <2>6
    DEF Fits, Busy, Streaming, AtNode, Deciding, Verdict, FromCallback, DecisionOps
  <2>8. \A s \in Task : Fits(task'[s], doc'.status, ckpt'.pos)
    BY <1>a, <2>1, <2>4, <2>5, <2>7
  <2>9. OneActive'
    BY <1>a, <2>3, <2>5 DEF OneActive, Active
  <2> QED
    BY <1>a, <1>b, <2>1, <2>2, <2>3, <2>8, <2>9
    DEF ClaimInv, WaitsAtPause, Unborn, RecoveryAlone, DecisionsReachTheirGate
<1>3. ASSUME NEW o \in AllOps, ReadRun(t, o) PROVE ClaimInv'
  <2>1. o = "terminate" /\ doc.status = "running" /\ o \in Ops
    BY <1>3 DEF ReadRun, Accepts, DecisionScope, DecisionOps, EndingOps
  <2> DEFINE r == [Idle EXCEPT !.pc = "term", !.op = o, !.gate = doc.cur, !.copy = doc]
  <2>2. /\ task' = [task EXCEPT ![t] = r]
        /\ UNCHANGED <<doc, ckpt, live, recov, crashes, history>>
    BY <1>3, <2>1 DEF ReadRun, Become, Handling
  <2>3. r.pc = "term"
    BY DEF Idle
  <2> HIDE DEF r
  <2>4. Fits(r, doc.status, ckpt.pos)
    BY <2>1, <2>3 DEF Fits, Busy, Streaming, AtNode, Deciding
  <2>5. OneActive'
    BY <1>a, <2>2, <2>3 DEF OneActive, Active, ClaimInv, Streaming
  <2> QED
    BY <1>a, <1>b, <2>1, <2>2, <2>4, <2>5
    DEF ClaimInv, WaitsAtPause, Unborn, RecoveryAlone, DecisionsReachTheirGate, history
<1> QED
  BY <1>1, <1>2, <1>3 DEF Request

(* Delete empties the document under the handlers; a restart takes them all  *)
(* away; recovery re-arms a waiting run or streams a running one from its    *)
(* last finished step.  No gate is resumed that way: Untrailed.              *)
LEMMA ServerFits ==
  ASSUME DecisionScope, TypeInv, ClaimInv, Delete \/ Crash \/ Recovery
  PROVE  ClaimInv'
<1> USE RunAssumption
<1>a. /\ doc \in Doc /\ task \in [Task -> TaskState] /\ ckpt.pos \in 0..N
      /\ \A s \in Task : Fits(task[s], doc.status, ckpt.pos)
      /\ DecisionsReachTheirGate /\ crashes \in 0..MaxCrash
  BY DEF TypeInv, TypeOK, ClaimInv, Checkpoint
<1>i. Idle.pc = "idle" /\ NoDoc.status = "absent"
  BY DEF Idle, NoDoc, NewDoc
<1>1. CASE Delete
  <2>1. /\ doc' = NoDoc /\ ended' = "deleted" /\ recov.phase = "done"
        /\ UNCHANGED <<ckpt, task, recov, crashes, okd, said, pass, ran>>
    BY <1>1 DEF Delete, Serving, DecisionScope
  <2>2. \A s \in Task : Fits(task[s], doc'.status, ckpt.pos)
    BY <1>a, <1>i, <2>1 DEF Fits
  <2> QED
    BY <1>a, <1>i, <2>1, <2>2
    DEF ClaimInv, OneActive, Active, WaitsAtPause, Unborn, RecoveryAlone, DecisionsReachTheirGate
<1>2. CASE Crash
  <2>1. /\ task' = [t \in Task |-> Idle] /\ recov'.phase = "list" /\ crashes' # 0
        /\ UNCHANGED <<doc, ckpt, history>>
    BY <1>2, <1>a DEF Crash
  <2>2. \A s \in Task : Fits(task'[s], doc'.status, ckpt'.pos)
    BY <2>1, IdleFits
  <2> QED
    BY <1>a, <1>i, <2>1, <2>2
    DEF ClaimInv, OneActive, Active, Streaming, WaitsAtPause, Unborn, RecoveryAlone, IsFree,
        DecisionsReachTheirGate, history
<1>3. CASE RecoverList
  <2>1. /\ recov.phase = "list"
        /\ recov' = [phase |-> "recover", copy |-> doc] \/ recov' = RecoveryDone
        /\ UNCHANGED <<doc, ckpt, live, task, crashes, history>>
    BY <1>3 DEF RecoverList
  <2> QED
    BY <1>a, <2>1
    DEF ClaimInv, OneActive, Active, WaitsAtPause, Unborn, RecoveryAlone, IsFree,
        DecisionsReachTheirGate, history, RecoveryDone
<1>4. CASE RecoverWaiting
  <2>1. recov' = RecoveryDone /\ UNCHANGED <<doc, ckpt, task, crashes, history>>
    BY <1>4 DEF RecoverWaiting
  <2> QED
    BY <1>a, <2>1
    DEF ClaimInv, OneActive, Active, WaitsAtPause, Unborn, RecoveryAlone, IsFree,
        DecisionsReachTheirGate, history, RecoveryDone
<1>5. ~RecoverRefire
  <2> SUFFICES ASSUME recov.phase = "recover", recov.copy.status = "waiting_approval",
                      ckpt.pos = N
               PROVE  FALSE
    BY DEF RecoverRefire
  <2>1. doc.cur = N + 1 /\ doc.cur \in Pauses
    BY DEF ClaimInv, RecoveryAlone, WaitsAtPause
  <2> QED
    BY <2>1 DEF Pauses, Steps
<1>6. ASSUME NEW t \in Task, RecoverRunning(t) PROVE ClaimInv'
  <2> DEFINE r == [Idle EXCEPT !.pc = "begin", !.op = "recover", !.copy = recov.copy]
  <2>1. /\ recov.phase = "recover" /\ recov.copy.status = "running" /\ recov' = RecoveryDone
        /\ task' = [task EXCEPT ![t] = r] /\ UNCHANGED <<doc, crashes, history>>
    BY <1>6 DEF RecoverRunning, Become
  <2>2. recov.copy = doc /\ Gates = {} /\ \A s \in Task : task[s].pc = "idle"
    BY <1>a, <2>1 DEF ClaimInv, RecoveryAlone, IsFree, DecisionScope, Untrailed
  <2>3. r.pc = "begin" /\ r.op = "recover" /\ r.copy = recov.copy /\ r.dec = "none"
    BY DEF Idle
  <2> HIDE DEF r
  <2>4. Fits(r, doc'.status, ckpt'.pos)
    BY <2>1, <2>2, <2>3 DEF Fits, Busy, Streaming, AtNode, Deciding
  <2>5. \A s \in Task : Fits(task'[s], doc'.status, ckpt'.pos)
    BY <1>a, <2>1, <2>2, <2>4, AsideFits
  <2>6. OneActive'
    BY <1>a, <2>1, <2>2 DEF OneActive, Active, Streaming
  <2>7. ended # "never"
    BY <2>1, <2>2 DEF ClaimInv, Unborn
  <2> QED
    BY <1>a, <2>1, <2>2, <2>5, <2>6, <2>7
    DEF ClaimInv, WaitsAtPause, Unborn, RecoveryAlone, DecisionsReachTheirGate, history,
        RecoveryDone
<1> QED
  BY <1>1, <1>2, <1>3, <1>4, <1>5, <1>6 DEF Recovery

LEMMA InitFits == Init => ClaimInv
<1> SUFFICES ASSUME Init PROVE ClaimInv
  OBVIOUS
<1>1. doc.status = "absent" /\ \A t \in Task : task[t] = Idle /\ task[t].pc = "idle"
  BY DEF Init, NoDoc, NewDoc, Idle
<1>2. \A t \in Task : Fits(task[t], doc.status, ckpt.pos)
  BY <1>1, IdleFits
<1>3. DecisionsReachTheirGate
  BY RunAssumption DEF Init, DecisionsReachTheirGate, Pauses
<1> QED
  BY <1>1, <1>2, <1>3
  DEF Init, ClaimInv, OneActive, Active, Streaming, WaitsAtPause, Unborn, RecoveryAlone, IsFree

LEMMA NextFits ==
  ASSUME DecisionScope
  PROVE  TypeInv /\ ClaimInv /\ [Next]_vars => ClaimInv'
<1> SUFFICES ASSUME TypeInv, ClaimInv, [Next]_vars PROVE ClaimInv'
  OBVIOUS
<1>1. CASE UNCHANGED vars
  BY <1>1 DEF vars, ClaimInv, OneActive, Active, WaitsAtPause, Unborn, RecoveryAlone, IsFree,
     DecisionsReachTheirGate
<1>2. CASE Next
  BY <1>2, StreamStepFits, HandlerStepFits, RequestFits, ServerFits DEF Next
<1> QED
  BY <1>1, <1>2

LEMMA AlwaysFits == ASSUME DecisionScope PROVE Spec => [](TypeInv /\ ClaimInv)
BY InitTyped, NextTyped, InitFits, NextFits, PTL DEF Spec

(* claim_for_resume does what it is there for: at most one handler or task   *)
(* executes the thread, and none while the document says that the run waits, *)
(* also when terminate and delete interleave with them.                      *)
THEOREM ClaimExcludes ==
  ASSUME DecisionScope
  PROVE  Spec => []OneStream
<1>1. ClaimInv => OneStream
  BY DEF ClaimInv, OneStream, OneActive, Fits, Busy, Active
<1> QED
  BY <1>1, AlwaysFits, PTL

(* A decision is consumed by the pause it was claimed at (NodeResume), never *)
(* by a later one.                                                           *)
THEOREM DecisionsArrive ==
  ASSUME DecisionScope
  PROVE  Spec => []DecisionsReachTheirGate
<1>1. ClaimInv => DecisionsReachTheirGate
  BY DEF ClaimInv
<1> QED
  BY <1>1, AlwaysFits, PTL

(* A waiting document names the step at which the thread is interrupted: the *)
(* document written by WritePause and the checkpoint agree, whatever restart *)
(* lies between them.                                                        *)
THEOREM WaitingRunIsInterrupted ==
  ASSUME DecisionScope
  PROVE  Spec => []WaitingMatchesCheckpoint
<1>1. ClaimInv => WaitingMatchesCheckpoint
  BY DEF ClaimInv, WaitsAtPause, WaitingMatchesCheckpoint
<1> QED
  BY <1>1, AlwaysFits, PTL
=============================================================================
