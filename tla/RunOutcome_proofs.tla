------------------------ MODULE RunOutcome_proofs ------------------------
(***************************************************************************)
(* What a decision brings about: a rejection is final, an approved run     *)
(* does the work the approval was for and no other, and no pause is passed *)
(* unanswered.  The scope is that of RunDecisions_proofs without a restart *)
(* of the process: after one, recovery takes a decided pause for passed    *)
(* and drops the decision.  The last section is about all work: what is    *)
(* finished is not done again, in every sequence of requests and restarts. *)
(***************************************************************************)
EXTENDS RunDecisions_proofs

OutcomeScope == DecisionScope /\ MaxCrash = 0

(* The latest pause decided so far got the value v; nothing was decided.     *)
LastSaid(s, v) == \E q \in Steps : s[q] = v /\ \A p \in Steps : s[p] # "none" => p <= q
NothingSaid(s) == \A p \in Steps : s[p] = "none"

(* The gate before step i that comes nearest to it.                          *)
Nearest(g, i) == g \in Gates /\ g < i /\ \A h \in Gates : h < i => h <= g

(* The thread's flag is the decision accepted at the last gate it passed.    *)
ThreadSays ==
  \/ ckpt.appr = "unset" /\ \A g \in Gates : ~(g <= ckpt.pos)
  \/ \E g \in Gates : Nearest(g, ckpt.pos + 1) /\ said[g] = ckpt.appr

(* Decisions are accepted at pauses that the thread has passed, or is about  *)
(* to pass with them.                                                        *)
SaidBehind ==
  \A i \in Steps : said[i] # "none" =>
    i \in Pauses /\ (i <= ckpt.pos \/ \E t \in Task : Deciding(task[t]) /\ task[t].gate = i)

Approved(i) == (\E g \in Gates : g < i) /\ (\A g \in Gates : g < i => said[g] = "yes")

(* What lies behind the thread: the approved work is done, every pause was   *)
(* answered; nothing ahead of it has been executed.                          *)
WorkDone ==
  /\ \A i \in Guarded : i <= ckpt.pos /\ Approved(i) => i \in ran
  /\ \A i \in ran : i <= ckpt.pos
  /\ \A g \in Pauses : g <= ckpt.pos => pass[g] # 0

(* What the handler state r has to do with a thread at k with flag f and     *)
(* the decisions s.                                                          *)
Stream(r, k, f, s) ==
  /\ Deciding(r) => s[r.gate] = r.dec
  /\ r.pc \in AtNode => r.flag = f
  /\ r.pc = "body" /\ k + 1 \in Guarded => f = "yes"
  /\ r.pc \in Busy =>
       /\ r.op # "recover"
       /\ r.op = "start" => NothingSaid(s)
       /\ r.op \in {"approve", "cbApprove"} => LastSaid(s, "yes")

CompletedInFavour ==
  doc.status = "completed" =>
    /\ ckpt.pos = N
    /\ (\E t \in Task : task[t].pc = "verdict") \/ NothingSaid(said) \/ LastSaid(said, "yes")

NothingYet == ended = "never" => NothingSaid(said)

OutcomeInv ==
  /\ NothingYet /\ ThreadSays /\ SaidBehind /\ WorkDone /\ CompletedInFavour
  /\ \A t \in Task : Stream(task[t], ckpt.pos, ckpt.appr, said)

-----------------------------------------------------------------------------
LEMMA AsideStreams ==
  ASSUME NEW r, r.pc \in {"idle", "term"}, NEW k, NEW f, NEW s
  PROVE  Stream(r, k, f, s)
BY DEF Stream, Deciding, AtNode, Busy, Streaming

(* A step of the active handler that leaves the thread where it is, and the  *)
(* decision it carries, if any, in place.                                    *)
LEMMA StayingOutcome ==
  ASSUME TypeInv, ClaimInv, OutcomeInv, NEW t \in Task, Active(t), NEW r, Become(t, r),
         Deciding(task[t]) => Deciding(r) /\ r.gate = task[t].gate,
         Stream(r, ckpt.pos, ckpt.appr, said),
         doc'.status = "completed" =>
           ckpt.pos = N /\ (r.pc = "verdict" \/ NothingSaid(said) \/ LastSaid(said, "yes")),
         UNCHANGED <<ckpt, said, pass, ran, ended>>
  PROVE  OutcomeInv'
<1>1. task'[t] = r /\ \A s \in Task \ {t} : task'[s] = task[s]
  BY DEF Become, TypeInv, TypeOK
<1>2. \A s \in Task \ {t} : task[s].pc \in {"idle", "term"}
  BY OthersAside
<1>3. SaidBehind'
  BY <1>1 DEF OutcomeInv, SaidBehind
<1>4. \A s \in Task : Stream(task'[s], ckpt'.pos, ckpt'.appr, said')
  BY <1>1, <1>2, AsideStreams
<1>5. CompletedInFavour'
  BY <1>1 DEF CompletedInFavour, NothingSaid, LastSaid
<1>6. ThreadSays' /\ WorkDone'
  BY DEF OutcomeInv, ThreadSays, WorkDone, Nearest, Approved
<1>7. NothingYet'
  BY OthersAside DEF NothingYet
<1> QED
  BY <1>3, <1>4, <1>5, <1>6, <1>7 DEF OutcomeInv

(* A node's update: the flag becomes the decision of a gate just passed and  *)
(* stays otherwise; approved work at the node has been done.                 *)
LEMMA EmitOutcome ==
  ASSUME TypeInv, ClaimInv, OutcomeInv, NEW t \in Task, task[t].pc \in {"node", "body"},
         Node(t) \in Steps, NEW f \in Flag, NEW o \in Flag, Emit(t, f, o),
         IF Node(t) \in Gates THEN said[Node(t)] = f ELSE f = ckpt.appr,
         ran' = ran \/ ran' = ran \cup {Node(t)},
         Node(t) \in Guarded /\ Approved(Node(t)) => Node(t) \in ran',
         \A g \in Pauses : g <= Node(t) => pass'[g] # 0,
         UNCHANGED <<doc, said, ended>>
  PROVE  OutcomeInv'
<1> USE RunAssumption
<1> DEFINE i == Node(t)
           d == [task[t].copy EXCEPT !.st[i] = "finished", !.cur = i, !.out[i] = o]
           r == [task[t] EXCEPT !.pc = "chunk", !.pos = i, !.flag = f,
                                !.dec = "none", !.copy = d]
<1>a. /\ task[t] \in TaskState /\ ckpt.pos \in 0..N /\ Fits(task[t], doc.status, ckpt.pos)
      /\ Stream(task[t], ckpt.pos, ckpt.appr, said) /\ ran \subseteq Steps
  BY SlotTyped DEF TypeInv, TypeOK, Checkpoint, ClaimInv, OutcomeInv
<1>1. ckpt'.pos = i /\ ckpt'.appr = f /\ i = ckpt.pos + 1 /\ Become(t, r)
  BY <1>a DEF Emit, Fits, AtNode, Node
<1>2. Active(t) /\ task[t].pc \in Busy
  BY DEF Active, Busy, Streaming
<1>3. r.pc = "chunk" /\ r.op = task[t].op /\ r.flag = f /\ r.dec = "none"
  <2> HIDE DEF d
  <2> QED
    BY <1>a DEF TaskState
<1> HIDE DEF r
<1>4. task'[t] = r /\ \A s \in Task \ {t} : task'[s] = task[s]
  BY <1>1 DEF Become, TypeInv, TypeOK
<1>5. /\ \A s \in Task \ {t} : task[s].pc \in {"idle", "term"}
      /\ \A s \in Task \ {t} : ~Deciding(task[s])
  BY <1>2, OthersAside DEF Deciding
<1>6. Deciding(task[t]) => task[t].gate = i
  BY <1>a, <1>1 DEF Fits
<1>7. SaidBehind'
  <2> SUFFICES ASSUME NEW j \in Steps, said[j] # "none"
               PROVE  j \in Pauses /\ j <= i
    BY <1>1 DEF SaidBehind
  <2>1. j \in Pauses /\ (j <= ckpt.pos \/ \E s \in Task : Deciding(task[s]) /\ task[s].gate = j)
    BY DEF OutcomeInv, SaidBehind
  <2>2. j <= ckpt.pos \/ j = i
    BY <1>5, <1>6, <2>1
  <2> QED
    BY <1>a, <1>1, <2>1, <2>2 DEF Steps
<1>8. ThreadSays'
  <2>1. CASE i \in Gates
    BY <1>1, <2>1 DEF ThreadSays, Nearest, Steps
  <2>2. CASE i \notin Gates
    <3>1. ASSUME NEW g \in Gates
          PROVE  /\ g <= ckpt.pos <=> g <= i
                 /\ g < ckpt.pos + 1 <=> g < i + 1
      <4>1. g \in 1..N /\ g # i /\ i = ckpt.pos + 1 /\ ckpt.pos \in 0..N
        BY <1>a, <1>1, <2>2 DEF Steps
      <4> HIDE DEF i
      <4> QED
        BY <4>1
    <3> QED
      BY <1>1, <2>2, <3>1 DEF OutcomeInv, ThreadSays, Nearest
  <2> QED
    BY <2>1, <2>2
<1>9. WorkDone'
  <2>1. \A j \in Steps : j <= i => j <= ckpt.pos \/ j = i
    BY <1>a, <1>1 DEF Steps
  <2>2. \A j \in Guarded : j <= i /\ Approved(j) => j \in ran'
    BY <2>1 DEF OutcomeInv, WorkDone
  <2>3. \A j \in ran' : j <= i
    <3>1. i <= i /\ \A j \in ran : j <= i
      BY <1>a, <1>1 DEF OutcomeInv, WorkDone, Steps
    <3> QED
      BY <3>1
  <2> QED
    BY <1>1, <2>2, <2>3 DEF WorkDone, Approved
<1>10. \A s \in Task : Stream(task'[s], ckpt'.pos, ckpt'.appr, said')
  <2>1. Stream(r, i, f, said)
    BY <1>a, <1>2, <1>3 DEF Stream, Deciding, AtNode, Busy
  <2> QED
    BY <1>1, <1>4, <1>5, <2>1, AsideStreams
<1>11. CompletedInFavour'
  <2>1. ckpt.pos # N
    BY <1>a, <1>1 DEF Steps
  <2> QED
    BY <2>1 DEF OutcomeInv, CompletedInFavour
<1>12. NothingYet'
  BY <1>2, OthersAside DEF NothingYet
<1> QED
  BY <1>7, <1>8, <1>9, <1>10, <1>11, <1>12 DEF OutcomeInv

(* Every step of a stream keeps OutcomeInv.                                  *)
LEMMA StreamStepOutcome ==
  ASSUME OutcomeScope, TypeInv, ClaimInv, OutcomeInv, NEW t \in Task, StreamStep(t)
  PROVE  OutcomeInv'
<1> USE RunAssumption
<1> DEFINE c == task[t].copy
<1>a. /\ task[t] \in TaskState /\ c \in Doc /\ ckpt.pos \in 0..N /\ pass \in [Steps -> 0..N]
      /\ Fits(task[t], doc.status, ckpt.pos) /\ DecisionScope
      /\ Stream(task[t], ckpt.pos, ckpt.appr, said)
  BY SlotTyped DEF TypeInv, TypeOK, Checkpoint, ClaimInv, OutcomeInv, OutcomeScope
<1>b. Active(t) /\ task[t].pc \in Busy
  <2>1. task[t].pc \in Streaming \cup {"reset", "announce", "verdict"}
    BY DEF StreamStep, Begin, NodeStart, NodeSkip, NodeRun, NodeRaise, NodeResume,
       NodePause, WriteChunk, WritePause, WriteReset, WriteAnnounced, WriteCompleted,
       WriteRejected, WriteFailed, Streaming
  <2> QED
    BY <1>a, <2>1 DEF Fits, Busy, Active, Streaming
<1>c. task[t].pc # "verdict" => c.status = "running"
  BY <1>a, <1>b DEF Fits
<1>d. WorkDone /\ ThreadSays /\ CompletedInFavour
  BY DEF OutcomeInv
<1>e. task[t].pc \in {"node", "body"} => Node(t) = ckpt.pos + 1 /\ task[t].flag = ckpt.appr
  BY <1>a DEF Fits, Stream, AtNode, Node
<1>f. doc.status = "completed" =>
        ckpt.pos = N /\ (task[t].pc = "verdict" \/ NothingSaid(said) \/ LastSaid(said, "yes"))
  BY <1>b, <1>d, OthersAside DEF CompletedInFavour
<1>1. CASE Begin(t)
  <2> DEFINE r == [task[t] EXCEPT !.pc = "node", !.pos = ckpt.pos, !.flag = ckpt.appr]
  <2>1. /\ Become(t, r) /\ UNCHANGED <<doc, ckpt, live, recov, crashes, history>>
        /\ task[t].pc = "begin"
    BY <1>1 DEF Begin
  <2>2. /\ r.pc = "node" /\ r.op = task[t].op /\ r.flag = ckpt.appr
        /\ r.dec = task[t].dec /\ r.gate = task[t].gate
    BY <1>a DEF TaskState
  <2> HIDE DEF r
  <2>3. Deciding(task[t]) => Deciding(r) /\ r.gate = task[t].gate
    BY <2>2 DEF Deciding
  <2>4. Stream(r, ckpt.pos, ckpt.appr, said)
    BY <1>a, <1>b, <2>1, <2>2 DEF Stream, Deciding, Busy, Streaming
  <2> QED
    BY <1>b, <1>f, <2>1, <2>3, <2>4, StayingOutcome DEF history
<1>2. CASE NodeStart(t)
  <2> DEFINE d == [c EXCEPT !.st[Node(t)] = "running", !.cur = Node(t)]
             r == [task[t] EXCEPT !.pc = "body", !.copy = d]
  <2>1. /\ doc' = d /\ Become(t, r) /\ UNCHANGED <<ckpt, live, recov, crashes, history>>
        /\ task[t].pc = "node" /\ ~Skipped(t)
    BY <1>2 DEF NodeStart
  <2>2. d.status = "running"
    BY <1>a, <1>c, <2>1 DEF Doc
  <2> HIDE DEF d
  <2>3. /\ r.pc = "body" /\ r.op = task[t].op /\ r.flag = task[t].flag
        /\ r.dec = task[t].dec /\ r.gate = task[t].gate
    BY <1>a DEF TaskState
  <2> HIDE DEF r
  <2>4. Deciding(task[t]) => Deciding(r) /\ r.gate = task[t].gate
    BY <2>3 DEF Deciding
  <2>5. Stream(r, ckpt.pos, ckpt.appr, said)
    BY <1>a, <1>b, <1>e, <2>1, <2>3 DEF Stream, Deciding, AtNode, Busy, Streaming, Skipped
  <2> QED
    BY <1>b, <2>1, <2>2, <2>4, <2>5, StayingOutcome DEF history
<1>3. CASE NodeSkip(t)
  <2>1. /\ task[t].pc = "node" /\ Node(t) \in Steps /\ Skipped(t)
        /\ Emit(t, task[t].flag, StoredOut(t))
        /\ UNCHANGED <<doc, live, recov, crashes, history>>
    BY <1>3 DEF NodeSkip
  <2>2. task[t].flag \in Flag /\ StoredOut(t) \in Flag
    BY <1>a, <2>1 DEF TaskState, Doc, StoredOut
  <2>3. Node(t) \notin Pauses /\ ckpt.appr # "yes"
    BY <1>e, <2>1 DEF Skipped
  <2>4. ~Approved(Node(t))
    <3>1. \A g \in Gates : g < Node(t) <=> g <= ckpt.pos
      BY <1>a, <1>e, <2>1 DEF Steps
    <3> QED
      BY <1>d, <1>e, <2>1, <2>3, <3>1 DEF ThreadSays, Nearest, Approved
  <2>5. \A g \in Pauses : g <= Node(t) => pass[g] # 0
    <3>1. \A g \in Pauses : g <= Node(t) => g <= ckpt.pos
      BY <1>a, <1>e, <2>1, <2>3 DEF Pauses, Steps
    <3> QED
      BY <1>d, <3>1 DEF WorkDone
  <2> QED
    BY <1>e, <2>1, <2>2, <2>3, <2>4, <2>5, EmitOutcome DEF history, Pauses
<1>4. CASE NodeRun(t)
  <2>1. /\ task[t].pc = "body" /\ Node(t) \in Steps /\ Node(t) \notin Pauses
        /\ Emit(t, task[t].flag, StoredOut(t)) /\ ran' = ran \cup {Node(t)}
        /\ UNCHANGED <<doc, live, recov, crashes, okd, said, pass, ended>>
    BY <1>4, SlotTyped DEF NodeRun
  <2>2. task[t].flag \in Flag /\ StoredOut(t) \in Flag
    BY <1>a, <2>1 DEF TaskState, Doc, StoredOut
  <2>3. \A g \in Pauses : g <= Node(t) => pass[g] # 0
    <3>1. \A g \in Pauses : g <= Node(t) => g <= ckpt.pos
      BY <1>a, <1>e, <2>1 DEF Pauses, Steps
    <3> QED
      BY <1>d, <3>1 DEF WorkDone
  <2> QED
    BY <1>e, <2>1, <2>2, <2>3, EmitOutcome DEF Pauses
<1>5. CASE NodeRaise(t)
  <2> DEFINE r == [task[t] EXCEPT !.pc = "fail"]
  <2>1. /\ Become(t, r) /\ UNCHANGED <<doc, ckpt, live, recov, crashes, history>>
        /\ task[t].pc = "body" /\ Node(t) \notin Pauses
    BY <1>5 DEF NodeRaise
  <2>2. r.pc = "fail" /\ r.op = task[t].op /\ r.flag = task[t].flag
    BY <1>a DEF TaskState
  <2> HIDE DEF r
  <2>3. ~Deciding(task[t]) /\ ~Deciding(r)
    BY <1>a, <1>e, <2>1, <2>2 DEF Fits, Deciding
  <2>4. Stream(r, ckpt.pos, ckpt.appr, said)
    BY <1>a, <1>b, <1>e, <2>1, <2>2, <2>3 DEF Stream, Busy, Streaming
  <2> QED
    BY <1>b, <1>f, <2>1, <2>3, <2>4, StayingOutcome DEF history
<1>6. CASE NodeResume(t)
  <2>1. /\ task[t].pc = "body" /\ Node(t) \in Pauses /\ Node(t) \in Steps
        /\ task[t].dec # "none"
        /\ IF Node(t) \in Gates
             THEN Emit(t, task[t].dec, task[t].dec)
             ELSE Emit(t, task[t].flag, StoredOut(t))
        /\ pass' = [pass EXCEPT ![Node(t)] = task[t].gate]
        /\ UNCHANGED <<doc, live, recov, crashes, okd, said, ran, ended>>
    BY <1>6, SlotTyped DEF NodeResume
  <2>2. task[t].flag \in Flag /\ StoredOut(t) \in Flag /\ task[t].dec \in Flag
    BY <1>a, <2>1 DEF TaskState, Doc, StoredOut, Flag
  <2>3. task[t].gate = Node(t) /\ said[Node(t)] = task[t].dec
    BY <1>a, <1>e, <2>1 DEF Fits, Stream, Deciding
  <2>4. Node(t) \notin Guarded
    BY <2>1
  <2>5. \A g \in Pauses : g <= Node(t) => pass'[g] # 0
    <3>1. \A g \in Pauses : g \in Steps /\ (g <= Node(t) => g <= ckpt.pos \/ g = Node(t))
      BY <1>a, <1>e, <2>1 DEF Pauses, Steps
    <3>2. Node(t) # 0
      BY <2>1 DEF Steps
    <3>3. pass'[Node(t)] # 0 /\ \A g \in Steps : g # Node(t) => pass'[g] = pass[g]
      BY <1>a, <2>1, <2>3, <3>2
    <3> QED
      BY <1>d, <3>1, <3>3 DEF WorkDone
  <2>6. CASE Node(t) \in Gates
    <3>1. Emit(t, task[t].dec, task[t].dec)
      BY <2>1, <2>6
    <3> QED
      BY <2>1, <2>2, <2>3, <2>4, <2>5, <2>6, <3>1, EmitOutcome
  <2>7. CASE Node(t) \notin Gates
    <3>1. Emit(t, task[t].flag, StoredOut(t)) /\ task[t].flag = ckpt.appr
      BY <1>e, <2>1, <2>7
    <3> QED
      BY <2>1, <2>2, <2>4, <2>5, <2>7, <3>1, EmitOutcome
  <2> QED
    BY <2>6, <2>7
<1>7. CASE NodePause(t) \/ WriteChunk(t)
  <2>1. PICK p \in {"pause", "node"} :
          /\ Become(t, [task[t] EXCEPT !.pc = p])
          /\ UNCHANGED <<ckpt, live, recov, crashes, history>>
          /\ doc' = doc \/ doc'.status = "running"
          /\ task[t].dec = "none" /\ task[t].pc \in AtNode
    BY <1>7, <1>a, <1>c DEF NodePause, WriteChunk, Fits, AtNode
  <2> DEFINE r == [task[t] EXCEPT !.pc = p]
  <2>2. /\ r.pc = p /\ r.op = task[t].op /\ r.flag = task[t].flag
        /\ r.dec = task[t].dec /\ r.gate = task[t].gate
    BY <1>a DEF TaskState
  <2>3. Become(t, r)
    BY <2>1
  <2> HIDE DEF r
  <2>4. ~Deciding(task[t]) /\ ~Deciding(r)
    BY <2>1, <2>2 DEF Deciding
  <2>5. Stream(r, ckpt.pos, ckpt.appr, said)
    BY <1>a, <1>b, <2>1, <2>2, <2>4 DEF Stream, Busy, Streaming
  <2>6. task[t].pc # "verdict"
    BY <1>7 DEF NodePause, WriteChunk
  <2>7. doc'.status = "completed" => ckpt.pos = N /\ (NothingSaid(said) \/ LastSaid(said, "yes"))
    BY <1>f, <2>1, <2>6
  <2> QED
    BY <1>b, <2>1, <2>3, <2>4, <2>5, <2>7, StayingOutcome DEF history
<1>8. CASE WritePause(t) \/ WriteRejected(t) \/ WriteFailed(t)
  <2>1. /\ Become(t, Idle) /\ UNCHANGED <<ckpt, said, pass, ran, ended>>
        /\ doc'.status # "completed" /\ ~Deciding(task[t])
    <3>1. CASE WritePause(t)
      BY <3>1, <1>a, PauseIsLast DEF WritePause, Release, Doc, history, Deciding
    <3>2. CASE WriteRejected(t) \/ WriteFailed(t)
      BY <3>2, <1>a DEF WriteRejected, WriteFailed, Release, Doc, history, Deciding
    <3> QED
      BY <1>8, <3>1, <3>2
  <2>2. Stream(Idle, ckpt.pos, ckpt.appr, said)
    BY AsideStreams DEF Idle
  <2> QED
    BY <1>b, <2>1, <2>2, StayingOutcome
<1>9. CASE WriteReset(t) \/ WriteAnnounced(t)
  BY <1>9, <1>b DEF WriteReset, WriteAnnounced, Active, Streaming
<1>10. CASE WriteCompleted(t)
  <2> DEFINE d == [c EXCEPT !.status = "completed", !.cur = 0]
             r == [task[t] EXCEPT !.pc = "verdict", !.copy = d]
  <2>1. /\ \/ Become(t, r)
           \/ Become(t, Idle) /\ task[t].op \notin {"reject", "cbReject"}
        /\ UNCHANGED <<ckpt, recov, crashes, history>>
        /\ task[t].pc = "node" /\ task[t].pos = N
    BY <1>10 DEF WriteCompleted, Release
  <2>2. ~Deciding(task[t]) /\ ckpt.pos = N
    BY <1>a, <2>1 DEF Fits, AtNode, Deciding, Pauses, Steps
  <2> HIDE DEF d
  <2>3. r.pc = "verdict" /\ r.op = task[t].op /\ r.flag = task[t].flag
    BY <1>a DEF TaskState
  <2> HIDE DEF r
  <2>4. ~Deciding(r) /\ Stream(r, ckpt.pos, ckpt.appr, said)
    BY <1>a, <1>b, <1>e, <2>1, <2>3 DEF Stream, Deciding, Busy, Streaming
  <2>5. CASE Become(t, r)
    BY <1>b, <2>1, <2>2, <2>3, <2>4, <2>5, StayingOutcome DEF history
  <2>6. CASE Become(t, Idle) /\ task[t].op \notin {"reject", "cbReject"}
    <3>1. NothingSaid(said) \/ LastSaid(said, "yes")
      BY <1>a, <1>b, <2>6 DEF Fits, Stream, DecisionOps
    <3>2. Stream(Idle, ckpt.pos, ckpt.appr, said)
      BY AsideStreams DEF Idle
    <3> QED
      BY <1>b, <2>1, <2>2, <2>6, <3>1, <3>2, StayingOutcome DEF history
  <2> QED
    BY <2>1, <2>5, <2>6
<1> QED
  BY <1>1, <1>2, <1>3, <1>4, <1>5, <1>6, <1>7, <1>8, <1>9, <1>10 DEF StreamStep

(* Marking the decided step, and writing failed over the document, disturb   *)
(* nothing that has been decided or done.                                    *)
LEMMA HandlerStepOutcome ==
  ASSUME OutcomeScope, TypeInv, ClaimInv, OutcomeInv, NEW t \in Task, HandlerStep(t)
  PROVE  OutcomeInv'
<1> DEFINE c == task[t].copy
<1>a. /\ task[t] \in TaskState /\ c \in Doc /\ Fits(task[t], doc.status, ckpt.pos)
      /\ Stream(task[t], ckpt.pos, ckpt.appr, said) /\ task \in [Task -> TaskState]
  BY SlotTyped DEF ClaimInv, OutcomeInv, TypeInv, TypeOK
<1>1. CASE MarkFinished(t)
  <2> DEFINE d == [c EXCEPT !.st = [i \in Steps |-> IF i = c.cur THEN "finished" ELSE c.st[i]]]
             r == [task[t] EXCEPT !.pc = "begin", !.copy = d]
  <2>1. /\ doc' = d /\ Become(t, r) /\ UNCHANGED <<ckpt, live, recov, crashes, history>>
        /\ task[t].pc = "mark"
    BY <1>1 DEF MarkFinished
  <2>2. d.status = c.status
    BY <1>a DEF Doc
  <2> HIDE DEF d
  <2>3. /\ r.pc = "begin" /\ r.op = task[t].op /\ r.dec = task[t].dec
        /\ r.gate = task[t].gate
    BY <1>a DEF TaskState
  <2> HIDE DEF r
  <2>4. Active(t) /\ doc'.status = "running"
    BY <1>a, <2>1, <2>2 DEF Active, Fits, Busy
  <2>5. Stream(r, ckpt.pos, ckpt.appr, said) /\ (Deciding(task[t]) => Deciding(r))
    BY <1>a, <2>1, <2>3 DEF Stream, Deciding, AtNode, Busy, Streaming
  <2> QED
    BY <2>1, <2>3, <2>4, <2>5, StayingOutcome DEF history
<1>2. CASE Terminate(t)
  <2>1. /\ doc'.status = "failed" /\ task' = [task EXCEPT ![t] = Idle]
        /\ ended' = "terminated" /\ UNCHANGED <<ckpt, said, pass, ran>> /\ task[t].pc = "term"
    BY <1>2, <1>a DEF Terminate, Release, Become, Doc
  <2>2. Stream(Idle, ckpt.pos, ckpt.appr, said)
    BY AsideStreams DEF Idle
  <2>3. \A s \in Task : Stream(task'[s], ckpt'.pos, ckpt'.appr, said')
    BY <1>a, <2>1, <2>2 DEF OutcomeInv
  <2>4. SaidBehind'
    BY <1>a, <2>1 DEF OutcomeInv, SaidBehind, Deciding
  <2> QED
    BY <2>1, <2>3, <2>4
    DEF OutcomeInv, NothingYet, ThreadSays, WorkDone, Nearest, Approved, CompletedInFavour
<1>3. ~(\/ ResumeUnclaimed(t) \/ OutputError(t) \/ WriteNote(t) \/ Retry(t)
        \/ \E k \in Steps : RestartFromStep(t, k))
  BY <1>a DEF Fits, ResumeUnclaimed, OutputError, WriteNote, Retry, RestartFromStep, Busy,
     Streaming
<1> QED
  BY <1>1, <1>2, <1>3 DEF HandlerStep

(* A decision is accepted at the pause just ahead of the thread, and is the  *)
(* latest one there is.                                                      *)
LEMMA RequestOutcome ==
  ASSUME OutcomeScope, TypeInv, ClaimInv, OutcomeInv, NEW t \in Task, Request(t)
  PROVE  OutcomeInv'
<1> USE RunAssumption
<1>a. /\ doc \in Doc /\ task \in [Task -> TaskState] /\ ckpt.pos \in 0..N
      /\ said \in [Steps -> {"none", "yes", "no"}] /\ IsFree(t) /\ DecisionScope
      /\ \A s \in Task : Stream(task[s], ckpt.pos, ckpt.appr, said)
      /\ \A s \in Task : Fits(task[s], doc.status, ckpt.pos)
  BY DEF TypeInv, TypeOK, ClaimInv, OutcomeInv, Checkpoint, Request, StartRun, Claim, ReadRun,
     OutcomeScope
<1>1. CASE StartRun(t)
  <2> DEFINE d == NewDoc("running")
             r == [Idle EXCEPT !.pc = "begin", !.op = "start", !.copy = d]
  <2>1. /\ doc'.status = "running" /\ task' = [task EXCEPT ![t] = r] /\ ended = "never"
        /\ ended' = "no" /\ UNCHANGED <<ckpt, recov, crashes, okd, said, pass, ran>>
    BY <1>1 DEF StartRun, Become, NewDoc
  <2> HIDE DEF d
  <2>2. r.pc = "begin" /\ r.op = "start" /\ r.dec = "none"
    BY DEF Idle
  <2> HIDE DEF r
  <2>3. \A s \in Task \ {t} : task'[s] = task[s] /\ task[s].pc = "idle"
    BY <1>a, <2>1 DEF ClaimInv, Unborn, IsFree
  <2>4. NothingSaid(said)
    BY <2>1 DEF OutcomeInv, NothingYet
  <2>5. Stream(r, ckpt.pos, ckpt.appr, said)
    BY <2>2, <2>4 DEF Stream, Deciding, AtNode
  <2>6. \A s \in Task : Stream(task'[s], ckpt'.pos, ckpt'.appr, said')
    BY <1>a, <2>1, <2>3, <2>5
  <2>7. SaidBehind'
    BY <2>1, <2>4 DEF NothingSaid, SaidBehind
  <2> QED
    BY <2>1, <2>6, <2>7
    DEF OutcomeInv, NothingYet, ThreadSays, WorkDone, Nearest, Approved, CompletedInFavour
<1>2. ASSUME NEW o \in DecisionOps, Claim(t, o) PROVE OutcomeInv'
  <2> DEFINE v == Verdict(o)
             r == [Idle EXCEPT !.pc = "mark", !.op = o, !.dec = v, !.gate = doc.cur,
                               !.copy = [doc EXCEPT !.status = "running"]]
  <2>1. /\ doc'.status = "running" /\ doc.status = "waiting_approval"
        /\ UNCHANGED <<ckpt, live, recov, crashes, pass, ran, ended>>
    BY <1>2, <1>a DEF Claim, Doc
  <2>2. doc.cur = ckpt.pos + 1 /\ doc.cur \in Pauses
    BY <2>1 DEF ClaimInv, WaitsAtPause
  <2>3. \A s \in Task : task[s].pc \in {"idle", "term"}
    BY <1>a, <2>1 DEF Fits, Busy
  <2>0. ended # "never"
    BY <2>1 DEF ClaimInv, Unborn
  <2>4. CASE UNCHANGED <<task, said>>
    BY <2>0, <2>1, <2>4 DEF OutcomeInv, NothingYet, ThreadSays, SaidBehind, WorkDone, Nearest, Approved,
       CompletedInFavour
  <2>5. CASE /\ task' = [task EXCEPT ![t] = r]
             /\ said' = [i \in Steps |-> IF i = doc.cur THEN v ELSE said[i]]
    <3>1. /\ r.pc = "mark" /\ r.op = o /\ r.dec = v /\ r.gate = doc.cur
          /\ v \in {"yes", "no"} /\ (o \in {"approve", "cbApprove"} => v = "yes")
      BY DEF Idle, Verdict
    <3> HIDE DEF r, v
    <3>2. /\ doc.cur \in Steps /\ said'[doc.cur] = v
          /\ \A i \in Steps : i # doc.cur => said'[i] = said[i]
      BY <2>2, <2>5 DEF Pauses
    <3>3. \A i \in Steps : said[i] # "none" => i \in Pauses /\ i <= ckpt.pos
      BY <2>3 DEF OutcomeInv, SaidBehind, Deciding
    <3>4. \A i \in Steps : i <= ckpt.pos => i < doc.cur /\ i # doc.cur /\ i <= doc.cur
      BY <1>a, <2>2 DEF Steps
    <3>5. task'[t] = r /\ \A s \in Task \ {t} : task'[s] = task[s]
      BY <1>a, <2>5
    <3>6. SaidBehind'
      BY <2>1, <2>2, <3>1, <3>2, <3>3, <3>5 DEF SaidBehind, Deciding
    <3>7. v = "yes" => LastSaid(said', "yes")
      BY <3>1, <3>2, <3>3, <3>4 DEF LastSaid, Steps
    <3>8. Stream(r, ckpt'.pos, ckpt'.appr, said')
      BY <2>1, <3>1, <3>2, <3>7 DEF Stream, Deciding, AtNode, DecisionOps
    <3>9. \A s \in Task : Stream(task'[s], ckpt'.pos, ckpt'.appr, said')
      BY <2>3, <3>5, <3>8, AsideStreams
    <3>10. ThreadSays'
      <4>1. \A g \in Gates : g < ckpt.pos + 1 => said'[g] = said[g]
        BY <1>a, <2>2, <3>2 DEF Steps
      <4> QED
        BY <2>1, <4>1 DEF OutcomeInv, ThreadSays, Nearest
    <3>11. WorkDone'
      <4>1. \A i \in Steps, g \in Gates : i <= ckpt.pos /\ g < i => said'[g] = said[g]
        BY <1>a, <2>2, <3>2 DEF Steps
      <4>2. \A i \in Guarded : i <= ckpt.pos => (Approved(i)' <=> Approved(i))
        BY <4>1 DEF Approved
      <4> QED
        BY <2>1, <4>2 DEF OutcomeInv, WorkDone
    <3> QED
      BY <2>0, <2>1, <3>6, <3>9, <3>10, <3>11 DEF OutcomeInv, NothingYet, CompletedInFavour
  <2> QED
    BY <1>2, <2>4, <2>5 DEF Claim, Become
<1>3. ASSUME NEW o \in AllOps, ReadRun(t, o) PROVE OutcomeInv'
  <2>1. o = "terminate"
    BY <1>3, <1>a DEF ReadRun, Accepts, DecisionScope, DecisionOps, EndingOps
  <2> DEFINE r == [Idle EXCEPT !.pc = "term", !.op = o, !.gate = doc.cur, !.copy = doc]
  <2>2. /\ task' = [task EXCEPT ![t] = r]
        /\ UNCHANGED <<doc, ckpt, live, recov, crashes, history>>
    BY <1>3, <2>1 DEF ReadRun, Become, Handling
  <2>3. r.pc = "term"
    BY DEF Idle
  <2> HIDE DEF r
  <2>4. task'[t] = r /\ \A s \in Task \ {t} : task'[s] = task[s]
    BY <1>a, <2>2
  <2>5. \A s \in Task : Stream(task'[s], ckpt'.pos, ckpt'.appr, said')
    BY <1>a, <2>2, <2>3, <2>4, AsideStreams DEF history
  <2>6. SaidBehind' /\ CompletedInFavour'
    BY <1>a, <2>2, <2>4
    DEF OutcomeInv, SaidBehind, CompletedInFavour, Deciding, IsFree, history
  <2> QED
    BY <2>2, <2>5, <2>6 DEF OutcomeInv, NothingYet, ThreadSays, WorkDone, Nearest, Approved, history
<1> QED
  BY <1>1, <1>2, <1>3 DEF Request

(* The process does not restart, so recovery finds no run.                   *)
LEMMA ServerOutcome ==
  ASSUME OutcomeScope, TypeInv, ClaimInv, OutcomeInv, Delete \/ Crash \/ Recovery
  PROVE  OutcomeInv' /\ UNCHANGED ran
<1>1. ~Crash /\ crashes = 0
  BY DEF Crash, OutcomeScope, TypeInv, TypeOK
<1>2. recov.phase # "done" => doc.status = "absent" /\ (recov.phase = "recover" => recov.copy = doc)
  BY <1>1 DEF ClaimInv, RecoveryAlone
<1>3. UNCHANGED <<ckpt, task, said, pass, ran, ended>> \/ Delete
  BY <1>1, <1>2 DEF Recovery, RecoverList, RecoverWaiting, RecoverRefire, RecoverRunning, history
<1>4. UNCHANGED <<ckpt, task, said, pass, ran>> /\ (doc' = doc \/ doc'.status = "absent")
  BY <1>1, <1>2, <1>3
  DEF Delete, NoDoc, NewDoc, Recovery, RecoverList, RecoverWaiting, RecoverRefire, RecoverRunning
<1>5. ended' # "never" \/ ended' = ended
  BY <1>3 DEF Delete
<1> QED
  BY <1>4, <1>5
  DEF OutcomeInv, NothingYet, ThreadSays, SaidBehind, WorkDone, Nearest, Approved, CompletedInFavour

LEMMA InitOutcome == Init => OutcomeInv
<1> SUFFICES ASSUME Init PROVE OutcomeInv
  OBVIOUS
<1>1. /\ ckpt.pos = 0 /\ ckpt.appr = "unset" /\ doc.status = "absent" /\ ran = {}
      /\ \A i \in Steps : said[i] = "none"
      /\ \A t \in Task : task[t] = Idle
  BY DEF Init, NoDoc, NewDoc
<1>2. \A t \in Task : Stream(task[t], ckpt.pos, ckpt.appr, said)
  BY <1>1, AsideStreams DEF Idle
<1>3. \A i \in Steps : ~(i <= ckpt.pos)
  BY <1>1, RunAssumption DEF Steps
<1> QED
  BY <1>1, <1>2, <1>3, RunAssumption
  DEF OutcomeInv, NothingYet, NothingSaid, ThreadSays, SaidBehind, WorkDone, CompletedInFavour,
      Pauses

LEMMA NextOutcome ==
  ASSUME OutcomeScope
  PROVE  TypeInv /\ ClaimInv /\ OutcomeInv /\ [Next]_vars => OutcomeInv'
<1> SUFFICES ASSUME TypeInv, ClaimInv, OutcomeInv, [Next]_vars PROVE OutcomeInv'
  OBVIOUS
<1>1. CASE UNCHANGED vars
  BY <1>1
  DEF vars, OutcomeInv, NothingYet, ThreadSays, SaidBehind, WorkDone, Nearest, Approved,
      CompletedInFavour
<1>2. CASE Next
  BY <1>2, StreamStepOutcome, HandlerStepOutcome, RequestOutcome, ServerOutcome DEF Next
<1> QED
  BY <1>1, <1>2

LEMMA AlwaysOutcome ==
  ASSUME OutcomeScope PROVE Spec => [](TypeInv /\ ClaimInv /\ OutcomeInv)
<1>1. DecisionScope
  BY DEF OutcomeScope
<1> QED
  BY <1>1, AlwaysFits, InitOutcome, NextOutcome, PTL DEF Spec

(* A rejection is final: a run that was rejected at its latest decided pause *)
(* never ends completed (WriteCompleted, WriteRejected).                     *)
THEOREM RejectedStaysRejected ==
  ASSUME OutcomeScope
  PROVE  Spec => []RejectionIsFinal
<1>1. ASSUME OutcomeInv, Quiet, doc.status = "completed", NEW p \in Pauses, said[p] = "no"
      PROVE  \E q \in Pauses : q > p /\ said[q] = "yes"
  <2>1. p \in Steps
    BY RunAssumption DEF Pauses
  <2>2. LastSaid(said, "yes")
    BY <1>1, <2>1 DEF OutcomeInv, CompletedInFavour, Quiet, NothingSaid
  <2>3. PICK q \in Steps : said[q] = "yes" /\ p <= q
    BY <1>1, <2>1, <2>2 DEF LastSaid
  <2>4. q \in Pauses /\ q # p
    BY <1>1, <2>3 DEF OutcomeInv, SaidBehind
  <2> QED
    BY <2>1, <2>3, <2>4 DEF Steps
<1>2. OutcomeInv => RejectionIsFinal
  BY <1>1 DEF RejectionIsFinal
<1> QED
  BY <1>2, AlwaysOutcome, PTL

(* A completed run has executed every guarded step whose gates were all      *)
(* approved: the decision reaches the thread as `approved` (NodeResume) and  *)
(* is still its flag at the step it was for.                                 *)
THEOREM ApprovedWorkIsDone ==
  ASSUME OutcomeScope
  PROVE  Spec => []ApprovalTakesEffect
<1>1. OutcomeInv => ApprovalTakesEffect
  BY RunAssumption
  DEF OutcomeInv, WorkDone, CompletedInFavour, Approved, ApprovalTakesEffect, Steps
<1> QED
  BY <1>1, AlwaysOutcome, PTL

(* A guarded step is executed only after an approval at the gate nearest     *)
(* before it, in every step the system takes.                                *)
THEOREM GuardedWorkFollowsApproval ==
  ASSUME OutcomeScope
  PROVE  Spec => WorkFollowsDecision
<1> DEFINE Follows == \A i \in Guarded : i \in ran' \ ran =>
                        \A g \in Gates : g < i /\ (\A h \in Gates : h < i => h <= g)
                          => said[g] = "yes"
<1>1. ASSUME TypeInv, ClaimInv, OutcomeInv, [Next]_vars PROVE Follows
  <2>1. ASSUME NEW t \in Task, NodeRun(t), NEW i \in Guarded, i \in ran' \ ran,
               NEW g \in Gates, g < i, \A h \in Gates : h < i => h <= g
        PROVE  said[g] = "yes"
    <3>1. i = Node(t) /\ task[t].pc = "body"
      BY <2>1 DEF NodeRun
    <3>2. i = ckpt.pos + 1 /\ ckpt.appr = "yes" /\ ckpt.pos \in 0..N
      BY <1>1, <3>1 DEF TypeInv, TypeOK, Checkpoint, ClaimInv, Fits, OutcomeInv, Stream, AtNode, Node
    <3>3. PICK h \in Gates : Nearest(h, i) /\ said[h] = "yes"
      BY <1>1, <3>2 DEF OutcomeInv, ThreadSays
    <3>4. h <= g /\ g <= h /\ g \in 1..N /\ h \in 1..N
      BY <2>1, <3>3, RunAssumption DEF Nearest, Steps
    <3>5. g = h
      BY <3>4, RunAssumption
    <3> QED
      BY <3>3, <3>5
  <2>2. ASSUME NEW t \in Task, StreamStep(t), ~NodeRun(t) PROVE UNCHANGED ran
    BY <2>2 DEF StreamStep, Begin, NodeStart, NodeSkip, NodeRaise, NodeResume, NodePause,
       WriteChunk, WritePause, WriteReset, WriteAnnounced, WriteCompleted, WriteRejected,
       WriteFailed, history
  <2>3. ASSUME NEW t \in Task, HandlerStep(t) \/ Request(t) PROVE UNCHANGED ran
    BY <2>3 DEF HandlerStep, MarkFinished, ResumeUnclaimed, OutputError, WriteNote, Terminate,
       Retry, RestartFromStep, Request, StartRun, Claim, ReadRun, history
  <2>4. CASE Delete \/ Crash \/ Recovery
    BY <1>1, <2>4, ServerOutcome
  <2>5. CASE UNCHANGED vars
    BY <2>5 DEF vars
  <2> QED
    BY <1>1, <2>1, <2>2, <2>3, <2>4, <2>5 DEF Next
<1>2. TypeInv /\ ClaimInv /\ OutcomeInv /\ [Next]_vars => [Follows]_vars
  BY <1>1
<1> QED
  BY <1>2, AlwaysOutcome, PTL DEF Spec, WorkFollowsDecision

-----------------------------------------------------------------------------
(***************************************************************************)
(* Finished work is not done again.  One handler at a time is under way:   *)
(* because the clients wait for each other, or because every request       *)
(* claims the run first.  The process may restart.                         *)
(***************************************************************************)
Sole == \A s, t \in Task : ~IsFree(s) /\ ~IsFree(t) => s = t

OneAtATime ==
  /\ Booted
  /\ \/ \E t \in Task : Task = {t}
     \/ DecisionScope /\ "terminate" \notin Ops

(* The thread has passed every finished step; a decided pause is marked      *)
(* finished before the thread goes on.                                       *)
Settled(st, k) == \A i \in Steps : st[i] = "finished" => i <= k \/ i \in Pauses

AtPause(c) == c.status = "waiting_approval" => c.cur \in Pauses

(* The copy in the handler state r knows of every step that is finished in   *)
(* the document d, and of none that the thread at k has yet to pass.         *)
Carries(r, d, k) ==
  r.pc # "idle" =>
    /\ \A i \in Steps : d.st[i] = "finished" => r.copy.st[i] = "finished"
    /\ Settled(r.copy.st, k)
    /\ AtPause(r.copy)
    /\ r.pc = "mark" => r.copy.cur \in Pauses
    /\ r.pc \in Streaming \cup {"mark"} => r.copy.status = "running"
    /\ r.pc \in {"node", "body", "chunk"} => r.pos = k
    /\ r.pc = "pause" => r.pos + 1 \in Pauses

RedoInv ==
  /\ Settled(doc.st, ckpt.pos) /\ AtPause(doc)
  /\ \A t \in Task : Carries(task[t], doc, ckpt.pos)
  /\ recov.phase # "done" => \A t \in Task : IsFree(t)
  /\ recov.phase = "recover" => recov.copy = doc

NotAgain == \A i \in Steps \ Pauses : doc.st[i] = "finished" => doc'.st[i] # "running"

(* The handler in slot t is the only one, and recovery is over.              *)
Only(t) == recov.phase = "done" /\ \A s \in Task \ {t} : IsFree(s)

LEMMA OnlyOne ==
  ASSUME RedoInv, Sole, NEW t \in Task, ~IsFree(t)
  PROVE  Only(t)
BY DEF RedoInv, Sole, Only

LEMMA EmptyDoc == /\ \A i \in Steps : NoDoc.st[i] = "pending"
                  /\ NoDoc.status = "absent" /\ Idle.pc = "idle"
BY DEF NoDoc, NewDoc, Idle

(* A step of the only handler keeps RedoInv when its new state carries what  *)
(* the new document says.                                                    *)
LEMMA OwnStepRedo ==
  ASSUME TypeInv, RedoInv, NEW t \in Task, Only(t), NEW r, Become(t, r),
         Settled(doc'.st, ckpt'.pos), AtPause(doc'), Carries(r, doc', ckpt'.pos),
         recov' = recov \/ recov' = RecoveryDone
  PROVE  RedoInv'
<1>1. task'[t] = r /\ \A s \in Task \ {t} : task'[s] = task[s] /\ task[s].pc = "idle"
  BY DEF Become, TypeInv, TypeOK, Only, IsFree
<1>2. \A s \in Task : Carries(task'[s], doc', ckpt'.pos)
  BY <1>1 DEF Carries
<1>3. recov'.phase = "done"
  BY DEF Only, RecoveryDone
<1> QED
  BY <1>2, <1>3 DEF RedoInv

(* A node's update: the copy says finished, the thread has passed the node.  *)
LEMMA EmitRedo ==
  ASSUME TypeInv, RedoInv, NEW t \in Task, Only(t), task[t].pc \in {"node", "body"},
         Node(t) \in Steps, NEW f \in Flag, NEW o \in Flag, Emit(t, f, o),
         UNCHANGED <<doc, recov>>
  PROVE  RedoInv'
<1> USE RunAssumption
<1> DEFINE i == Node(t)
           d == [task[t].copy EXCEPT !.st[i] = "finished", !.cur = i, !.out[i] = o]
           r == [task[t] EXCEPT !.pc = "chunk", !.pos = i, !.flag = f,
                                !.dec = "none", !.copy = d]
<1>1. /\ task[t] \in TaskState /\ task[t].copy \in Doc /\ ckpt.pos \in 0..N
      /\ Carries(task[t], doc, ckpt.pos) /\ Settled(doc.st, ckpt.pos) /\ AtPause(doc)
  BY SlotTyped DEF TypeInv, TypeOK, Checkpoint, RedoInv
<1>2. ckpt'.pos = i /\ i = ckpt.pos + 1 /\ Become(t, r)
  BY <1>1 DEF Emit, Carries, Node
<1>3. /\ d.status = task[t].copy.status /\ d.cur = i
      /\ \A j \in Steps : d.st[j] = IF j = i THEN "finished" ELSE task[t].copy.st[j]
  BY <1>1 DEF Doc
<1> HIDE DEF d
<1>4. r.pc = "chunk" /\ r.pos = i /\ r.copy = d
  BY <1>1 DEF TaskState
<1> HIDE DEF r
<1>5. \A j \in Steps : j <= ckpt.pos => j <= i
  <2> HIDE DEF i
  <2> QED
    BY <1>1, <1>2 DEF Steps
<1>6. Settled(doc.st, i) /\ Settled(d.st, i)
  <2>1. i <= i
    BY <1>1, <1>2
  <2> QED
    BY <1>1, <1>3, <1>5, <2>1 DEF Settled, Carries
<1>7. d.status = "running"
  BY <1>1, <1>3 DEF Carries, Streaming
<1>8. Carries(r, doc', ckpt'.pos)
  BY <1>1, <1>2, <1>3, <1>4, <1>6, <1>7 DEF Carries, AtPause
<1> QED
  BY <1>1, <1>2, <1>6, <1>8, OwnStepRedo

(* Every step of a stream: the node it starts is one the thread has yet to   *)
(* pass, every other write stores what was finished before.                  *)
LEMMA StreamStepRedo ==
  ASSUME TypeInv, RedoInv, NEW t \in Task, Only(t), StreamStep(t)
  PROVE  RedoInv' /\ NotAgain
<1> USE RunAssumption
<1> DEFINE c == task[t].copy
           k == ckpt.pos
<1>a. /\ task[t] \in TaskState /\ c \in Doc /\ k \in 0..N /\ doc \in Doc
      /\ Settled(doc.st, k) /\ AtPause(doc) /\ Carries(task[t], doc, k)
  BY SlotTyped DEF TypeInv, TypeOK, Checkpoint, RedoInv
<1>b. task[t].pc # "idle"
  BY DEF StreamStep, Begin, NodeStart, NodeSkip, NodeRun, NodeRaise, NodeResume,
     NodePause, WriteChunk, WritePause, WriteReset, WriteAnnounced, WriteCompleted,
     WriteRejected, WriteFailed
<1>c. /\ \A i \in Steps : doc.st[i] = "finished" => c.st[i] = "finished"
      /\ Settled(c.st, k) /\ AtPause(c)
      /\ task[t].pc \in Streaming => c.status = "running"
  BY <1>a, <1>b DEF Carries
<1>d. NotAgain \/ doc' # doc
  BY DEF NotAgain
<1>1. ASSUME NEW p \in Pc, NEW q \in 0..N, NEW f \in Flag,
             Become(t, [task[t] EXCEPT !.pc = p, !.pos = q, !.flag = f]),
             p \in {"node", "pause", "fail"}, task[t].pc \in Streaming,
             p = "node" => q = k, p = "pause" => q + 1 \in Pauses,
             UNCHANGED <<ckpt, recov>>,
             doc' = doc \/ doc' = c
      PROVE  RedoInv' /\ NotAgain
  <2> DEFINE r == [task[t] EXCEPT !.pc = p, !.pos = q, !.flag = f]
  <2>1. r.pc = p /\ r.pos = q /\ r.copy = c
    BY <1>a DEF TaskState
  <2>2. Become(t, r)
    BY <1>1
  <2> HIDE DEF r
  <2>3. Settled(doc'.st, k) /\ AtPause(doc')
    BY <1>1, <1>a, <1>c
  <2>4. Carries(r, doc', k)
    BY <1>1, <1>c, <2>1 DEF Carries, Streaming
  <2>5. NotAgain
    BY <1>1, <1>c DEF NotAgain
  <2> QED
    BY <1>1, <2>2, <2>3, <2>4, <2>5, OwnStepRedo
<1>2. CASE Begin(t)
  <2>1. /\ Become(t, [task[t] EXCEPT !.pc = "node", !.pos = k, !.flag = ckpt.appr])
        /\ ckpt.appr \in Flag /\ task[t].pc \in Streaming
        /\ UNCHANGED <<doc, ckpt, recov>>
    BY <1>2 DEF Begin, Streaming, TypeInv, TypeOK, Checkpoint
  <2> QED
    BY <1>1, <1>a, <2>1 DEF Pc
<1>3. CASE NodeRaise(t) \/ NodePause(t) \/ WriteChunk(t)
  <2>1. PICK p \in {"fail", "pause", "node"} :
          /\ Become(t, [task[t] EXCEPT !.pc = p])
          /\ task[t].pc \in Streaming
          /\ p = "node" => task[t].pc = "chunk"
          /\ p = "pause" => Node(t) \in Pauses
          /\ UNCHANGED <<ckpt, recov>>
          /\ doc' = doc \/ doc' = c
    BY <1>3 DEF NodeRaise, NodePause, WriteChunk, Streaming
  <2>2. [task[t] EXCEPT !.pc = p] =
          [task[t] EXCEPT !.pc = p, !.pos = task[t].pos, !.flag = task[t].flag]
    BY <1>a DEF TaskState
  <2>3. p = "node" => task[t].pos = k
    BY <1>a, <2>1 DEF Carries
  <2>4. p \in Pc /\ task[t].pos \in 0..N /\ task[t].flag \in Flag
    BY <1>a DEF TaskState, Pc
  <2> QED
    BY <1>1, <2>1, <2>2, <2>3, <2>4 DEF Node
<1>4. CASE NodeStart(t)
  <2> DEFINE d == [c EXCEPT !.st[Node(t)] = "running", !.cur = Node(t)]
             r == [task[t] EXCEPT !.pc = "body", !.copy = d]
  <2>1. /\ doc' = d /\ Become(t, r) /\ UNCHANGED <<ckpt, recov>>
        /\ task[t].pc = "node" /\ Node(t) \in Steps
    BY <1>4 DEF NodeStart, history
  <2>2. Node(t) = k + 1 /\ task[t].pos = k
    BY <1>a, <2>1 DEF Carries, Node
  <2>3. /\ d.status = "running"
        /\ \A j \in Steps : d.st[j] = IF j = Node(t) THEN "running" ELSE c.st[j]
    BY <1>a, <1>c, <2>1 DEF Doc, Streaming
  <2> HIDE DEF d
  <2>4. r.pc = "body" /\ r.pos = k /\ r.copy = d
    BY <1>a, <2>2 DEF TaskState
  <2> HIDE DEF r
  <2>5. Settled(d.st, k) /\ AtPause(d)
    BY <1>c, <2>3 DEF Settled, AtPause
  <2>6. Carries(r, d, k)
    BY <2>3, <2>4, <2>5 DEF Carries
  <2>7. NotAgain
    <3>1. ~(Node(t) <= k)
      BY <1>a, <2>2
    <3> QED
      BY <1>a, <1>c, <2>1, <2>3, <3>1 DEF NotAgain, Settled
  <2> QED
    BY <2>1, <2>5, <2>6, <2>7, OwnStepRedo
<1>5. CASE NodeSkip(t) \/ NodeRun(t) \/ NodeResume(t)
  <2>1. PICK f \in Flag, o \in Flag :
          /\ Emit(t, f, o) /\ Node(t) \in Steps
          /\ task[t].pc \in {"node", "body"} /\ UNCHANGED <<doc, recov>>
    <3>1. Node(t) \in Steps /\ task[t].flag \in Flag
      BY <1>5, <1>a, SlotTyped DEF NodeSkip, NodeRun, NodeResume
    <3>2. StoredOut(t) \in Flag
      BY <1>a, <3>1 DEF Doc, StoredOut
    <3>3. NodeResume(t) => task[t].dec \in Flag
      BY <1>a DEF NodeResume, TaskState, Flag
    <3> QED
      BY <1>5, <3>1, <3>2, <3>3 DEF NodeSkip, NodeRun, NodeResume, history
  <2> QED
    BY <1>d, <2>1, EmitRedo
<1>6. ASSUME NEW d \in Doc, doc' = d, AtPause(d), recov' = recov, ckpt'.pos = k,
             \A i \in Steps : d.st[i] = c.st[i] \/ (d.st[i] = "failed" /\ c.st[i] = "running"),
             \/ Release(t)
             \/ \E p \in {"reset", "announce", "verdict"} :
                  Become(t, [task[t] EXCEPT !.pc = p, !.copy = d])
      PROVE  RedoInv' /\ NotAgain
  <2>1. Settled(d.st, k) /\ NotAgain
    BY <1>6, <1>c DEF Settled, NotAgain
  <2>2. CASE Release(t)
    BY <1>6, <2>1, <2>2, EmptyDoc, OwnStepRedo DEF Release, Carries
  <2>3. ASSUME NEW p \in {"reset", "announce", "verdict"},
               Become(t, [task[t] EXCEPT !.pc = p, !.copy = d])
        PROVE  RedoInv' /\ NotAgain
    <3> DEFINE r == [task[t] EXCEPT !.pc = p, !.copy = d]
    <3>1. r.pc = p /\ r.copy = d
      BY <1>a DEF TaskState
    <3>2. Become(t, r)
      BY <2>3
    <3> HIDE DEF r
    <3>3. Carries(r, d, k)
      BY <1>6, <2>1, <3>1 DEF Carries, Streaming
    <3> QED
      BY <1>6, <2>1, <3>2, <3>3, OwnStepRedo
  <2> QED
    BY <1>6, <2>2, <2>3
<1>7. CASE WritePause(t)
  <2> DEFINE d == [c EXCEPT !.status = "waiting_approval", !.cur = Node(t)]
  <2>1. /\ doc' = d /\ UNCHANGED <<ckpt, recov>> /\ Node(t) \in Pauses
        /\ \/ Release(t)
           \/ \E p \in {"reset", "announce"} : Become(t, [task[t] EXCEPT !.pc = p, !.copy = d])
    BY <1>7, <1>a DEF WritePause, Carries, Node
  <2>0. Node(t) \in 0..N
    BY <2>1 DEF Pauses, Steps
  <2>2. d \in Doc /\ d.st = c.st /\ d.cur = Node(t)
    BY <1>a, <2>0 DEF Doc, Status
  <2> HIDE DEF d
  <2> QED
    BY <1>6, <2>1, <2>2 DEF AtPause
<1>8. CASE WriteReset(t)
  <2>1. /\ doc' = c /\ ckpt'.pos = k /\ recov' = recov
        /\ Release(t) \/ Become(t, [task[t] EXCEPT !.pc = "announce"])
    BY <1>8 DEF WriteReset, TypeInv, TypeOK, Checkpoint
  <2>2. [task[t] EXCEPT !.pc = "announce"] = [task[t] EXCEPT !.pc = "announce", !.copy = c]
    BY <1>a DEF TaskState
  <2> QED
    BY <1>6, <1>a, <1>c, <2>1, <2>2
<1>12. CASE WriteAnnounced(t)
  <2> DEFINE d == [c EXCEPT !.asked = TRUE]
  <2>1. d \in Doc /\ d.st = c.st /\ AtPause(d)
    BY <1>a, <1>c DEF Doc, AtPause
  <2>2. /\ Release(t) /\ UNCHANGED <<ckpt, recov>>
        /\ doc' = doc \/ doc' = c \/ doc' = d
    BY <1>12 DEF WriteAnnounced
  <2> HIDE DEF d
  <2>3. CASE doc' = doc
    BY <1>a, <1>d, <2>2, <2>3, EmptyDoc, OwnStepRedo DEF Release, Carries, NotAgain
  <2>4. CASE doc' = c \/ doc' = d
    BY <1>6, <1>a, <1>c, <2>1, <2>2, <2>4
  <2> QED
    BY <2>2, <2>3, <2>4
<1>9. CASE WriteCompleted(t)
  <2> DEFINE d == [c EXCEPT !.status = "completed", !.cur = 0]
  <2>1. /\ doc' = d /\ UNCHANGED <<ckpt, recov>>
        /\ Release(t) \/ Become(t, [task[t] EXCEPT !.pc = "verdict", !.copy = d])
    BY <1>9 DEF WriteCompleted
  <2>0. 0 \in 0..N
    OBVIOUS
  <2>2. d \in Doc /\ d.st = c.st /\ d.status = "completed"
    BY <1>a, <2>0 DEF Doc, Status
  <2> HIDE DEF d
  <2> QED
    BY <1>6, <2>1, <2>2 DEF AtPause
<1>10. CASE WriteRejected(t)
  <2> DEFINE d == [c EXCEPT !.status = "rejected"]
  <2>1. doc' = d /\ UNCHANGED <<ckpt, recov>> /\ Release(t)
    BY <1>10 DEF WriteRejected
  <2>2. d \in Doc /\ d.st = c.st /\ d.status = "rejected"
    BY <1>a DEF Doc, Status
  <2> HIDE DEF d
  <2> QED
    BY <1>6, <2>1, <2>2 DEF AtPause
<1>11. CASE WriteFailed(t)
  <2> DEFINE d == [c EXCEPT
                    !.st = [i \in Steps |-> IF c.st[i] = "running" THEN "failed" ELSE c.st[i]],
                    !.status = "failed", !.cur = 0]
  <2>1. doc' = d /\ UNCHANGED <<ckpt, recov>> /\ Release(t)
    BY <1>11 DEF WriteFailed
  <2>0. /\ 0 \in 0..N
        /\ [i \in Steps |-> IF c.st[i] = "running" THEN "failed" ELSE c.st[i]] \in [Steps -> StepStatus]
    BY <1>a DEF Doc, StepStatus
  <2>2. /\ d \in Doc /\ d.status = "failed"
        /\ \A i \in Steps : d.st[i] = IF c.st[i] = "running" THEN "failed" ELSE c.st[i]
    BY <1>a, <2>0 DEF Doc, Status
  <2> HIDE DEF d
  <2> QED
    BY <1>6, <2>1, <2>2 DEF AtPause
<1> QED
  BY <1>2, <1>3, <1>4, <1>5, <1>7, <1>8, <1>9, <1>10, <1>11, <1>12 DEF StreamStep

(* The thread is put back behind the last finished step of a document, or    *)
(* goes on from there: it has passed all of them.                            *)
LEMMA LastDoneSettled ==
  ASSUME NEW c \in Doc, NEW j \in 0..N, IsLastDone(j, c), NEW k \in 0..N, j <= k
  PROVE  Settled(c.st, k)
<1> SUFFICES ASSUME NEW i \in Steps, c.st[i] = "finished" PROVE i <= k
  BY DEF Settled
<1>1. i \notin (j + 1)..N /\ i \in 1..N
  BY DEF IsLastDone, Steps
<1> QED
  BY <1>1, RunAssumption

(* The handlers that write a copy, and those that put the thread back.       *)
LEMMA HandlerStepRedo ==
  ASSUME TypeInv, RedoInv, NEW t \in Task, Only(t), HandlerStep(t)
  PROVE  RedoInv' /\ NotAgain
<1> USE RunAssumption
<1> DEFINE c == task[t].copy
           k == ckpt.pos
<1>a. /\ task[t] \in TaskState /\ c \in Doc /\ k \in 0..N
      /\ Settled(doc.st, k) /\ AtPause(doc) /\ Carries(task[t], doc, k)
  BY SlotTyped DEF TypeInv, TypeOK, Checkpoint, RedoInv
<1>b. task[t].pc # "idle"
  BY DEF HandlerStep, MarkFinished, ResumeUnclaimed, OutputError, WriteNote, Terminate,
     Retry, RestartFromStep
<1>c. /\ \A i \in Steps : doc.st[i] = "finished" => c.st[i] = "finished"
      /\ Settled(c.st, k) /\ AtPause(c)
  BY <1>a, <1>b DEF Carries
<1>1. ASSUME NEW d, doc' = d, AtPause(d), recov' = recov, Settled(d.st, ckpt'.pos),
             \A i \in Steps : d.st[i] = "running" => c.st[i] = "running",
             \/ Release(t)
             \/ /\ d.status = "running"
                /\ \E g : Become(t, [task[t] EXCEPT !.pc = "begin", !.dec = g, !.copy = d])
      PROVE  RedoInv' /\ NotAgain
  <2>1. NotAgain
    BY <1>1, <1>c DEF NotAgain
  <2>2. CASE Release(t)
    BY <1>1, <2>1, <2>2, EmptyDoc, OwnStepRedo DEF Release, Carries
  <2>3. ASSUME NEW g, Become(t, [task[t] EXCEPT !.pc = "begin", !.dec = g, !.copy = d]),
               d.status = "running"
        PROVE  RedoInv'
    <3> DEFINE r == [task[t] EXCEPT !.pc = "begin", !.dec = g, !.copy = d]
    <3>1. r.pc = "begin" /\ r.copy = d
      BY <1>a DEF TaskState
    <3>2. Become(t, r)
      BY <2>3
    <3> HIDE DEF r
    <3>3. Carries(r, d, ckpt'.pos)
      BY <1>1, <2>3, <3>1 DEF Carries
    <3> QED
      BY <1>1, <3>2, <3>3, OwnStepRedo
  <2> QED
    BY <1>1, <2>1, <2>2, <2>3
<1>2. ASSUME NEW d, Become(t, [task[t] EXCEPT !.pc = "begin", !.copy = d])
      PROVE  Become(t, [task[t] EXCEPT !.pc = "begin", !.dec = task[t].dec, !.copy = d])
  <2>1. [task[t] EXCEPT !.pc = "begin", !.copy = d] =
          [task[t] EXCEPT !.pc = "begin", !.dec = task[t].dec, !.copy = d]
    BY <1>a DEF TaskState
  <2> QED
    BY <1>2, <2>1
<1>3. CASE MarkFinished(t)
  <2> DEFINE d == [c EXCEPT !.st = [i \in Steps |-> IF i = c.cur THEN "finished" ELSE c.st[i]]]
  <2>1. /\ task[t].pc = "mark" /\ doc' = d /\ UNCHANGED <<ckpt, recov>>
        /\ Become(t, [task[t] EXCEPT !.pc = "begin", !.copy = d])
    BY <1>3 DEF MarkFinished
  <2>2. /\ d.status = "running" /\ c.cur \in Pauses
        /\ \A i \in Steps : d.st[i] = IF i = c.cur THEN "finished" ELSE c.st[i]
    BY <1>a, <2>1 DEF Doc, Carries
  <2> HIDE DEF d
  <2>3. Settled(d.st, k) /\ AtPause(d)
    BY <1>c, <2>2 DEF Settled, AtPause
  <2> QED
    BY <1>1, <1>2, <2>1, <2>2, <2>3
<1>4. CASE ResumeUnclaimed(t)
  <2> DEFINE d == [c EXCEPT !.status = "running"]
  <2>1. /\ doc' = d /\ UNCHANGED <<ckpt, recov>>
        /\ Become(t, [task[t] EXCEPT !.pc = "begin", !.dec = "no", !.copy = d])
    BY <1>4 DEF ResumeUnclaimed
  <2>2. d.status = "running" /\ d.st = c.st
    BY <1>a DEF Doc
  <2> HIDE DEF d
  <2> QED
    BY <1>1, <1>c, <2>1, <2>2 DEF AtPause
<1>5. CASE OutputError(t)
  <2> DEFINE d == [c EXCEPT
                    !.status = "failed",
                    !.st = [i \in Steps |-> IF i = c.cur THEN "failed" ELSE c.st[i]]]
  <2>1. doc' = d /\ UNCHANGED <<ckpt, recov>> /\ Release(t)
    BY <1>5 DEF OutputError
  <2>2. /\ d.status = "failed"
        /\ \A i \in Steps : d.st[i] = IF i = c.cur THEN "failed" ELSE c.st[i]
    BY <1>a DEF Doc
  <2> HIDE DEF d
  <2>3. Settled(d.st, k) /\ AtPause(d)
    BY <1>c, <2>2 DEF Settled, AtPause
  <2> QED
    BY <1>1, <2>1, <2>2, <2>3
<1>6. CASE WriteNote(t)
  BY <1>1, <1>6, <1>c DEF WriteNote
<1>7. CASE Terminate(t)
  <2> DEFINE d == [c EXCEPT !.status = "failed"]
  <2>1. doc' = d /\ UNCHANGED <<ckpt, recov>> /\ Release(t)
    BY <1>7 DEF Terminate
  <2>2. d.status = "failed" /\ d.st = c.st
    BY <1>a DEF Doc
  <2> HIDE DEF d
  <2> QED
    BY <1>1, <1>c, <2>1, <2>2 DEF AtPause
<1>8. CASE Retry(t)
  <2> DEFINE bad == {i \in Steps : c.st[i] = "failed"}
             d == [c EXCEPT !.st = [i \in Steps |-> IF \E b \in bad : b <= i THEN "pending" ELSE c.st[i]],
                            !.status = "running", !.cur = 0]
  <2>1. /\ Seed(c) /\ doc' = d /\ recov' = recov
        /\ Become(t, [task[t] EXCEPT !.pc = "begin", !.copy = d])
    BY <1>8 DEF Retry
  <2>2. /\ d.status = "running"
        /\ \A i \in Steps : d.st[i] = "pending" \/ d.st[i] = c.st[i]
    BY <1>a DEF Doc
  <2> HIDE DEF d
  <2>3. PICK j \in 0..N : IsLastDone(j, c) /\ ckpt'.pos = j
    BY <2>1 DEF Seed
  <2>4. Settled(c.st, j)
    BY <1>a, <2>3, LastDoneSettled
  <2>5. Settled(d.st, ckpt'.pos) /\ AtPause(d)
    BY <2>2, <2>3, <2>4 DEF Settled, AtPause
  <2>6. \A i \in Steps : d.st[i] = "running" => c.st[i] = "running"
    BY <2>2
  <2> QED
    BY <1>1, <1>2, <2>1, <2>2, <2>5, <2>6
<1>9. ASSUME NEW n \in Steps, RestartFromStep(t, n)
      PROVE  RedoInv' /\ NotAgain
  <2> DEFINE d == [c EXCEPT !.st = [i \in Steps |-> IF i < n THEN c.st[i] ELSE "pending"],
                            !.out = [i \in Steps |-> IF i < n THEN c.out[i] ELSE "unset"],
                            !.status = "running", !.cur = 0]
  <2>1. /\ \E j \in 0..(n - 1), f \in Flag : IsLastDone(j, d) /\ ckpt' = [pos |-> j, appr |-> f]
        /\ doc' = d /\ recov' = recov
        /\ Become(t, [task[t] EXCEPT !.pc = "begin", !.copy = d])
    BY <1>9 DEF RestartFromStep
  <2>0. /\ [i \in Steps |-> IF i < n THEN c.st[i] ELSE "pending"] \in [Steps -> StepStatus]
        /\ [i \in Steps |-> IF i < n THEN c.out[i] ELSE "unset"] \in [Steps -> Flag]
        /\ 0 \in 0..N
    BY <1>a DEF Doc, StepStatus, Flag
  <2>2. /\ d \in Doc /\ d.status = "running"
        /\ \A i \in Steps : d.st[i] = IF i < n THEN c.st[i] ELSE "pending"
    BY <1>a, <2>0 DEF Doc, Status
  <2> HIDE DEF d
  <2>3. PICK j \in 0..(n - 1) : IsLastDone(j, d) /\ ckpt'.pos = j
    BY <2>1
  <2>4. j \in 0..N /\ j <= j
    BY <2>3 DEF Steps
  <2>5. Settled(d.st, ckpt'.pos) /\ AtPause(d)
    BY <2>2, <2>3, <2>4, LastDoneSettled DEF AtPause
  <2>6. \A i \in Steps : d.st[i] = "running" => c.st[i] = "running"
    BY <2>2
  <2> QED
    BY <1>1, <1>2, <2>1, <2>2, <2>5, <2>6
<1> QED
  BY <1>3, <1>4, <1>5, <1>6, <1>7, <1>8, <1>9 DEF HandlerStep

(* A request copies the document as it is; a new one is all pending.         *)
LEMMA RequestRedo ==
  ASSUME Booted, TypeInv, RedoInv, Sole', NEW t \in Task, Request(t)
  PROVE  RedoInv' /\ NotAgain
<1>a. /\ doc \in Doc /\ Settled(doc.st, ckpt.pos) /\ AtPause(doc)
      /\ \A s \in Task : Carries(task[s], doc, ckpt.pos)
      /\ task \in [Task -> TaskState]
  BY DEF TypeInv, TypeOK, RedoInv
<1>b. recov.phase = "done" /\ recov' = recov
  BY DEF Request, StartRun, Claim, ReadRun, Serving, history
<1>1. ASSUME NEW r, Become(t, r), r.pc # "idle" PROVE Only(t)
  <2>1. task'[t] = r /\ \A s \in Task \ {t} : task'[s] = task[s]
    BY <1>1, <1>a DEF Become
  <2> QED
    BY <1>1, <1>b, <2>1 DEF Only, Sole, IsFree
<1>2. CASE StartRun(t)
  <2> DEFINE d == NewDoc("running")
             r == [Idle EXCEPT !.pc = "begin", !.op = "start", !.copy = d]
  <2>1. doc' = d /\ Become(t, r) /\ UNCHANGED ckpt
    BY <1>2 DEF StartRun
  <2>2. d.status = "running" /\ \A i \in Steps : d.st[i] = "pending"
    BY DEF NewDoc
  <2> HIDE DEF d
  <2>3. r.pc = "begin" /\ r.copy = d
    BY DEF Idle
  <2> HIDE DEF r
  <2>4. Settled(d.st, ckpt.pos) /\ AtPause(d) /\ Carries(r, d, ckpt.pos)
    BY <2>2, <2>3 DEF Settled, AtPause, Carries
  <2>5. NotAgain
    BY <2>1, <2>2 DEF NotAgain
  <2> QED
    BY <1>1, <1>b, <2>1, <2>3, <2>4, <2>5, OwnStepRedo
<1>3. ASSUME NEW o \in DecisionOps, Claim(t, o) PROVE RedoInv' /\ NotAgain
  <2> DEFINE d == [doc EXCEPT !.status = "running"]
             r == [Idle EXCEPT !.pc = "mark", !.op = o, !.dec = Verdict(o), !.gate = doc.cur,
                               !.copy = d]
  <2>1. doc' = d /\ UNCHANGED ckpt /\ (Become(t, r) \/ task' = task) /\ doc.cur \in Pauses
    BY <1>3, <1>a DEF Claim, AtPause
  <2>2. d.status = "running" /\ d.st = doc.st /\ d.cur = doc.cur
    BY <1>a DEF Doc
  <2> HIDE DEF d
  <2>3. r.pc = "mark" /\ r.copy = d
    BY DEF Idle
  <2> HIDE DEF r
  <2>4. Settled(d.st, ckpt.pos) /\ AtPause(d) /\ Carries(r, d, ckpt.pos)
    BY <1>a, <2>1, <2>2, <2>3 DEF Settled, AtPause, Carries
  <2>5. NotAgain
    BY <2>1, <2>2 DEF NotAgain
  <2>6. CASE Become(t, r)
    BY <1>1, <1>b, <2>1, <2>3, <2>4, <2>5, <2>6, OwnStepRedo
  <2>7. CASE task' = task
    <3>1. \A s \in Task : Carries(task'[s], doc', ckpt'.pos)
      BY <1>a, <2>1, <2>2, <2>7 DEF Carries
    <3> QED
      BY <1>b, <2>1, <2>4, <2>5, <3>1 DEF RedoInv
  <2> QED
    BY <2>1, <2>6, <2>7
<1>4. ASSUME NEW o \in AllOps, ReadRun(t, o) PROVE RedoInv' /\ NotAgain
  <2> DEFINE r == [Idle EXCEPT !.pc = Handling(o), !.op = o, !.gate = doc.cur, !.copy = doc]
  <2>1. Become(t, r) /\ UNCHANGED <<doc, ckpt>> /\ Accepts(o, doc)
    BY <1>4 DEF ReadRun
  <2>2. o \in {"reply", "output", "terminate", "retry", "restart", "note"}
    BY <2>1 DEF Accepts
  <2>3. r.pc \in {"reply", "output", "term", "retry", "restart", "note"} /\ r.copy = doc
    BY <2>2 DEF Idle, Handling
  <2> HIDE DEF r
  <2>4. Carries(r, doc, ckpt.pos) /\ NotAgain
    BY <1>a, <2>1, <2>3 DEF Carries, NotAgain, Streaming
  <2> QED
    BY <1>1, <1>a, <1>b, <2>1, <2>3, <2>4, OwnStepRedo
<1> QED
  BY <1>2, <1>3, <1>4 DEF Request

(* Recovery finds the document as the process left it and puts the thread    *)
(* back behind its last finished step.                                       *)
LEMMA ServerRedo ==
  ASSUME Booted, TypeInv, RedoInv, Delete \/ Crash \/ Recovery
  PROVE  RedoInv' /\ NotAgain
<1> USE RunAssumption
<1>a. /\ doc \in Doc /\ Settled(doc.st, ckpt.pos) /\ AtPause(doc)
      /\ \A s \in Task : Carries(task[s], doc, ckpt.pos)
      /\ task \in [Task -> TaskState]
      /\ recov.phase # "done" => \A s \in Task : IsFree(s)
      /\ recov.phase = "recover" => recov.copy = doc
  BY DEF TypeInv, TypeOK, RedoInv
<1>b. RecoveryDone.phase = "done"
  BY DEF RecoveryDone
<1>1. CASE Delete
  <2>1. doc' = NoDoc /\ UNCHANGED <<ckpt, task, recov>> /\ recov.phase = "done"
    BY <1>1 DEF Delete, Serving
  <2>2. \A s \in Task : Carries(task[s], NoDoc, ckpt.pos)
    BY <1>a, EmptyDoc DEF Carries
  <2>3. Settled(NoDoc.st, ckpt.pos) /\ AtPause(NoDoc)
    BY EmptyDoc DEF Settled, AtPause
  <2> QED
    BY <2>1, <2>2, <2>3, EmptyDoc DEF RedoInv, NotAgain
<1>2. CASE Crash
  BY <1>2, <1>a, EmptyDoc DEF Crash, RedoInv, NotAgain, Carries, IsFree
<1>3. CASE RecoverList \/ RecoverWaiting
  BY <1>3, <1>a, <1>b DEF RecoverList, RecoverWaiting, RedoInv, NotAgain, IsFree
<1>4. CASE RecoverRefire
  <2>1. PICK from \in 0..N, to \in 0..N :
          IsLastDone(from, doc) /\ from <= to /\ ckpt'.pos = to
    BY <1>4, <1>a DEF RecoverRefire
  <2>2. /\ task' = task /\ recov' = RecoveryDone
        /\ doc' = doc \/ doc' = [doc EXCEPT !.status = "failed"]
    BY <1>4, <1>a DEF RecoverRefire
  <2>3. doc'.st = doc.st /\ AtPause(doc')
    BY <1>a, <2>2 DEF Doc, AtPause
  <2>4. Settled(doc.st, to)
    BY <1>a, <2>1, LastDoneSettled
  <2>5. \A s \in Task : task[s].pc = "idle"
    BY <1>4, <1>a DEF RecoverRefire, IsFree
  <2> QED
    BY <1>b, <2>1, <2>2, <2>3, <2>4, <2>5 DEF RedoInv, NotAgain, Carries
<1>5. ASSUME NEW t \in Task, RecoverRunning(t) PROVE RedoInv' /\ NotAgain
  <2> DEFINE r == [Idle EXCEPT !.pc = "begin", !.op = "recover", !.copy = doc]
  <2>1. /\ Seed(doc) /\ Become(t, r) /\ recov' = RecoveryDone /\ doc' = doc
        /\ doc.status = "running" /\ \A s \in Task : task[s].pc = "idle"
    BY <1>5, <1>a DEF RecoverRunning, IsFree
  <2>2. PICK j \in 0..N : IsLastDone(j, doc) /\ ckpt'.pos = j
    BY <2>1 DEF Seed
  <2>3. Settled(doc.st, j)
    BY <1>a, <2>2, LastDoneSettled
  <2>4. r.pc = "begin" /\ r.copy = doc
    BY DEF Idle
  <2> HIDE DEF r
  <2>5. task'[t] = r /\ \A s \in Task \ {t} : task'[s] = task[s]
    BY <1>a, <2>1 DEF Become
  <2>6. \A s \in Task : Carries(task'[s], doc', ckpt'.pos)
    BY <1>a, <2>1, <2>2, <2>3, <2>4, <2>5 DEF Carries
  <2> QED
    BY <1>a, <1>b, <2>1, <2>2, <2>3, <2>6 DEF RedoInv, NotAgain
<1> QED
  BY <1>1, <1>2, <1>3, <1>4, <1>5 DEF Recovery

LEMMA InitRedo == Init => RedoInv
BY EmptyDoc DEF Init, RedoInv, Settled, AtPause, Carries, IsFree

LEMMA NextRedo ==
  ASSUME Booted
  PROVE  TypeInv /\ RedoInv /\ Sole /\ Sole' /\ [Next]_vars => RedoInv' /\ NotAgain
<1> SUFFICES ASSUME TypeInv, RedoInv, Sole, Sole', [Next]_vars PROVE RedoInv' /\ NotAgain
  OBVIOUS
<1>1. ASSUME NEW t \in Task, StreamStep(t) \/ HandlerStep(t) PROVE RedoInv' /\ NotAgain
  <2>1. ~IsFree(t)
    BY <1>1 DEF StreamStep, Begin, NodeStart, NodeSkip, NodeRun, NodeRaise, NodeResume,
       NodePause, WriteChunk, WritePause, WriteReset, WriteAnnounced, WriteCompleted,
       WriteRejected, WriteFailed, HandlerStep, MarkFinished, ResumeUnclaimed, OutputError,
       WriteNote, Terminate, Retry, RestartFromStep, IsFree
  <2> QED
    BY <1>1, <2>1, OnlyOne, StreamStepRedo, HandlerStepRedo
<1>2. CASE UNCHANGED vars
  BY <1>2 DEF vars, RedoInv, NotAgain, IsFree
<1> QED
  BY <1>1, <1>2, RequestRedo, ServerRedo DEF Next

(* One slot holds one handler; where every request claims the run, the       *)
(* active handler is the only one.                                           *)
LEMMA AlwaysSole == ASSUME OneAtATime PROVE Spec => []Sole
<1>1. ASSUME NEW t \in Task, Task = {t} PROVE Spec => []Sole
  <2>1. Sole
    BY <1>1 DEF Sole
  <2> QED
    BY <2>1, PTL
<1>2. ASSUME DecisionScope, "terminate" \notin Ops PROVE Spec => []Sole
  <2>1. ClaimInv => Sole
    BY <1>2 DEF ClaimInv, Fits, OneActive, Active, Busy, Sole, IsFree
  <2> QED
    BY <1>2, <2>1, AlwaysFits, PTL
<1> QED
  BY <1>1, <1>2 DEF OneAtATime

(* No write turns a finished step of the document back into a running one:   *)
(* retry and restart-from-step make it pending first (workflows.py), every   *)
(* other handler, stream and recovery keeps what is finished.                *)
THEOREM FinishedWorkIsKept ==
  ASSUME OneAtATime
  PROVE  Spec => NoStepRedone
<1>1. Booted
  BY DEF OneAtATime
<1>2. TypeInv /\ RedoInv /\ Sole /\ Sole' /\ [Next]_vars => RedoInv'
  BY <1>1, NextRedo
<1>3. TypeInv /\ RedoInv /\ Sole /\ Sole' /\ [Next]_vars
        => [\A i \in Steps \ Pauses : doc.st[i] = "finished" => doc'.st[i] # "running"]_vars
  BY <1>1, NextRedo DEF NotAgain
<1> QED
  BY <1>2, <1>3, InitTyped, NextTyped, InitRedo, AlwaysSole, PTL DEF Spec, NoStepRedone
=============================================================================
