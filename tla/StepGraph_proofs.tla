-------------------------- MODULE StepGraph_proofs --------------------------
(***************************************************************************)
(* Theorems about StepGraph for every workflow: any number of steps of any *)
(* kinds, any edges, loop limits, restarts and retries.  What a theorem    *)
(* asks of the graph is named before it.                                   *)
(***************************************************************************)
EXTENDS StepGraph, WellFoundedInduction, TLAPS

(***************************************************************************)
(* The operators of the model.                                             *)
(***************************************************************************)
LEMMA StepNumbers ==
  /\ N \in Nat \ {0} /\ End = N + 1 /\ Steps = 1..N
  /\ 1 \in Steps /\ N \in Steps /\ Steps \subseteq 1..End /\ 0 \notin Steps /\ End \notin Steps
  /\ 1..End \ {End} = Steps
BY GraphAssumption DEF Steps, End

(* CHOOSE finds the last step of a set: there is one, since steps are        *)
(* numbers below a bound.                                                    *)
LEMMA LastOfMember ==
  ASSUME NEW S, S \subseteq 1..End, S # {}
  PROVE  LastOf(S) \in S /\ \A j \in S : j <= LastOf(S)
<1> DEFINE T == {End - i : i \in S}
<1>1. End \in Nat /\ \A i \in S : i \in 1..End
  BY GraphAssumption DEF End
<1>2. T \subseteq Nat /\ T # {}
  <2>1. \A i \in S : End - i \in Nat
    BY <1>1
  <2> QED
    BY <2>1
<1>3. PICK x \in T : \A y \in T : ~(<<y, x>> \in OpToRel(<, Nat))
  <2> HIDE DEF T
  <2> QED
    BY <1>2, NatLessThanWellFounded, WFMin, Zenon
<1>4. \A y \in T : ~(y < x)
  <2> HIDE DEF T
  <2> QED
    BY <1>2, <1>3, Zenon DEF OpToRel
<1>5. PICK i \in S : x = End - i
  BY <1>3, Zenon
<1>6. ASSUME NEW j \in S PROVE j <= i
  <2>1. ~(End - j < End - i)
    BY <1>4, <1>5
  <2> QED
    BY <1>1, <2>1
<1> QED
  BY <1>6 DEF LastOf

LEMMA LastOfSteps ==
  ASSUME NEW S, S \subseteq Steps, S # {}
  PROVE  LastOf(S) \in S
BY LastOfMember, StepNumbers

LEMMA LastOfOne ==
  ASSUME NEW i \in 1..End
  PROVE  LastOf({i}) = i
BY LastOfMember

LEMMA NothingTyped ==
  /\ 0 \in Count /\ NoVisits \in [Steps -> Count]
  /\ Nothing \in Output /\ Nothing.failed = 0 /\ Nothing.val = "unset"
  /\ Nothing.visits = NoVisits
  /\ NoValues \in Channels /\ NoValues.failed = 0
BY GraphAssumption DEF Count, NoVisits, Nothing, Output, Answer, NoValues, Channels

(* The reducers keep the channels' types, whatever set of steps has written. *)
LEMMA ApplyTyped ==
  ASSUME NEW c \in Channels, NEW S \in SUBSET Steps, NEW w, \A i \in S : w[i] \in Output
  PROVE  Apply(c, S, w) \in Channels
<1> DEFINE sets == {i \in S : w[i].failed # 0}
           has(j) == {i \in S : w[i].visits[j] # 0}
           f == IF sets = {} THEN c.failed ELSE w[LastOf(sets)].failed
           v == [j \in Steps |-> IF has(j) = {} THEN c.visits[j]
                                 ELSE w[LastOf(has(j))].visits[j]]
           x == [j \in Steps |-> IF j \in S /\ w[j].val # "unset" THEN w[j].val ELSE c.val[j]]
<1>1. f \in 0..N
  <2>1. CASE sets = {}
    BY <2>1 DEF Channels
  <2>2. CASE sets # {}
    <3>1. LastOf(sets) \in S
      BY <2>2, LastOfSteps
    <3> QED
      BY <2>2, <3>1 DEF Output
  <2> QED
    BY <2>1, <2>2
<1>2. v \in [Steps -> Count]
  <2> SUFFICES ASSUME NEW j \in Steps
               PROVE  (IF has(j) = {} THEN c.visits[j]
                       ELSE w[LastOf(has(j))].visits[j]) \in Count
    OBVIOUS
  <2>1. CASE has(j) = {}
    BY <2>1 DEF Channels
  <2>2. CASE has(j) # {}
    <3>1. LastOf(has(j)) \in S
      BY <2>2, LastOfSteps
    <3> QED
      BY <2>2, <3>1 DEF Output
  <2> QED
    BY <2>1, <2>2
<1>3. x \in [Steps -> Answer]
  BY DEF Output, Channels
<1>4. Apply(c, S, w) = [failed |-> f, visits |-> v, val |-> x]
  BY DEF Apply
<1> HIDE DEF f, v, x
<1> QED
  BY <1>1, <1>2, <1>3, <1>4 DEF Channels

(* One step's writes: the counts it returns replace those of the channel.    *)
LEMMA OneCount ==
  ASSUME NEW c \in Channels, NEW i \in Steps, NEW w, NEW j \in Steps
  PROVE  Apply(c, {i}, w).visits[j] =
           IF w[i].visits[j] # 0 THEN w[i].visits[j] ELSE c.visits[j]
<1> DEFINE has == {k \in {i} : w[k].visits[j] # 0}
           a   == Apply(c, {i}, w)
<1>1. LastOf({i}) = i
  BY LastOfOne, StepNumbers
<1>2. a.visits[j] = IF has = {} THEN c.visits[j] ELSE w[LastOf(has)].visits[j]
  BY DEF Apply
<1>3. has = IF w[i].visits[j] # 0 THEN {i} ELSE {}
  OBVIOUS
<1> HIDE DEF has
<1> QED
  BY <1>1, <1>2, <1>3

(* What one step has written goes over what was there, value by value.       *)
LEMMA ApplyOne ==
  ASSUME NEW c \in Channels, NEW i \in Steps, NEW w
  PROVE  /\ Apply(c, {i}, w).failed = IF w[i].failed # 0 THEN w[i].failed ELSE c.failed
         /\ \A j \in Steps : Apply(c, {i}, w).visits[j] =
              IF w[i].visits[j] # 0 THEN w[i].visits[j] ELSE c.visits[j]
         /\ \A j \in Steps : Apply(c, {i}, w).val[j] =
              IF j = i /\ w[i].val # "unset" THEN w[i].val ELSE c.val[j]
<1>1. LastOf({i}) = i
  BY LastOfOne, StepNumbers
<1> DEFINE sets == {k \in {i} : w[k].failed # 0}
<1>2. sets = IF w[i].failed # 0 THEN {i} ELSE {}
  OBVIOUS
<1> DEFINE a == Apply(c, {i}, w)
<1>3. a.failed = IF w[i].failed # 0 THEN w[i].failed ELSE c.failed
  <2>1. a.failed = IF sets = {} THEN c.failed ELSE w[LastOf(sets)].failed
    BY DEF Apply
  <2> HIDE DEF sets, a
  <2> QED
    BY <1>1, <1>2, <2>1
<1>4. ASSUME NEW j \in Steps
      PROVE  a.visits[j] = IF w[i].visits[j] # 0 THEN w[i].visits[j] ELSE c.visits[j]
  BY OneCount
<1>5. ASSUME NEW j \in Steps
      PROVE  a.val[j] = IF j = i /\ w[i].val # "unset" THEN w[i].val ELSE c.val[j]
  BY DEF Apply
<1> QED
  BY <1>3, <1>4, <1>5

LEMMA TargetsTyped ==
  ASSUME NEW i \in Steps, NEW c
  PROVE  Targets(i, c) \subseteq 1..End
<1>1. /\ Fan[i] \subseteq Steps /\ Then[i] \in 1..End /\ Else[i] \in 0..End
      /\ End \in Nat /\ Steps \subseteq 1..End
  BY GraphAssumption, StepNumbers
<1>2. {Else[i]} \ {0} \subseteq 1..End
  BY <1>1
<1> QED
  BY <1>1, <1>2 DEF Targets

(* What recovery seeds the thread with.                                      *)
LEMMA SeededTyped ==
  ASSUME TypeOK
  PROVE  Seeded \in Channels
<1> DEFINE done    == {i \in Steps : doc.st[i] \in Done}
           counted == {i \in done : doc.outs[i].visits # NoVisits}
           visits  == IF counted = {} THEN NoVisits ELSE doc.outs[LastOf(counted)].visits
           acc     == [i \in done \cup {N} |->
                         [failed |-> doc.saved,
                          visits |-> visits,
                          val    |-> IF i \in done THEN doc.outs[i].val ELSE "unset"]]
           written == {i \in pend : work[i] \in {"returned", "told"}}
<1>1. done \cup {N} \in SUBSET Steps /\ written \in SUBSET Steps
  <2>1. N \in Steps /\ pend \subseteq Steps
    BY StepNumbers DEF TypeOK
  <2> QED
    BY <2>1
<1>2. doc.saved \in 0..N /\ \A i \in Steps : doc.outs[i] \in Output
  BY DEF TypeOK, Doc
<1>3. visits \in [Steps -> Count]
  <2>1. counted \subseteq Steps
    OBVIOUS
  <2>2. counted # {} => LastOf(counted) \in Steps
    <3> HIDE DEF counted
    <3> QED
      BY <2>1, LastOfSteps
  <2> HIDE DEF counted
  <2> QED
    BY <1>2, <2>2, NothingTyped DEF Output
<1>4. \A i \in done \cup {N} : acc[i] \in Output
  <2> HIDE DEF visits
  <2> SUFFICES ASSUME NEW i \in done \cup {N}
               PROVE  [failed |-> doc.saved, visits |-> visits,
                       val |-> IF i \in done THEN doc.outs[i].val ELSE "unset"] \in Output
    OBVIOUS
  <2>1. (IF i \in done THEN doc.outs[i].val ELSE "unset") \in Answer
    BY <1>2 DEF Output, Answer
  <2> HIDE DEF done
  <2> QED
    BY <1>2, <1>3, <2>1 DEF Output
<1>5. \A i \in written : out[i] \in Output
  BY <1>1 DEF TypeOK
<1>6. Apply(chan, written, out) \in Channels
  <2> HIDE DEF written
  <2> QED
    BY <1>1, <1>5, ApplyTyped DEF TypeOK
<1>7. Seeded = Apply(Apply(chan, written, out), done \cup {N}, acc)
  BY Zenon DEF Seeded
<1> HIDE DEF done, acc, written
<1> QED
  BY <1>1, <1>4, <1>6, <1>7, ApplyTyped

(***************************************************************************)
(* Type correctness.                                                       *)
(***************************************************************************)
WorkState == {"idle", "body", "returned", "told"}

LEMMA InitTyped == Init => TypeOK
<1> SUFFICES ASSUME Init PROVE TypeOK
  OBVIOUS
<1>1. /\ doc \in Doc
      /\ [i \in Steps |-> "idle"] \in [Steps -> WorkState]
      /\ [i \in Steps |-> Nothing] \in [Steps -> Output]
      /\ [i \in Steps |-> 0] \in [Steps -> Nat]
  BY NothingTyped, StepNumbers DEF Init, Doc, RunStatus, StepStatus, WorkState
<1> QED
  BY <1>1, NothingTyped, GraphAssumption DEF Init, TypeOK, WorkState

(* What a node returns: its output, and the route taken with it.             *)
LEMMA ReturnTyped ==
  ASSUME TypeOK, NEW i \in Steps, NEW o \in Output, Return(i, o)
  PROVE  /\ work' = [work EXCEPT ![i] = "returned"] /\ work' \in [Steps -> WorkState]
         /\ out' = [out EXCEPT ![i] = o] /\ out' \in [Steps -> Output]
         /\ doc' \in Doc
<1> DEFINE c == Apply(chan, {i}, [j \in {i} |-> o])
<1>1. /\ Targets(i, c) # {} /\ work' = [work EXCEPT ![i] = "returned"]
      /\ out' = [out EXCEPT ![i] = o]
      /\ doc' = doc \/ doc' = [doc EXCEPT !.route = LastOf(Targets(i, c))]
  BY DEF Return, Routed
<1> HIDE DEF c
<1>2. LastOf(Targets(i, c)) \in 0..End
  <2>1. LastOf(Targets(i, c)) \in 1..End
    BY <1>1, TargetsTyped, LastOfMember
  <2> QED
    BY <2>1
<1>3. doc' \in Doc
  BY <1>1, <1>2 DEF TypeOK, Doc
<1> QED
  BY <1>1, <1>3 DEF TypeOK, WorkState

LEMMA CountedTyped ==
  ASSUME TypeOK, NEW i \in Steps
  PROVE  Counted(i) \in [Steps -> Count]
<1>1. /\ chan.visits \in [Steps -> Count]
      /\ NoVisits \in [Steps -> Count]
  BY NothingTyped DEF TypeOK, Channels
<1>2. (IF chan.visits[i] = MaxLoops + 1 THEN chan.visits[i] ELSE chan.visits[i] + 1) \in Count
  BY <1>1, GraphAssumption DEF Count
<1> QED
  BY <1>1, <1>2 DEF Counted

LEMMA CapturedTyped ==
  ASSUME TypeOK, NEW i \in Steps, NEW v \in Answers(i) \cup {"unset"}
  PROVE  [failed |-> i, visits |-> Counted(i), val |-> v] \in Output
BY CountedTyped, StepNumbers DEF Output, Answers, Answer

LEMMA NodeStepTyped ==
  ASSUME TypeOK, NEW i \in Steps, NodeStep(i)
  PROVE  TypeOK'
<1> USE DEF history
<1>1. CASE Abort(i)
  BY <1>1 DEF Abort, TypeOK
<1>2. CASE Skip(i)
  <2>1. work' \in [Steps -> WorkState] /\ out' \in [Steps -> Output] /\ doc' \in Doc
    BY <1>2, ReturnTyped, NothingTyped DEF Skip
  <2> QED
    BY <1>2, <2>1 DEF Skip, TypeOK, WorkState
<1>3. CASE NodeStart(i)
  <2>1. doc' \in Doc /\ work' \in [Steps -> WorkState] /\ tries' \in [Steps -> Nat]
    BY <1>3 DEF NodeStart, TypeOK, Doc, StepStatus, WorkState
  <2> QED
    BY <1>3, <2>1 DEF NodeStart, TypeOK, WorkState
<1>4. CASE NodeReturn(i)
  <2>1. PICK v \in Answers(i) : Return(i, [failed |-> 0, visits |-> Counted(i), val |-> v])
    BY <1>4 DEF NodeReturn
  <2>2. [failed |-> 0, visits |-> Counted(i), val |-> v] \in Output
    BY CountedTyped, StepNumbers DEF Output, Answers, Answer
  <2>3. work' \in [Steps -> WorkState] /\ out' \in [Steps -> Output] /\ doc' \in Doc
    BY <2>1, <2>2, ReturnTyped
  <2> QED
    BY <1>4, <2>3 DEF NodeReturn, TypeOK, WorkState
<1>5. [Nothing EXCEPT !.failed = i] \in Output
  BY NothingTyped, StepNumbers DEF Output
<1>6. CASE NodeCapture(i)
  <2>1. work' \in [Steps -> WorkState] /\ out' \in [Steps -> Output] /\ doc' \in Doc
    BY <1>6, CapturedTyped, ReturnTyped DEF NodeCapture
  <2> QED
    BY <1>6, <2>1 DEF NodeCapture, TypeOK, WorkState
<1>7. CASE NodePass(i)
  <2>1. work' \in [Steps -> WorkState] /\ out' \in [Steps -> Output] /\ doc' \in Doc
    BY <1>5, <1>7, ReturnTyped, NothingTyped DEF NodePass
  <2>2. broken' \subseteq Steps
    BY <1>7 DEF NodePass, TypeOK
  <2> QED
    BY <1>7, <2>1, <2>2 DEF NodePass, TypeOK, WorkState
<1>8. CASE NodeRaise(i)
  BY <1>8 DEF NodeRaise, TypeOK
<1>9. CASE Chunk(i)
  <2>1. Shown(i) \in StepStatus
    BY DEF Shown, StepStatus
  <2>2. doc' = [doc EXCEPT !.st = [doc.st EXCEPT ![i] = Shown(i)],
                           !.outs = [doc.outs EXCEPT ![i] = IF IsEmpty(i) THEN @ ELSE out[i]]]
    BY <1>9 DEF Chunk
  <2>3. [doc.outs EXCEPT ![i] = IF IsEmpty(i) THEN @ ELSE out[i]] \in [Steps -> Output]
    BY DEF TypeOK, Doc
  <2>4. [doc.st EXCEPT ![i] = Shown(i)] \in [Steps -> StepStatus]
    BY <2>1 DEF TypeOK, Doc
  <2>5. doc' \in Doc
    BY <2>2, <2>3, <2>4 DEF TypeOK, Doc
  <2>6. seen' \in 0..N /\ work' \in [Steps -> WorkState]
    BY <1>9, StepNumbers DEF Chunk, TypeOK, WorkState
  <2> QED
    BY <1>9, <2>5, <2>6 DEF Chunk, TypeOK, WorkState
<1> QED
  BY <1>1, <1>2, <1>3, <1>4, <1>6, <1>7, <1>8, <1>9 DEF NodeStep

LEMMA StreamEndTyped ==
  ASSUME TypeOK, Start \/ Superstep \/ Complete \/ WriteFailed
  PROVE  TypeOK'
<1> USE DEF history
<1>1. CASE Start
  BY <1>1, StepNumbers DEF Start, TypeOK, Doc, RunStatus
<1>2. CASE Superstep
  <2>1. chan' \in Channels
    BY <1>2, ApplyTyped DEF Superstep, TypeOK
  <2>2. pend' \subseteq Steps
    <3>1. pend' = (UNION {Targets(i, Apply(chan, {i}, out)) : i \in pend}) \ {End}
      BY <1>2 DEF Superstep
    <3>2. \A i \in pend : Targets(i, Apply(chan, {i}, out)) \subseteq 1..End
      BY TargetsTyped DEF TypeOK
    <3>3. ASSUME NEW p \in pend' PROVE p \in Steps
      <4>1. p \in UNION {Targets(i, Apply(chan, {i}, out)) : i \in pend} /\ p # End
        BY <3>1, <3>3
      <4>2. PICK i \in pend : p \in Targets(i, Apply(chan, {i}, out))
        BY <4>1, Zenon
      <4> QED
        BY <3>2, <4>1, <4>2, StepNumbers
    <3> QED
      BY <3>3
  <2>3. work' \in [Steps -> WorkState]
    BY <1>2 DEF Superstep, WorkState
  <2> QED
    BY <1>2, <2>1, <2>2, <2>3 DEF Superstep, TypeOK, WorkState
<1>3. CASE Complete
  <2>1. doc' \in Doc
    BY <1>3 DEF Complete, TypeOK, Doc, RunStatus, Channels
  <2> QED
    BY <1>3, <2>1 DEF Complete, TypeOK
<1>4. CASE WriteFailed
  <2>1. [i \in Steps |-> IF i \in Culprit THEN "failed" ELSE doc.st[i]] \in [Steps -> StepStatus]
    BY DEF TypeOK, Doc, StepStatus
  <2>2. (IF chan.failed # 0 THEN chan.failed ELSE seen) \in 0..N
    BY DEF TypeOK, Channels
  <2>3. doc' = [doc EXCEPT !.status = "failed",
                  !.st = [i \in Steps |-> IF i \in Culprit THEN "failed" ELSE doc.st[i]],
                  !.saved = IF chan.failed # 0 THEN chan.failed ELSE seen]
    BY <1>4 DEF WriteFailed
  <2>4. doc' \in Doc
    BY <2>1, <2>2, <2>3 DEF TypeOK, Doc, RunStatus
  <2>5. work' \in [Steps -> WorkState]
    BY <1>4 DEF WriteFailed, TypeOK, WorkState
  <2> QED
    BY <1>4, <2>4, <2>5 DEF WriteFailed, TypeOK, WorkState
<1> QED
  BY <1>1, <1>2, <1>3, <1>4

(* Where recovery and retry continue the thread.                             *)
LEMMA ReseedTyped ==
  ASSUME TypeOK, NEW k \in 0..N, Reseed(k)
  PROVE  /\ work' = [i \in Steps |-> "idle"] /\ work' \in [Steps -> WorkState]
         /\ broken' \subseteq Steps
         /\ chan' \in Channels
         /\ pend' \subseteq Steps
<1>1. /\ work' = [i \in Steps |-> "idle"] /\ work' \in [Steps -> WorkState]
      /\ broken' \subseteq Steps
  BY DEF Reseed, TypeOK, WorkState
<1>2. CASE k = 0
  <2>1. pend' = {1} /\ chan' = [chan EXCEPT !.failed = IF doc.saved # 0 THEN doc.saved ELSE @]
    BY <1>2 DEF Reseed
  <2>2. chan' \in Channels
    BY <2>1 DEF TypeOK, Channels, Doc
  <2> QED
    BY <1>1, <2>1, <2>2, StepNumbers
<1>3. CASE k # 0
  <2>1. chan' = Seeded /\ pend' = Targets(k, Seeded) \ {End}
    BY <1>3 DEF Reseed
  <2>2. Targets(k, Seeded) \subseteq 1..End
    <3>1. k \in Steps
      BY <1>3, StepNumbers
    <3> QED
      BY <3>1, TargetsTyped
  <2>3. pend' \subseteq Steps
    BY <2>1, <2>2, StepNumbers
  <2> QED
    BY <1>1, <2>1, <2>3, SeededTyped
<1> QED
  BY <1>2, <1>3

LEMMA RestartTyped ==
  ASSUME TypeOK, Crash \/ Recovery \/ Retry
  PROVE  TypeOK'
<1> USE DEF history
<1>1. CASE Crash
  <2>1. crashes' \in 0..MaxCrash /\ work' \in [Steps -> WorkState]
    BY <1>1, GraphAssumption DEF Crash, TypeOK, WorkState
  <2> QED
    BY <1>1, <2>1 DEF Crash, TypeOK, WorkState
<1>2. CASE Recover
  <2>1. PICK k \in 0..N :
          IF k = 0 \/ Routed(k, Seeded)
            THEN Reseed(k) /\ proc' = (IF k = 0 THEN "fresh" ELSE "resume") /\ UNCHANGED doc
            ELSE /\ doc' = [doc EXCEPT !.status = "failed", !.saved = 0]
                 /\ proc' = "off" /\ UNCHANGED <<chan, pend, work, broken>>
    BY <1>2 DEF Recover
  <2>2. CASE Reseed(k) /\ UNCHANGED doc /\ proc' \in {"fresh", "resume"}
    BY <1>2, <2>2, ReseedTyped DEF Recover, TypeOK, WorkState
  <2>3. CASE doc' = [doc EXCEPT !.status = "failed", !.saved = 0] /\ proc' = "off"
             /\ UNCHANGED <<chan, pend, work, broken>>
    <3>1. 0 \in 0..N /\ "failed" \in RunStatus
      BY StepNumbers DEF RunStatus
    <3>2. doc' \in Doc
      BY <2>3, <3>1 DEF TypeOK, Doc
    <3> QED
      BY <1>2, <2>3, <3>2 DEF Recover, TypeOK
  <2> QED
    BY <2>1, <2>2, <2>3
<1>3. CASE Begin
  <2>1. seen' \in 0..N /\ pend' \subseteq Steps
    BY <1>3, StepNumbers DEF Begin, TypeOK, Doc, Channels
  <2> QED
    BY <1>3, <2>1 DEF Begin, TypeOK
<1>4. CASE Retry
  <2>1. PICK k \in 0..N : Reseed(k)
    BY <1>4 DEF Retry
  <2>2. PICK bad : doc' = [doc EXCEPT !.status = "running",
                 !.st = [i \in Steps |-> IF \E b \in bad : b <= i THEN "pending" ELSE doc.st[i]]]
    BY <1>4 DEF Retry
  <2>3. [i \in Steps |-> IF \E b \in bad : b <= i THEN "pending" ELSE doc.st[i]]
          \in [Steps -> StepStatus]
    BY DEF TypeOK, Doc, StepStatus
  <2>4. doc' \in Doc
    BY <2>2, <2>3 DEF TypeOK, Doc, RunStatus
  <2>5. retries' \in 0..MaxRetry
    BY <1>4, GraphAssumption DEF Retry, TypeOK
  <2>6. seen' \in 0..N
    BY <1>4, <2>1, ReseedTyped DEF Retry, Channels
  <2> QED
    BY <1>4, <2>1, <2>4, <2>5, <2>6, ReseedTyped DEF Retry, TypeOK, WorkState
<1> QED
  BY <1>1, <1>2, <1>3, <1>4 DEF Recovery

LEMMA NextTyped == TypeOK /\ [Next]_vars => TypeOK'
<1> SUFFICES ASSUME TypeOK, [Next]_vars PROVE TypeOK'
  OBVIOUS
<1>1. CASE UNCHANGED vars
  BY <1>1 DEF vars, TypeOK
<1> QED
  BY <1>1, NodeStepTyped, StreamEndTyped, RestartTyped DEF Next, StreamStep

(* Every variable keeps its type, in every graph: the channels after any     *)
(* superstep or recovery, the pending nodes, the position the sentinel names.*)
THEOREM GraphTypeCorrect == Spec => []TypeOK
BY InitTyped, NextTyped, PTL DEF Spec

(***************************************************************************)
(* Graphs without parallel steps, and so without joins, which close them.  *)
(* There one step is pending at a time, and whoever is at work may work:   *)
(* the sentinel names no step or the step itself.  A recorded failure is   *)
(* in the sentinel, or in the output that the next superstep applies; both *)
(* survive the restart and the retry that seed the thread anew.            *)
(***************************************************************************)
Unbranched == \A i \in Steps : Kind[i] \notin {"parallel"} \cup Joins

Quiet == \A i \in Steps : work[i] = "idle"
Written(i) == work[i] \in {"returned", "told"}

PathInv ==
  /\ \A i, j \in pend : i = j
  /\ \A i \in Steps : work[i] # "idle" => i \in pend
  /\ proc = "failing" => \A i \in Steps : work[i] \in {"idle", "body"}
  /\ proc \in {"fresh", "resume"} => Quiet
  /\ doc.status = "absent" => proc = "off" /\ Quiet /\ seen = 0

(* The process tells what it has seen of the sentinel.                       *)
SeenInv ==
  proc \in {"stream", "failing"} /\ seen \notin {0, chan.failed} =>
    seen \in Steps /\ work[seen] = "told" /\ out[seen].failed = seen

SentinelInv ==
  /\ \A i \in Steps : work[i] # "idle" => chan.failed \in {0, i}
  /\ \A i \in Steps : Written(i) => out[i].failed \in {0, i}
  /\ doc.saved \in {0, chan.failed}
  /\ SeenInv
  /\ \A i \in broken : chan.failed = i \/ (Written(i) /\ out[i].failed = i)

LEMMA OneTarget ==
  ASSUME Unbranched, NEW i \in Steps, NEW c
  PROVE  \A a, b \in Targets(i, c) : a = b
BY DEF Unbranched, Targets

(* The sentinel after the writes of a set of steps.                          *)
LEMMA ApplyFailed ==
  ASSUME NEW c \in Channels, NEW S \in SUBSET Steps, NEW w
  PROVE  /\ (\A i \in S : w[i].failed = 0) => Apply(c, S, w).failed = c.failed
         /\ \A i \in S : w[i].failed # 0 =>
              \E j \in S : w[j].failed # 0 /\ Apply(c, S, w).failed = w[j].failed
<1> DEFINE sets == {i \in S : w[i].failed # 0}
<1>1. Apply(c, S, w).failed = IF sets = {} THEN c.failed ELSE w[LastOf(sets)].failed
  BY DEF Apply
<1>2. sets # {} => LastOf(sets) \in sets
  <2>1. sets \subseteq Steps
    OBVIOUS
  <2> HIDE DEF sets
  <2> QED
    BY <2>1, LastOfSteps
<1>3. \A i \in S : w[i].failed # 0 => sets # {} /\ LastOf(sets) \in S
                                    /\ w[LastOf(sets)].failed # 0
  BY <1>2
<1>4. (\A i \in S : w[i].failed = 0) => sets = {}
  OBVIOUS
<1> HIDE DEF sets
<1> QED
  BY <1>1, <1>3, <1>4

(* Seeding the thread applies what the steps have written, and lets the      *)
(* stored sentinel win.                                                      *)
LEMMA SeededFailed ==
  ASSUME TypeOK
  PROVE  Seeded.failed = IF doc.saved # 0 THEN doc.saved
                         ELSE Apply(chan, {i \in pend : Written(i)}, out).failed
<1> DEFINE done    == {i \in Steps : doc.st[i] \in Done}
           counted == {i \in done : doc.outs[i].visits # NoVisits}
           visits  == IF counted = {} THEN NoVisits ELSE doc.outs[LastOf(counted)].visits
           acc     == [i \in done \cup {N} |->
                         [failed |-> doc.saved,
                          visits |-> visits,
                          val    |-> IF i \in done THEN doc.outs[i].val ELSE "unset"]]
           written == {i \in pend : work[i] \in {"returned", "told"}}
           c       == Apply(chan, written, out)
<1>1. Seeded = Apply(c, done \cup {N}, acc)
  BY Zenon DEF Seeded
<1>2. done \cup {N} \in SUBSET Steps /\ written \in SUBSET Steps
  <2>1. N \in Steps /\ pend \subseteq Steps
    BY StepNumbers DEF TypeOK
  <2> QED
    BY <2>1
<1>3. c \in Channels
  <2>1. \A i \in written : out[i] \in Output
    BY <1>2 DEF TypeOK
  <2> HIDE DEF written
  <2> QED
    BY <1>2, <2>1, ApplyTyped DEF TypeOK
<1>4. N \in done \cup {N} /\ \A i \in done \cup {N} : acc[i].failed = doc.saved
  OBVIOUS
<1>5. written = {i \in pend : Written(i)}
  BY DEF Written
<1> HIDE DEF done, acc, written, c
<1>6. Seeded.failed = IF doc.saved # 0 THEN doc.saved ELSE c.failed
  <2>1. CASE doc.saved = 0
    <3>1. \A i \in done \cup {N} : acc[i].failed = 0
      BY <1>4, <2>1
    <3> QED
      BY <1>1, <1>2, <1>3, <2>1, <3>1, ApplyFailed
  <2>2. CASE doc.saved # 0
    <3> DEFINE S == done \cup {N}
    <3>a. S \in SUBSET Steps /\ N \in S /\ acc[N].failed # 0
      BY <1>2, <1>4, <2>2
    <3> HIDE DEF S
    <3>b. \E j \in S : acc[j].failed # 0 /\ Apply(c, S, acc).failed = acc[j].failed
      BY <1>3, <3>a, ApplyFailed
    <3>1. PICK j \in done \cup {N} : Apply(c, done \cup {N}, acc).failed = acc[j].failed
      BY <3>b DEF S
    <3> QED
      BY <1>1, <1>4, <2>2, <3>1
  <2> QED
    BY <2>1, <2>2
<1> QED
  BY <1>5, <1>6 DEF c

(***************************************************************************)
(* The path of one pending step.                                           *)
(***************************************************************************)
LEMMA NodePath ==
  ASSUME TypeOK, PathInv, NEW i \in Steps, NodeStep(i)
  PROVE  PathInv'
<1>1. /\ proc = "stream" /\ i \in pend /\ pend' = pend
      /\ \A j \in Steps \ {i} : work[j] = "idle"
      /\ doc.status # "absent"
  <2>1. proc = "stream" /\ pend' = pend /\ (i \in pend \/ work[i] # "idle")
    BY DEF NodeStep, Abort, Skip, NodeStart, NodeReturn, NodeCapture, NodePass, NodeRaise,
           Chunk, Ready, InBody
  <2> QED
    BY <2>1 DEF PathInv
<1>2. doc'.status = doc.status
  <2>1. doc \in Doc
    BY DEF TypeOK
  <2> QED
    BY <2>1 DEF NodeStep, Abort, Skip, NodeStart, NodeReturn, NodeCapture, NodePass, NodeRaise,
           Chunk, Return, Doc
<1>3. \A j \in Steps \ {i} : work'[j] = "idle"
  BY <1>1 DEF TypeOK, NodeStep, Abort, Skip, NodeStart, NodeReturn, NodeCapture, NodePass,
              NodeRaise, Chunk, Return
<1>4. proc' = "stream" \/ (proc' = "failing" /\ work'[i] \in {"idle", "body"})
  BY <1>1 DEF NodeStep, Abort, Skip, NodeStart, NodeReturn, NodeCapture, NodePass,
              NodeRaise, Chunk, Ready, InBody
<1> QED
  BY <1>1, <1>2, <1>3, <1>4 DEF PathInv, Quiet

(* Where the thread continues, it continues at one step at most.             *)
LEMMA ReseedPath ==
  ASSUME TypeOK, Unbranched, NEW k \in 0..N, Reseed(k)
  PROVE  (\A i, j \in pend' : i = j) /\ \A i \in Steps : work'[i] = "idle"
<1>1. k # 0 => \A a, b \in Targets(k, Seeded) : a = b
  <2>1. k # 0 => k \in Steps
    BY StepNumbers
  <2> QED
    BY <2>1, OneTarget
<1> QED
  BY <1>1 DEF Reseed

LEMMA NextPath ==
  ASSUME TypeOK, Unbranched, PathInv, [Next]_vars
  PROVE  PathInv'
<1>t. doc \in Doc /\ work \in [Steps -> WorkState]
  BY DEF TypeOK, WorkState
<1>1. CASE UNCHANGED vars
  BY <1>1 DEF vars, PathInv, Quiet
<1>2. ASSUME NEW i \in Steps, NodeStep(i) PROVE PathInv'
  BY <1>2, NodePath
<1>3. CASE Start
  BY <1>t, <1>3 DEF Start, PathInv, Quiet, Doc
<1>4. CASE Superstep
  <2>1. PICK p \in pend : pend = {p}
    BY <1>4 DEF Superstep, PathInv
  <2>2. pend' = Targets(p, Apply(chan, {p}, out)) \ {End}
    BY <1>4, <2>1 DEF Superstep
  <2>3. \A i, j \in pend' : i = j
    BY <2>1, <2>2, OneTarget DEF TypeOK
  <2> QED
    BY <1>4, <2>3 DEF Superstep, PathInv, Quiet
<1>5. CASE Complete
  BY <1>t, <1>5 DEF Complete, PathInv, Quiet, Doc
<1>6. CASE WriteFailed
  <2>1. \A i \in Steps : work'[i] = "idle"
    BY <1>6 DEF WriteFailed, PathInv
  <2>2. doc'.status = "failed" /\ proc' = "off" /\ pend' = pend
    BY <1>t, <1>6 DEF WriteFailed, Doc
  <2> QED
    BY <2>1, <2>2 DEF PathInv
<1>7. CASE Crash
  BY <1>t, <1>7 DEF Crash, PathInv, Quiet
<1>8. CASE Recover
  <2>1. PICK k \in 0..N :
          \/ Reseed(k) /\ UNCHANGED doc
          \/ /\ doc' = [doc EXCEPT !.status = "failed", !.saved = 0]
             /\ proc' = "off" /\ UNCHANGED <<chan, pend, work, broken>>
    BY <1>8 DEF Recover
  <2>2. doc.status # "absent" /\ proc' \notin {"failing"}
    BY <1>8 DEF Recover, PathInv
  <2>3. CASE Reseed(k) /\ UNCHANGED doc
    BY <2>2, <2>3, ReseedPath DEF PathInv, Quiet
  <2>4. CASE /\ doc' = [doc EXCEPT !.status = "failed", !.saved = 0]
             /\ proc' = "off" /\ UNCHANGED <<chan, pend, work, broken>>
    BY <1>t, <2>4 DEF PathInv, Doc
  <2> QED
    BY <2>1, <2>3, <2>4
<1>9. CASE Begin
  <2>1. /\ proc' = "stream" /\ work' = work /\ doc' = doc
        /\ pend' = pend \/ pend' = {1}
        /\ Quiet /\ doc.status # "absent"
    BY <1>9 DEF Begin, PathInv
  <2> QED
    BY <2>1 DEF PathInv, Quiet
<1>10. CASE Retry
  <2>1. PICK k \in 0..N : Reseed(k)
    BY <1>10 DEF Retry
  <2>2. proc' = "stream" /\ doc'.status = "running"
    BY <1>t, <1>10 DEF Retry, Doc
  <2> QED
    BY <2>1, <2>2, ReseedPath DEF PathInv
<1> QED
  BY <1>1, <1>2, <1>3, <1>4, <1>5, <1>6, <1>7, <1>8, <1>9, <1>10
     DEF Next, StreamStep, Recovery

(***************************************************************************)
(* The sentinel.                                                           *)
(***************************************************************************)

(* A step that has returned is the only one at work.                         *)
LEMMA ReturnSentinel ==
  ASSUME TypeOK, Unbranched, PathInv, SentinelInv, NEW i \in Steps,
         Skip(i) \/ NodeReturn(i) \/ NodeCapture(i) \/ NodePass(i)
  PROVE  SentinelInv'
<1>1. /\ chan.failed \in {0, i} /\ proc = "stream" /\ work[i] \in {"idle", "body"}
      /\ UNCHANGED <<chan, pend, proc, seen>>
  BY DEF Skip, NodeReturn, NodeCapture, NodePass, Ready, Blocked, InBody, SentinelInv,
         Unbranched
<1>2. PICK o \in Output : Return(i, o) /\ o.failed \in {0, i}
                          /\ (broken' \subseteq broken \/ (o.failed = i /\ broken' = broken \cup {i}))
  <2>1. Nothing \in Output /\ [Nothing EXCEPT !.failed = i] \in Output
        /\ [Nothing EXCEPT !.failed = i].failed = i /\ Nothing.failed = 0
    BY NothingTyped, StepNumbers DEF Output
  <2>2. CASE Skip(i)
    BY <2>1, <2>2 DEF Skip, history
  <2>3. CASE NodeReturn(i)
    <3>1. PICK v \in Answers(i) : Return(i, [failed |-> 0, visits |-> Counted(i), val |-> v])
      BY <2>3 DEF NodeReturn
    <3>2. [failed |-> 0, visits |-> Counted(i), val |-> v] \in Output
      BY CountedTyped, StepNumbers DEF Output, Answers, Answer
    <3>3. broken' \subseteq broken
      BY <2>3 DEF NodeReturn
    <3> QED
      BY <3>1, <3>2, <3>3
  <2>4. CASE NodeCapture(i)
    <3>1. PICK v \in Answers(i) \cup {"unset"} :
            Return(i, [failed |-> i, visits |-> Counted(i), val |-> v])
      BY <2>4 DEF NodeCapture
    <3>2. broken' = broken \cup {i}
      BY <2>4 DEF NodeCapture
    <3> QED
      BY <3>1, <3>2, CapturedTyped
  <2>5. CASE NodePass(i)
    BY <2>1, <2>5 DEF NodePass, Unbranched, Joins
  <2> QED
    BY <2>2, <2>3, <2>4, <2>5
<1>3. /\ work' = [work EXCEPT ![i] = "returned"] /\ out' = [out EXCEPT ![i] = o]
      /\ work \in [Steps -> WorkState] /\ out \in [Steps -> Output]
      /\ doc'.saved = doc.saved
  <2>1. doc'.saved = doc.saved
    BY <1>2 DEF Return, TypeOK, Doc
  <2> QED
    BY <1>2, <2>1, ReturnTyped DEF TypeOK, WorkState
<1>4. \A j \in Steps \ {i} : work'[j] = work[j] /\ out'[j] = out[j]
  BY <1>3
<1>5. work'[i] = "returned" /\ out'[i].failed = o.failed
  BY <1>3
<1>6. ASSUME NEW j \in broken' PROVE chan.failed = j \/ (Written(j)' /\ out'[j].failed = j)
  <2>1. CASE j = i /\ o.failed = i
    BY <1>5, <2>1 DEF Written
  <2>2. CASE j \in broken
    BY <1>1, <1>4, <2>2 DEF SentinelInv, Written, TypeOK
  <2> QED
    BY <1>2, <1>6, <2>1, <2>2
<1>7. SeenInv'
  BY <1>1, <1>4 DEF SeenInv, SentinelInv
<1>8. /\ \A j \in Steps : work'[j] # "idle" => chan.failed \in {0, j}
      /\ \A j \in Steps : Written(j)' => out'[j].failed \in {0, j}
  BY <1>1, <1>2, <1>4, <1>5 DEF SentinelInv, Written
<1> QED
  BY <1>1, <1>3, <1>6, <1>7, <1>8 DEF SentinelInv

LEMMA NodeSentinel ==
  ASSUME TypeOK, Unbranched, PathInv, SentinelInv, NEW i \in Steps, NodeStep(i)
  PROVE  SentinelInv'
<1>t. doc \in Doc /\ work \in [Steps -> WorkState]
  BY DEF TypeOK, WorkState
<1>1. CASE Abort(i) \/ NodeRaise(i)
  BY <1>1 DEF Abort, NodeRaise, Ready, InBody, history, SentinelInv, SeenInv, Written
<1>2. CASE NodeStart(i)
  <2>1. /\ chan.failed \in {0, i} /\ work'[i] = "body" /\ work[i] = "idle"
        /\ UNCHANGED <<chan, out, proc, seen, broken>> /\ doc'.saved = doc.saved
        /\ \A j \in Steps \ {i} : work'[j] = work[j]
    BY <1>t, <1>2 DEF NodeStart, Ready, Blocked, Unbranched, Doc
  <2> QED
    BY <2>1 DEF SentinelInv, SeenInv, Written, TypeOK
<1>3. CASE Chunk(i)
  <2>1. /\ proc = "stream" /\ work[i] = "returned" /\ work'[i] = "told"
        /\ UNCHANGED <<chan, out, proc, broken>>
        /\ doc'.saved = doc.saved
        /\ \A j \in Steps \ {i} : work'[j] = work[j]
        /\ seen' \in {i, 0, seen} /\ (seen' = i /\ seen # i => out[i].failed # 0)
    BY <1>t, <1>3, StepNumbers DEF Chunk, Doc, history
  <2>2. SeenInv'
    BY <2>1 DEF SentinelInv, SeenInv, Written
  <2> QED
    BY <2>1, <2>2 DEF SentinelInv, Written, TypeOK
<1> QED
  BY <1>1, <1>2, <1>3, ReturnSentinel DEF NodeStep

(* A superstep moves what its step has written into the sentinel.            *)
LEMMA SuperstepSentinel ==
  ASSUME TypeOK, PathInv, SentinelInv, Superstep
  PROVE  SentinelInv'
<1>1. PICK p \in pend : pend = {p}
  BY DEF Superstep, PathInv
<1>2. /\ p \in Steps /\ work[p] = "told" /\ chan.failed \in {0, p} /\ out[p].failed \in {0, p}
      /\ \A i \in Steps \ {p} : work[i] = "idle"
  BY <1>1 DEF Superstep, TypeOK, SentinelInv, PathInv, Written
<1>3. chan'.failed = IF out[p].failed # 0 THEN out[p].failed ELSE chan.failed
  <2>1. chan' = Apply(chan, {p}, out) /\ chan \in Channels
    BY <1>1 DEF Superstep, TypeOK
  <2>2. p \in Steps /\ chan \in Channels
    BY <1>2, <2>1
  <2>3. Apply(chan, {p}, out).failed = IF out[p].failed # 0 THEN out[p].failed ELSE chan.failed
    BY <2>2, ApplyOne
  <2> QED
    BY <2>1, <2>3
<1>4. \A i \in Steps : work'[i] = "idle"
  BY DEF Superstep
<1>5. UNCHANGED <<doc, out, proc, seen, broken>>
  BY DEF Superstep, history
<1>6. \A i \in broken : chan'.failed = i
  <2>1. broken \subseteq Steps /\ 0 \notin Steps
    BY StepNumbers DEF TypeOK
  <2>2. ASSUME NEW i \in broken PROVE chan.failed = i \/ (i = p /\ out[p].failed = p)
    BY <1>2, <2>1 DEF SentinelInv, Written
  <2> QED
    BY <1>2, <1>3, <2>1, <2>2
<1>7. seen \in {0, chan'.failed}
  <2>1. proc = "stream"
    BY DEF Superstep
  <2> QED
    BY <1>2, <1>3, <2>1 DEF SentinelInv, SeenInv
<1> QED
  BY <1>2, <1>3, <1>4, <1>5, <1>6, <1>7 DEF SentinelInv, SeenInv, Written

(* Seeding keeps a sentinel that is set, and applies one that is written.    *)
LEMMA ReseedSentinel ==
  ASSUME TypeOK, PathInv, SentinelInv, NEW k \in 0..N, Reseed(k)
  PROVE  /\ \A i \in Steps : work'[i] = "idle"
         /\ doc.saved \in {0, chan'.failed}
         /\ \A i \in broken' : chan'.failed = i
<1>1. CASE k = 0
  <2>1. chan' = [chan EXCEPT !.failed = IF doc.saved # 0 THEN doc.saved ELSE @] /\ broken' = {}
    BY <1>1 DEF Reseed
  <2>2. chan'.failed = chan.failed
    BY <2>1 DEF SentinelInv, TypeOK, Channels
  <2> QED
    BY <2>1, <2>2 DEF Reseed, SentinelInv
<1>2. CASE k # 0
  <2> DEFINE W == {i \in pend : Written(i)}
  <2>1. chan' = Seeded /\ broken' = broken
    BY <1>2 DEF Reseed
  <2>2. chan'.failed = IF doc.saved # 0 THEN doc.saved ELSE Apply(chan, W, out).failed
    BY <2>1, SeededFailed
  <2>3. chan \in Channels /\ W \in SUBSET Steps /\ chan.failed \in 0..N
    BY DEF TypeOK, Channels
  <2>4. \A i \in W : chan.failed \in {0, i} /\ out[i].failed \in {0, i}
    BY <2>3 DEF SentinelInv, Written
  <2>5. \A i, j \in W : i = j
    BY DEF PathInv
  <2>6. broken \subseteq Steps /\ 0 \notin Steps
    BY StepNumbers DEF TypeOK
  <2>7. \A i \in broken : chan.failed = i \/ (i \in W /\ out[i].failed = i)
    BY <2>6 DEF SentinelInv, PathInv, Written
  <2>8. doc.saved \in {0, chan.failed}
    BY DEF SentinelInv
  <2> HIDE DEF W
  <2>9. \/ Apply(chan, W, out).failed = chan.failed /\ \A i \in W : out[i].failed = 0
        \/ \E i \in W : Apply(chan, W, out).failed = i /\ out[i].failed = i
    <3>1. CASE \A i \in W : out[i].failed = 0
      BY <2>3, <3>1, ApplyFailed
    <3>2. ASSUME NEW i \in W, out[i].failed # 0
          PROVE  \E j \in W : out[j].failed # 0 /\ Apply(chan, W, out).failed = out[j].failed
      BY <2>3, <3>2, ApplyFailed
    <3> QED
      BY <2>4, <3>1, <3>2
  <2>10. \A i \in broken : chan'.failed = i
    BY <2>2, <2>4, <2>5, <2>6, <2>7, <2>8, <2>9
  <2> QED
    BY <2>2, <2>8, <2>10 DEF Reseed
<1> QED
  BY <1>1, <1>2

LEMMA NextSentinel ==
  ASSUME TypeOK, Unbranched, PathInv, SentinelInv, [Next]_vars
  PROVE  SentinelInv'
<1>t. doc \in Doc /\ work \in [Steps -> WorkState] /\ broken \subseteq Steps
  BY DEF TypeOK, WorkState
<1>1. CASE UNCHANGED vars
  BY <1>1 DEF vars, SentinelInv, SeenInv, Written
<1>2. ASSUME NEW i \in Steps, NodeStep(i) PROVE SentinelInv'
  BY <1>2, NodeSentinel
<1>3. CASE Start
  BY <1>t, <1>3 DEF Start, SentinelInv, SeenInv, Written, PathInv, Doc, history
<1>4. CASE Superstep
  BY <1>4, SuperstepSentinel
<1>5. CASE Complete
  <2>1. doc'.saved = chan.failed /\ proc' = "off" /\ UNCHANGED <<chan, work, out, broken>>
    BY <1>t, <1>5 DEF Complete, Doc, history
  <2> QED
    BY <2>1 DEF SentinelInv, SeenInv, Written
<1>6. CASE WriteFailed
  <2>1. /\ doc'.saved = (IF chan.failed # 0 THEN chan.failed ELSE seen) /\ proc' = "off"
        /\ UNCHANGED <<chan, out, broken>>
    BY <1>t, <1>6 DEF WriteFailed, Doc, history
  <2>2. \A i \in Steps : work[i] \in {"idle", "body"} /\ work'[i] = "idle"
    BY <1>6 DEF WriteFailed, PathInv
  <2>3. seen \in {0, chan.failed}
    BY <1>6, <2>2 DEF WriteFailed, SentinelInv, SeenInv
  <2> QED
    BY <1>t, <2>1, <2>2, <2>3 DEF SentinelInv, SeenInv, Written
<1>7. CASE Crash
  <2>1. /\ proc' = "down" /\ UNCHANGED <<doc, chan, out, broken>>
        /\ \A i \in Steps : work'[i] = IF work[i] = "body" THEN "idle" ELSE work[i]
    BY <1>7 DEF Crash, history
  <2> QED
    BY <1>t, <2>1 DEF SentinelInv, SeenInv, Written
<1>8. CASE Recover
  <2>1. PICK k \in 0..N :
          \/ Reseed(k) /\ UNCHANGED doc /\ proc' \in {"fresh", "resume"}
          \/ /\ doc' = [doc EXCEPT !.status = "failed", !.saved = 0]
             /\ proc' = "off" /\ UNCHANGED <<chan, pend, work, broken>>
    BY <1>8 DEF Recover
  <2>2. CASE Reseed(k) /\ UNCHANGED doc /\ proc' \in {"fresh", "resume"}
    BY <2>2, ReseedSentinel DEF SentinelInv, SeenInv, Written
  <2>3. CASE /\ doc' = [doc EXCEPT !.status = "failed", !.saved = 0]
             /\ proc' = "off" /\ UNCHANGED <<chan, pend, work, broken>>
    <3>1. doc'.saved = 0 /\ out' = out
      BY <1>t, <1>8, <2>3 DEF Recover, Doc
    <3> QED
      BY <2>3, <3>1 DEF SentinelInv, SeenInv, Written
  <2> QED
    BY <2>1, <2>2, <2>3
<1>9. CASE Begin
  <2>1. /\ UNCHANGED <<doc, chan, work, out, broken>>
        /\ seen' \in {0, chan.failed, doc.saved}
    BY <1>9 DEF Begin, history
  <2> QED
    BY <2>1 DEF SentinelInv, SeenInv, Written
<1>10. CASE Retry
  <2>1. PICK k \in 0..N : Reseed(k)
    BY <1>10 DEF Retry
  <2>2. doc'.saved = doc.saved /\ seen' = chan'.failed
    BY <1>t, <1>10 DEF Retry, Doc
  <2> QED
    BY <2>1, <2>2, ReseedSentinel DEF SentinelInv, SeenInv, Written
<1> QED
  BY <1>1, <1>2, <1>3, <1>4, <1>5, <1>6, <1>7, <1>8, <1>9, <1>10
     DEF Next, StreamStep, Recovery

LEMMA AlwaysSentinel ==
  ASSUME Unbranched
  PROVE  Spec => [](TypeOK /\ PathInv /\ SentinelInv)
<1>1. Init => TypeOK /\ PathInv /\ SentinelInv
  BY InitTyped, NothingTyped DEF Init, PathInv, Quiet, SentinelInv, SeenInv, Written
<1>2. TypeOK /\ PathInv /\ SentinelInv /\ [Next]_vars => (TypeOK /\ PathInv /\ SentinelInv)'
  BY NextTyped, NextPath, NextSentinel
<1> QED
  BY <1>1, <1>2, PTL DEF Spec

(* NothingRunsPastFailure, in every graph without parallel steps: whatever   *)
(* loops, restarts and retries come in between, no step is executed behind a *)
(* step whose failure stands, but that step itself.                          *)
THEOREM FailureStops ==
  ASSUME Unbranched
  PROVE  Spec => NothingRunsPastFailure
<1> DEFINE P == \A i \in Steps : tries'[i] > tries[i] => Kind[i] \in Joins \/ broken \subseteq {i}
<1>1. ASSUME TypeOK, PathInv, SentinelInv, [Next]_vars PROVE P
  <2> SUFFICES ASSUME NEW i \in Steps, tries'[i] > tries[i] PROVE broken \subseteq {i}
    OBVIOUS
  <2>t. tries \in [Steps -> Nat] /\ broken \subseteq Steps /\ 0 \notin Steps
    BY <1>1, StepNumbers DEF TypeOK
  <2>1. tries' # tries
    BY <2>t
  <2>2. PICK j \in Steps : NodeStart(j)
    BY <1>1, <2>1 DEF Next, StreamStep, Recovery, NodeStep, vars, history, Start, Abort, Skip,
       NodeReturn, NodeCapture, NodePass, NodeRaise, Chunk, Superstep, Complete, WriteFailed,
       Crash, Recover, Begin, Retry
  <2>3. j = i
    BY <2>t, <2>2 DEF NodeStart
  <2>4. chan.failed \in {0, i} /\ \A k \in Steps : work[k] = "idle"
    BY <1>1, <2>2, <2>3 DEF NodeStart, Ready, Blocked, Unbranched, PathInv
  <2> QED
    BY <1>1, <2>t, <2>4 DEF SentinelInv, Written
<1>2. TypeOK /\ PathInv /\ SentinelInv /\ [Next]_vars => [P]_vars
  BY <1>1
<1> QED
  BY <1>2, AlwaysSentinel, PTL DEF Spec, NothingRunsPastFailure

(***************************************************************************)
(* Without restarts, the statuses of the document follow the stream: a     *)
(* step is shown as running while it is executed or has just returned, and *)
(* a step that has failed is the one the sentinel will name, with another  *)
(* step to come that refuses to run past it.                               *)
(***************************************************************************)

(* A step whose failure is only captured is never the last one.              *)
CapturersAreFollowed == \A i \in Steps : Captures(i) => Then[i] # End /\ Else[i] # End

StatusInv ==
  /\ proc \in {"off", "stream", "failing"}
  /\ proc # "off" => doc.status = "running"
  /\ doc.status = "absent" => \A i \in Steps : doc.st[i] = "pending"
  /\ \A i \in Steps : doc.st[i] = "running" => proc # "off" /\ work[i] \in {"body", "returned"}
  /\ \A i \in Steps : Written(i) =>
       Routed(i, Apply(chan, {i}, out)) /\ (out[i].failed # 0 => Captures(i))
  /\ \A i \in Steps : work[i] = "told" /\ doc.st[i] = "failed" => out[i].failed = i
  /\ proc = "stream" => \A i \in Steps : doc.st[i] = "failed" =>
       work[i] = "told" \/ (chan.failed = i /\ pend # {})
  /\ CompletedIsWhole

(* Where a step leads depends on its own output, not on the others'.         *)
LEMMA TargetsOwn ==
  ASSUME NEW c \in Channels, NEW i \in Steps, NEW w, NEW v, w[i] = v[i]
  PROVE  Targets(i, Apply(c, {i}, w)) = Targets(i, Apply(c, {i}, v))
<1>1. ASSUME NEW j \in Steps
      PROVE  Apply(c, {i}, w).val[j] = Apply(c, {i}, v).val[j]
  <2>1. Apply(c, {i}, w).val[j] = IF j = i /\ w[i].val # "unset" THEN w[i].val ELSE c.val[j]
    BY DEF Apply
  <2>2. Apply(c, {i}, v).val[j] = IF j = i /\ v[i].val # "unset" THEN v[i].val ELSE c.val[j]
    BY DEF Apply
  <2> QED
    BY <2>1, <2>2
<1>2. Cond[i] = 0 \/ Cond[i] \in Steps
  BY GraphAssumption DEF Steps
<1> DEFINE a == Apply(c, {i}, w)
           b == Apply(c, {i}, v)
<1>3. Cond[i] = 0 \/ a.val[Cond[i]] = b.val[Cond[i]]
  BY <1>1, <1>2
<1> HIDE DEF a, b
<1>4. Targets(i, a) = Targets(i, b)
  BY <1>3 DEF Targets
<1> QED
  BY <1>4 DEF a, b

LEMMA ReturnedOutput ==
  ASSUME TypeOK, Unbranched, NEW i \in Steps,
         Skip(i) \/ NodeReturn(i) \/ NodeCapture(i) \/ NodePass(i)
  PROVE  \E o \in Output : /\ Return(i, o)
                           /\ o.failed = 0 \/ (o.failed = i /\ Captures(i))
<1>1. Nothing \in Output /\ [Nothing EXCEPT !.failed = i] \in Output
      /\ [Nothing EXCEPT !.failed = i].failed = i /\ Nothing.failed = 0
  BY NothingTyped, StepNumbers DEF Output
<1>2. CASE Skip(i)
  BY <1>1, <1>2 DEF Skip
<1>3. CASE NodeReturn(i)
  <2>1. PICK v \in Answers(i) : Return(i, [failed |-> 0, visits |-> Counted(i), val |-> v])
    BY <1>3 DEF NodeReturn
  <2>2. [failed |-> 0, visits |-> Counted(i), val |-> v] \in Output
    BY CountedTyped, StepNumbers DEF Output, Answers, Answer
  <2> QED
    BY <2>1, <2>2
<1>4. CASE NodeCapture(i)
  <2>1. PICK v \in Answers(i) \cup {"unset"} :
          Return(i, [failed |-> i, visits |-> Counted(i), val |-> v])
    BY <1>4 DEF NodeCapture
  <2> QED
    BY <1>4, <2>1, CapturedTyped DEF NodeCapture
<1>5. CASE NodePass(i)
  BY <1>1, <1>5 DEF NodePass, Unbranched, Joins
<1> QED
  BY <1>2, <1>3, <1>4, <1>5

LEMMA NodeStatus ==
  ASSUME TypeOK, Unbranched, PathInv, SentinelInv, StatusInv, NEW i \in Steps, NodeStep(i)
  PROVE  StatusInv'
<1>t. /\ doc \in Doc /\ work \in [Steps -> WorkState] /\ out \in [Steps -> Output]
      /\ doc.st \in [Steps -> StepStatus] /\ doc.outs \in [Steps -> Output] /\ chan \in Channels
  BY DEF TypeOK, WorkState, Doc
<1>1. /\ proc = "stream" /\ i \in pend /\ pend' = pend /\ chan' = chan
      /\ \A j \in Steps \ {i} : work[j] = "idle"
      /\ doc.status = "running"
  <2>1. proc = "stream" /\ pend' = pend /\ chan' = chan /\ (i \in pend \/ work[i] # "idle")
    BY DEF NodeStep, Abort, Skip, NodeStart, NodeReturn, NodeCapture, NodePass, NodeRaise,
           Chunk, Ready, InBody
  <2> QED
    BY <2>1 DEF PathInv, StatusInv
<1>2. CASE Abort(i) \/ NodeRaise(i)
  <2>1. UNCHANGED <<doc, work, out>> /\ proc' = "failing"
    BY <1>2 DEF Abort, NodeRaise
  <2> QED
    BY <1>1, <2>1 DEF StatusInv, Written, CompletedIsWhole, Routed
<1>3. CASE NodeStart(i)
  <2>1. /\ work[i] = "idle" /\ work'[i] = "body" /\ doc'.st[i] = "running"
        /\ \A j \in Steps \ {i} : work'[j] = work[j] /\ doc'.st[j] = doc.st[j]
        /\ UNCHANGED <<out, proc>> /\ doc'.status = doc.status
    BY <1>t, <1>3 DEF NodeStart, Ready, Doc
  <2> QED
    BY <1>1, <2>1 DEF StatusInv, Written, CompletedIsWhole, Routed
<1>4. CASE Skip(i) \/ NodeReturn(i) \/ NodeCapture(i) \/ NodePass(i)
  <2>1. PICK o \in Output : /\ Return(i, o)
                            /\ o.failed = 0 \/ (o.failed = i /\ Captures(i))
    BY <1>4, ReturnedOutput
  <2>2. /\ work'[i] = "returned" /\ out'[i] = o
        /\ \A j \in Steps \ {i} : work'[j] = work[j] /\ out'[j] = out[j]
        /\ Routed(i, Apply(chan, {i}, [j \in {i} |-> o]))
        /\ doc'.st = doc.st /\ doc'.status = doc.status
    BY <1>t, <2>1 DEF Return, Doc
  <2>3. work[i] \in {"idle", "body"} /\ proc' = proc
    BY <1>4 DEF Skip, NodeReturn, NodeCapture, NodePass, Ready, InBody
  <2>4. Routed(i, Apply(chan, {i}, out'))
    BY <1>t, <2>2, TargetsOwn DEF Routed
  <2>5. (\A j \in Steps : Written(j) =>
           Routed(j, Apply(chan, {j}, out)) /\ (out[j].failed # 0 => Captures(j)))'
    BY <1>1, <2>1, <2>2, <2>4 DEF Written, Routed
  <2> QED
    BY <1>1, <2>2, <2>3, <2>5 DEF StatusInv, Written, CompletedIsWhole
<1>5. CASE Chunk(i)
  <2>1. /\ work[i] = "returned" /\ work'[i] = "told" /\ UNCHANGED <<out, proc>>
        /\ \A j \in Steps \ {i} : work'[j] = work[j]
    BY <1>t, <1>5 DEF Chunk
  <2>2. /\ doc'.st[i] = Shown(i) /\ doc'.status = doc.status
        /\ \A j \in Steps \ {i} : doc'.st[j] = doc.st[j]
    <3>1. doc' = [doc EXCEPT !.st = [doc.st EXCEPT ![i] = Shown(i)],
                             !.outs = [doc.outs EXCEPT ![i] = IF IsEmpty(i) THEN @ ELSE out[i]]]
      BY <1>5 DEF Chunk
    <3> QED
      BY <1>t, <3>1 DEF Doc
  <2>3. Shown(i) # "running" /\ (Shown(i) = "failed" => out[i].failed = i)
    BY DEF Shown
  <2> QED
    BY <1>1, <2>1, <2>2, <2>3 DEF StatusInv, Written, CompletedIsWhole, Routed
<1> QED
  BY <1>2, <1>3, <1>4, <1>5 DEF NodeStep

(* Behind a captured failure there is a step, which will refuse to run.      *)
LEMMA SuperstepStatus ==
  ASSUME TypeOK, Unbranched, CapturersAreFollowed, PathInv, SentinelInv, StatusInv, Superstep
  PROVE  StatusInv'
<1>1. PICK p \in pend : pend = {p}
  BY DEF Superstep, PathInv
<1>2. /\ p \in Steps /\ work[p] = "told" /\ chan.failed \in {0, p} /\ out[p].failed \in {0, p}
      /\ \A i \in Steps \ {p} : work[i] = "idle"
      /\ chan \in Channels /\ 0 \notin Steps
  BY <1>1, StepNumbers DEF Superstep, TypeOK, SentinelInv, PathInv, Written
<1>3. /\ chan' = Apply(chan, {p}, out) /\ proc = "stream"
      /\ pend' = Targets(p, Apply(chan, {p}, out)) \ {End}
      /\ \A i \in Steps : work'[i] = "idle"
      /\ UNCHANGED <<doc, out, proc>>
  BY <1>1 DEF Superstep
<1>4. chan'.failed = IF out[p].failed # 0 THEN out[p].failed ELSE chan.failed
  <2>1. Apply(chan, {p}, out).failed = IF out[p].failed # 0 THEN out[p].failed ELSE chan.failed
    <3>1. p \in Steps /\ chan \in Channels
      BY <1>2
    <3> QED
      BY <3>1, ApplyOne, Zenon
  <2> QED
    BY <1>3, <2>1
<1>5. ASSUME NEW i \in Steps, doc.st[i] = "failed" PROVE chan'.failed = i /\ pend' # {}
  <2>1. i = p
    BY <1>2, <1>3, <1>5 DEF StatusInv
  <2>2. out[p].failed = p /\ Captures(p) /\ Targets(p, Apply(chan, {p}, out)) # {}
    BY <1>2, <1>5, <2>1 DEF StatusInv, Written, Routed
  <2>3. End \notin Targets(p, Apply(chan, {p}, out))
    BY <1>2, <2>2 DEF CapturersAreFollowed, Captures, Targets
  <2> QED
    BY <1>2, <1>3, <1>4, <2>1, <2>2, <2>3
<1>6. doc.status = "running" /\ \A i \in Steps : doc.st[i] # "running"
  BY <1>2, <1>3 DEF StatusInv
<1> QED
  BY <1>3, <1>5, <1>6 DEF StatusInv, Written, CompletedIsWhole

LEMMA NextStatus ==
  ASSUME Unbranched, CapturersAreFollowed, MaxCrash = 0,
         TypeOK, PathInv, SentinelInv, StatusInv, [Next]_vars
  PROVE  StatusInv'
<1>t. /\ doc \in Doc /\ work \in [Steps -> WorkState] /\ doc.st \in [Steps -> StepStatus]
      /\ pend \subseteq Steps
  BY DEF TypeOK, WorkState, Doc
<1>1. CASE UNCHANGED vars
  BY <1>1 DEF vars, StatusInv, Written, CompletedIsWhole, Routed
<1>2. ASSUME NEW i \in Steps, NodeStep(i) PROVE StatusInv'
  BY <1>2, NodeStatus
<1>3. CASE Start
  <2>1. /\ doc.status = "absent" /\ doc'.status = "running" /\ doc'.st = doc.st
        /\ proc' = "stream" /\ UNCHANGED <<chan, work, out>>
    BY <1>t, <1>3 DEF Start, Doc
  <2> QED
    BY <2>1 DEF StatusInv, Written, CompletedIsWhole, PathInv, Quiet
<1>4. CASE Superstep
  BY <1>4, SuperstepStatus
<1>5. CASE Complete
  <2>1. /\ proc = "stream" /\ pend = {} /\ doc'.status = "completed" /\ doc'.st = doc.st
        /\ proc' = "off" /\ UNCHANGED <<chan, work, out>>
    BY <1>t, <1>5 DEF Complete, Doc
  <2>2. \A i \in Steps : work[i] = "idle"
    BY <2>1 DEF PathInv
  <2>3. \A i \in Steps : doc.st[i] \in {"pending"} \cup Done
    BY <1>t, <2>1, <2>2 DEF StatusInv, StepStatus, Done
  <2> QED
    BY <2>1, <2>2, <2>3 DEF StatusInv, Written, CompletedIsWhole, Done
<1>6. CASE WriteFailed
  <2>1. /\ proc = "failing" /\ proc' = "off" /\ doc'.status = "failed"
        /\ \A i \in Steps : doc'.st[i] = IF i \in Culprit THEN "failed" ELSE doc.st[i]
    BY <1>t, <1>6 DEF WriteFailed, Doc
  <2>2. \A i \in Steps : work'[i] = "idle"
    BY <1>6 DEF WriteFailed, PathInv
  <2>3. ASSUME NEW i \in Steps, doc.st[i] = "running" PROVE i \in Culprit
    <3>1. \A j \in Steps : doc.st[j] = "running" => j = i
      BY <2>3 DEF StatusInv, PathInv
    <3>2. i <= i
      BY DEF Steps
    <3> QED
      BY <2>3, <3>1, <3>2 DEF Culprit
  <2>4. \A i \in Steps : doc'.st[i] # "running"
    BY <2>1, <2>3
  <2> QED
    BY <2>1, <2>2, <2>4 DEF StatusInv, Written, CompletedIsWhole
<1>7. CASE Retry
  <2>1. PICK k \in 0..N : Reseed(k)
    BY <1>7 DEF Retry
  <2>2. /\ doc.status = "failed" /\ proc = "off" /\ proc' = "stream" /\ doc'.status = "running"
        /\ \A i \in Steps : doc.st[i] = "failed" => doc'.st[i] = "pending"
        /\ \A i \in Steps : doc'.st[i] \in {"pending", doc.st[i]}
    <3>1. /\ doc.status = "failed" /\ proc = "off" /\ proc' = "stream"
          /\ doc' = [doc EXCEPT
                 !.status = "running",
                 !.st = [i \in Steps |->
                   IF \E b \in {j \in Steps : doc.st[j] = "failed"} : b <= i
                   THEN "pending" ELSE doc.st[i]]]
      BY <1>7 DEF Retry
    <3>2. \A i \in Steps : i <= i
      BY DEF Steps
    <3> QED
      BY <1>t, <3>1, <3>2 DEF Doc
  <2>3. \A i \in Steps : doc'.st[i] \notin {"running", "failed"}
    BY <2>2 DEF StatusInv
  <2>4. \A i \in Steps : work'[i] = "idle"
    BY <2>1 DEF Reseed
  <2> QED
    BY <2>2, <2>3, <2>4 DEF StatusInv, Written, CompletedIsWhole
<1>8. ~Crash /\ ~Recovery
  BY GraphAssumption DEF Crash, TypeOK, Recovery, Recover, Begin, StatusInv
<1> QED
  BY <1>1, <1>2, <1>3, <1>4, <1>5, <1>6, <1>7, <1>8 DEF Next, StreamStep

(* CompletedIsWhole, in every graph without parallel steps whose capturing   *)
(* steps are followed by a step, and with any retries, as long as the        *)
(* process is not restarted: no step of a completed run has failed or is     *)
(* shown as running.                                                         *)
THEOREM CompletedRunsAreWhole ==
  ASSUME Unbranched, CapturersAreFollowed, MaxCrash = 0
  PROVE  Spec => []CompletedIsWhole
<1>1. Init => StatusInv
  BY DEF Init, StatusInv, Written, CompletedIsWhole
<1>2. TypeOK /\ PathInv /\ SentinelInv /\ StatusInv /\ [Next]_vars => StatusInv'
  BY NextStatus
<1>3. StatusInv => CompletedIsWhole
  BY DEF StatusInv
<1> QED
  BY <1>1, <1>2, <1>3, AlwaysSentinel, PTL DEF Spec

(***************************************************************************)
(* The counts.  Within one life of the run a guarded body has been entered *)
(* at most as often as its count says, and once more while it is executed: *)
(* a step returns the counts of all steps, its own raised, and as one step *)
(* is pending at a time, no other count is stale.  What a restart or a     *)
(* retry brings back is never above max_loops.                             *)
(***************************************************************************)
Spent == (MaxLoops + 1) * (crashes + retries)

Entered(i) ==
  IF work[i] = "body" THEN chan.visits[i] + 1
  ELSE IF Written(i) /\ out[i].visits[i] # 0 THEN out[i].visits[i] ELSE chan.visits[i]

StoredCounts ==
  \A i, j \in Steps : doc.outs[i].visits[j] <= MaxLoops /\ out[i].visits[j] <= MaxLoops

CountInv ==
  /\ StoredCounts
  /\ \A i \in Steps : chan.visits[i] <= MaxLoops
  /\ \A i \in Steps : Guarded(i) => tries[i] <= Spent + MaxLoops + 1
  /\ proc = "down" => \A i \in Steps : Guarded(i) => tries[i] <= Spent
  /\ proc \in {"stream", "failing", "fresh", "resume"} \/ doc.status = "absent" =>
       \A i \in Steps : Guarded(i) => tries[i] <= Spent + Entered(i)
  /\ \A i, j \in Steps : Written(i) =>
       \/ out[i].visits[j] \in {0, chan.visits[j]}
       \/ j = i /\ out[i].visits[i] = chan.visits[i] + 1

LEMMA NothingVisited ==
  ASSUME NEW i \in Steps
  PROVE  \A j \in Steps : Nothing.visits[j] = 0 /\ [Nothing EXCEPT !.failed = i].visits[j] = 0
BY DEF Nothing, NoVisits

LEMMA CountNumbers ==
  ASSUME TypeOK
  PROVE  /\ MaxLoops \in Nat /\ Spent \in Nat /\ crashes \in Nat /\ retries \in Nat
         /\ \A j \in Steps : chan.visits[j] \in Nat /\ tries[j] \in Nat
         /\ \A i, j \in Steps : out[i].visits[j] \in Nat
<1>1. MaxLoops \in Nat /\ crashes \in Nat /\ retries \in Nat
  BY GraphAssumption DEF TypeOK
<1>2. Spent \in Nat
  BY <1>1 DEF Spent
<1>3. \A j \in Steps : chan.visits[j] \in Nat /\ tries[j] \in Nat
  BY <1>1 DEF TypeOK, Channels, Count
<1>4. \A i, j \in Steps : out[i].visits[j] \in Nat
  BY <1>1 DEF TypeOK, Output, Count
<1> QED
  BY <1>1, <1>2, <1>3, <1>4

(* A new life of the run may use up another max_loops + 1 executions.        *)
LEMMA MoreSpent ==
  ASSUME TypeOK, TypeOK', crashes' + retries' = crashes + retries + 1
  PROVE  Spent' = Spent + MaxLoops + 1
<1>1. \A m, k \in Nat : (m + 1) * (k + 1) = (m + 1) * k + m + 1
  OBVIOUS
<1>2. crashes + retries \in Nat /\ MaxLoops \in Nat
  BY CountNumbers
<1> QED
  BY <1>1, <1>2 DEF Spent

(* What a step adds to the counts.                                           *)
LEMMA ReturnedCounts ==
  ASSUME TypeOK, Unbranched, CountInv, NEW i \in Steps,
         Skip(i) \/ NodeReturn(i) \/ NodeCapture(i) \/ NodePass(i)
  PROVE  \E o \in Output :
           /\ Return(i, o)
           /\ Guarded(i) => o.visits[i] = IF work[i] = "body" THEN chan.visits[i] + 1 ELSE 0
           /\ \A j \in Steps : /\ o.visits[j] <= MaxLoops
                               /\ \/ o.visits[j] \in {0, chan.visits[j]}
                                  \/ j = i /\ o.visits[i] = chan.visits[i] + 1
<1>1. /\ Nothing \in Output /\ [Nothing EXCEPT !.failed = i] \in Output
      /\ chan.visits \in [Steps -> Count] /\ MaxLoops \in Nat
  <2>1. Nothing \in Output /\ [Nothing EXCEPT !.failed = i] \in Output
    BY NothingTyped, StepNumbers DEF Output
  <2>2. chan.visits \in [Steps -> Count] /\ MaxLoops \in Nat
    BY GraphAssumption DEF TypeOK, Channels
  <2> QED
    BY <2>1, <2>2
<1>2. CASE Skip(i)
  BY <1>1, <1>2, NothingVisited DEF Skip, Ready
<1>3. CASE NodeReturn(i) \/ NodeCapture(i)
  <2>1. work[i] = "body" /\ (Guarded(i) => chan.visits[i] + 1 <= MaxLoops)
    BY <1>3 DEF NodeReturn, NodeCapture, InBody, WithinLoops
  <2>2. \E f \in 0..N, v \in Answer : Return(i, [failed |-> f, visits |-> Counted(i), val |-> v])
    <3>1. i \in 0..N /\ 0 \in 0..N /\ Answers(i) \cup {"unset"} \subseteq Answer
      BY StepNumbers DEF Answers, Answer
    <3>2. CASE NodeReturn(i)
      <4>1. PICK v \in Answers(i) : Return(i, [failed |-> 0, visits |-> Counted(i), val |-> v])
        BY <3>2 DEF NodeReturn
      <4> QED
        BY <3>1, <4>1
    <3>3. CASE NodeCapture(i)
      <4>1. PICK v \in Answers(i) \cup {"unset"} :
              Return(i, [failed |-> i, visits |-> Counted(i), val |-> v])
        BY <3>3 DEF NodeCapture
      <4> QED
        BY <3>1, <4>1
    <3> QED
      BY <1>3, <3>2, <3>3
  <2>3. PICK f \in 0..N, v \in Answer : Return(i, [failed |-> f, visits |-> Counted(i), val |-> v])
    BY <2>2
  <2>4. [failed |-> f, visits |-> Counted(i), val |-> v] \in Output
    BY CountedTyped DEF Output
  <2>5. chan.visits[i] \in Nat
    BY <1>1 DEF Count
  <2>6. Guarded(i) => Counted(i) = [chan.visits EXCEPT ![i] = @ + 1]
    BY <1>1, <2>1, <2>5 DEF Counted
  <2>7. ~Guarded(i) => \A j \in Steps : Counted(i)[j] = 0
    BY DEF Counted, NoVisits
  <2>8. Guarded(i) => Counted(i)[i] = chan.visits[i] + 1
                      /\ \A j \in Steps \ {i} : Counted(i)[j] = chan.visits[j]
    BY <1>1, <2>6
  <2>9. \A j \in Steps : chan.visits[j] <= MaxLoops
    BY DEF CountInv
  <2> QED
    BY <1>1, <2>1, <2>3, <2>4, <2>7, <2>8, <2>9
<1>4. CASE NodePass(i)
  BY <1>1, <1>4, NothingVisited DEF NodePass, Unbranched, Joins, Guarded
<1> QED
  BY <1>2, <1>3, <1>4

LEMMA NodeCounts ==
  ASSUME TypeOK, Unbranched, PathInv, CountInv, NEW i \in Steps, NodeStep(i)
  PROVE  CountInv'
<1>t. /\ doc \in Doc /\ work \in [Steps -> WorkState] /\ out \in [Steps -> Output]
      /\ tries \in [Steps -> Nat] /\ MaxLoops \in Nat /\ Spent \in Nat
      /\ \A j \in Steps : chan.visits[j] \in Nat
  BY CountNumbers DEF TypeOK, WorkState
<1>1. /\ proc = "stream" /\ chan' = chan
      /\ \A j \in Steps \ {i} : work[j] = "idle"
      /\ UNCHANGED <<crashes, retries>>
  <2>1. proc = "stream" /\ chan' = chan /\ (i \in pend \/ work[i] # "idle")
    BY DEF NodeStep, Abort, Skip, NodeStart, NodeReturn, NodeCapture, NodePass, NodeRaise,
           Chunk, Ready, InBody
  <2>2. UNCHANGED <<crashes, retries>>
    BY DEF NodeStep, Abort, Skip, NodeStart, NodeReturn, NodeCapture, NodePass, NodeRaise, Chunk
  <2> QED
    BY <2>1, <2>2 DEF PathInv
<1>2. doc'.status # "absent"
  BY <1>1, NodePath DEF PathInv, NodeStep, Abort, Skip, NodeStart, NodeReturn, NodeCapture,
     NodePass, NodeRaise, Chunk
<1>s. Spent' = Spent
  BY <1>1 DEF Spent
<1>3. CASE Abort(i) \/ NodeRaise(i)
  <2>1. proc' = "failing" /\ UNCHANGED <<doc, work, out, tries>>
    BY <1>3 DEF Abort, NodeRaise, history
  <2>2. \A j \in Steps : Entered(j)' = Entered(j) /\ Written(j)' = Written(j)
    BY <1>1, <2>1 DEF Entered, Written
  <2> QED
    BY <1>1, <1>s, <2>1, <2>2 DEF CountInv, StoredCounts
<1>4. CASE NodeStart(i)
  <2>1. /\ work[i] = "idle" /\ work'[i] = "body" /\ tries'[i] = tries[i] + 1
        /\ \A j \in Steps \ {i} : work'[j] = work[j] /\ tries'[j] = tries[j]
        /\ UNCHANGED <<out, proc>> /\ doc'.outs = doc.outs
    BY <1>t, <1>4 DEF NodeStart, Ready, Doc
  <2>2. ASSUME NEW j \in Steps, Guarded(j)
        PROVE  tries'[j] <= Spent + Entered(j)' /\ tries'[j] <= Spent + MaxLoops + 1
    <3>1. tries[j] <= Spent + Entered(j) /\ tries[j] <= Spent + MaxLoops + 1
          /\ chan.visits[j] <= MaxLoops /\ tries[j] \in Nat
      BY <1>1, <1>t, <2>2 DEF CountInv
    <3>2. CASE j = i
      <4>1. Entered(j) = chan.visits[j] /\ Entered(j)' = chan.visits[j] + 1
        BY <1>1, <2>1, <3>2 DEF Entered, Written
      <4> QED
        BY <1>t, <2>1, <3>1, <3>2, <4>1
    <3>3. CASE j # i
      BY <1>1, <2>1, <2>2, <3>1, <3>3 DEF Entered, Written
    <3> QED
      BY <3>2, <3>3
  <2>3. StoredCounts'
    BY <2>1 DEF CountInv, StoredCounts
  <2>4. \A k \in Steps : Written(k)' = Written(k)
    BY <2>1 DEF Written
  <2> QED
    BY <1>1, <1>s, <2>1, <2>2, <2>3, <2>4 DEF CountInv
<1>5. CASE Skip(i) \/ NodeReturn(i) \/ NodeCapture(i) \/ NodePass(i)
  <2>1. PICK o \in Output :
           /\ Return(i, o)
           /\ Guarded(i) => o.visits[i] = IF work[i] = "body" THEN chan.visits[i] + 1 ELSE 0
           /\ \A j \in Steps : /\ o.visits[j] <= MaxLoops
                               /\ \/ o.visits[j] \in {0, chan.visits[j]}
                                  \/ j = i /\ o.visits[i] = chan.visits[i] + 1
    BY <1>5, ReturnedCounts
  <2>2. /\ work'[i] = "returned" /\ out'[i] = o /\ doc'.outs = doc.outs
        /\ \A j \in Steps \ {i} : work'[j] = work[j] /\ out'[j] = out[j]
    BY <1>t, <2>1 DEF Return, Doc
  <2>3. work[i] \in {"idle", "body"} /\ proc' = proc /\ tries' = tries
    BY <1>5 DEF Skip, NodeReturn, NodeCapture, NodePass, Ready, InBody, history
  <2>4. ASSUME NEW j \in Steps, Guarded(j) PROVE Entered(j)' = Entered(j)
    <3>2. CASE j = i
      BY <1>t, <1>1, <2>1, <2>2, <2>3, <2>4, <3>2 DEF Entered, Written
    <3>3. CASE j # i
      BY <1>1, <2>2, <2>3, <3>3 DEF Entered, Written
    <3> QED
      BY <3>2, <3>3
  <2>5. (\A k, j \in Steps : Written(k) =>
           \/ out[k].visits[j] \in {0, chan.visits[j]}
           \/ j = k /\ out[k].visits[k] = chan.visits[k] + 1)'
    BY <1>1, <2>1, <2>2 DEF Written
  <2>6. StoredCounts'
    BY <2>1, <2>2 DEF CountInv, StoredCounts
  <2> QED
    BY <1>1, <1>s, <2>3, <2>4, <2>5, <2>6 DEF CountInv
<1>6. CASE Chunk(i)
  <2>1. /\ work[i] = "returned" /\ work'[i] = "told" /\ UNCHANGED <<out, proc, tries>>
        /\ \A j \in Steps \ {i} : work'[j] = work[j]
        /\ \A j \in Steps : doc'.outs[j] \in {doc.outs[j], out[j]}
    BY <1>t, <1>6 DEF Chunk, history, Doc
  <2>2. \A j \in Steps : Entered(j)' = Entered(j) /\ Written(j)' = Written(j)
    BY <1>1, <2>1 DEF Entered, Written
  <2>3. StoredCounts'
    BY <2>1 DEF CountInv, StoredCounts
  <2> QED
    BY <1>1, <1>s, <2>1, <2>2, <2>3 DEF CountInv
<1> QED
  BY <1>3, <1>4, <1>5, <1>6 DEF NodeStep

LEMMA SuperstepCounts ==
  ASSUME TypeOK, PathInv, CountInv, Superstep
  PROVE  CountInv'
<1>1. PICK p \in pend : pend = {p}
  BY DEF Superstep, PathInv
<1>2. /\ p \in Steps /\ work[p] = "told" /\ proc = "stream"
      /\ \A i \in Steps \ {p} : work[i] = "idle"
      /\ chan \in Channels
  BY <1>1 DEF Superstep, TypeOK, PathInv
<1>3. /\ chan' = Apply(chan, {p}, out)
      /\ \A i \in Steps : work'[i] = "idle"
      /\ UNCHANGED <<doc, out, proc, tries, crashes, retries>>
  BY <1>1 DEF Superstep, history
<1>4. ASSUME NEW j \in Steps
      PROVE  chan'.visits[j] = IF out[p].visits[j] # 0 THEN out[p].visits[j] ELSE chan.visits[j]
  <2>1. p \in Steps /\ chan \in Channels
    BY <1>2
  <2>2. Apply(chan, {p}, out).visits[j] =
          IF out[p].visits[j] # 0 THEN out[p].visits[j] ELSE chan.visits[j]
    BY <2>1, OneCount
  <2> QED
    BY <1>3, <2>2
<1>5. ASSUME NEW j \in Steps PROVE chan'.visits[j] <= MaxLoops /\ Entered(j)' = Entered(j)
  <2>1. /\ \/ out[p].visits[j] \in {0, chan.visits[j]}
           \/ j = p /\ out[p].visits[p] = chan.visits[p] + 1
        /\ out[p].visits[j] <= MaxLoops
    BY <1>2 DEF CountInv, StoredCounts, Written
  <2>2. chan.visits[j] <= MaxLoops
    BY DEF CountInv
  <2>3. chan'.visits[j] <= MaxLoops
    BY <1>4, <2>1, <2>2
  <2>4. Entered(j)' = chan'.visits[j]
    BY <1>3 DEF Entered, Written
  <2>5. Entered(j) = IF j = p /\ out[p].visits[p] # 0 THEN out[p].visits[p] ELSE chan.visits[j]
    BY <1>2 DEF Entered, Written
  <2>6. chan'.visits[j] = Entered(j)
    BY <1>4, <2>1, <2>5
  <2> QED
    BY <2>3, <2>4, <2>6
<1>6. Spent' = Spent /\ StoredCounts'
  BY <1>3 DEF Spent, CountInv, StoredCounts
<1> QED
  BY <1>2, <1>3, <1>5, <1>6 DEF CountInv, Written

(* What is merged from counts within max_loops is within max_loops.          *)
LEMMA AppliedCounts ==
  ASSUME NEW c, NEW S \in SUBSET Steps, NEW w, NEW j \in Steps,
         c.visits[j] <= MaxLoops, \A i \in S : w[i].visits[j] <= MaxLoops
  PROVE  Apply(c, S, w).visits[j] <= MaxLoops
<1> DEFINE has == {i \in S : w[i].visits[j] # 0}
<1>1. Apply(c, S, w).visits[j] = IF has = {} THEN c.visits[j] ELSE w[LastOf(has)].visits[j]
  BY DEF Apply
<1>2. has # {} => LastOf(has) \in has
  <2>1. has \subseteq Steps
    OBVIOUS
  <2> HIDE DEF has
  <2> QED
    BY <2>1, LastOfSteps
<1> QED
  BY <1>1, <1>2

LEMMA SeededCounts ==
  ASSUME TypeOK, CountInv, NEW j \in Steps
  PROVE  Seeded.visits[j] <= MaxLoops
<1> DEFINE done    == {i \in Steps : doc.st[i] \in Done}
           counted == {i \in done : doc.outs[i].visits # NoVisits}
           visits  == IF counted = {} THEN NoVisits ELSE doc.outs[LastOf(counted)].visits
           acc     == [i \in done \cup {N} |->
                         [failed |-> doc.saved,
                          visits |-> visits,
                          val    |-> IF i \in done THEN doc.outs[i].val ELSE "unset"]]
           written == {i \in pend : work[i] \in {"returned", "told"}}
           c       == Apply(chan, written, out)
<1>1. Seeded = Apply(c, done \cup {N}, acc)
  BY Zenon DEF Seeded
<1>2. done \cup {N} \in SUBSET Steps /\ written \in SUBSET Steps
  <2>1. N \in Steps /\ pend \subseteq Steps
    BY StepNumbers DEF TypeOK
  <2> QED
    BY <2>1
<1>3. c.visits[j] <= MaxLoops
  <2>1. chan.visits[j] <= MaxLoops /\ \A i \in written : out[i].visits[j] <= MaxLoops
    BY <1>2 DEF CountInv, StoredCounts
  <2> HIDE DEF written
  <2> QED
    BY <1>2, <2>1, AppliedCounts
<1>4. visits[j] <= MaxLoops
  <2>1. counted # {} => LastOf(counted) \in Steps
    <3>1. counted \subseteq Steps
      OBVIOUS
    <3> HIDE DEF counted
    <3> QED
      BY <3>1, LastOfSteps
  <2>2. 0 <= MaxLoops
    BY GraphAssumption
  <2> HIDE DEF counted
  <2> QED
    BY <2>1, <2>2 DEF CountInv, StoredCounts, NoVisits
<1>5. \A i \in done \cup {N} : acc[i].visits[j] <= MaxLoops
  <2> HIDE DEF visits, done
  <2> QED
    BY <1>4
<1> HIDE DEF done, acc, c
<1> QED
  BY <1>1, <1>2, <1>3, <1>5, AppliedCounts

(* Where the thread continues, no count is above max_loops.                  *)
LEMMA ReseedCounts ==
  ASSUME TypeOK, CountInv, NEW k \in 0..N, Reseed(k)
  PROVE  /\ \A i \in Steps : work'[i] = "idle" /\ chan'.visits[i] <= MaxLoops
<1>1. chan \in Channels
  BY DEF TypeOK
<1>2. chan'.visits = chan.visits \/ chan' = Seeded
  BY <1>1 DEF Reseed, Channels
<1> QED
  BY <1>2, SeededCounts DEF Reseed, CountInv

LEMMA NextCounts ==
  ASSUME Unbranched, TypeOK, TypeOK', PathInv, PathInv', CountInv, [Next]_vars
  PROVE  CountInv'
<1>t. doc \in Doc /\ work \in [Steps -> WorkState]
  BY DEF TypeOK, WorkState
<1>n. /\ MaxLoops \in Nat /\ Spent \in Nat
      /\ \A i \in Steps : /\ tries[i] \in Nat /\ chan.visits[i] \in Nat
                          /\ chan'.visits[i] \in Nat /\ Entered(i) \in Nat
                          /\ Entered(i) <= MaxLoops + 1
  <2>1. /\ MaxLoops \in Nat /\ Spent \in Nat
        /\ \A i \in Steps : tries[i] \in Nat /\ chan.visits[i] \in Nat /\ out[i].visits[i] \in Nat
    BY CountNumbers
  <2>2. \A i \in Steps : chan'.visits[i] \in Nat
    BY <2>1 DEF TypeOK, Channels, Count
  <2>3. \A i \in Steps : out[i].visits[i] <= MaxLoops /\ chan.visits[i] <= MaxLoops
    BY DEF CountInv, StoredCounts
  <2>4. \A i \in Steps : Entered(i) \in Nat /\ Entered(i) <= MaxLoops + 1
    BY <2>1, <2>3 DEF Entered
  <2> QED
    BY <2>1, <2>2, <2>4
<1>1. CASE UNCHANGED vars
  BY <1>1 DEF vars, CountInv, StoredCounts, Spent, Entered, Written
<1>2. ASSUME NEW i \in Steps, NodeStep(i) PROVE CountInv'
  BY <1>2, NodeCounts
<1>3. CASE Start
  <2>1. /\ doc.status = "absent" /\ doc'.status = "running" /\ proc' = "stream"
        /\ doc'.outs = doc.outs
        /\ UNCHANGED <<chan, work, out, tries, crashes, retries>>
    BY <1>t, <1>3 DEF Start, Doc, history
  <2> QED
    BY <2>1 DEF CountInv, StoredCounts, Spent, Entered, Written
<1>4. CASE Superstep
  BY <1>4, SuperstepCounts
<1>5. CASE Complete
  <2>1. /\ doc'.status = "completed" /\ proc' = "off" /\ doc'.outs = doc.outs
        /\ UNCHANGED <<chan, work, out, tries, crashes, retries>>
    BY <1>t, <1>5 DEF Complete, Doc, history
  <2> QED
    BY <2>1 DEF CountInv, StoredCounts, Spent, Written
<1>6. CASE WriteFailed
  <2>1. /\ doc'.status = "failed" /\ proc' = "off" /\ doc'.outs = doc.outs
        /\ UNCHANGED <<chan, out, tries, crashes, retries>>
    BY <1>t, <1>6 DEF WriteFailed, Doc, history
  <2>2. \A i \in Steps : work'[i] = "idle"
    BY <1>6 DEF WriteFailed, PathInv
  <2> QED
    BY <2>1, <2>2 DEF CountInv, StoredCounts, Spent, Written
<1>7. CASE Crash
  <2>1. /\ proc' = "down" /\ UNCHANGED <<doc, chan, out, tries, retries>>
        /\ crashes' = crashes + 1 /\ doc.status = "running"
    BY <1>7 DEF Crash, history
  <2>2. Spent' = Spent + MaxLoops + 1
    <3>1. crashes' + retries' = crashes + retries + 1
      BY <2>1, CountNumbers
    <3> QED
      BY <3>1, MoreSpent
  <2>3. \A i \in Steps : Written(i)' => Written(i)
    BY <1>7, <1>t DEF Crash, Written
  <2>4. ASSUME NEW i \in Steps, Guarded(i) PROVE tries'[i] <= Spent'
    BY <1>n, <2>1, <2>2, <2>4 DEF CountInv
  <2>5. ASSUME NEW i \in Steps, Guarded(i) PROVE tries'[i] <= Spent' + MaxLoops + 1
    BY <1>n, <2>1, <2>2, <2>4, <2>5 DEF CountInv
  <2>6. \A i, j \in Steps : Written(i)' =>
          \/ out'[i].visits[j] \in {0, chan'.visits[j]}
          \/ j = i /\ out'[i].visits[i] = chan'.visits[i] + 1
    BY <2>1, <2>3 DEF CountInv
  <2>7. StoredCounts' /\ \A i \in Steps : chan'.visits[i] <= MaxLoops
    BY <2>1 DEF CountInv, StoredCounts
  <2> QED
    BY <2>1, <2>4, <2>5, <2>6, <2>7 DEF CountInv
<1>8. CASE Recover
  <2>1. /\ proc = "down" /\ UNCHANGED <<out, tries, crashes, retries>>
        /\ doc'.outs = doc.outs /\ doc'.status # "absent"
        /\ \/ /\ \A i \in Steps : work'[i] = "idle" /\ chan'.visits[i] <= MaxLoops
              /\ proc' \in {"fresh", "resume"}
           \/ proc' = "off" /\ UNCHANGED <<chan, work>>
    <3>1. PICK k \in 0..N :
            \/ Reseed(k) /\ doc' = doc /\ proc' \in {"fresh", "resume"}
            \/ /\ doc' = [doc EXCEPT !.status = "failed", !.saved = 0]
               /\ proc' = "off" /\ UNCHANGED <<chan, pend, work, broken>>
      BY <1>8 DEF Recover
    <3>2. proc = "down" /\ UNCHANGED <<out, tries, crashes, retries>> /\ doc.status # "absent"
      BY <1>8 DEF Recover, PathInv
    <3> QED
      BY <1>t, <3>1, <3>2, ReseedCounts DEF Doc
  <2>2. Spent' = Spent /\ StoredCounts'
    BY <2>1 DEF Spent, CountInv, StoredCounts
  <2>3. \A i \in Steps : Guarded(i) => tries'[i] <= Spent /\ tries'[i] <= Spent + MaxLoops + 1
    BY <2>1 DEF CountInv
  <2>4. CASE /\ \A i \in Steps : work'[i] = "idle" /\ chan'.visits[i] <= MaxLoops
             /\ proc' \in {"fresh", "resume"}
    <3>1. ASSUME NEW i \in Steps, Guarded(i) PROVE tries'[i] <= Spent + Entered(i)'
      <4>1. Entered(i)' = chan'.visits[i]
        BY <2>4 DEF Entered, Written
      <4> QED
        BY <1>n, <2>1, <2>3, <3>1, <4>1
    <3> QED
      BY <2>2, <2>3, <2>4, <3>1 DEF CountInv, Written
  <2>5. CASE proc' = "off" /\ UNCHANGED <<chan, work>>
    BY <2>1, <2>2, <2>3, <2>5 DEF CountInv, Written
  <2> QED
    BY <2>1, <2>4, <2>5
<1>9. CASE Begin
  <2>1. /\ proc \in {"fresh", "resume"} /\ proc' = "stream"
        /\ UNCHANGED <<doc, chan, work, out, tries, crashes, retries>>
    BY <1>9 DEF Begin, history
  <2>2. \A j \in Steps : Entered(j)' = Entered(j) /\ Written(j)' = Written(j)
    BY <2>1 DEF Entered, Written
  <2> QED
    BY <2>1, <2>2 DEF CountInv, StoredCounts, Spent
<1>10. CASE Retry
  <2>1. /\ doc.status = "failed" /\ doc'.status = "running" /\ doc'.outs = doc.outs
        /\ proc' = "stream" /\ UNCHANGED <<out, crashes, tries>> /\ retries' = retries + 1
        /\ \A i \in Steps : work'[i] = "idle" /\ chan'.visits[i] <= MaxLoops
    <3>1. PICK k \in 0..N : Reseed(k)
      BY <1>10 DEF Retry
    <3>2. /\ doc.status = "failed" /\ doc'.status = "running" /\ doc'.outs = doc.outs
          /\ proc' = "stream" /\ UNCHANGED <<out, crashes, tries>> /\ retries' = retries + 1
      BY <1>t, <1>10 DEF Retry, Doc
    <3> QED
      BY <3>1, <3>2, ReseedCounts
  <2>2. Spent' = Spent + MaxLoops + 1
    <3>1. crashes' + retries' = crashes + retries + 1
      BY <2>1, CountNumbers
    <3> QED
      BY <3>1, MoreSpent
  <2>3. ASSUME NEW i \in Steps, Guarded(i)
        PROVE  tries'[i] <= Spent' + MaxLoops + 1 /\ tries'[i] <= Spent' + Entered(i)'
    <3>1. Entered(i)' = chan'.visits[i]
      BY <2>1 DEF Entered, Written
    <3>2. tries'[i] <= Spent'
      BY <2>1, <2>2, <2>3 DEF CountInv
    <3> QED
      BY <1>n, <2>1, <2>2, <3>1, <3>2
  <2>4. StoredCounts'
    BY <2>1 DEF CountInv, StoredCounts
  <2> QED
    BY <2>1, <2>3, <2>4 DEF CountInv, Written
<1> QED
  BY <1>1, <1>2, <1>3, <1>4, <1>5, <1>6, <1>7, <1>8, <1>9, <1>10
     DEF Next, StreamStep, Recovery

(* LoopsBounded, in every graph without parallel steps, for every max_loops  *)
(* and any number of restarts and retries: in one life of the run a guarded  *)
(* body is executed once more than max_loops allows, at most, along whatever *)
(* loops it is reached.                                                      *)
THEOREM LoopsAreBounded ==
  ASSUME Unbranched
  PROVE  Spec => []LoopsBounded
<1>1. Init => CountInv
  <2>1. MaxLoops \in Nat
    BY GraphAssumption
  <2>2. Init => Spent = 0
    BY <2>1 DEF Init, Spent
  <2> QED
    BY <2>1, <2>2 DEF Init, CountInv, StoredCounts, Entered, Written, Nothing, NoValues, NoVisits
<1>2. TypeOK /\ TypeOK' /\ PathInv /\ PathInv' /\ CountInv /\ [Next]_vars => CountInv'
  BY NextCounts
<1>3. TypeOK /\ CountInv => LoopsBounded
  <2> SUFFICES ASSUME TypeOK, CountInv, NEW i \in Steps, Guarded(i)
               PROVE  tries[i] <= (MaxLoops + 1) * (1 + crashes + retries)
    BY DEF LoopsBounded
  <2>1. tries[i] <= Spent + MaxLoops + 1
    BY DEF CountInv
  <2>2. MaxLoops \in Nat /\ crashes \in Nat /\ retries \in Nat
    BY CountNumbers
  <2>3. \A m, k \in Nat : (m + 1) * (1 + k) = (m + 1) * k + m + 1
    OBVIOUS
  <2>4. (MaxLoops + 1) * (1 + (crashes + retries)) = Spent + MaxLoops + 1
    BY <2>2, <2>3 DEF Spent
  <2>5. 1 + crashes + retries = 1 + (crashes + retries)
    BY <2>2
  <2> QED
    BY <2>1, <2>4, <2>5
<1> QED
  BY <1>1, <1>2, <1>3, AlwaysSentinel, PTL DEF Spec

(***************************************************************************)
(* A run that is neither interrupted nor retried.                          *)
(***************************************************************************)
Undisturbed == MaxCrash = 0 /\ MaxRetry = 0

InStream == proc \in {"off", "stream", "failing"}

(* Nothing but the stream moves a run that is not disturbed.                 *)
LEMMA UndisturbedNext ==
  ASSUME Undisturbed, TypeOK, InStream, Next
  PROVE  \/ Start \/ Superstep \/ Complete \/ WriteFailed
         \/ \E i \in Steps : NodeStep(i)
<1>1. ~Crash /\ ~Retry
  BY DEF Undisturbed, TypeOK, Crash, Retry
<1> QED
  BY <1>1 DEF Next, StreamStep, Recovery, Recover, Begin, InStream

(***************************************************************************)
(* A loop closes at the step that gives the verdict: every execution of an *)
(* earlier step is on the way to it, so that the stream is still before it *)
(* as long as the last verdict is older than an execution it judges.       *)
(***************************************************************************)
VerdictStep(i) == Cond[i] = i /\ Else[i] \in 1..i

(* The verdict is given by a step that always runs, and no edge leads past   *)
(* it from an earlier step.                                                  *)
ClosedLoops ==
  \A i \in Steps : VerdictStep(i) =>
    /\ Kind[i] \in {"llm", "tool", "agent"} /\ When[i] = 0
    /\ \A j \in Steps : j < i => Then[j] <= i /\ Else[j] <= i

Before(i) == pend # {} /\ \A p \in pend : p < i \/ (p = i /\ work[i] = "idle")

VerdictInv ==
  /\ InStream
  /\ proc # "off" => doc.status = "running"
  /\ doc.status = "completed" => pend = {}
  /\ \A i \in Steps : Written(i) => Routed(i, Apply(chan, {i}, out))
  /\ \A i \in Steps : VerdictStep(i) =>
       /\ work[i] \in {"body", "returned"} => doc.st[i] = "running"
       /\ work[i] = "returned" => i \in current \/ out[i].failed = i
       /\ i \notin current /\ doc.st[i] = "finished" =>
            doc.status = "failed" \/ proc = "failing" \/ Before(i)

LEMMA NodeVerdict ==
  ASSUME TypeOK, Unbranched, ClosedLoops, PathInv, VerdictInv, NEW i \in Steps, NodeStep(i)
  PROVE  VerdictInv'
<1>t. /\ doc \in Doc /\ work \in [Steps -> WorkState] /\ out \in [Steps -> Output]
      /\ doc.st \in [Steps -> StepStatus] /\ doc.outs \in [Steps -> Output] /\ chan \in Channels
      /\ current \subseteq Steps
  BY DEF TypeOK, WorkState, Doc
<1>1. /\ proc = "stream" /\ pend = {i} /\ pend' = pend /\ chan' = chan
      /\ \A j \in Steps \ {i} : work[j] = "idle"
      /\ doc.status = "running"
  <2>1. proc = "stream" /\ pend' = pend /\ chan' = chan /\ (i \in pend \/ work[i] # "idle")
    BY DEF NodeStep, Abort, Skip, NodeStart, NodeReturn, NodeCapture, NodePass, NodeRaise,
           Chunk, Ready, InBody
  <2> QED
    BY <2>1 DEF PathInv, VerdictInv
<1>2. CASE Abort(i) \/ NodeRaise(i)
  <2>1. UNCHANGED <<doc, work, out, current>> /\ proc' = "failing"
    BY <1>2 DEF Abort, NodeRaise, history
  <2> QED
    BY <1>1, <2>1 DEF VerdictInv, InStream, Written, Routed
<1>3. CASE NodeStart(i)
  <2>1. /\ work[i] = "idle" /\ work'[i] = "body" /\ doc'.st[i] = "running"
        /\ \A j \in Steps \ {i} : work'[j] = work[j] /\ doc'.st[j] = doc.st[j]
        /\ UNCHANGED <<out, proc, current>> /\ doc'.status = doc.status
    BY <1>t, <1>3 DEF NodeStart, Ready, Doc
  <2>2. ASSUME NEW v \in Steps, VerdictStep(v), v \notin current, doc'.st[v] = "finished"
        PROVE  Before(v)'
    <3>1. v # i /\ doc.st[v] = "finished"
      BY <2>1, <2>2
    <3> QED
      BY <1>1, <2>2, <3>1 DEF VerdictInv, Before
  <2> QED
    BY <1>1, <2>1, <2>2 DEF VerdictInv, InStream, Written, Routed, VerdictStep
<1>4. CASE Skip(i) \/ NodeReturn(i) \/ NodeCapture(i) \/ NodePass(i)
  <2>1. PICK o \in Output : Return(i, o)
    BY <1>4, ReturnedOutput
  <2>2. /\ work'[i] = "returned" /\ out'[i] = o
        /\ \A j \in Steps \ {i} : work'[j] = work[j] /\ out'[j] = out[j]
        /\ Routed(i, Apply(chan, {i}, [j \in {i} |-> o]))
        /\ doc'.st = doc.st /\ doc'.status = doc.status
    BY <1>t, <2>1 DEF Return, Doc
  <2>3. proc' = proc
    BY <1>4 DEF Skip, NodeReturn, NodeCapture, NodePass
  <2>4. Routed(i, Apply(chan, {i}, out'))
    BY <1>t, <2>2, TargetsOwn DEF Routed
  <2>5. (\A j \in Steps : Written(j) => Routed(j, Apply(chan, {j}, out)))'
    BY <1>1, <2>2, <2>4 DEF Written, Routed
  <2>6. ASSUME VerdictStep(i)
        PROVE  doc.st[i] = "running" /\ (i \in current' \/ out'[i].failed = i)
    <3>1. Kind[i] \in {"llm", "tool", "agent"} /\ When[i] = 0
      BY <2>6 DEF ClosedLoops
    <3>2. NodeReturn(i) \/ NodeCapture(i)
      BY <1>4, <3>1 DEF Skip, Skips, NodePass, Joins
    <3>3. doc.st[i] = "running"
      BY <2>6, <3>2 DEF VerdictInv, NodeReturn, NodeCapture, InBody
    <3>4. i \in current' \/ out'[i].failed = i
      <4>1. CASE NodeReturn(i)
        BY <4>1 DEF NodeReturn
      <4>2. CASE NodeCapture(i)
        BY <1>t, <4>2, StepNumbers, NothingTyped DEF NodeCapture, Return, Output
      <4> QED
        BY <3>2, <4>1, <4>2
    <3> QED
      BY <3>3, <3>4
  <2>7. ASSUME NEW v \in Steps, VerdictStep(v), v \notin current', doc.st[v] = "finished"
        PROVE  v > i
    <3>1. \A j \in current : j \in current' \/ j >= i
      BY <1>4, <1>t DEF Skip, NodeReturn, NodeCapture, NodePass, history, Steps
    <3>2. v # i
      BY <2>6, <2>7
    <3>3. v \in current \/ i < v \/ i = v
      BY <1>1, <2>7 DEF VerdictInv, Before
    <3> QED
      BY <3>1, <3>2, <3>3, <2>7 DEF Steps
  <2>8. ASSUME NEW v \in Steps, VerdictStep(v), v \notin current', doc'.st[v] = "finished"
        PROVE  Before(v)'
    BY <1>1, <2>2, <2>7, <2>8 DEF Before, Steps
  <2>9. ASSUME NEW v \in Steps, VerdictStep(v)
        PROVE  /\ work'[v] \in {"body", "returned"} => doc'.st[v] = "running"
               /\ work'[v] = "returned" => v \in current' \/ out'[v].failed = v
    BY <1>1, <2>2, <2>6, <2>9
  <2> QED
    BY <1>1, <2>2, <2>3, <2>5, <2>8, <2>9 DEF VerdictInv, InStream, VerdictStep
<1>5. CASE Chunk(i)
  <2>1. /\ work[i] = "returned" /\ work'[i] = "told" /\ UNCHANGED <<out, proc, current>>
        /\ \A j \in Steps \ {i} : work'[j] = work[j]
    BY <1>t, <1>5 DEF Chunk, history
  <2>2. /\ doc'.st[i] = Shown(i) /\ doc'.status = doc.status
        /\ \A j \in Steps \ {i} : doc'.st[j] = doc.st[j]
    <3>1. doc' = [doc EXCEPT !.st = [doc.st EXCEPT ![i] = Shown(i)],
                             !.outs = [doc.outs EXCEPT ![i] = IF IsEmpty(i) THEN @ ELSE out[i]]]
      BY <1>5 DEF Chunk
    <3> QED
      BY <1>t, <3>1 DEF Doc
  <2>3. Shown(i) = "finished" => out[i].failed # i
    BY DEF Shown
  <2>4. ASSUME NEW v \in Steps, VerdictStep(v), v \notin current, doc'.st[v] = "finished"
        PROVE  Before(v)'
    <3>1. v # i
      BY <2>1, <2>2, <2>3, <2>4 DEF VerdictInv
    <3>2. doc.st[v] = "finished"
      BY <2>2, <2>4, <3>1
    <3> QED
      BY <1>1, <2>4, <3>1, <3>2 DEF VerdictInv, Before
  <2> QED
    BY <1>1, <2>1, <2>2, <2>4 DEF VerdictInv, InStream, Written, Routed, VerdictStep
<1> QED
  BY <1>2, <1>3, <1>4, <1>5 DEF NodeStep

LEMMA SuperstepVerdict ==
  ASSUME TypeOK, Unbranched, ClosedLoops, PathInv, VerdictInv, Superstep
  PROVE  VerdictInv'
<1>1. PICK p \in pend : pend = {p}
  BY DEF Superstep, PathInv
<1>2. /\ p \in Steps /\ work[p] = "told" /\ proc = "stream" /\ doc.status = "running"
  BY <1>1 DEF Superstep, TypeOK, VerdictInv
<1>3. /\ pend' = Targets(p, Apply(chan, {p}, out)) \ {End}
      /\ \A i \in Steps : work'[i] = "idle"
      /\ UNCHANGED <<doc, out, proc, current>>
  BY <1>1 DEF Superstep, history
<1>4. ASSUME NEW i \in Steps, VerdictStep(i), i \notin current, doc.st[i] = "finished"
      PROVE  Before(i)'
  <2>1. p < i
    BY <1>1, <1>2, <1>4 DEF VerdictInv, Before
  <2>2. Then[p] <= i /\ Else[p] <= i
    BY <1>2, <1>4, <2>1 DEF ClosedLoops
  <2>3. Targets(p, Apply(chan, {p}, out)) # {}
    BY <1>2 DEF VerdictInv, Written, Routed
  <2>4. \A q \in Targets(p, Apply(chan, {p}, out)) : q \in {Then[p], Else[p]}
    BY <1>2 DEF Targets, Unbranched
  <2>5. i < End /\ i \in Int /\ End \in Int /\ \A q \in {Then[p], Else[p]} : q \in Int
    BY <1>2, StepNumbers, GraphAssumption
  <2>6. \A q \in Targets(p, Apply(chan, {p}, out)) : q <= i /\ q # End /\ q \in Int
    BY <2>2, <2>4, <2>5
  <2> QED
    BY <1>3, <2>3, <2>5, <2>6 DEF Before
<1> QED
  BY <1>2, <1>3, <1>4 DEF VerdictInv, InStream, Written, VerdictStep

LEMMA NextVerdict ==
  ASSUME Unbranched, ClosedLoops, Undisturbed, TypeOK, PathInv, VerdictInv, [Next]_vars
  PROVE  VerdictInv'
<1>t. doc \in Doc /\ work \in [Steps -> WorkState] /\ doc.st \in [Steps -> StepStatus]
  BY DEF TypeOK, WorkState, Doc
<1>1. CASE UNCHANGED vars
  BY <1>1 DEF vars, VerdictInv, InStream, Written, Routed, Before
<1>2. ASSUME NEW i \in Steps, NodeStep(i) PROVE VerdictInv'
  BY <1>2, NodeVerdict
<1>3. CASE Start
  <2>1. /\ doc.status = "absent" /\ doc'.status = "running" /\ doc'.st = doc.st
        /\ pend' = {1} /\ proc' = "stream" /\ UNCHANGED <<chan, work, out, current>>
    BY <1>t, <1>3 DEF Start, Doc, history
  <2>2. \A i \in Steps : work[i] = "idle"
    BY <2>1 DEF PathInv, Quiet
  <2>3. \A i \in Steps : Before(i)'
    BY <2>1, <2>2 DEF Before, Steps
  <2> QED
    BY <2>1, <2>2, <2>3 DEF VerdictInv, InStream, Written
<1>4. CASE Superstep
  BY <1>4, SuperstepVerdict
<1>5. CASE Complete
  <2>1. /\ proc = "stream" /\ pend = {} /\ doc'.status = "completed" /\ doc'.st = doc.st
        /\ proc' = "off" /\ UNCHANGED <<chan, pend, work, out, current>>
    BY <1>t, <1>5 DEF Complete, Doc, history
  <2>2. \A i \in Steps : work[i] = "idle"
    BY <2>1 DEF PathInv
  <2>3. \A i \in Steps : VerdictStep(i) /\ i \notin current => doc.st[i] # "finished"
    BY <2>1 DEF VerdictInv, Before
  <2> QED
    BY <2>1, <2>2, <2>3 DEF VerdictInv, InStream, Written, VerdictStep
<1>6. CASE WriteFailed
  <2>1. proc' = "off" /\ doc'.status = "failed"
    BY <1>t, <1>6 DEF WriteFailed, Doc
  <2>2. \A i \in Steps : work'[i] = "idle"
    BY <1>6 DEF WriteFailed, PathInv
  <2> QED
    BY <2>1, <2>2 DEF VerdictInv, InStream, Written
<1>7. InStream
  BY DEF VerdictInv
<1> QED
  BY <1>1, <1>2, <1>3, <1>4, <1>5, <1>6, <1>7, UndisturbedNext

(* VerdictIsCurrent, in every graph without parallel steps whose loops close *)
(* at their verdict, for a run that is neither interrupted nor retried: what *)
(* a completed run was judged on is what it ended with.                      *)
THEOREM VerdictsAreCurrent ==
  ASSUME Unbranched, ClosedLoops, Undisturbed
  PROVE  Spec => []VerdictIsCurrent
<1>1. Init => VerdictInv
  BY DEF Init, VerdictInv, InStream, Written
<1>2. TypeOK /\ PathInv /\ VerdictInv /\ [Next]_vars => VerdictInv'
  BY NextVerdict
<1>3. VerdictInv => VerdictIsCurrent
  BY DEF VerdictInv, VerdictIsCurrent, VerdictStep, Before, InStream
<1> QED
  BY <1>1, <1>2, <1>3, AlwaysSentinel, PTL DEF Spec
=============================================================================
