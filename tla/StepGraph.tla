------------------------------ MODULE StepGraph ------------------------------
(***************************************************************************)
(* The graph that YamlGraphRunner._build compiles from a definition, and   *)
(* how one stream executes it: supersteps, the wrappers around every node  *)
(* (fail guard, `when`, status "running", loop guard), routers, the        *)
(* failure sentinel __failed_step__, the step statuses of the document,    *)
(* and the position at which recovery and retry continue.  Concurrent      *)
(* handlers and approvals are in RunLifecycle; here one stream at a time   *)
(* works on the run.                                                       *)
(*                                                                         *)
(* LangGraph is external: a superstep runs every pending node on the same  *)
(* channel values, the writes of the finished ones are kept when it is     *)
(* interrupted, and applied together when it ends.                         *)
(*                                                                         *)
(* A definition whose comment says "mutant" is a deliberately wrong        *)
(* variant of the one after it; no specification uses it.                  *)
(***************************************************************************)
EXTENDS Integers, FiniteSets

CONSTANTS
  N,         \* number of steps, numbered in the order of the definition
  Kind,      \* Steps -> kind of the node
  Cond,      \* Steps -> the step whose output its router tests; 0: no router
  Then,      \* Steps -> next step (route taken when the test holds)
  Else,      \* Steps -> default route; 0: none declared
  Fan,       \* Steps -> targets of a parallel step
  When,      \* Steps -> the step whose output its `when` tests; 0: none
  MaxLoops,  \* max_loops of the guarded steps
  MaxCrash,  \* bound: how often the process restarts
  MaxRetry   \* bound: how often a client retries the failed run

Steps == 1..N
End == N + 1

(* "llm" and "tool" have a loop guard.  The body of an "llm" step may raise   *)
(* (llm_structured, http_call, execute with stop_on_failure; the bodies of   *)
(* llm, python and workflow return their errors as output, which is one of   *)
(* the outputs of NodeReturn, and only their loop guard raises); "tool" (mcp *)
(* and execute) and "agent" capture their errors in the sentinel.  A join    *)
(* applies the policy "and" or "or".                                         *)
Kinds == {"llm", "tool", "agent", "switch", "parallel", "join", "joinOr"}
Joins == {"join", "joinOr"}

ASSUME GraphAssumption ==
  /\ N \in Nat \ {0}
  /\ Kind \in [Steps -> Kinds]
  /\ Cond \in [Steps -> 0..N]
  /\ Then \in [Steps -> 1..End]
  /\ Else \in [Steps -> 0..End]
  /\ Fan \in [Steps -> SUBSET Steps]
  /\ When \in [Steps -> 0..N]
  /\ MaxLoops \in Nat \ {0}
  /\ MaxCrash \in Nat
  /\ MaxRetry \in Nat

VARIABLES
  doc,      \* the run document: status, step statuses and outputs, journal
  chan,     \* the channels of the thread, as of the last superstep
  pend,     \* the nodes of the current superstep
  work,     \* Steps -> how far the node is in this superstep
  out,      \* Steps -> what the node wrote in this superstep
  proc,     \* what the process is doing with the run
  seen,     \* the sentinel in the stream's own current_state
  crashes, retries,
  (* History variables: read by no action of the code. *)
  tries,    \* how often each body was executed
  broken,   \* steps whose latest execution recorded a failure, since the
            \* thread was last started at its first step
  current   \* steps not executed before a later execution of an earlier step

vars == <<doc, chan, pend, work, out, proc, seen, crashes, retries, tries, broken, current>>
history == <<tries, broken, current>>

-----------------------------------------------------------------------------
Answer == {"unset", "yes", "no"}
Count == 0..(MaxLoops + 1)

(* A node's return value: the sentinel (0: key missing, or None), the whole  *)
(* _visit_counts dictionary (0: key missing) and the field a router tests.   *)
Output == [failed : 0..N, visits : [Steps -> Count], val : Answer]
NoVisits == [i \in Steps |-> 0]
Nothing == [failed |-> 0, visits |-> NoVisits, val |-> "unset"]

Channels == [failed : 0..N, visits : [Steps -> Count], val : [Steps -> Answer]]
NoValues == [failed |-> 0, visits |-> NoVisits, val |-> [i \in Steps |-> "unset"]]

StepStatus == {"pending", "running", "finished", "skipped", "failed"}
Done == {"finished", "skipped"}
RunStatus == {"absent", "running", "completed", "failed"}

(* route is the target of the last route event in routing_log, saved the     *)
(* sentinel in run.state.                                                    *)
Doc == [status : RunStatus, st : [Steps -> StepStatus], outs : [Steps -> Output],
        route : 0..End, saved : 0..N]

LastOf(S) == CHOOSE i \in S : \A j \in S : j <= i

(* The reducers: _merge_dicts for the counts, _last_wins (which keeps the    *)
(* last write that is not None) for the sentinel.  w is a function from a    *)
(* set of steps, applied in their order, to outputs.                         *)
Apply(c, S, w) ==
  LET sets    == {i \in S : w[i].failed # 0}
      has(j)  == {i \in S : w[i].visits[j] # 0}
  IN [failed |-> IF sets = {} THEN c.failed ELSE w[LastOf(sets)].failed,
      visits |-> [j \in Steps |-> IF has(j) = {} THEN c.visits[j]
                                  ELSE w[LastOf(has(j))].visits[j]],
      val    |-> [j \in Steps |-> IF j \in S /\ w[j].val # "unset" THEN w[j].val
                                  ELSE c.val[j]]]

(* The edges out of step i, taken with channel values c; {} when its router  *)
(* finds no route.                                                           *)
Targets(i, c) ==
  IF Kind[i] = "parallel" THEN Fan[i]
  ELSE IF Cond[i] = 0 \/ c.val[Cond[i]] = "yes" THEN {Then[i]}
  ELSE {Else[i]} \ {0}

Routed(i, c) == Targets(i, c) # {}

Init ==
  /\ doc = [status |-> "absent", st |-> [i \in Steps |-> "pending"],
            outs |-> [i \in Steps |-> Nothing], route |-> 0, saved |-> 0]
  /\ chan = NoValues
  /\ pend = {}
  /\ work = [i \in Steps |-> "idle"]
  /\ out = [i \in Steps |-> Nothing]
  /\ proc = "off"
  /\ seen = 0
  /\ crashes = 0 /\ retries = 0
  /\ tries = [i \in Steps |-> 0]
  /\ broken = {} /\ current = {}

(* _execute_graph: the thread starts at the first step.                      *)
Start ==
  /\ doc.status = "absent"
  /\ doc' = [doc EXCEPT !.status = "running"]
  /\ pend' = {1}
  /\ proc' = "stream"
  /\ UNCHANGED <<chan, work, out, seen, crashes, retries, history>>

(***************************************************************************)
(* One node of a superstep.                                                *)
(***************************************************************************)

Ready(i) == proc = "stream" /\ i \in pend /\ work[i] = "idle"

(* mutant: the sentinel does not stop the next step.                         *)
NeverBlocked(i) == FALSE

(* _wrap_with_fail_guard: another step's failure is recorded in the state.   *)
Blocked(i) == chan.failed \notin {0, i} /\ Kind[i] \notin Joins

(* _wrap_with_when.                                                          *)
Skips(i) == When[i] # 0 /\ chan.val[When[i]] # "yes"

Abort(i) ==
  /\ Ready(i)
  /\ Blocked(i) \/ (Skips(i) /\ ~Routed(i, chan))
  /\ proc' = "failing"
  /\ UNCHANGED <<doc, chan, pend, work, out, seen, crashes, retries, history>>

(* A node has returned o; the router behind it has run on the state that     *)
(* includes o and journalled its choice.                                     *)
Return(i, o) ==
  LET c == Apply(chan, {i}, [j \in {i} |-> o]) IN
    /\ Routed(i, c)
    /\ work' = [work EXCEPT ![i] = "returned"]
    /\ out' = [out EXCEPT ![i] = o]
    /\ doc' = IF Cond[i] = 0 THEN doc ELSE [doc EXCEPT !.route = LastOf(Targets(i, c))]

Skip(i) ==
  /\ Ready(i)
  /\ ~Blocked(i)
  /\ Skips(i)
  /\ Return(i, Nothing)
  /\ UNCHANGED <<chan, pend, proc, seen, crashes, retries, history>>

(* _wrap_with_status_running: the step is published as running first.        *)
NodeStart(i) ==
  /\ Ready(i)
  /\ ~Blocked(i)
  /\ ~Skips(i)
  /\ work' = [work EXCEPT ![i] = "body"]
  /\ doc' = [doc EXCEPT !.st[i] = "running"]
  /\ tries' = [tries EXCEPT ![i] = @ + 1]
  /\ UNCHANGED <<chan, pend, out, proc, seen, crashes, retries, broken, current>>

InBody(i) == proc = "stream" /\ work[i] = "body"

Guarded(i) == Kind[i] \in {"llm", "tool"}
Captures(i) == Kind[i] \in {"tool", "agent"}

(* mutant: the count is compared before this execution is added.             *)
WithinLoopsLate(i) == chan.visits[i] <= MaxLoops

(* _wrap_with_loop_guard: executions are counted after the body.             *)
WithinLoops(i) == chan.visits[i] + 1 <= MaxLoops

Counted(i) ==
  IF Guarded(i) THEN [chan.visits EXCEPT ![i] = IF @ = MaxLoops + 1 THEN @ ELSE @ + 1]
  ELSE NoVisits

(* The field a router tests; the others do not matter.                       *)
Tested == {Cond[i] : i \in Steps} \cup {When[i] : i \in Steps}
Answers(i) == IF i \in Tested THEN {"yes", "no"} ELSE {"unset"}

NodeReturn(i) ==
  /\ InBody(i)
  /\ Guarded(i) \/ Captures(i)
  /\ Guarded(i) => WithinLoops(i)
  /\ \E v \in Answers(i) :
       Return(i, [failed |-> 0, visits |-> Counted(i), val |-> v])
  /\ broken' = broken \ {i}
  /\ current' = {j \in current : j < i} \cup {i}
  /\ UNCHANGED <<chan, pend, proc, seen, crashes, retries, tries>>

(* The node catches its exception and returns the sentinel, with or without  *)
(* an output (the message, what a rejected agent produced); a guarded one is *)
(* counted as any other execution.                                           *)
NodeCapture(i) ==
  /\ InBody(i)
  /\ Captures(i)
  /\ Guarded(i) => WithinLoops(i)
  /\ \E v \in Answers(i) \cup {"unset"} :
       Return(i, [failed |-> i, visits |-> Counted(i), val |-> v])
  /\ broken' = broken \cup {i}
  /\ current' = {j \in current : j < i}
  /\ UNCHANGED <<chan, pend, proc, seen, crashes, retries, tries>>

(* switch, parallel and join return at once; a join with policy "and" fails  *)
(* when the sentinel is set.                                                 *)
NodePass(i) ==
  /\ InBody(i)
  /\ Kind[i] \in {"switch", "parallel"} \cup Joins
  /\ IF Kind[i] = "join" /\ chan.failed # 0
       THEN Return(i, [Nothing EXCEPT !.failed = i]) /\ broken' = broken \cup {i}
       ELSE Return(i, Nothing) /\ UNCHANGED broken
  /\ UNCHANGED <<chan, pend, proc, seen, crashes, retries, tries, current>>

(* The body raises, the loop guard does, or no route matches what the node   *)
(* returned.                                                                 *)
NodeRaise(i) ==
  /\ InBody(i)
  /\ \/ Kind[i] = "llm"
     \/ Guarded(i) /\ ~WithinLoops(i)
     \/ \E v \in Answers(i) \cup {"unset"} :
          ~Routed(i, Apply(chan, {i}, [j \in {i} |-> [Nothing EXCEPT !.val = v]]))
  /\ proc' = "failing"
  /\ UNCHANGED <<doc, chan, pend, work, out, seen, crashes, retries, history>>

(* The chunk handler.  An empty output makes the step skipped; the fail      *)
(* guard adds `__failed_step__: None` when the sentinel is the step's own,   *)
(* and then there is output.                                                 *)
ReturnsNothing(i) ==
  out[i].failed = 0 /\ (Skips(i) \/ Kind[i] \in {"switch", "parallel"} \cup Joins)
ClearsOwn(i) == chan.failed = i /\ out[i].failed = 0 /\ Kind[i] \notin Joins
IsEmpty(i) == ReturnsNothing(i) /\ ~ClearsOwn(i)

Shown(i) == IF out[i].failed = i THEN "failed"
            ELSE IF IsEmpty(i) THEN "skipped" ELSE "finished"

Chunk(i) ==
  /\ proc = "stream"
  /\ work[i] = "returned"
  /\ work' = [work EXCEPT ![i] = "told"]
  /\ doc' = [doc EXCEPT !.st[i] = Shown(i), !.outs[i] = IF IsEmpty(i) THEN @ ELSE out[i]]
  /\ seen' = IF out[i].failed # 0 THEN i ELSE IF ClearsOwn(i) THEN 0 ELSE seen
  /\ UNCHANGED <<chan, pend, out, proc, crashes, retries, history>>

(* mutant: END is taken for a node.                                          *)
SuperstepKeepsEnd ==
  /\ proc = "stream"
  /\ pend # {}
  /\ \A i \in pend : work[i] = "told"
  /\ LET c == Apply(chan, pend, out) IN
       /\ chan' = c
       /\ pend' = UNION {Targets(i, Apply(chan, {i}, out)) : i \in pend}
  /\ work' = [i \in Steps |-> "idle"]
  /\ UNCHANGED <<doc, out, proc, seen, crashes, retries, history>>

(* All nodes of the superstep are through: their writes are applied and the  *)
(* next superstep is what their edges lead to.                               *)
Superstep ==
  /\ proc = "stream"
  /\ pend # {}
  /\ \A i \in pend : work[i] = "told"
  /\ LET c == Apply(chan, pend, out) IN
       /\ chan' = c
       /\ pend' = (UNION {Targets(i, Apply(chan, {i}, out)) : i \in pend}) \ {End}
  /\ work' = [i \in Steps |-> "idle"]
  /\ UNCHANGED <<doc, out, proc, seen, crashes, retries, history>>

Complete ==
  /\ proc = "stream"
  /\ pend = {}
  /\ doc' = [doc EXCEPT !.status = "completed", !.saved = chan.failed]
  /\ proc' = "off"
  /\ UNCHANGED <<chan, pend, work, out, seen, crashes, retries, history>>

(* The exception handler of the stream: the first running step is failed,    *)
(* or else the one the stream's own state names.                             *)
Culprit ==
  LET running == {i \in Steps : doc.st[i] = "running"} IN
    IF running # {} THEN {i \in running : \A j \in running : i <= j} ELSE {seen} \ {0}

(* mutant: the step is marked, the run is not.                               *)
WriteStepFailed ==
  /\ proc = "failing"
  /\ doc' = [doc EXCEPT !.st = [i \in Steps |-> IF i \in Culprit THEN "failed" ELSE @[i]]]
  /\ work' = [i \in Steps |-> IF work[i] = "body" THEN "idle" ELSE work[i]]
  /\ proc' = "off"
  /\ UNCHANGED <<chan, pend, out, seen, crashes, retries, history>>

WriteFailed ==
  /\ proc = "failing"
  /\ doc' = [doc EXCEPT !.status = "failed",
                        !.st = [i \in Steps |-> IF i \in Culprit THEN "failed" ELSE @[i]],
                        !.saved = IF chan.failed # 0 THEN chan.failed ELSE seen]
  /\ work' = [i \in Steps |-> IF work[i] = "body" THEN "idle" ELSE work[i]]
  /\ proc' = "off"
  /\ UNCHANGED <<chan, pend, out, seen, crashes, retries, history>>

(***************************************************************************)
(* Restart and retry: aupdate_state(accumulated, as_node=last_done).       *)
(***************************************************************************)

(* mutant: the step that was being executed counts as done.                  *)
IsLastTouched(k) ==
  LET done == {i \in Steps : doc.st[i] \in Done \cup {"running"}} IN
    IF done = {} THEN k = 0 ELSE k = LastOf(done)

IsLastDone(k) ==
  LET done == {i \in Steps : doc.st[i] \in Done} IN
    IF done = {} THEN k = 0 ELSE k = LastOf(done)

(* accumulated: the outputs of the done steps, one dictionary over the       *)
(* other, and the sentinel of run.state.                                     *)
Seeded ==
  LET done    == {i \in Steps : doc.st[i] \in Done}
      counted == {i \in done : doc.outs[i].visits # NoVisits}
      acc     == [i \in done \cup {N} |->
                    [failed |-> doc.saved,
                     visits |-> IF counted = {} THEN NoVisits ELSE doc.outs[LastOf(counted)].visits,
                     val    |-> IF i \in done THEN doc.outs[i].val ELSE "unset"]]
      written == {i \in pend : work[i] \in {"returned", "told"}}
  IN Apply(Apply(chan, written, out), done \cup {N}, acc)

(* mutant: the thread continues at the next step of the definition.          *)
ReseedInOrder(k) ==
  /\ work' = [i \in Steps |-> "idle"]
  /\ broken' = broken
  /\ chan' = IF k = 0 THEN chan ELSE Seeded
  /\ pend' = {k + 1} \ {End}

(* The thread continues behind step k; without a done step a new input       *)
(* starts it again, and what was pending is dropped.                         *)
Reseed(k) ==
  /\ work' = [i \in Steps |-> "idle"]
  /\ broken' = IF k = 0 THEN {} ELSE broken
  /\ IF k = 0
       THEN pend' = {1} /\ chan' = [chan EXCEPT !.failed = IF doc.saved # 0 THEN doc.saved ELSE @]
       ELSE /\ Routed(k, Seeded)
            /\ chan' = Seeded
            /\ pend' = Targets(k, Seeded) \ {End}

Crash ==
  /\ crashes < MaxCrash
  /\ doc.status = "running"
  /\ crashes' = crashes + 1
  /\ proc' = "down"
  /\ work' = [i \in Steps |-> IF work[i] = "body" THEN "idle" ELSE work[i]]
  /\ UNCHANGED <<doc, chan, pend, out, seen, retries, history>>

(* _recover_run for a run that was running.  aupdate_state raises, and the   *)
(* run is failed, when the router of the last done step finds no route.      *)
Recover ==
  /\ proc = "down"
  /\ \E k \in 0..N :
       /\ IsLastDone(k)
       /\ IF k = 0 \/ Routed(k, Seeded)
            THEN /\ Reseed(k)
                 /\ proc' = IF k = 0 THEN "fresh" ELSE "resume"
                 /\ UNCHANGED doc
            ELSE /\ doc' = [doc EXCEPT !.status = "failed", !.saved = 0]
                 /\ proc' = "off"
                 /\ UNCHANGED <<chan, pend, work, broken>>
  /\ UNCHANGED <<out, seen, crashes, retries, tries, current>>

(* stream_graph_to_pause, entered by recovery.  When the last route led to   *)
(* the step the sentinel names, the input that was to continue the thread    *)
(* becomes a dictionary, which starts the graph from its first step.         *)
Begin ==
  /\ proc \in {"fresh", "resume"}
  /\ LET held  == IF proc = "fresh" THEN doc.saved ELSE chan.failed
         stale == held # 0 /\ doc.route = held
     IN /\ seen' = IF stale THEN 0 ELSE held
        /\ pend' = IF stale /\ proc = "resume" THEN {1} ELSE pend
  /\ proc' = "stream"
  /\ UNCHANGED <<doc, chan, work, out, crashes, retries, history>>

(* retry_run: from the failed step on everything is pending again, the       *)
(* thread continues behind the last done step.                               *)
Retry ==
  /\ doc.status = "failed"
  /\ proc = "off"
  /\ retries < MaxRetry
  /\ retries' = retries + 1
  /\ \E k \in 0..N : IsLastDone(k) /\ Reseed(k)
  /\ LET bad == {i \in Steps : doc.st[i] = "failed"} IN
       doc' = [doc EXCEPT
                 !.status = "running",
                 !.st = [i \in Steps |-> IF \E b \in bad : b <= i THEN "pending" ELSE @[i]]]
  /\ seen' = chan'.failed
  /\ proc' = "stream"
  /\ UNCHANGED <<out, crashes, tries, current>>

-----------------------------------------------------------------------------
NodeStep(i) ==
  \/ Abort(i) \/ Skip(i) \/ NodeStart(i) \/ NodeReturn(i) \/ NodeCapture(i)
  \/ NodePass(i) \/ NodeRaise(i) \/ Chunk(i)

StreamStep == (\E i \in Steps : NodeStep(i)) \/ Superstep \/ Complete \/ WriteFailed

Recovery == Recover \/ Begin

Next == Start \/ StreamStep \/ Crash \/ Recovery \/ Retry

Spec == Init /\ [][Next]_vars
FairSpec == Spec /\ WF_vars(StreamStep) /\ WF_vars(Recovery)

-----------------------------------------------------------------------------
TypeOK ==
  /\ doc \in Doc
  /\ chan \in Channels
  /\ pend \subseteq Steps
  /\ work \in [Steps -> {"idle", "body", "returned", "told"}]
  /\ out \in [Steps -> Output]
  /\ proc \in {"off", "stream", "failing", "down", "fresh", "resume"}
  /\ seen \in 0..N
  /\ crashes \in 0..MaxCrash /\ retries \in 0..MaxRetry
  /\ tries \in [Steps -> Nat]
  /\ broken \subseteq Steps /\ current \subseteq Steps

(* A completed run is whole: no step of it is still shown as running and     *)
(* none has failed.                                                          *)
CompletedIsWhole ==
  doc.status = "completed" =>
    \A i \in Steps : doc.st[i] \in {"pending"} \cup Done

(* A loop is left only through its test: in a completed run, the verdict of  *)
(* a step that routes back was given after the last execution of every       *)
(* earlier step, wherever the process was restarted or the run retried.      *)
VerdictIsCurrent ==
  doc.status = "completed" =>
    \A i \in Steps : (Cond[i] = i /\ Else[i] \in 1..i /\ doc.st[i] = "finished") => i \in current

(* A step that recorded a failure is followed by nothing but its own next    *)
(* attempt (or a join): not after a restart, not after a retry.              *)
NothingRunsPastFailure ==
  [][\A i \in Steps : tries'[i] > tries[i] =>
       Kind[i] \in Joins \/ broken \subseteq {i}]_vars

(* The loop guard bounds how often a body is executed: once more than        *)
(* max_loops in every life of the run (a restart or a retry begins one),     *)
(* however loops are nested and whichever counts a restart brings back.      *)
LoopsBounded ==
  \A i \in Steps : Guarded(i) => tries[i] <= (MaxLoops + 1) * (1 + crashes + retries)

(* max_loops is enforced for the run: a restart adds the one execution it    *)
(* interrupted and gives no iterations back.                                 *)
MaxLoopsEnforced ==
  \A i \in Steps : Guarded(i) => tries[i] <= MaxLoops + 1 + crashes + retries

(* The fail guard aborts a run only because of a step whose failure stands.  *)
AbortsAreJustified ==
  [][(\E i \in Steps : Abort(i) /\ Blocked(i)) => chan.failed \in broken]_vars

(* Every run ends: no loop, restart or failure leaves it running forever.    *)
RunEnds == doc.status = "running" ~> doc.status # "running"
=============================================================================
