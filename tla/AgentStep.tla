------------------------------ MODULE AgentStep ------------------------------
(***************************************************************************)
(* One langgraph-agent / claude-agent step of a workflow:                  *)
(* execute_agent_step deploys the agent's pod (or finds one), posts the    *)
(* task, polls the agent for status and outputs, stores the outputs in the *)
(* task repository, parks or terminates the pod, and judges the result.    *)
(* The step is executed again when the workflow loops back to it, when the *)
(* backend restarts during it, and when a client retries the failed run.   *)
(* The pod lives on across all of that; the repository remembers.          *)
(*                                                                         *)
(* One action is one await of the backend, or one event of the pod.  The   *)
(* agent's HTTP server is external: the backend's use of /start and /poll  *)
(* fixes what it does (each output is reported by one poll only).          *)
(*                                                                         *)
(* A definition whose comment says "mutant" is a deliberately wrong        *)
(* variant of the one after it; no specification uses it.                  *)
(***************************************************************************)
EXTENDS Integers

CONSTANTS
  Visits,    \* how often the workflow loops through the step
  MaxLoops,  \* AGENT_MAX_LOOPS: failed or idle polls before giving up
  Judge,     \* use_meta_llm of the workflow
  Mapped,    \* the step has an output_mapping
  Pools,     \* whether a warm pod repository is used ("none") or not ("off")
  MaxFault,  \* bound: lost polls, failed starts and deployments, pod restarts
  MaxCrash,  \* bound: restarts of the backend
  MaxRetry   \* bound: retries of the failed run

ASSUME AgentStepAssumption ==
  /\ Visits \in Nat \ {0}
  /\ MaxLoops \in Nat \ {0}
  /\ Judge \in BOOLEAN
  /\ Mapped \in BOOLEAN
  /\ Pools \subseteq {"off", "none"}
  /\ MaxFault \in Nat
  /\ MaxCrash \in Nat
  /\ MaxRetry \in Nat

VARIABLES
  run,      \* what the run is doing with the step
  stream,   \* the function that streams the run
  withdrawn, \* terminate or delete has come while the run was streamed
  visit,    \* how often the workflow has come to the step
  node,     \* the coroutine that executes the step
  pod,      \* the pod of the helm release of (agent, run)
  helm,     \* helm's status of that release, while there is one
  agent,    \* the agent process in the pod
  repo,     \* the task document of the step
  pool,     \* the warm pod record of (run, agent)
  clean,    \* cleanup_run_agents
  result,   \* what the latest execution returned
  faults, crashes, retries,
  (* History variables: read by no action of the code. *)
  made,     \* visits for which the agent has produced a final output
  starts,   \* tasks an agent has accepted for the current visit
  found     \* what the latest execution has found: a parked pod ("warm"),
            \* a release that it did not see ("missed"), or neither ("none")

vars == <<run, stream, withdrawn, visit, node, pod, helm, agent, repo, pool, clean,
          result, faults, crashes, retries, made, starts, found>>
release == <<pod, helm>>
course == <<stream, withdrawn>>
bounds == <<faults, crashes, retries>>
history == <<made, starts, found>>

Visit == 1..Visits

(* start, retry, restart and the decisions of the UI stream a run through    *)
(* _stream_graph ("plain"), which cleans nothing up; triggers, callbacks and *)
(* startup recovery through stream_graph_to_pause.                           *)
Streams == {"plain", "toPause"}

(* A final output is known by the visit whose input it was made from; 0: no  *)
(* final output.                                                             *)
Final == 0..Visits

(* "ending": the final output is there, the status still says working.       *)
AgentStatus == {"idle", "working", "ending", "done", "failed"}
Agent == [task : Final, st : AgentStatus, out : Final]
NewAgent == [task |-> 0, st |-> "idle", out |-> 0]

(* The task key does not tell visits apart: _visit_counts, from which it is  *)
(* made, is kept by the loop guard, and agent steps have none.  fin is the   *)
(* last final among the stored outputs.                                      *)
Task == [stored : BOOLEAN, fin : Final]

Pc == {"off", "lookup", "health", "probe", "spawn", "deploy", "start", "reuse", "save",
       "find", "poll", "absorb", "resend", "leave", "judge"}

(* raw is raw_output, st and fin are what the poll has answered.             *)
Node == [pc : Pc, raw : Final, loops : 0..(MaxLoops - 1), st : AgentStatus, fin : Final]
Off == [pc |-> "off", raw |-> 0, loops |-> 0, st |-> "idle", fin |-> 0]

Goto(pc) == node' = [node EXCEPT !.pc = pc]

Init ==
  /\ run = "between"
  /\ stream \in Streams
  /\ withdrawn = FALSE
  /\ visit = 0
  /\ node = Off
  /\ pod = "none"
  /\ helm = "deployed"
  /\ agent = NewAgent
  /\ repo = [stored |-> FALSE, fin |-> 0]
  /\ pool \in Pools
  /\ clean = "idle"
  /\ result = [end |-> "none", val |-> 0]
  /\ faults = 0 /\ crashes = 0 /\ retries = 0
  /\ made = {}
  /\ starts = 0
  /\ found = "none"

(***************************************************************************)
(* The agent's process and its pod.                                        *)
(***************************************************************************)

(* The agent accepts a task; its status is working from now on.              *)
Accept == /\ agent' = [task |-> visit, st |-> "working", out |-> 0]
          /\ starts' = starts + 1

AgentFinal ==
  /\ agent.st = "working"
  /\ agent' = [agent EXCEPT !.out = agent.task, !.st = "ending"]
  /\ made' = made \cup {agent.task}
  /\ UNCHANGED <<course, run, visit, node, release, repo, pool, clean, result, bounds, starts, found>>

(* The status follows the output: a poll in between takes the output while   *)
(* the status is still working.  The agent may also finish without a final   *)
(* output.                                                                   *)
AgentDone ==
  /\ agent.st \in {"working", "ending"}
  /\ agent' = [agent EXCEPT !.st = "done"]
  /\ UNCHANGED <<course, run, visit, node, release, repo, pool, clean, result, bounds, history>>

AgentFails ==
  /\ agent.st = "working"
  /\ agent' = [agent EXCEPT !.st = "failed"]
  /\ UNCHANGED <<course, run, visit, node, release, repo, pool, clean, result, bounds, history>>

(* Kubernetes restarts the container: the task is lost.                      *)
PodRestart ==
  /\ pod = "up" /\ agent.st # "idle"
  /\ faults < MaxFault
  /\ faults' = faults + 1
  /\ agent' = NewAgent
  /\ UNCHANGED <<course, run, visit, node, release, repo, pool, clean, result, crashes, retries, history>>

(* A release whose installation was cut off becomes ready all the same.      *)
PodReady ==
  /\ pod = "starting"
  /\ pod' = "up"
  /\ UNCHANGED <<course, run, visit, node, helm, agent, repo, pool, clean, result, bounds, history>>

Fault == faults < MaxFault /\ faults' = faults + 1
Uninstall == pod' = "none" /\ helm' = "deployed" /\ agent' = NewAgent

(***************************************************************************)
(* execute_agent_step, up to the poll loop.                                *)
(***************************************************************************)

At(pc) == node.pc = pc

(* The coroutine raises; _agent_node turns that into the failure sentinel,   *)
(* the next step aborts, and the run is stored as failed.  Only              *)
(* stream_graph_to_pause cleans up then.                                     *)
Fail ==
  /\ node' = Off
  /\ run' = "ended"
  /\ result' = [end |-> "failed", val |-> 0]
  /\ clean' = IF stream = "toPause" THEN "pods" ELSE clean

(* The graph executes the node: the first time, and for every loop back.     *)
Execute ==
  /\ run = "between"
  /\ visit < Visits
  /\ visit' = visit + 1
  /\ run' = "exec"
  /\ node' = [Off EXCEPT !.pc = "lookup"]
  /\ starts' = 0
  /\ UNCHANGED <<course, release, agent, repo, pool, clean, result, bounds, made, found>>

(* warm_pod_repository.get.                                                  *)
Lookup ==
  /\ At("lookup")
  /\ IF pool = "parked" THEN Goto("health") /\ found' = "warm"
     ELSE Goto("probe") /\ found' = "none"
  /\ UNCHANGED <<course, run, visit, release, agent, repo, pool, clean, result, bounds,
                 made, starts>>

(* GET /health of the parked pod; the record of a pod that does not answer   *)
(* is deleted.                                                               *)
Health ==
  /\ At("health")
  /\ \/ pod = "up" /\ Goto("reuse") /\ UNCHANGED <<pool, faults, found>>
     \/ /\ IF pod = "up" THEN Fault ELSE UNCHANGED faults
        /\ Goto("probe")
        /\ pool' = IF pool = "parked" THEN "none" ELSE pool
        /\ found' = "none"
  /\ UNCHANGED <<course, run, visit, release, agent, repo, clean, result, crashes, retries,
                 made, starts>>

(* mutant: a pod left by an earlier execution is not noticed.                *)
ProbeNothing ==
  /\ At("probe")
  /\ Goto("spawn")
  /\ UNCHANGED <<course, run, visit, release, agent, repo, pool, clean, result, bounds, history>>

(* has_container_for_run: a release is there and helm does not call it       *)
(* failed, whatever state the pod is in; a call of helm that fails, or       *)
(* raises, counts as no release.                                             *)
Probe ==
  /\ At("probe")
  /\ \/ /\ IF pod # "none" /\ helm # "failed" THEN Goto("find") ELSE Goto("spawn")
        /\ UNCHANGED faults
     \/ Fault /\ Goto("spawn")
  /\ found' = IF pod # "none" /\ node'.pc = "spawn" THEN "missed" ELSE found
  /\ UNCHANGED <<course, run, visit, release, agent, repo, pool, clean, result, crashes, retries,
                 made, starts>>

(* The resume path: the url comes from the task document or from the         *)
(* release; without either the pod is replaced.                              *)
Find ==
  /\ At("find")
  /\ \/ /\ repo.stored \/ pod # "none"
        /\ Goto("poll")
        /\ UNCHANGED <<release, agent, faults>>
     \/ /\ ~repo.stored
        /\ IF pod = "none" THEN UNCHANGED faults ELSE Fault
        /\ Uninstall
        /\ Goto("spawn")
  /\ UNCHANGED <<course, run, visit, repo, pool, clean, result, crashes, retries, history>>

(* helm upgrade --install leaves a running pod alone.                        *)
Spawn ==
  /\ At("spawn")
  /\ pod' = IF pod = "up" THEN pod ELSE "starting"
  /\ helm' = "pending"
  /\ Goto("deploy")
  /\ UNCHANGED <<course, run, visit, agent, repo, pool, clean, result, bounds, history>>

(* helm gives up waiting for a pod that is still starting: the release is    *)
(* marked as failed, and the pod's /health is polled all the same.           *)
HelmTimesOut ==
  /\ At("deploy") /\ pod = "starting"
  /\ Fault
  /\ helm' = "failed"
  /\ UNCHANGED <<course, run, visit, node, pod, agent, repo, pool, clean, result,
                 crashes, retries, history>>

Deployed ==
  /\ At("deploy") /\ pod = "up"
  /\ helm' = IF helm = "pending" THEN "deployed" ELSE helm
  /\ Goto("start")
  /\ UNCHANGED <<course, run, visit, pod, agent, repo, pool, clean, result, bounds, history>>

(* The pod does not become healthy in time and is uninstalled, or helm       *)
(* fails and nobody uninstalls anything.                                     *)
DeployFails ==
  /\ At("deploy")
  /\ \/ pod = "none" /\ UNCHANGED <<faults, release, agent>>
     \/ Fault /\ Uninstall
     \/ Fault /\ helm' \in {"pending", "failed"} /\ UNCHANGED <<pod, agent>>
  /\ Fail
  /\ UNCHANGED <<course, visit, repo, pool, crashes, retries, history>>

(* POST /start.                                                              *)
PostStart ==
  /\ At("start") \/ At("reuse")
  /\ pod = "up"
  /\ Accept
  /\ Goto("save")
  /\ UNCHANGED <<course, run, visit, release, repo, pool, clean, result, bounds, made, found>>

(* No answer to /start, although the agent may have got it: a pod that was   *)
(* spawned for this execution is terminated, a warm one is left.             *)
StartFails ==
  /\ At("start") \/ At("reuse")
  /\ IF pod = "up" THEN Fault ELSE UNCHANGED faults
  /\ IF At("start") THEN Uninstall /\ UNCHANGED starts
     ELSE /\ UNCHANGED release
          /\ (pod = "up" /\ Accept) \/ UNCHANGED <<agent, starts>>
  /\ Fail
  /\ UNCHANGED <<course, visit, repo, pool, crashes, retries, made, found>>

(* save_task: an existing document keeps its outputs.                        *)
SaveTask ==
  /\ At("save")
  /\ repo' = [repo EXCEPT !.stored = TRUE]
  /\ Goto("poll")
  /\ UNCHANGED <<course, run, visit, release, agent, pool, clean, result, bounds, history>>
(***************************************************************************)
(* The poll loop.                                                          *)
(***************************************************************************)

Reported == IF agent.st = "ending" THEN "working" ELSE agent.st

(* GET /poll: the agent marks the outputs of its answer as sent.             *)
Poll ==
  /\ At("poll") /\ pod = "up"
  /\ node' = [node EXCEPT !.pc = "absorb", !.st = Reported, !.fin = agent.out]
  /\ agent' = [agent EXCEPT !.out = 0]
  /\ UNCHANGED <<course, run, visit, release, repo, pool, clean, result, bounds, history>>

(* mutant: failed polls are not counted.                                     *)
PollFailsUncounted ==
  /\ At("poll")
  /\ IF pod = "up" THEN Fault /\ (agent' = agent \/ agent' = [agent EXCEPT !.out = 0])
     ELSE UNCHANGED <<faults, agent>>
  /\ Goto("poll")
  /\ UNCHANGED <<course, run, visit, release, repo, pool, clean, result, crashes, retries, history>>

(* mutant: the limit is compared before the failed poll is counted.          *)
PollFailsLate ==
  /\ At("poll")
  /\ IF pod = "up" THEN Fault /\ (agent' = agent \/ agent' = [agent EXCEPT !.out = 0])
     ELSE UNCHANGED <<faults, agent>>
  /\ IF node.loops >= MaxLoops THEN Fail
     ELSE /\ node' = [node EXCEPT !.loops = @ + 1]
          /\ UNCHANGED <<run, clean, result>>
  /\ UNCHANGED <<course, visit, release, repo, pool, crashes, retries, history>>

(* No answer, or an answer that is lost on its way.                          *)
PollFails ==
  /\ At("poll")
  /\ IF pod = "up" THEN Fault /\ (agent' = agent \/ agent' = [agent EXCEPT !.out = 0])
     ELSE UNCHANGED <<faults, agent>>
  /\ IF node.loops + 1 >= MaxLoops THEN Fail
     ELSE /\ node' = [node EXCEPT !.loops = @ + 1]
          /\ UNCHANGED <<run, clean, result>>
  /\ UNCHANGED <<course, visit, release, repo, pool, crashes, retries, history>>

(* append_outputs changes an existing document only; raw_output is the first *)
(* final this loop has seen.                                                 *)
Store == repo' = IF repo.stored /\ node.fin # 0 THEN [repo EXCEPT !.fin = node.fin] ELSE repo
Seen == IF node.raw # 0 THEN node.raw ELSE node.fin

Absorbed == [node EXCEPT !.raw = Seen, !.st = "idle", !.fin = 0]

AbsorbWorking ==
  /\ At("absorb") /\ node.st = "working"
  /\ Store
  /\ node' = [Absorbed EXCEPT !.pc = "poll"]
  /\ UNCHANGED <<course, run, visit, release, agent, pool, clean, result, bounds, history>>

(* mutant: the repository is not asked for a final that was taken earlier.   *)
AbsorbFinishedHere ==
  /\ At("absorb") /\ node.st = "done"
  /\ Store
  /\ node' = [Absorbed EXCEPT !.pc = "leave"]
  /\ UNCHANGED <<course, run, visit, release, agent, pool, clean, result, bounds, history>>

(* mutant: the stored outputs are asked first.                               *)
AbsorbFinishedStored ==
  /\ At("absorb") /\ node.st = "done"
  /\ Store
  /\ node' = [Absorbed EXCEPT !.pc = "leave", !.raw = IF repo.fin # 0 THEN repo.fin ELSE Seen]
  /\ UNCHANGED <<course, run, visit, release, agent, pool, clean, result, bounds, history>>

(* finished: without a final, the last one stored under the task key.        *)
AbsorbFinished ==
  /\ At("absorb") /\ node.st = "done"
  /\ Store
  /\ node' = [Absorbed EXCEPT !.pc = "leave", !.raw = IF Seen # 0 THEN Seen ELSE repo.fin]
  /\ UNCHANGED <<course, run, visit, release, agent, pool, clean, result, bounds, history>>

AbsorbFailed ==
  /\ At("absorb") /\ node.st = "failed"
  /\ Store
  /\ Fail
  /\ UNCHANGED <<course, visit, release, agent, pool, bounds, history>>

(* idle, and the meta-LLM has answered: both "complete" and "incomplete"     *)
(* contain "complete".                                                       *)
AbsorbComplete ==
  /\ At("absorb") /\ node.st = "idle"
  /\ Judge
  /\ Store
  /\ node' = [Absorbed EXCEPT !.pc = "leave",
                              !.raw = IF repo'.fin # 0 THEN repo'.fin ELSE Seen]
  /\ UNCHANGED <<course, run, visit, release, agent, pool, clean, result, bounds, history>>

(* idle, and there is no meta-LLM or no answer from it: resend or give up.   *)
AbsorbIdle ==
  /\ At("absorb") /\ node.st = "idle"
  /\ Store
  /\ IF node.loops + 1 >= MaxLoops THEN Fail
     ELSE /\ node' = [Absorbed EXCEPT !.pc = "resend", !.loops = @ + 1]
          /\ UNCHANGED <<run, clean, result>>
  /\ UNCHANGED <<course, visit, release, agent, pool, bounds, history>>

(* POST /start again; a failure is ignored, the next poll tells.             *)
Resend ==
  /\ At("resend")
  /\ Goto("poll")
  /\ IF pod = "up" THEN (Accept /\ UNCHANGED faults) \/ (Fault /\ UNCHANGED <<agent, starts>>)
     ELSE UNCHANGED <<agent, starts, faults>>
  /\ UNCHANGED <<course, run, visit, release, repo, pool, clean, result, crashes, retries, made, found>>

(***************************************************************************)
(* After the poll loop.                                                    *)
(***************************************************************************)

(* The pod is parked or terminated.  A record that cannot be stored means    *)
(* terminated, a pod that cannot be uninstalled is left.                     *)
Leave ==
  /\ At("leave")
  /\ \/ pool = "off" /\ Uninstall /\ UNCHANGED <<pool, faults>>
     \/ pool = "off" /\ Fault /\ UNCHANGED <<release, agent, pool>>
     \/ pool # "off" /\ pool' = "parked" /\ UNCHANGED <<release, agent, faults>>
     \/ pool # "off" /\ Fault /\ Uninstall /\ UNCHANGED pool
  /\ Goto("judge")
  /\ UNCHANGED <<course, run, visit, repo, clean, result, crashes, retries, history>>

(* The meta-LLM, the output mapping or an error output rejects the result,   *)
(* or a question is open: the interrupt that is to surface it is an          *)
(* exception, which _agent_node catches.                                     *)
Reject ==
  /\ At("judge")
  /\ Fail
  /\ UNCHANGED <<course, visit, release, agent, repo, pool, bounds, history>>

(* A step with an output_mapping fails when none of its fields is there.     *)
Return ==
  /\ At("judge")
  /\ Mapped => node.raw # 0
  /\ result' = [end |-> "ok", val |-> node.raw]
  /\ node' = Off
  /\ run' = "between"
  /\ UNCHANGED <<course, visit, release, agent, repo, pool, clean, bounds, history>>

(***************************************************************************)
(* The run around the step.                                                *)
(***************************************************************************)

(* The run pauses behind the step and is resumed: by the UI, or by a thread  *)
(* reply, which is another function's stream.                                *)
PausedAndResumed ==
  /\ run = "between"
  /\ stream' \in Streams
  /\ UNCHANGED <<run, withdrawn, visit, node, release, agent, repo, pool, clean, result,
                 bounds, history>>

(* The workflow goes on and ends.  stream_graph_to_pause stores completed    *)
(* and cleans up; _stream_graph leaves the pods, unless the decision it has  *)
(* streamed was a rejection.                                                 *)
Finish ==
  /\ run = "between" /\ visit > 0
  /\ run' = "ended"
  /\ clean' \in IF stream = "toPause" THEN {"pods"} ELSE {clean, "release"}
  /\ UNCHANGED <<course, visit, node, release, agent, repo, pool, result, bounds, history>>

(* terminate_run, or delete_run of a run that is streamed: the pods are      *)
(* cleaned up, but not the records, and the stream is not told.              *)
Withdraw ==
  /\ run \in {"exec", "between"} /\ visit > 0
  /\ clean \in {"idle", "cut"}
  /\ Fault
  /\ withdrawn' = TRUE
  /\ clean' = "release"
  /\ UNCHANGED <<run, stream, visit, node, release, agent, repo, pool, result, crashes, retries,
                 history>>

(* delete_run of a run that has ended.                                       *)
Delete ==
  /\ run = "ended" /\ clean \in {"idle", "cut"}
  /\ run' = "gone"
  /\ clean' = "release"
  /\ UNCHANGED <<course, visit, node, release, agent, repo, pool, result, bounds, history>>

(* mutant: the pods of an ended run are left.                                *)
CleanNoPods ==
  /\ clean \in {"pods", "release"}
  /\ clean' = IF clean = "pods" THEN "records" ELSE "idle"
  /\ UNCHANGED <<course, run, visit, node, release, agent, repo, pool, result, bounds, history>>

(* cleanup_run_agents, the releases: helm list, which shows no pending       *)
(* release, and helm uninstall; neither is repeated when it fails.  The      *)
(* run's final status is stored before, so a retry may overtake it.          *)
CleanPods ==
  /\ clean \in {"pods", "release"}
  /\ \/ /\ Uninstall /\ UNCHANGED faults
        /\ clean' = IF clean = "pods" THEN "records" ELSE "idle"
     \/ /\ (helm = "pending" /\ UNCHANGED faults) \/ Fault
        /\ UNCHANGED <<release, agent>>
        /\ clean' = IF clean = "pods" THEN "lost" ELSE "cut"
  /\ UNCHANGED <<course, run, visit, node, repo, pool, result, crashes, retries, history>>

(* ... and then the warm pod records, for which only stream_graph_to_pause   *)
(* passes the repository.                                                    *)
CleanRecords ==
  /\ clean \in {"records", "lost"}
  /\ pool' = IF pool = "parked" THEN "none" ELSE pool
  /\ clean' = IF clean = "records" THEN "idle" ELSE "cut"
  /\ UNCHANGED <<course, run, visit, node, release, agent, repo, result, bounds, history>>

(* The sweep of expired warm pods: a record keeps the expiry of its parking, *)
(* whether the pod is in use again or not.                                   *)
Sweep ==
  /\ pool = "parked"
  /\ Fault
  /\ Uninstall
  /\ pool' = "none"
  /\ UNCHANGED <<course, run, visit, node, repo, clean, result, crashes, retries, history>>

Retry ==
  /\ run = "ended" /\ result.end = "failed"
  /\ retries < MaxRetry
  /\ retries' = retries + 1
  /\ run' = "exec"
  /\ stream' = "plain"
  /\ withdrawn' = FALSE
  /\ node' = [Off EXCEPT !.pc = "lookup"]
  /\ starts' = 0
  /\ UNCHANGED <<visit, release, agent, repo, pool, clean, result, faults, crashes, made, found>>

(* The backend restarts: during the step, before its return is checkpointed, *)
(* or during the cleanup, which nobody takes up again.  A run that was       *)
(* withdrawn is found again only if its stream has stored it since.          *)
Crash ==
  /\ (run \in {"exec", "between"} /\ visit > 0) \/ clean \notin {"idle", "cut"}
  /\ crashes < MaxCrash
  /\ crashes' = crashes + 1
  /\ node' = Off
  /\ \/ /\ run' = IF run \in {"exec", "between"} THEN "down" ELSE run
        /\ UNCHANGED result
     \/ /\ withdrawn /\ run \in {"exec", "between"}
        /\ run' = "ended"
        /\ result' = [end |-> "failed", val |-> 0]
  /\ clean' = IF clean = "idle" /\ ~withdrawn THEN clean ELSE "cut"
  /\ UNCHANGED <<course, visit, release, agent, repo, pool, faults, retries, history>>

(* Startup recovery executes the node again.                                 *)
Recover ==
  /\ run = "down"
  /\ run' = "exec"
  /\ stream' = "toPause"
  /\ node' = [Off EXCEPT !.pc = "lookup"]
  /\ starts' = 0
  /\ UNCHANGED <<withdrawn, visit, release, agent, repo, pool, clean, result, bounds, made, found>>

-----------------------------------------------------------------------------
NodeStep ==
  \/ Lookup \/ Health \/ Probe \/ Find \/ Spawn \/ HelmTimesOut \/ Deployed \/ DeployFails
  \/ PostStart \/ StartFails \/ SaveTask \/ Poll \/ PollFails
  \/ AbsorbWorking \/ AbsorbFinished \/ AbsorbFailed \/ AbsorbComplete \/ AbsorbIdle
  \/ Resend \/ Leave \/ Reject \/ Return

AgentWork == AgentFinal \/ AgentDone \/ AgentFails
Cleanup == CleanPods \/ CleanRecords

Next ==
  \/ NodeStep \/ AgentWork \/ Cleanup
  \/ Execute \/ PausedAndResumed \/ Finish \/ Withdraw \/ Delete
  \/ Retry \/ Crash \/ Recover
  \/ PodRestart \/ PodReady \/ Sweep

Spec == Init /\ [][Next]_vars

(* The event loop runs the step and the cleanup, startup recovers the run,   *)
(* Kubernetes brings pods up, and an agent that works ends some time.        *)
Fairness == /\ WF_vars(NodeStep) /\ WF_vars(AgentWork) /\ WF_vars(Cleanup)
            /\ WF_vars(Recover) /\ WF_vars(PodReady)

FairSpec == Spec /\ Fairness

-----------------------------------------------------------------------------
TypeOK ==
  /\ run \in {"between", "exec", "down", "ended", "gone"}
  /\ stream \in Streams /\ withdrawn \in BOOLEAN
  /\ visit \in 0..Visits
  /\ node \in Node
  /\ pod \in {"none", "starting", "up"}
  /\ helm \in {"pending", "deployed", "failed"}
  /\ agent \in Agent
  /\ repo \in Task
  /\ pool \in {"off", "none", "parked"}
  /\ clean \in {"idle", "pods", "records", "lost", "release", "cut"}
  /\ result \in [end : {"none", "ok", "failed"}, val : Final]
  /\ faults \in 0..MaxFault /\ crashes \in 0..MaxCrash /\ retries \in 0..MaxRetry
  /\ made \subseteq Visit
  /\ starts \in Nat
  /\ found \in {"none", "warm", "missed"}

(* All visits share one task key, the outputs stored under it and the warm   *)
(* pod; still, as long as no call fails, nothing restarts and nobody         *)
(* withdraws or retries the run, a step whose agent has made a final output  *)
(* of this visit's input returns that one, and no stored one.                *)
ResultIsOwnWork ==
  result.end = "ok" /\ run = "between" /\ faults + crashes + retries = 0 /\ visit \in made
    => result.val = visit

(* ... and nothing but its own work, an agent that ends without a final      *)
(* output included.  Does not hold: the visits share the stored outputs.     *)
VisitsKeptApart ==
  result.end = "ok" /\ run = "between" /\ faults + crashes + retries = 0
    => result.val \in {0, visit}

(* No final output that is stored under the task key is overlooked: a step   *)
(* is judged on nothing only when nothing has been stored, whatever polls    *)
(* and restarts came in between.                                             *)
FinalNotOverlooked == node.pc = "judge" /\ node.raw = 0 => repo.fin = 0

(* Once a run that stream_graph_to_pause has ended is cleaned up, it holds   *)
(* no pod and no record of one, unless helm did not do as it was told.       *)
EndedRunHoldsNoPod ==
  run = "ended" /\ stream = "toPause" /\ clean = "idle" => pod = "none" /\ pool # "parked"

(* A failed run holds no pod, whoever has streamed it.  Does not hold: one   *)
(* function of the two cleans up.                                            *)
FailedRunHoldsNoPod ==
  run = "ended" /\ result.end = "failed" /\ clean = "idle" => pod = "none"

AtWork == agent.st = "working" /\ agent.task = visit

(* A task is not posted to an agent that is working on it: whatever polls    *)
(* are lost and wherever the backend restarts, the work is taken up where it *)
(* is, unless this execution was told of no release, or of a failed one, or  *)
(* took a pod that an earlier visit had parked.                              *)
WorkNotDoubled == [][starts' > starts /\ AtWork => found \in {"warm", "missed"}]_vars

(* ... without the exceptions.  Does not hold: a parked pod is given the     *)
(* task again after a restart.                                               *)
WorkNeverDoubled == [][starts' > starts => ~AtWork]_vars

(* Every execution of the step ends: with lost polls, a pod that is gone, an *)
(* agent that forgets its task.                                              *)
StepEnds == run \in {"exec", "down"} ~> run \in {"between", "ended"}
=============================================================================
