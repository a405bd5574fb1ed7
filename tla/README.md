# A TLA+ model of langgraph-backend

langgraph-backend executes YAML-defined workflows as LangGraph graphs. Runs pause
for people (approvals, questions), deploy agent pods, survive restarts of the
backend and can be retried. This directory models the parts of that which are hard
to test: several asyncio tasks that work on copies of one MongoDB document, restarts
between any two awaits, loops whose position is rebuilt from step statuses, and
pods that outlive the process that started them.

`src/` below is the root of the repository; paths are relative to `src/app` unless
they start with another directory.

## 1. The system

| Part | State it keeps | Operations | Talks to |
|---|---|---|---|
| Run API, `api/routes/workflows.py` | `live_runners` (run id to runner) | start, approve, reject, retry, restart-from-step, terminate, delete, list | run repository, runner, cleanup; schedules background tasks |
| Callbacks, `api/routes/callbacks.py` | none | approve / reject links, Slack buttons, Slack thread replies | run repository (claim), runner |
| Agent callbacks, `api/routes/agent_callbacks.py` | `_answers`, `_answer_events` in memory | output, question, input (long poll), reply, progress | run repository (read, change a key, replace) |
| Agent's client, `src/client/agent_server/backend_client.py` | locals of `ask_question` | post a question, poll for the answer | agent callbacks |
| Run repository, `persistence/mongo.py` | one document per run | create, update (`replace_one`, upsert), `claim_for_resume`, `list_incomplete`, delete | MongoDB |
| Graph runner, `orchestration/yaml_graph.py` | a compiled graph; `_current_run` | build, stream to pause, node wrappers, routers, reducers | checkpointer, run repository, agents, LLMs |
| Checkpointer, `orchestration/checkpointer.py` | checkpoints and pending writes of a thread | get, put, put_writes | MongoDB |
| Startup, `core/container.py` | registry of runners, scheduler | load registry, recover incomplete runs, sweeps, watcher | all of the above |
| Agent step, `steps/agent_executor.py` | locals of one coroutine | reuse / resume / spawn, start, poll, store, park, judge | runtime, agent server, task and warm pod repositories |
| Runtimes, `runtime/*.py` | helm releases, containers | spawn, find, terminate | Kubernetes, Docker |
| Agent tasks, warm pods, PVC leases, `persistence/mongo.py` | documents | save, append, park, expire | MongoDB |
| Cleanup, `services/agent_cleanup.py` | none | remove the pods and records of a run | runtimes, warm pods |
| Definitions, `persistence/workflow_backend.py`, `config/graph_loader.py`, `orchestration/default_workflow.py` | stored definitions; the registry of runners | create, update, delete through API and chat tools, `refresh_runner`, load | registry, cron scheduler |
| Triggers, `triggers/cron_scheduler.py`, `api/routes/webhooks.py` | scheduled jobs | register, unregister, fire | definitions, runs |

Everything in the backend runs in one asyncio process. Tasks interleave at awaits, and
every database, HTTP or helm call is one. A handler reads the run document, works on its copy and
replaces the whole document, so each write may undo what others wrote since
the read. `claim_for_resume` is the only conditional write. A background task
scheduled by one request can still be streaming when the next request comes. A
restart drops all tasks and in-memory tables; the documents, checkpoints and pods
stay.

Hard behaviours, in the order in which they were modelled:

1. decisions that race, arrive twice, or are consumed by another pause than the one they were meant for;
2. a restart at any await, and recovery from step statuses instead of from the checkpoint;
3. retry and restart-from-step, which rewrite the thread from stored outputs;
4. loops, failure sentinels and reducers of the graph, across restarts and retries;
5. agent pods: lost polls, outputs reported once, restarts of either side, pod reuse, cleanup;
6. the dialogue of a running agent with a person: long polls, an answer that travels on two ways, whole-document writes, lost calls and restarts;
7. edits of a definition while runs of it are executed, wait, or are recovered, requests that take a run's runner while an old stream of it goes on,
   and what registry and schedule make of the edits.

What makes each part correct:

- Run API and repository: one worker per run, decisions reach the pause they were made for, nothing guarded runs without approval, the stored status is true of the thread.
- Runner: loops are bounded and left through their test, nothing runs past a failure, a completed run has no step left in the middle.
- Startup: a running run gets exactly one new worker, a waiting run keeps waiting at the same step, every run goes on to a pause or an end.
- Agent step: a stored final output is not overlooked, an undisturbed visit returns its own, work is not posted twice, the step ends, a cleaned-up run holds no pod.
- Dialogue: a question gets the answer given to it and no other, stays visible until somebody replies, does not fail the step once it is answered, and `ask_question` ends.
- Definitions: a run keeps the definition it began with, a waiting run has a runner for the decision to come, every run goes on to a pause or an end, and registry and schedule are those of the stored definition after every edit and restart.

## 2. Modules

| Module | What it is |
|---|---|
| `RunLifecycle` | the run document, its thread, all handlers and tasks that write it, recovery |
| `RunContract` | what clients are promised: status and at most one worker |
| `RunLifecycleContract` | the refinement mapping from `RunLifecycle` to `RunContract` |
| `RunLifecycle_proofs` | TLAPS proofs about `RunLifecycle`: types, no guarded work without approval, no pause passed unanswered |
| `RunDecisions_proofs` | racing decisions: one stream, each decision at its pause; EXTENDS `RunLifecycle_proofs` |
| `RunContract_proofs` | the refinement of `RunContract`; EXTENDS `RunDecisions_proofs` |
| `RunOutcome_proofs` | what decisions bring about, and that finished work is kept; EXTENDS `RunDecisions_proofs` |
| `StepGraph` | the compiled graph: wrappers, routers, reducers, supersteps, statuses, recovery and retry positions |
| `StepGraph_proofs` | TLAPS proofs about `StepGraph` |
| `AgentStep` | one agent step around pod, agent, task document, warm pod record and cleanup |
| `AgentStep_proofs` | TLAPS proofs about `AgentStep` |
| `AgentDialogue` | `ask_question` in the agent's process, the question / input / reply / progress handlers, and the people who answer |
| `AgentDialogue_proofs` | TLAPS proofs about `AgentDialogue` |
| `Definitions` | the stored definition, registry and cron jobs made from it, edits, and the runners runs are executed by |
| `Definitions_proofs` | TLAPS proofs about `Definitions` |
| `MC*` | values of the constants for TLC |

### RunLifecycle

`doc` is the MongoDB document (status, `current_step`, `step_statuses`, the key
`approved` of each stored output, and `asked`: whether it has a Slack thread for questions), `ckpt` the latest checkpoint (how far the thread
is and its `approved` channel), `live` whether `live_runners` has the run, `task` what
the handler in each of `Task` slots is doing with its own copy of the document,
`recov` the phase of `_recover_incomplete_runs` and the copy it holds. An action is
one await together with the code up to the next. `Claim`, `MarkFinished`, `Begin`,
`NodeStart`, `NodeResume`, `WriteChunk`, `WritePause`, `WriteReset`, `WriteAnnounced`,
`WriteCompleted` is the life of an approval: claim, the write of "finished", the stream, each
chunk's write, the pause's write, the flag reset and the Slack notice. The handlers that do not
claim (`ReadRun` then `Retry`, `RestartFromStep`, `Terminate`, `WriteNote`, `ResumeUnclaimed`,
`OutputError`) work on what they read. A thread reply is accepted by every waiting run whose document has the thread
(`find_by_ask_context_ts`), whichever pause it is at. `okd`, `said`, `pass`, `ran` and `ended` are history
variables.

The workflow is a line of steps here: gates, ask_context steps, steps with
`when: approved`, and bodies that return or raise. Routers, loops and sentinels are in `StepGraph`.

### StepGraph

`chan` are the channels of the thread, `pend`, `work` and `out` one superstep (its nodes,
how far each is, what each wrote), `doc` the document's statuses, outputs, saved
sentinel and last route. `NodeStart` to `Chunk` follow one node through `_wrap_with_fail_guard`,
`_wrap_with_when`, `_wrap_with_status_running` and `_wrap_with_loop_guard`, its
body, its router and the stream's chunk; `Superstep` applies `_last_wins` and `_merge_dicts`.
`Recover` and `Retry` compute the last done step in definition order and write the
accumulated outputs as that node. Node bodies are reduced to what they do to the
graph: return, return nothing, raise, or capture an error as `__failed_step__`. Two facts about a kind
matter: whether a loop guard counts it (`Guarded`) and whether it captures its failure (`Captures`). mcp and execute steps do both ("tool"),
agents only capture, llm and the other bodies are only counted, and switch, parallel and join do neither. Branch
outcomes are the values `yes`, `no` and `unset` of the field a router tests.

### AgentStep

`node` is the coroutine of `execute_agent_step` (where it is, `raw_output`, its loop
count, the answer of the last poll), `pod` the helm release with `helm`, the status helm gives it, `agent` the process in
it, `repo` the task document, `pool` the warm pod record, `clean` the progress of
`cleanup_run_agents`. The step is executed `Visits` times by the workflow's loop, again
after a restart, again after a retry. The agent's server is external. The executor's
comments fix what it does: an output is reported by one poll only and may be
reported while the status still says working (`agent_executor.py:902-905`); it may also finish without a
final output, and then the executor takes the last one stored under the task key, which all visits share (`agent_executor.py:944-956`).

`stream` is the function that streams the run. `stream_graph_to_pause` (triggers, callbacks, recovery) cleans up when the run ends;
`_stream_graph` (start, retry, restart, decisions of the UI) does not, except after a rejection, terminate and delete, and then without the warm pod repository:
`clean` starts at "pods" (releases, then records) or at "release" (releases only). `PausedAndResumed` is how a run passes from one function to the other.
`Withdraw` is terminate, or delete, of a run whose stream is not told. `Probe` follows `_release_status`: a release that helm calls
failed, a helm call that fails and one that raises all mean "no release", and the step is deployed and posted again (`found = "missed"`).

### AgentDialogue

`doc` is the part of the run document the dialogue uses (`_pending_question`,
`_pending_answer`, `_slack_ask_context_ts`), `event` and `answer` are the in-memory tables,
`client` is `ask_question` in the agent's process, `asker`, `poller`, `reply` and `noter` are the
handlers with their copies of the document. `Ask`, `StoreQuestion`, `SlackPosted` are `agent_question`;
`Poll`, then `Take` (the answer is in the document) or `Wake` or `Expire` (it is waited for) are `agent_input`; `See`, `Submit`,
`ReplyRead`, `ReplyWrite` are a person and `agent_reply`; `ReadNote` and `WriteNote` are `agent_progress` and the executor's
forwarding of polled messages. `EndStep` is what the executor does with a question that is still pending.
`HangUp` and `PostTimesOut` are the timeouts of the client, whose handlers do not notice;
a poller whose event has been popped by another is an `orphan`.

`stream` is the stream that executes the step, with the copy of the document it works on. After a restart `ListRun` reads that copy
(`list_incomplete`), handlers may come in between, and `NodeStarts` stores all of it (`_wrap_with_status_running`), as a retry does with the
document it has read. When the step ends the stream stores its copy again (`stream_graph_to_pause`) or reads the document first
(`_stream_graph`): `StoredAtEnd`. `overwrote` records that such a write has changed something. `open`, `got` and `overwrote` are history variables.

### Definitions

`stored` is the version in the backend, `registry` and `cron` what the process has made of it, `editor` the
handlers that edit (`EditCheck`, the write, `Refresh`, `Install`). A run started by a request, webhook or cron job has
its own runner and a snapshot (`StartOwn`); one started by chat, a `workflow` step or CopilotKit shares the registry's runner (`StartShared`).
`task` are the background tasks, each a stream of a run by a runner until it pauses or ends, and then about to take the run's runner out (`Leave`). `live` is
`live_runners`, `bound` is `_current_run` of each shared runner, `todo` is the list of `_recover_incomplete_runs`. `handler` are the run routes that
write the document or take the runner while a stream may be going on: terminate stores and then pops, delete pops and then
removes, restart-from-step pops, stores, and puts a runner back with a new stream, or fails in between and leaves the run "running"; retry does the last two at once.
`DecideRoute` and `DecideCallback` differ in the runner they look for, as the code's two lookups do.

Recovery and the two routes that rebuild a runner take the snapshot's, and the registry's when there is no snapshot or building it raises (`RecoveryRunners`;
`Fragile` are the versions of which that may happen). Recovery stores "failed" when there is no runner, when the checkpoint cannot be seeded and when the graph
raises (`RecoverFails`); a waiting run without a checkpoint is executed again up to its interrupt.
`used`, `strayed` and `cut` are history variables; `cut` says that a run has lost its runner while it went on. `Sound` is a run with a snapshot
that can be built, not cut off. What a stream does between two pauses is in `RunLifecycle` and `StepGraph`.

## 3. Runs

| Run | Question | Instance |
|---|---|---|
| `RunLifecycle_decisions` | do two deciders at a time keep one stream, do decisions reach their pause, and does guarded work follow the gate's? | 2 slots, gate 1, guarded 2, ask_context 3, guarded 4; UI, links, Slack buttons |
| `RunLifecycle_operator` | can any sequence of calls, one at a time, with restarts of the process, bypass a pause or redo work? | ask_context 1, gate 2, guarded 3, gate 4, guarded 5; replies, retry, restart, delete; Slack on; 2 restarts |
| `RunLifecycle_recovery` | does a run survive two restarts at any await, and refine the contract? | 2 slots, ask_context 2 and 4, fairness |
| `RunLifecycle_races` | what survives when nothing is synchronised at all? | 2 slots, gate, guarded step, restart, requests during recovery; terminate, output, note |
| `StepGraph_loop` | are nested loops bounded, left by their test and safe across failure, restart and retry? | plan, agent with `when`, tool repeated until it passes, review looping back to the agent, switch, deliver; `MaxLoops` 2, 2 restarts, 1 retry |
| `AgentStep_poll` | is the agent's work found, its own, not doubled, and ended, and the pod removed? | 2 visits, with and without warm pods, both stream functions, 2 faults, 1 restart, 1 retry, fairness |
| `AgentDialogue_answer` | does a question get its answer, whatever is lost, late or restarted? | 1 question, 2 polls and 2 people at a time, 2 waits, Slack, 1 lost call, 2 restarts, 1 retry, fairness |
| `Definitions_edits` | does a run keep its definition and its runner, and do registry and schedule follow the edits? | 3 versions (1 has a cron job, 2 cannot be built, 3 perhaps not a second time), one run started either way, 2 background tasks, 1 request to the run routes, 2 restarts, fairness |

Four more runs each show a disagreement between the code and its own documentation
(section 6); they are expected to find a violation. Beside the listed runs, further configurations show what the code does outside the scope of a
property; they are listed in section 6. Two of them pass: `RunLifecycle_guarded.cfg` checks `WorkFollowsDecision` with two gates and Slack for an operator who
only starts and decides, and `Definitions_requests.cfg` (5.8 million states, some minutes) checks `KeepsItsDefinition` and `WaitingRunHasRunner` with two operators and two requests.

Bounds, and why they suffice. Two slots: every race in this code is between two holders
of a copy of the document; a third can only repeat one of them. Four or five steps put a
pause before, between and after guarded work, so that restarting, retrying or losing a
decision can pick the wrong one of two. Two restarts: one in the work, one in the
recovery or the repeated work. `MaxLoops` 2 is the smallest limit at which "one
less" and "one more" differ. The loop of `StepGraph_loop` has a loop of one step inside, so that counts brought back by a restart may be older ones
(a bound of one more execution per restart fails in it). Two visits to the agent step are needed for one to find
what the other left. Two faults (lost poll, failed helm call, start or deployment, pod
restart, expiry of a parked pod, withdrawal) are combined with one restart and one retry. Two polls at a time are the client's own and one it has given
up; two people are one who answers in time and one who answers late; two waits are one
that is repeated and one that is the last. Three versions let an edit follow a failed build, which follows a good one; two background tasks are
an old stream and a new one of the same run, or one about to leave.

Larger instances are not mere repetitions everywhere. An inner loop of two steps (`StepGraph_left_running.cfg`) breaks `CompletedIsWhole`, a second gate next to the first
breaks `OneStream` (`RunLifecycle_trailing_write.cfg`), and two runs on the registry's runner break `OwnDocumentWritten` (`Definitions_shared_runner.cfg`): section 6.

Scopes that matter:

- `Booted = TRUE` in all runs but `RunLifecycle_races`: no request arrives before recovery is done. Without
  it `OneStream` fails at once: a run started before `list_incomplete` is read is found running and streamed a second time.
- `RunLifecycle_operator` has one request in progress at a time, because retry, restart and thread replies are not
  claimed: two of them at once stream the run twice. `NoPauseBypassed` asks that somebody decided or replied at every pause before the work; that the answer was a decision about the gate
  (`GatesAreDecided`) and that guarded work follows it (`WorkFollowsDecision`) fail with thread replies, restart-from-step and restarts: section 6.
- `RunLifecycle_recovery` uses ask_context pauses and no callback decisions, because of a trailing write:
  `stream_graph_to_pause` stores the document again (flag reset, `yaml_graph.py:531`) after `waiting_approval` is visible, over
  a claim that came in between. `RunLifecycle_decisions` has one gate and no Slack notice for the same reason.
- `LoopsBounded` allows `max_loops` + 1 executions for every life of a run (a restart or a retry begins one). The code keeps no better bound: `StepGraph_recount.cfg`.
- `ResultIsOwnWork` speaks of a visit whose agent has made its own final output, in a run without fault, withdrawal, restart and retry. All visits share one task key
  (`agent_executor.py:570`): an agent that finishes without a final gets the output of an earlier visit (`AgentStep_stale_result.cfg`).
- `EndedRunHoldsNoPod` speaks of runs that `stream_graph_to_pause` has ended, unless helm failed or a restart cut the cleanup off, after which nothing takes it up again.
- `WorkNotDoubled` excepts an execution that was told of no release, or of a failed one, and one that takes a parked pod: each posts the task to an agent that may be working on it.
- `AgentDialogue_answer` has one question (a second one gets the answer to the first,
  `AgentDialogue_next_question`), and `Interference = FALSE`: a note or the stamp of a Slack message may come
  at any time except between another handler's read and its write. With `TRUE`,
  `OpenQuestionIsShown` and `StepFailsOnlyUnanswered` fail, as a stale copy brings an answered question back or drops one.
  A call that was given up excuses `AnswerIsToThisQuestion`: its handler may take the answer and have nobody to give it to. A stream whose older copy has changed the
  document (`overwrote`) excuses the three properties about open and answered questions: recovery does that (`AgentDialogue_hidden_question.cfg`, `AgentDialogue_question_back.cfg`).
- `Definitions_edits` has one edit at a time (`Overlap`: two edits may install in the wrong order, and then `RegistryIsCurrent` fails) and no
  decision on a run that recovery has not come to (`Early`: links and buttons then take the registry's runner for a run with a snapshot, the UI answers 404 and keeps the
  claim). A run that has been cut off, because terminate, delete, restart-from-step or the end of an old stream popped its runner while it went on, is not `Sound`: the code gives it no runner back.
- `StepGraph_loop` has no fan-out; `StepGraph_lost_branch` shows why `CompletedIsWhole` would fail with one.
- Deadlock is not checked: a run that has ended, and a run that waits for a person, really stop.

Mutants: every property of a passing run is accompanied by a definition with a plausible bug
(a claim without its filter, a status written late, a limit compared too early, a pod
not noticed) under which TLC finds the property violated. They are the definitions whose comments say "mutant"; no
specification uses them.

## 4. Fairness

- `RunLifecycle`: weak fairness of each slot's stream and handler steps and of recovery: the event loop runs every
  ready task, and `startup` always creates the recovery task. Requests, decisions and restarts are not owed.
- `StepGraph`: weak fairness of the stream and of recovery; a body returns or raises.
- `AgentStep`: weak fairness of the coroutine, the cleanup and recovery for the same reason, of `PodReady` (Kubernetes
  brings up a release it has accepted) and of the agent (one that works finishes or fails some
  time; without it a step would poll forever, as the poll loop has no limit for status "working").
- `AgentDialogue`: weak fairness of each handler's next await and of the expiry of a poll (`_LONG_POLL_TIMEOUT`). Strong fairness of a reply's
  read and of the next poll, which `Quiet` may disable and enable again and again in the model only: in the code
  they are never disabled, the event loop serves each. What agents, people and the network do is not owed.
- `Definitions`: weak fairness of startup, of recovery of each listed run, of each stream coming to a pause or an end, and of a handler that has begun. Edits,
  triggers, requests and decisions are not owed.

## 5. Proofs

Every safety invariant and action property of the passing runs is also a theorem; a run shows it on one
instance, the theorem for every value of the constants that its scope admits. A scope is an assumption on the
constants, and names what a client or an operator must keep to; where a theorem has none, the module's
assumption on its constants is all it uses. TLC agrees with each inductive invariant on small instances.

| Module | Scope | Theorems | Inductive invariant |
|---|---|---|---|
| `RunLifecycle_proofs` | none | `TypeCorrect`, `NoForgedApproval`, `ApprovalRequired` | `TypeInv`, `ApprovalInv` |
| | `AnswerScope` | `PausesAreAnswered` | `AnsweredInv` |
| `RunDecisions_proofs` | `DecisionScope` | `ClaimExcludes`, `DecisionsArrive`, `WaitingRunIsInterrupted` | `ClaimInv` |
| `RunContract_proofs` | `WorkerScope` | `RunningIsWorkedOn`, `DecisionsRefineContract` | `WorkerInv` |
| `RunOutcome_proofs` | `OutcomeScope` | `RejectedStaysRejected`, `ApprovedWorkIsDone`, `GuardedWorkFollowsApproval` | `OutcomeInv` |
| | `OneAtATime` | `FinishedWorkIsKept` | `RedoInv` |
| `StepGraph_proofs` | none | `GraphTypeCorrect` | `TypeOK` |
| | `Unbranched` | `FailureStops` | `PathInv`, `SentinelInv` |
| | `Unbranched`, `CapturersAreFollowed`, `MaxCrash = 0` | `CompletedRunsAreWhole` | `StatusInv` |
| | `Unbranched` | `LoopsAreBounded` | `CountInv` |
| | `Unbranched`, `ClosedLoops`, `Undisturbed` | `VerdictsAreCurrent` | `VerdictInv` |
| `AgentStep_proofs` | none | `StepTypeCorrect`, `StoredFinalIsUsed`, `EndedRunIsCleanedUp`, `WorkIsTakenUp`, `ResultIsOfThisVisit` | `TypeInv`, `LastPollTaken`, `CleanedUp`, `WorkInv`, `OwnInv` |
| `AgentDialogue_proofs` | none | `TypeCorrect` | `TypeInv` |
| | `Asks = 1` | `OneQuestionAnswered` | `AnswerInv` |
| | `Asks = 1`, `~Interference` | `OneQuestionShown`, `OneQuestionFailsOnlyUnanswered`, `OneQuestionHeard` | `OpenInv`, `WaitInv` |
| `Definitions_proofs` | none | `TypeCorrect` | `TypeInv` |
| | `~Early` | `DefinitionKept`, `WaitingRunsHaveRunners` | `KeptInv` |
| | `~Overlap` | `EditsTakeEffect`, `EditsReschedule` | `EditInv` |

### RunLifecycle

For every `N`, `Gates`, `Asks`, `Guarded`, `Task`, `Ops` and number of restarts:

- `TypeOK` alone is not inductive (the node a stream executes is `pos + 1`, which is a step only while the stream is before the end of
  the graph); `TypeInv` adds that.
- `ApprovalRequired`: until somebody approves, there is no `approved = yes` in the checkpoint,
  in the document, in any handler's copy of it, in recovery's copy, or in a resume
  value, and no guarded body is under way (`ApprovalInv`). Every write of `approved` comes from a resume value, a stored output or a
  checkpoint, and only `Claim` with an approving operation creates one. This holds in spite of every
  race: no write of a stale copy, no recovery and no restart can make an approval out of nothing.

- `PausesAreAnswered`: no step behind a pause is executed before somebody decided or replied there. `AnswerScope` leaves out the deprecated agent output, which
  resumes without being an answer of a person, and nothing else: any racing handlers, replies, retries, restart-from-step and restarts of the process. `AnsweredInv` says so of every position a step can be
  executed from: the checkpoint's, each handler's, and the last done step of each copy of the document that a retry, a restart or recovery may seed the thread from.

What a decision does needs a scope, because whole-document writes can undo a claim.
`DecisionScope`: requests wait for recovery (`Booted`); clients decide, terminate and delete, in any number and at any time; and no
write follows the `waiting_approval` write (`Untrailed`: no Slack message id, no flag reset). The last is the
trailing write of section 6: a claim that comes between the two writes is overwritten, and `OneStream` fails. Retry, restart-from-step and thread
replies are outside, since they do not claim.

- `ClaimInv` says for each slot separately what its state has to do with the stored status and the thread's position
  (`Fits`): an active handler holds a copy that says running while the document does not say waiting; a decision under way was
  made for the step after the thread's position. A step of the one active handler then has to show only that its new state fits; `OthersAside` says that all
  others are idle or about to terminate.
- `RunningIsWorkedOn` and the refinement need `WorkerScope`: no terminate and delete, which leave the stream unaware (`RunLifecycle_endings`). `WorkerInv` adds
  that the worker's copy agrees with the document on the status and that a run that works or waits has its live runner, so no claim is made without one. The
  refinement has one step per action: each is a step of `RunContract` under `shown`, or a stutter.
- `OutcomeScope` is `DecisionScope` without a restart. After one, recovery takes a pause that the handler has marked finished for passed,
  and the decision is dropped (`RunLifecycle_lost_rejection.cfg`). `OutcomeInv` relates the thread's flag to the decision at the last gate it has passed (`ThreadSays`),
  the decisions to the thread's position (`SaidBehind`), and the executed steps to both (`WorkDone`).
- `OneAtATime`: either there is one slot, so that requests come one after the other, and then every operation,
  retry, restart-from-step, replies, outputs and any number of restarts are admitted; or the scope is `DecisionScope` without terminate. Both
  give `Sole`, at most one handler under way. `RedoInv` says that its copy knows of every step finished in the document, and of none the thread
  has yet to pass. Terminate is left out of the second case: it writes a copy it has read before, in which a step that has finished meanwhile is still running.

### StepGraph

For every graph of `N` steps, with any kinds, routes and conditions:

- `GraphTypeCorrect` also for fan-outs and joins, restarts and retries.
- `Unbranched` (no parallel step) is needed by the others: with branches a superstep has several writers, a restart forgets
  a branch (`StepGraph_lost_branch`) and branches overwrite each other's counts (section 6). `PathInv`: at most one step is pending, and only it is at work.
- `FailureStops`, for any restarts and retries: `SentinelInv` says that a failure which stands is named by the channel's sentinel, or by the
  output of the failed step until its superstep applies it, and that the saved sentinel names no other.
- `CompletedRunsAreWhole`, for any retries: `StatusInv` follows the one running step through its phases and ties a failed status to the sentinel. It
  supposes that a step which captures its failure is not the last one, as a failure captured there leaves the run completed
  (section 6), and no restart: in a loop, the last done step in definition order need not be the one before the step
  that was running, and recovery may then leave that step behind.
- `LoopsAreBounded`, for any restarts and retries: `CountInv` ties the ghost count of executions to `_visit_counts`; what a restart or a retry takes back is
  at most `MaxLoops + 1` executions (`Spent`), as no stored count is negative and none exceeds the limit by more than one.
- `VerdictsAreCurrent`: `VerdictInv` says that a verdict older than an execution it judges belongs to a run that has failed, or whose
  stream is still before the review. `ClosedLoops` asks that the review be a step that always sets the field, and that no earlier step jumps over it.
  TLC checks restarts and retries.
- The last step done is found as a well-founded minimum (`WFMin`), not by induction.

### AgentStep

For every number of visits, loops, faults, restarts and retries, with and without warm pods:

- `StepTypeCorrect`: `TypeInv` adds what keeps `made` a set of visits: an agent that is not idle
  has a task, a coroutine belongs to a run that executes the step, and such a run or a cleanup comes after a first visit.
- `StoredFinalIsUsed`: the step is judged some awaits after the poll that ends
  its loop; `LastPollTaken` carries the claim from that poll on. It is inductive because only the step's own coroutine
  stores outputs, and it stores none between that poll and the judgement.
- `EndedRunIsCleanedUp`: `CleanedUp` follows the cleanup through its phases: a run streamed by `stream_graph_to_pause` ends
  only by entering it, and deploys nothing afterwards. A cleanup that a restart has cut off, or helm has failed, is the
  exception the property makes: nothing takes it up again.
- `WorkIsTakenUp`: `WorkInv` says which agents a coroutine that is about to post can meet, and what it has been told of the release.
- `ResultIsOfThisVisit`: `OwnInv` says, while nothing has failed (`Calm`), whose output can be at each place it passes: the agent, the
  poll, the document under the shared task key, the judgement.

### AgentDialogue

For any number of polls, people, waits, lost calls, restarts and retries:

- `TypeCorrect`, for any number of questions. `TypeInv` adds that one poll at a time has the client on its connection, and that a
  client that may wait again has not used up its waits.
- `Asks = 1` in the others is the finding `AgentDialogue_next_question`. `OneQuestionAnswered`, notes included: `AnswerInv` says that an answer in anybody's hands is not the
  empty one, and that, while no call has been given up, every poll is the client's own, so nobody else clears the tables under it.
- `OneQuestionShown` and `OneQuestionFailsOnlyUnanswered`: `OpenInv`
  says of every copy a handler holds why writing it cannot bring the question back or drop it. The stream's copy is not among them: once it has changed
  the document the invariants claim nothing more (`Unharmed`), which is the exception the properties make.
- `OneQuestionHeard`: `WaitInv` says that, while no call has been given up, the client in its call finds its question open or the answer in the
  document, and that a poll waits only as long as nobody is replying.

### Definitions

For all sets of runs, versions, editors and operators, and any number of requests, background tasks and restarts:

- `TypeCorrect`: `TypeInv` adds that a runner is either none or built from a version.
- `DefinitionKept` and `WaitingRunsHaveRunners`, concurrent edits included, when decisions wait for recovery (`~Early`): neither property is inductive, since a waiting run without
  a runner would be given the registry's by a link. `KeptInv` says of a run that has not begun that nothing belongs to it (`Unused`); of a sound run
  that every task and handler working on it holds a runner of its snapshot and that no shared runner is bound to it (`OwnedBy`), and that `live_runners` has its runner when it is streamed or waits, or recovery or
  restart-from-step is about to put it there (`HasRunner`). A pop under a stream makes the run unsound, so a sound run's old streams leave it its runner.
- `EditsTakeEffect` and `EditsReschedule`: `EditInv` follows an edit through its write, its refresh and
  its installation.

### Only model-checked

- Liveness (`RunSettles`, `RunEnds`, `StepEnds`, `AskEnds`, `SnapshotRunsSettle`): needs ENABLED and fairness, beyond tlapm 1.4.5.
- The theorems' properties beyond their scopes, on the instances of section 3: `WaitingMatchesCheckpoint` with replies, retry, restart-from-step
  and Slack (`RunLifecycle_operator`); `CompletedIsWhole` of `StepGraph` with restarts and `VerdictIsCurrent` with restarts and retries, on the graph of `StepGraph_loop` (the first fails on another: `StepGraph_left_running.cfg`).

## 6. Where code and documentation disagree

| Run | The code |
|---|---|
| `RunLifecycle_endings` | does not tell the stream of a terminated or deleted run, which stores its copy again |
| `StepGraph_ghost` | clears the sentinel with `None`, which the reducer drops: a healthy retry is aborted |
| `StepGraph_lost_branch` | recovers a parallel section behind one branch and forgets the other |
| `AgentDialogue_next_question` | keeps an answer that the event has delivered as `_pending_answer`, so the next question gets it too |

The following configurations, beside the listed runs, are violated too. Each shows a behaviour of the code that a property of section 3 leaves out of its scope, against what the code, its tests or its documents say.

| Configuration, property | What the code does | What it says |
|---|---|---|
| `RunLifecycle_old_thread`, `GatesAreDecided` | a reply in the thread of an earlier question resumes a later approval gate (`mongo.py:48-53` looks at the status and the thread only), which reads no decision and goes on as rejected | "Pauses the run (`status: waiting_approval`). Resume via `POST /api/v1/workflows/runs/{id}/approve` or `/reject`." (README.md:171); "Thread replies under an ask_context message resume the paused run." (`callbacks.py:355`) |
| `RunLifecycle_lost_rejection`, `WorkFollowsDecision` | a crash after the claim marked the second gate finished and before its resume: recovery continues behind the gate with the approval of the first | "Each step can be skipped with `when: <state-key>`" (README.md:118); the `approved` key is "written to state automatically" (README.md:171) |
| `RunLifecycle_restarted_step`, `WorkFollowsDecision` | restart-from-step takes `approved` from the first gate (`workflows.py:991`), so work behind a rejected second gate runs | the same |
| `RunLifecycle_trailing_write`, `OneStream` | `stream_graph_to_pause` stores the document once more after `waiting_approval` is visible (`yaml_graph.py:531`), over a claim; the run is back at `waiting_approval` while it is executed, and can be claimed again | `claim_for_resume` is there because "two near-simultaneous clicks would both read status= waiting_approval and both schedule their own resume task" (`mongo.py:35-37`) |
| `StepGraph_recount`, `MaxLoopsEnforced` | recovery seeds `_visit_counts` from the outputs of the done steps in definition order; in nested loops the last of them may carry an older count, and the loop gets iterations back | "Wrap a node function to track visit counts and enforce max_loops." (`yaml_graph.py:959`) |
| `StepGraph_left_running`, `CompletedIsWhole` | an inner loop of two steps fails in its second round, is retried, and the process is restarted: the last done step in definition order is one of the round before, recovery continues behind it, and a step stays "running" in a run stored as completed | "find runs still marked running/waiting_approval and restore them" (`container.py:265`) |
| `AgentStep_stale_result`, `VisitsKeptApart` | an agent that finishes without a final output returns that of an earlier visit, stored under the shared task key (`agent_executor.py:944-956`) | "Two executions of the same step_id with different _visit_counts must save distinct task docs ... proving loop re-entry spawns a fresh agent task rather than resuming." (`tests/unit/test_agent_task_key.py:59-61`; agent steps get no `_visit_counts`, `yaml_graph.py:897-899`) |
| `AgentStep_left_pod`, `FailedRunHoldsNoPod` | a run that `_stream_graph` streams and stores as failed is not cleaned up | "broad run-level cleanup — e.g. the run was cancelled/failed and every agent pod for it must be torn down" (`k8s.py:374-376`) |
| `AgentStep_doubled_task`, `WorkNeverDoubled` | after a restart a parked pod that has been taken into use again is given the task a second time | "LangGraph reruns the node from scratch on resume. ... If so, skip spawn+start" (`agent_executor.py:662-664`) |
| `AgentDialogue_hidden_question`, `QuestionIsShown` | recovery stores the copy it listed over a question asked since | see `AgentDialogue_next_question` |
| `AgentDialogue_question_back`, `AnsweredStepGoesOn` | the same copy brings an answered question back, and the step fails for it | the same |
| `Definitions_swapped`, `DefinitionNeverSwapped` | terminate pops the runner while the old stream goes on to a pause; the link then takes the registry's runner, of a newer version | "Existing live runners (in-flight runs) are NOT replaced — they keep the definition snapshot they started with." (`container.py:236-237`) |
| `Definitions_shared_runner`, `OwnDocumentWritten` | two runs on the registry's runner share `_current_run`: steps of one are stored in the other's document | helpers are to "write through to the *current* run" (`workflows.py:265-268`) |

Seen while reading and not the subject of a configuration:

- A retry after a failed parallel branch continues behind a finished sibling: the failed branch is not executed again, and siblings listed after it are shown as pending though they are done.
- `_slack_ask_context_ts` is set once per run, so a second question is not posted to Slack; a thread reply is looked up only among waiting runs, so it never answers a running agent.
- The client's limit on an answer counts its sleeps, not the time of its polls; a poll given up leaves a handler that may take the answer.
- A retry keeps `_pending_question` (`workflows.py:903-910`), so every attempt fails until somebody replies.
- The chat tool that deletes a workflow leaves its cron job, which then finds no definition; an edit that cannot be built leaves the old runner in the registry, its jobs gone.
- CopilotKit's `startGraphRun` does not bind the runner to the run, and its approval resumes a thread without a claim.
- The definition of a waiting run without a snapshot can be deleted; a decision then claims it, answers 404, and the run stays running without a worker.
- `_meta_llm_recovery` takes "incomplete" for complete (`services/agent_poller.py:40`), so an idle agent ends the step with whatever is stored; `AbsorbComplete` models this.
- `interrupt()` in an agent step raises, and `_agent_node` catches every exception (`yaml_graph.py:1246`): clarifications fail the step and `waiting_agent` is never stored.
- In the local runtime the pending-question and verdict locals of `execute_agent_step` are read without being assigned.
- A join with the policy "or" leaves the sentinel, which stops the step behind it (`yaml_graph.py:1837-1841`).
- A failure captured by the last step leaves the run completed.
- "fresh loop counter" (`workflows.py:904`) does not hold: the stored outputs that are accumulated carry `_visit_counts`.
- A parked pod's record keeps the expiry of its parking while the pod is used again, and the sweep takes it.
- `delete_run` and `terminate_run` call the cleanup without the warm pod repository and leave its records.
- The agent server in `client/` does not serve the `/poll` that the executor uses.

## 7. Not modelled

The text of prompts, templates, messages and payloads, HTML, tracing, authentication and settings: no property is about
them. LangGraph, MongoDB (single operations are atomic), APScheduler, Kubernetes and the agent's server are external.

- Database failures: every read and write of MongoDB succeeds, `list_incomplete` (`container.py:266-270`), `save_task` and `append_outputs` included. `Definitions` has the failing
  read of the definitions (`LoadFails`), because the service goes on without them.
- Two executions of one agent step at a time (terminate, then retry, while the old stream still works); a retry that overtakes a delete; overlapping cleanups, of which `AgentStep` knows one at a time. `Withdraw` counts as a fault,
  so a run is withdrawn at most `MaxFault` times.
- In `AgentDialogue`, the stream's writes for parallel siblings and for steps after the agent's (a recovered stream stores its copy with every chunk); a retry's read and first write are one step.
- In `Definitions`: what the re-execution of a waiting run writes through a shared runner; a rejected run is not told from a completed one; the first stream of a shared run pops its runner at the end as
  the others do, although the code that starts it never put one in; a runner of a run's own always stores "running", the status its stream began with.
- PVC leases: a lease is a deadline in a document, and the sweep deletes what has passed it. Nothing in the code relates a lease to the runs that
  use the claim, so there is no protocol to check; the hazard is listed.
- `waiting_agent` and its watcher: no run is ever stored with that status (see section 6).
- The local runtime: every step in it is captured as a failure. The Docker runtime follows the protocol of the Kubernetes one without warm pods.
- OpenHands: an HTTP client, whose polling is one node execution of `StepGraph`.
- Agent definitions: single-document CRUD that a step reads once.
- Chat: one LLM conversation per request; the tools that start runs and edit definitions are in `Definitions`.

The other parts, each with its reason, are under `components` in `PROJECT.json`.

## 8. Plan

Done: `RunLifecycle` with its contract, `StepGraph`, `AgentStep`, `AgentDialogue` and `Definitions`, each with a proof of
every safety property its passing runs check.

1. Proofs with wider scopes. `RunOutcome_proofs`: retry, one request at a time, as in `RunLifecycle_operator`.
   `StepGraph_proofs`: `CompletedIsWhole` with restarts on graphs without loops; `VerdictIsCurrent` with restarts, for which the stored output of the
   last done step must be shown to agree with the channel.
2. `StepGraph`: fan-outs with loops inside and the loop-back test of `stream_graph_to_pause`; what still holds of a
   fan-out after a restart or a retry.
3. `AgentStep`: two executions of the step at a time.
