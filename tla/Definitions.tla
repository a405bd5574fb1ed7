----------------------------- MODULE Definitions -----------------------------
(***************************************************************************)
(* The definition of a workflow, and what is made from it.  The stored     *)
(* definition (WorkflowDefinitionBackend) is the reference; beside it the  *)
(* process keeps a runner in yaml_graph_registry and the jobs of its cron  *)
(* steps, which refresh_runner renews after an edit and startup loads.     *)
(*                                                                         *)
(* A run started by a request, a webhook or a cron job has a runner of its *)
(* own, built from the stored definition, and carries a snapshot of it.  A *)
(* run started by the chat agent, by a `workflow` step or by CopilotKit is *)
(* executed by the registry's runner, which all such runs share, and has   *)
(* no snapshot.  A runner knows one run at a time, _current_run, to whose  *)
(* document its nodes write.                                               *)
(*                                                                         *)
(* Every stream of a run is a background task.  The handlers of the run    *)
(* routes (terminate, delete, restart-from-step, retry) do not stop it:    *)
(* they write the document and take the runner from live_runners, and a    *)
(* task does so, too, when its stream has ended.                           *)
(*                                                                         *)
(* One workflow is modelled; edits number its versions 1, 2, ...           *)
(*                                                                         *)
(* A definition whose comment says "mutant" is a deliberately wrong        *)
(* variant of the one after it; no specification uses it.                  *)
(***************************************************************************)
EXTENDS Integers

CONSTANTS
  Runs,       \* runs
  NoRun,      \* no run
  Editors,    \* slots for handlers that edit the definition
  EditOps,    \* the edits that are made
  Operators,  \* slots for handlers of the run routes
  MaxVersion, \* bound: versions stored
  Broken,     \* versions YamlGraphRunner cannot be built from
  Fragile,    \* versions it may fail to be built from once more, later
  Scheduled,  \* versions with a cron step
  Overlap,    \* edits may overlap
  Early,      \* decisions may arrive before recovery has come to their run
  MaxTasks,   \* bound: background tasks at a time
  MaxOps,     \* bound: requests to the run routes
  MaxCrash    \* bound: restarts

Version == 1..MaxVersion
Tasks == 1..MaxTasks

ASSUME DefinitionsAssumption ==
  /\ NoRun \notin Runs
  /\ EditOps \subseteq {"create", "update", "delete", "chat_delete"}
  /\ MaxVersion \in Nat
  /\ Broken \subseteq Version /\ Fragile \subseteq Version
  /\ Scheduled \subseteq Version
  /\ Overlap \in BOOLEAN /\ Early \in BOOLEAN
  /\ MaxTasks \in Nat /\ MaxOps \in Nat /\ MaxCrash \in Nat

VARIABLES
  stored,   \* version the backend has, 0: none
  last,     \* the latest version there was
  registry, \* version the registry's runner is built from, 0: no runner
  cron,     \* version whose cron job is scheduled, 0: no job
  editor,   \* the handlers that edit
  boot,     \* "load": starting, "up", "bare": up without having read the backend
  todo,     \* status of the runs recovery has listed and not come to yet
  run,      \* run documents; the tasks' copies carry the same snapshot
  live,     \* live_runners
  task,     \* background tasks: one streams a run, or is about to leave
  handler,  \* the handlers of the run routes
  bound,    \* _current_run of the registry's runner of each version, with its status
  crashes,
  ops,      \* requests to the run routes
  (* History variables: read by no action of the code. *)
  used,     \* versions that have executed steps of the run
  strayed,  \* a node has stored its status in the document of another run
  cut       \* the run has been left without its runner while it went on

vars == <<stored, last, registry, cron, editor, boot, todo, run, live, task, handler,
          bound, crashes, ops, used, strayed, cut>>
definition == <<stored, last, registry, cron, editor>>
process == <<boot, todo, crashes>>
requests == <<handler, ops>>
execution == <<run, live, task, used, strayed, cut>>

Stored == 0..MaxVersion
Runner == [v : Stored, shared : BOOLEAN]
None == [v |-> 0, shared |-> FALSE]
Own(v) == [v |-> v, shared |-> FALSE]

(* The registry's runner, None when it has none.                             *)
Registered == IF registry = 0 THEN None ELSE [v |-> registry, shared |-> TRUE]

(* A deleted document's snapshot lives on in the copies of the tasks.        *)
RunStatus == {"none", "running", "waiting", "completed", "failed", "deleted"}
Run == [st : RunStatus, snap : Stored]
RunOrNone == Runs \cup {NoRun}
Binding == [to : RunOrNone, st : RunStatus]
Unbound == [to |-> NoRun, st |-> "none"]

Task == [at : {"off", "stream", "leave"}, run : RunOrNone, runner : Runner]
Idle == [at |-> "off", run |-> NoRun, runner |-> None]

RunOp == {"terminate", "delete", "restart", "retry"}
Handler == [at : {"off", "read", "popped", "stored"}, op : RunOp,
            run : RunOrNone, runner : Runner]
Gone == [at |-> "off", op |-> "retry", run |-> NoRun, runner |-> None]

EditOp == {"create", "update", "delete", "chat_delete"}
Editor == [st : {"off", "write", "refresh", "install"}, op : EditOp, v : Stored]
Away == [st |-> "off", op |-> "create", v |-> 0]

Buildable(v) == v # 0 /\ v \notin Broken
JobOf(v) == IF v \in Scheduled THEN v ELSE 0
Up == boot # "load"
NobodyEdits == \A e \in Editors : editor[e].st = "off"

Streamed(r) == \E t \in Tasks : task[t].at = "stream" /\ task[t].run = r

(* restart-from-step has taken the runner and not yet stored the run.        *)
Restarting(r) ==
  \E h \in Operators : handler[h].op = "restart" /\ handler[h].at = "popped"
                       /\ handler[h].run = r

Init ==
  /\ stored = 0 /\ last = 0
  /\ registry = 0 /\ cron = 0
  /\ editor = [e \in Editors |-> Away]
  /\ boot = "load"
  /\ todo = [r \in Runs |-> "none"]
  /\ run = [r \in Runs |-> [st |-> "none", snap |-> 0]]
  /\ live = [r \in Runs |-> None]
  /\ task = [t \in Tasks |-> Idle]
  /\ handler = [h \in Operators |-> Gone]
  /\ bound = [v \in Version |-> Unbound]
  /\ crashes = 0 /\ ops = 0
  /\ used = [r \in Runs |-> {}]
  /\ strayed = FALSE
  /\ cut = [r \in Runs |-> FALSE]

(***************************************************************************)
(* Edits: POST, PUT and DELETE of /workflows, and the chat agent's tools.  *)
(***************************************************************************)

(* The handler looks whether the workflow exists.  Only that one edit is     *)
(* under way at a time is assumed when Overlap is FALSE.                     *)
EditCheck(e, op) ==
  /\ Up /\ editor[e].st = "off"
  /\ Overlap \/ NobodyEdits
  /\ IF op = "create" THEN stored = 0 ELSE stored # 0
  /\ editor' = [editor EXCEPT ![e] = [st |-> "write", op |-> op, v |-> 0]]
  /\ UNCHANGED <<stored, last, registry, cron, process, requests, execution, bound>>

Writes(e, op) == editor[e].st = "write" /\ editor[e].op = op

(* create and update are upserts.                                            *)
EditStore(e) ==
  /\ Writes(e, "create") \/ Writes(e, "update")
  /\ last < MaxVersion
  /\ last' = last + 1 /\ stored' = last + 1
  /\ editor' = [editor EXCEPT ![e].st = "refresh"]
  /\ UNCHANGED <<registry, cron, process, requests, execution, bound>>

EditDelete(e) ==
  /\ Writes(e, "delete")
  /\ stored' = 0
  /\ editor' = [editor EXCEPT ![e].st = "refresh"]
  /\ UNCHANGED <<last, registry, cron, process, requests, execution, bound>>

(* The chat agent's tool pops the runner itself; the cron job stays, and     *)
(* finds no definition when it fires.                                        *)
EditChatDelete(e) ==
  /\ Writes(e, "chat_delete")
  /\ stored' = 0
  /\ registry' = 0
  /\ editor' = [editor EXCEPT ![e] = Away]
  /\ UNCHANGED <<last, cron, process, requests, execution, bound>>

(* mutant: the jobs of the version before stay.                              *)
RefreshKeepsJobs(e) ==
  /\ editor[e].st = "refresh"
  /\ editor' = [editor EXCEPT ![e].st = "install", ![e].v = stored]
  /\ UNCHANGED <<stored, last, registry, cron, process, requests, execution, bound>>

(* refresh_runner: the jobs go, the definition is read ...                   *)
Refresh(e) ==
  /\ editor[e].st = "refresh"
  /\ cron' = 0
  /\ editor' = [editor EXCEPT ![e].st = "install", ![e].v = stored]
  /\ UNCHANGED <<stored, last, registry, process, requests, execution, bound>>

(* mutant: a deleted workflow keeps its runner.                              *)
InstalledKeeps(v) == IF Buildable(v) THEN v ELSE registry

(* ... and a runner is built and installed, or popped; a build that raises   *)
(* leaves the runner of the version before.                                  *)
Installed(v) == IF v = 0 THEN 0 ELSE IF Buildable(v) THEN v ELSE registry

Install(e) ==
  LET v == editor[e].v
  IN /\ editor[e].st = "install"
     /\ registry' = Installed(v)
     /\ cron' = IF Buildable(v) /\ v \in Scheduled THEN v ELSE cron
     /\ bound' = IF Buildable(v) THEN [bound EXCEPT ![v] = Unbound] ELSE bound
     /\ editor' = [editor EXCEPT ![e] = Away]
     /\ UNCHANGED <<stored, last, process, requests, execution>>

(***************************************************************************)
(* Runs.                                                                   *)
(***************************************************************************)

(* A background task takes the first free slot.                              *)
Begin(r, runner) ==
  \E t \in Tasks :
    /\ task[t].at = "off" /\ \A u \in Tasks : task[u].at = "off" => t <= u
    /\ task' = [task EXCEPT ![t] = [at |-> "stream", run |-> r, runner |-> runner]]

(* Both streams begin by binding their runner to the run.                    *)
Bind(r, runner) ==
  bound' = IF runner.shared
           THEN [bound EXCEPT ![runner.v] = [to |-> r, st |-> "running"]]
           ELSE bound

Stream(r, runner) == Begin(r, runner) /\ Bind(r, runner)

(* The run in memory has the status its own stream has given it.             *)
Rebind(r, runner, st) ==
  bound' = IF runner.shared /\ bound[runner.v].to = r
           THEN [bound EXCEPT ![runner.v].st = st]
           ELSE bound

SetStatus(r, st) == run' = [run EXCEPT ![r].st = st]
SetLive(r, runner) == live' = [live EXCEPT ![r] = runner]

(* live_runners.pop.  The run is cut off if it loses its runner and goes on. *)
Pop(r, goesOn) ==
  /\ SetLive(r, None)
  /\ cut' = [cut EXCEPT ![r] = @ \/ (live[r] # None /\ goesOn)]

GoesOn(r) == Streamed(r) \/ run[r].st \in {"running", "waiting"}

(* The definition is read, a runner built from it and put into live_runners, *)
(* the document created with the snapshot, and the stream begun.             *)
StartFrom(r, runner, snap) ==
  /\ run[r].st = "none"
  /\ run' = [run EXCEPT ![r] = [st |-> "running", snap |-> snap]]
  /\ Begin(r, runner)

StartOwn(r) ==
  /\ Up /\ Buildable(stored)
  /\ StartFrom(r, Own(stored), stored)
  /\ SetLive(r, Own(stored))
  /\ UNCHANGED <<definition, process, requests, bound, used, strayed, cut>>

(* A cron job knows the workflow's id and reads its definition when it fires.*)
CronJob(r) == cron # 0 /\ StartOwn(r)

(* run_workflow of the chat agent and `workflow` steps bind the runner to    *)
(* the run; startGraphRun of CopilotKit does not.                            *)
StartShared(r) ==
  /\ Up /\ registry # 0
  /\ StartFrom(r, Registered, 0)
  /\ Bind(r, Registered) \/ UNCHANGED bound
  /\ UNCHANGED <<definition, process, requests, live, used, strayed, cut>>

(* A node begins: its wrapper stores the runner's current run, all of it.    *)
(* A run streamed by its own runner is "running" again, whatever a handler   *)
(* has stored, and a deleted document is there again.                        *)
Step(t) ==
  LET r == task[t].run
      x == task[t].runner
      b == IF x.shared THEN bound[x.v] ELSE [to |-> r, st |-> "running"]
  IN /\ task[t].at = "stream"
     /\ used' = [used EXCEPT ![r] = @ \cup {x.v}]
     /\ strayed' = (strayed \/ b.to \notin {r, NoRun})
     /\ IF b.to = NoRun THEN UNCHANGED run ELSE SetStatus(b.to, b.st)
     /\ UNCHANGED <<definition, process, requests, live, task, bound, cut>>

(* The stream reaches an interrupt; the runner stays in live_runners.        *)
Pause(t) ==
  LET r == task[t].run
  IN /\ task[t].at = "stream"
     /\ SetStatus(r, "waiting")
     /\ Rebind(r, task[t].runner, "waiting")
     /\ task' = [task EXCEPT ![t] = Idle]
     /\ UNCHANGED <<definition, process, requests, live, used, strayed, cut>>

(* The stream ends, and stores how (a rejected run is not told from a        *)
(* completed one) ...                                                        *)
End(t) ==
  LET r == task[t].run
  IN /\ task[t].at = "stream"
     /\ \E st \in {"completed", "failed"} :
          SetStatus(r, st) /\ Rebind(r, task[t].runner, st)
     /\ task' = [task EXCEPT ![t].at = "leave"]
     /\ UNCHANGED <<definition, process, requests, live, used, strayed, cut>>

(* ... and its task takes the runner out, whichever is there by now.         *)
Leave(t) ==
  LET r == task[t].run
  IN /\ task[t].at = "leave"
     /\ Pop(r, GoesOn(r))
     /\ task' = [task EXCEPT ![t] = Idle]
     /\ UNCHANGED <<definition, process, requests, run, bound, used, strayed>>

(* A decision claims the run; without a runner the claim stays, and the      *)
(* answer is 404.  A decision that comes between restart-from-step's pop and *)
(* its write finds no runner of the run's own.                               *)
Decide(r, runner) ==
  /\ Up /\ run[r].st = "waiting"
  /\ Early \/ todo[r] = "none"
  /\ SetStatus(r, "running")
  /\ IF runner = None THEN UNCHANGED <<task, bound>> ELSE Stream(r, runner)
  /\ cut' = [cut EXCEPT ![r] = @ \/ Restarting(r)]
  /\ UNCHANGED <<definition, process, requests, live, used, strayed>>

(* mutant: the registry is asked, whether there is a snapshot or not.        *)
RunnerOrRegistry(r) == IF Registered # None THEN Registered ELSE live[r]

(* The run routes do not give a run with a snapshot to the registry's runner *)
(* ...                                                                       *)
RunnerForRun(r) == IF live[r] # None THEN live[r]
                   ELSE IF run[r].snap = 0 THEN Registered ELSE None

(* ... links, buttons and thread replies do.                                 *)
RunnerForCallback(r) == IF live[r] # None THEN live[r] ELSE Registered

DecideRoute(r) == Decide(r, RunnerForRun(r))
DecideCallback(r) == Decide(r, RunnerForCallback(r))

(***************************************************************************)
(* Restart and recovery.                                                   *)
(***************************************************************************)

Crash ==
  /\ crashes < MaxCrash
  /\ crashes' = crashes + 1
  /\ boot' = "load"
  /\ registry' = 0 /\ cron' = 0
  /\ editor' = [e \in Editors |-> Away]
  /\ handler' = [h \in Operators |-> Gone]
  /\ todo' = [r \in Runs |-> "none"]
  /\ live' = [r \in Runs |-> None]
  /\ task' = [t \in Tasks |-> Idle]
  /\ bound' = [v \in Version |-> Unbound]
  /\ UNCHANGED <<stored, last, run, ops, used, strayed, cut>>

(* mutant: only the waiting runs are restored.                               *)
ListedWaiting(r) == IF run[r].st = "waiting" THEN "waiting" ELSE "none"

(* mutant: only the running runs are restored.                               *)
ListedRunning(r) == IF run[r].st = "running" THEN "running" ELSE "none"

(* mutant: the query does not ask for the status.                            *)
ListedAll(r) == run[r].st

Listed(r) == IF run[r].st \in {"running", "waiting"} THEN run[r].st ELSE "none"

(* _load_registry, and the query of _recover_incomplete_runs, which is sent  *)
(* before the first request is served.                                       *)
Load ==
  /\ boot = "load"
  /\ boot' = "up"
  /\ registry' = IF Buildable(stored) THEN stored ELSE 0
  /\ cron' = IF Buildable(stored) THEN JobOf(stored) ELSE 0
  /\ todo' = [r \in Runs |-> Listed(r)]
  /\ UNCHANGED <<stored, last, editor, crashes, requests, execution, bound>>

(* The backend cannot be read: the service starts with an empty registry.    *)
LoadFails ==
  /\ boot = "load"
  /\ boot' = "bare"
  /\ registry' = 0 /\ cron' = 0
  /\ todo' = [r \in Runs |-> Listed(r)]
  /\ UNCHANGED <<stored, last, editor, crashes, requests, execution, bound>>

(* _build_runner_for_recovery: from the snapshot; without one, or when that  *)
(* raises, the registry's.                                                   *)
RecoveryRunners(r) ==
  LET snap == run[r].snap
  IN (IF snap # 0 THEN {Own(snap)} ELSE {}) \cup
     (IF snap \in Fragile \cup {0} THEN {Registered} ELSE {})

(* No runner, or the checkpoint cannot be seeded, or the graph raises when   *)
(* a waiting run without a checkpoint is executed again up to its interrupt. *)
RecoverFails(r, runner) ==
  /\ SetStatus(r, "failed")
  /\ UNCHANGED <<live, task, bound>>

(* A waiting run gets its runner back ...                                    *)
RecoverWaiting(r, runner) ==
  /\ runner # None /\ todo[r] = "waiting"
  /\ SetLive(r, runner)
  /\ UNCHANGED <<run, task, bound>>

(* ... and a running one is streamed on.                                     *)
RecoverRunning(r, runner) ==
  /\ runner # None /\ todo[r] = "running"
  /\ SetLive(r, runner)
  /\ Stream(r, runner)
  /\ UNCHANGED run

(* _recover_run.  The re-execution of a waiting run executes its steps.      *)
Recover(r) ==
  \E runner \in RecoveryRunners(r) :
    /\ todo[r] # "none"
    /\ todo' = [todo EXCEPT ![r] = "none"]
    /\ \/ RecoverFails(r, runner)
       \/ RecoverWaiting(r, runner)
       \/ RecoverRunning(r, runner)
    /\ \/ UNCHANGED used
       \/ /\ runner # None /\ todo[r] = "waiting"
          /\ used' = [used EXCEPT ![r] = @ \cup {runner.v}]
    /\ UNCHANGED <<definition, boot, crashes, requests, strayed, cut>>

(***************************************************************************)
(* The handlers of the run routes.  Each reads the document, and acts on   *)
(* what it has read after the awaits in between.                           *)
(***************************************************************************)

Admits(op, st) ==
  CASE op = "terminate" -> st = "running"
    [] op = "delete"    -> st \notin {"none", "deleted"}
    [] op = "restart"   -> st \notin {"none", "deleted", "running"}
    [] op = "retry"     -> st = "failed"

(* retry and restart-from-step build the runner at once, and answer 409      *)
(* without one.                                                              *)
HandlerRunners(op, r) ==
  IF op \in {"retry", "restart"} THEN RecoveryRunners(r) \ {None} ELSE {None}

HandlerReads(h, op, r) ==
  /\ Up /\ ops < MaxOps
  /\ handler[h].at = "off" /\ Admits(op, run[r].st)
  /\ ops' = ops + 1
  /\ \E runner \in HandlerRunners(op, r) :
       handler' = [handler EXCEPT ![h] = [at |-> "read", op |-> op, run |-> r, runner |-> runner]]
  /\ UNCHANGED <<definition, process, execution, bound>>

HandlerGoes(h, to) == handler' = [handler EXCEPT ![h].at = to]
HandlerEnds(h) == handler' = [handler EXCEPT ![h] = Gone]
Handles(h, op, at) == handler[h].op = op /\ handler[h].at = at

TerminateStores(h) ==
  /\ Handles(h, "terminate", "read")
  /\ SetStatus(handler[h].run, "failed")
  /\ HandlerGoes(h, "stored")
  /\ UNCHANGED <<definition, process, ops, live, task, bound, used, strayed, cut>>

TerminatePops(h) ==
  /\ Handles(h, "terminate", "stored")
  /\ Pop(handler[h].run, GoesOn(handler[h].run))
  /\ HandlerEnds(h)
  /\ UNCHANGED <<definition, process, ops, run, task, bound, used, strayed>>

DeletePops(h) ==
  /\ Handles(h, "delete", "read")
  /\ Pop(handler[h].run, GoesOn(handler[h].run))
  /\ HandlerGoes(h, "popped")
  /\ UNCHANGED <<definition, process, ops, run, task, bound, used, strayed>>

DeleteStores(h) ==
  /\ Handles(h, "delete", "popped")
  /\ SetStatus(handler[h].run, "deleted")
  /\ HandlerEnds(h)
  /\ UNCHANGED <<definition, process, ops, live, task, bound, used, strayed, cut>>

(* restart-from-step gives the runner it takes out back ...                  *)
RestartPops(h) ==
  /\ Handles(h, "restart", "read")
  /\ Pop(handler[h].run, Streamed(handler[h].run))
  /\ HandlerGoes(h, "popped")
  /\ UNCHANGED <<definition, process, ops, run, task, bound, used, strayed>>

RestartStores(h) ==
  /\ Handles(h, "restart", "popped")
  /\ SetStatus(handler[h].run, "running")
  /\ HandlerGoes(h, "stored")
  /\ UNCHANGED <<definition, process, ops, live, task, bound, used, strayed, cut>>

RestartStreams(h) ==
  LET r == handler[h].run
  IN /\ Handles(h, "restart", "stored")
     /\ SetLive(r, handler[h].runner)
     /\ Stream(r, handler[h].runner)
     /\ HandlerEnds(h)
     /\ UNCHANGED <<definition, process, ops, run, used, strayed, cut>>

(* ... unless the checkpoint cannot be seeded: the document says "running",  *)
(* and nothing runs.                                                         *)
RestartFails(h) ==
  LET r == handler[h].run
  IN /\ Handles(h, "restart", "stored")
     /\ HandlerEnds(h)
     /\ cut' = [cut EXCEPT ![r] = TRUE]
     /\ UNCHANGED <<definition, process, ops, run, live, task, bound, used, strayed>>

Retry(h) ==
  LET r == handler[h].run
  IN /\ Handles(h, "retry", "read")
     /\ SetStatus(r, "running")
     /\ SetLive(r, handler[h].runner)
     /\ Stream(r, handler[h].runner)
     /\ HandlerEnds(h)
     /\ UNCHANGED <<definition, process, ops, used, strayed, cut>>

Edit == \E e \in Editors :
  \/ \E op \in EditOps : EditCheck(e, op)
  \/ EditStore(e) \/ EditDelete(e) \/ EditChatDelete(e) \/ Refresh(e) \/ Install(e)

Execute == \E r \in Runs :
  \/ StartOwn(r) \/ CronJob(r) \/ StartShared(r)
  \/ DecideRoute(r) \/ DecideCallback(r)

Proceed(t) == Step(t) \/ Pause(t) \/ End(t) \/ Leave(t)

Handle(h) ==
  \/ TerminateStores(h) \/ TerminatePops(h)
  \/ DeletePops(h) \/ DeleteStores(h)
  \/ RestartPops(h) \/ RestartStores(h) \/ RestartStreams(h) \/ RestartFails(h)
  \/ Retry(h)

Next ==
  \/ Edit
  \/ Execute
  \/ \E t \in Tasks : Proceed(t)
  \/ \E h \in Operators, op \in RunOp, r \in Runs : HandlerReads(h, op, r)
  \/ \E h \in Operators : Handle(h)
  \/ Crash \/ Load \/ LoadFails
  \/ \E r \in Runs : Recover(r)

Spec == Init /\ [][Next]_vars

(* The service comes up, recovery goes through its list, a stream ends at an *)
(* interrupt or at the end of the graph, and a handler goes on to its end.   *)
Fairness ==
  /\ WF_vars(Load \/ LoadFails)
  /\ \A r \in Runs : WF_vars(Recover(r))
  /\ \A t \in Tasks : WF_vars(Pause(t) \/ End(t) \/ Leave(t))
  /\ \A h \in Operators : WF_vars(Handle(h))

FairSpec == Spec /\ Fairness

(***************************************************************************)
(* Properties.                                                             *)
(***************************************************************************)

TypeOK ==
  /\ stored \in Stored /\ last \in Stored /\ registry \in Stored /\ cron \in Stored
  /\ editor \in [Editors -> Editor]
  /\ boot \in {"load", "up", "bare"}
  /\ todo \in [Runs -> {"none", "running", "waiting"}]
  /\ run \in [Runs -> Run]
  /\ live \in [Runs -> Runner]
  /\ task \in [Tasks -> Task]
  /\ handler \in [Operators -> Handler]
  /\ bound \in [Version -> Binding]
  /\ crashes \in 0..MaxCrash /\ ops \in 0..MaxOps
  /\ used \in [Runs -> SUBSET Version]
  /\ strayed \in BOOLEAN
  /\ cut \in [Runs -> BOOLEAN]

(* A run whose runner can be had: it carries a snapshot a runner can be      *)
(* built from again, and no pop of live_runners has cut it off.              *)
Sound(r) == run[r].snap \notin Fragile \cup {0} /\ ~cut[r]

(* Every step of such a run is executed by a runner built from its snapshot, *)
(* through edits, pauses, restarts, retries and decisions of any kind, also  *)
(* of a stream that outlives its run's end ("In-flight runs are not          *)
(* affected", update_workflow).                                              *)
KeepsItsDefinition ==
  \A r \in Runs : Sound(r) => used[r] \subseteq {run[r].snap}

(* Such a run, when it waits for a decision that may be taken, has a runner  *)
(* in live_runners: whatever handlers, old streams and restarts have done,   *)
(* no decision ends in a 404 that leaves the run claimed.                    *)
WaitingRunHasRunner ==
  \A r \in Runs : Sound(r) /\ Up /\ run[r].st = "waiting" /\ todo[r] = "none"
                  /\ ~Restarting(r)
    => live[r] # None

(* What refresh_runner's docstring says of all runs ("they keep the          *)
(* definition snapshot they started with").  The code does not keep it: a    *)
(* run that has lost its runner is given the registry's by a link.           *)
DefinitionNeverSwapped ==
  \A r \in Runs : run[r].snap \notin Fragile \cup {0} => used[r] \subseteq {run[r].snap}

(* The status a node writes goes to the document of the run it belongs to    *)
(* ("write through to the *current* run", _stream_graph).  The code does not *)
(* keep it: two runs on the registry's runner share its _current_run.        *)
OwnDocumentWritten == ~strayed

(* When no edit is under way, chat, child workflows and CopilotKit get the   *)
(* stored definition, whatever edits and failed builds came before, and      *)
(* nothing when it is deleted; unless no runner can be built from it, or the *)
(* last startup could not read the backend.                                  *)
RegistryIsCurrent ==
  boot = "up" /\ NobodyEdits /\ stored \notin Broken => registry = stored

(* The job that is scheduled is that of the stored definition: an edit       *)
(* neither leaves the job of an older version behind nor loses the new one,  *)
(* and a restart schedules it again.                                         *)
ScheduleIsCurrent ==
  boot = "up" /\ NobodyEdits /\ Buildable(stored) => cron = JobOf(stored)

(* Such a run does not stay running: it pauses or ends, whatever edits,      *)
(* requests and restarts come in between.                                    *)
SnapshotRunsSettle ==
  \A r \in Runs : Sound(r) /\ run[r].st = "running" ~> run[r].st # "running" \/ ~Sound(r)
=============================================================================
