-------------------------- MODULE Definitions_proofs --------------------------
(***************************************************************************)
(* Theorems about Definitions for every number of runs, editors, handlers, *)
(* background tasks, versions, requests and restarts, and for every choice *)
(* of the versions that are broken, fragile or scheduled.                  *)
(***************************************************************************)
EXTENDS Definitions, TLAPS

(***************************************************************************)
(* Type correctness.  A runner that executes a run is built from a version *)
(* that exists (used would otherwise pick up version 0), and a task or a   *)
(* handler at work has a run.                                              *)
(***************************************************************************)
Real == {x \in Runner : x.v # 0}
Built == Real \cup {None}

TasksTyped ==
  /\ task \in [Tasks -> Task]
  /\ \A t \in Tasks : task[t].at # "off" => task[t].run \in Runs /\ task[t].runner \in Real

HandlersTyped ==
  /\ handler \in [Operators -> Handler]
  /\ \A h \in Operators : handler[h].at # "off" =>
       /\ handler[h].run \in Runs
       /\ handler[h].op \in {"restart", "retry"} => handler[h].runner \in Real

TypeInv ==
  /\ TypeOK
  /\ live \in [Runs -> Built]
  /\ TasksTyped /\ HandlersTyped

LEMMA VersionStored == Version \subseteq Stored /\ Version = Stored \ {0} /\ 0 \in Stored
BY DefinitionsAssumption DEF Version, Stored

LEMMA NoneBuilt == None \in Runner /\ None \in Built /\ None \notin Real
BY VersionStored DEF Built, Real, None, Runner

LEMMA OwnBuilt ==
  ASSUME NEW v \in Version
  PROVE  Own(v) \in Real /\ Own(v) # None /\ Own(v).v = v /\ ~Own(v).shared
BY VersionStored DEF Own, None, Real, Runner

LEMMA RegisteredBuilt ==
  ASSUME TypeOK
  PROVE  /\ Registered \in Built
         /\ registry # 0 => Registered \in Real
BY NoneBuilt DEF TypeOK, Registered, None, Built, Real, Runner

LEMMA RecoveryBuilt ==
  ASSUME TypeOK, NEW r \in Runs
  PROVE  /\ RecoveryRunners(r) \subseteq Built
         /\ run[r].snap \notin Fragile \cup {0} =>
              run[r].snap \in Version /\ RecoveryRunners(r) = {Own(run[r].snap)}
<1>1. run[r].snap \in Stored
  BY DEF TypeOK, Run
<1>2. run[r].snap # 0 => run[r].snap \in Version /\ Own(run[r].snap) \in Built
  BY <1>1, VersionStored, OwnBuilt DEF Built
<1> QED
  BY <1>2, RegisteredBuilt DEF RecoveryRunners

LEMMA DeciderBuilt ==
  ASSUME TypeInv, NEW r \in Runs
  PROVE  RunnerForRun(r) \in Built /\ RunnerForCallback(r) \in Built
BY NoneBuilt, RegisteredBuilt DEF TypeInv, RunnerForRun, RunnerForCallback

LEMMA AwayTyped == Away \in Editor
BY VersionStored DEF Away, Editor, EditOp

LEMMA IdleTyped == Idle \in Task /\ Gone \in Handler /\ Unbound \in Binding
BY NoneBuilt DEF Idle, Task, RunOrNone, Gone, Handler, RunOp, Unbound, Binding, RunStatus

LEMMA InitTyped == Init => TypeInv
<1> SUFFICES ASSUME Init PROVE TypeInv
  OBVIOUS
<1> USE NoneBuilt, VersionStored, AwayTyped, IdleTyped, DefinitionsAssumption DEF Init
<1>1. live \in [Runs -> Built] /\ live \in [Runs -> Runner]
  OBVIOUS
<1>2. run \in [Runs -> Run] /\ todo \in [Runs -> {"none", "running", "waiting"}]
  BY DEF Run, RunStatus
<1>3. TasksTyped
  BY DEF TasksTyped, Idle
<1>4. HandlersTyped
  BY DEF HandlersTyped, Gone
<1>5. /\ bound \in [Version -> Binding] /\ editor \in [Editors -> Editor]
      /\ used \in [Runs -> SUBSET Version]
  OBVIOUS
<1>8. cut \in [Runs -> BOOLEAN]
  OBVIOUS
<1>9. strayed \in BOOLEAN
  BY Zenon
<1>10. crashes \in 0..MaxCrash /\ ops \in 0..MaxOps
  OBVIOUS
<1>6. task \in [Tasks -> Task] /\ handler \in [Operators -> Handler]
  BY <1>3, <1>4 DEF TasksTyped, HandlersTyped
<1>7. TypeOK
  BY <1>1, <1>2, <1>5, <1>6, <1>8, <1>9, <1>10 DEF TypeOK
<1> QED
  BY <1>1, <1>3, <1>4, <1>7 DEF TypeInv

(* Steps that leave the definition and the restarts alone.                   *)
LEMMA ExecutionTyped ==
  ASSUME TypeInv,
         run' \in [Runs -> Run],
         live' \in [Runs -> Built],
         TasksTyped', HandlersTyped',
         bound' \in [Version -> Binding],
         used' \in [Runs -> SUBSET Version],
         strayed' \in BOOLEAN,
         cut' \in [Runs -> BOOLEAN],
         todo' \in [Runs -> {"none", "running", "waiting"}],
         ops' \in 0..MaxOps,
         UNCHANGED definition, UNCHANGED <<boot, crashes>>
  PROVE  TypeInv'
<1>1. /\ stored' = stored /\ last' = last /\ registry' = registry /\ cron' = cron
      /\ editor' = editor /\ boot' = boot /\ crashes' = crashes
  BY DEF definition
<1>2. live' \in [Runs -> Runner]
  BY NoneBuilt DEF Built, Real
<1> QED
  BY <1>1, <1>2 DEF TypeInv, TypeOK, TasksTyped, HandlersTyped

LEMMA EditTyped ==
  ASSUME TypeInv, Edit
  PROVE  TypeInv'
<1>1. PICK e \in Editors :
        \/ \E op \in EditOps : EditCheck(e, op)
        \/ EditStore(e) \/ EditDelete(e) \/ EditChatDelete(e) \/ Refresh(e) \/ Install(e)
  BY DEF Edit
<1>0. TasksTyped' /\ HandlersTyped'
  BY <1>1 DEF TypeInv, TasksTyped, HandlersTyped, EditCheck, EditStore, EditDelete,
              EditChatDelete, Refresh, Install, requests, execution
<1> USE <1>0, VersionStored, AwayTyped DEF TypeInv, TypeOK, process, requests, execution
<1>2. ASSUME NEW op \in EditOps, EditCheck(e, op) PROVE TypeInv'
  BY <1>2, DefinitionsAssumption DEF EditCheck, Editor, EditOp
<1>3. CASE EditStore(e)
  <2>1. last + 1 \in Stored
    BY <1>3, DefinitionsAssumption DEF EditStore, Stored
  <2> QED
    BY <1>3, <2>1 DEF EditStore, Editor
<1>4. CASE EditDelete(e)
  BY <1>4 DEF EditDelete, Editor
<1>5. CASE EditChatDelete(e)
  BY <1>5 DEF EditChatDelete
<1>6. CASE Refresh(e)
  BY <1>6 DEF Refresh, Editor
<1>7. CASE Install(e)
  <2>1. editor[e].v \in Stored
    BY DEF Editor
  <2>2. /\ registry' \in Stored /\ cron' \in Stored
        /\ editor' \in [Editors -> Editor]
    BY <1>7, <2>1 DEF Install, Installed
  <2>3. bound' \in [Version -> Binding]
    BY <1>7, IdleTyped DEF Install
  <2> QED
    BY <1>7, <2>2, <2>3 DEF Install
<1> QED
  BY <1>1, <1>2, <1>3, <1>4, <1>5, <1>6, <1>7

(***************************************************************************)
(* The types of what the actions do to a run, its tasks and its handlers.  *)
(***************************************************************************)
LEMMA BeginTyped ==
  ASSUME TypeInv, NEW r \in Runs, NEW x \in Real, Begin(r, x)
  PROVE  TasksTyped'
BY DEF TypeInv, TasksTyped, Begin, Task, RunOrNone, Real

LEMMA BindTyped ==
  ASSUME TypeInv, NEW r \in Runs, NEW x \in Real, Bind(r, x)
  PROVE  bound' \in [Version -> Binding]
BY DEF TypeInv, TypeOK, Bind, Binding, RunOrNone, RunStatus

LEMMA RebindTyped ==
  ASSUME TypeInv, NEW r \in Runs, NEW x \in Real, NEW st \in RunStatus, Rebind(r, x, st)
  PROVE  bound' \in [Version -> Binding]
BY DEF TypeInv, TypeOK, Rebind, Binding

LEMMA StatusTyped ==
  ASSUME TypeInv, NEW r \in Runs, NEW st \in RunStatus, SetStatus(r, st)
  PROVE  run' \in [Runs -> Run]
BY DEF TypeInv, TypeOK, SetStatus, Run

LEMMA PopTyped ==
  ASSUME TypeInv, NEW r \in Runs, NEW b \in BOOLEAN, Pop(r, b)
  PROVE  live' \in [Runs -> Built] /\ cut' \in [Runs -> BOOLEAN]
BY NoneBuilt DEF TypeInv, TypeOK, Pop, SetLive

LEMMA FreedTyped ==
  ASSUME TypeInv, NEW t \in Tasks, task[t].at # "off",
         task' = [task EXCEPT ![t] = Idle] \/ task' = [task EXCEPT ![t].at = "leave"]
  PROVE  TasksTyped'
BY IdleTyped DEF TypeInv, TasksTyped, Task, Idle

LEMMA HandlerTyped ==
  ASSUME TypeInv, NEW h \in Operators, handler[h].at # "off",
         HandlerEnds(h) \/ HandlerGoes(h, "popped") \/ HandlerGoes(h, "stored")
  PROVE  HandlersTyped'
BY IdleTyped DEF TypeInv, HandlersTyped, HandlerEnds, HandlerGoes, Handler, Gone

LEMMA StatusNamed == {"none", "running", "waiting", "completed", "failed", "deleted"} = RunStatus
BY DEF RunStatus

LEMMA BooleanGuards == \A r : GoesOn(r) \in BOOLEAN /\ Streamed(r) \in BOOLEAN
BY DEF GoesOn, Streamed

LEMMA StartTyped ==
  ASSUME TypeInv, NEW r \in Runs, StartOwn(r) \/ StartShared(r)
  PROVE  TypeInv'
<1>1. ASSUME NEW x \in Real, NEW s \in Stored, StartFrom(r, x, s)
      PROVE  run' \in [Runs -> Run] /\ TasksTyped'
  BY <1>1, BeginTyped DEF StartFrom, TypeInv, TypeOK, Run, RunStatus
<1>2. CASE StartOwn(r)
  <2>1. Own(stored) \in Real /\ stored \in Stored
    BY <1>2, OwnBuilt, VersionStored DEF StartOwn, Buildable, TypeInv, TypeOK
  <2>2. run' \in [Runs -> Run] /\ TasksTyped'
    BY <1>1, <1>2, <2>1 DEF StartOwn
  <2>3. live' \in [Runs -> Built]
    BY <1>2, <2>1 DEF StartOwn, SetLive, TypeInv, Built
  <2> QED
    BY <1>2, <2>2, <2>3, ExecutionTyped
       DEF StartOwn, TypeInv, TypeOK, process, requests, HandlersTyped
<1>3. CASE StartShared(r)
  <2>1. Registered \in Real /\ 0 \in Stored
    BY <1>3, RegisteredBuilt, VersionStored DEF StartShared, TypeInv
  <2>2. run' \in [Runs -> Run] /\ TasksTyped'
    BY <1>1, <1>3, <2>1 DEF StartShared
  <2>3. bound' \in [Version -> Binding]
    BY <1>3, <2>1, BindTyped DEF StartShared, TypeInv, TypeOK
  <2> QED
    BY <1>3, <2>2, <2>3, ExecutionTyped
       DEF StartShared, TypeInv, TypeOK, process, requests, HandlersTyped
<1> QED
  BY <1>2, <1>3

LEMMA DecideTyped ==
  ASSUME TypeInv, NEW r \in Runs, NEW x \in Built, Decide(r, x)
  PROVE  TypeInv'
<1>1. run' \in [Runs -> Run]
  BY StatusTyped, StatusNamed DEF Decide
<1>2. TasksTyped' /\ bound' \in [Version -> Binding]
  <2>1. CASE x = None
    BY <2>1 DEF Decide, TypeInv, TypeOK, TasksTyped
  <2>2. CASE x # None
    BY <2>2, BeginTyped, BindTyped DEF Decide, Stream, Built
  <2> QED
    BY <2>1, <2>2
<1>3. cut' \in [Runs -> BOOLEAN]
  BY DEF Decide, Restarting, TypeInv, TypeOK
<1> QED
  BY <1>1, <1>2, <1>3, ExecutionTyped
     DEF Decide, TypeInv, TypeOK, process, requests, HandlersTyped

LEMMA TaskTyped ==
  ASSUME TypeInv, NEW t \in Tasks, Proceed(t)
  PROVE  TypeInv'
<1> DEFINE r == task[t].run
           x == task[t].runner
<1>1. task[t].at # "off" /\ r \in Runs /\ x \in Real /\ x.v \in Version
  <2>1. task[t].at # "off"
    BY DEF Proceed, Step, Pause, End, Leave
  <2> QED
    BY <2>1, VersionStored DEF TypeInv, TasksTyped, Real, Runner
<1>2. CASE Step(t)
  <2> DEFINE b == IF x.shared THEN bound[x.v] ELSE [to |-> r, st |-> "running"]
  <2>1. b \in Binding
    BY <1>1 DEF TypeInv, TypeOK, Binding, RunOrNone, RunStatus
  <2>2. run' \in [Runs -> Run]
    <3>1. CASE b.to = NoRun
      BY <1>2, <3>1 DEF Step, TypeInv, TypeOK
    <3>2. CASE b.to # NoRun
      BY <1>2, <2>1, <3>2, StatusTyped DEF Step, Binding, RunOrNone
    <3> QED
      BY <3>1, <3>2
  <2>3. used' \in [Runs -> SUBSET Version]
    BY <1>1, <1>2 DEF Step, TypeInv, TypeOK
  <2>4. strayed' \in BOOLEAN
    BY <1>2 DEF Step
  <2> QED
    BY <1>2, <2>2, <2>3, <2>4, ExecutionTyped
       DEF Step, TypeInv, TypeOK, process, requests, TasksTyped, HandlersTyped
<1>3. CASE Pause(t)
  <2>1. /\ run' \in [Runs -> Run] /\ bound' \in [Version -> Binding]
        /\ TasksTyped'
    BY <1>1, <1>3, StatusTyped, RebindTyped, FreedTyped, StatusNamed DEF Pause
  <2> QED
    BY <1>3, <2>1, ExecutionTyped
       DEF Pause, TypeInv, TypeOK, process, requests, HandlersTyped
<1>4. CASE End(t)
  <2>1. /\ run' \in [Runs -> Run] /\ bound' \in [Version -> Binding]
        /\ TasksTyped'
    BY <1>1, <1>4, StatusTyped, RebindTyped, FreedTyped, StatusNamed DEF End
  <2> QED
    BY <1>4, <2>1, ExecutionTyped
       DEF End, TypeInv, TypeOK, process, requests, HandlersTyped
<1>5. CASE Leave(t)
  <2>1. TasksTyped' /\ live' \in [Runs -> Built] /\ cut' \in [Runs -> BOOLEAN]
    BY <1>1, <1>5, PopTyped, BooleanGuards, FreedTyped DEF Leave
  <2> QED
    BY <1>5, <2>1, ExecutionTyped
       DEF Leave, TypeInv, TypeOK, process, requests, HandlersTyped
<1> QED
  BY <1>2, <1>3, <1>4, <1>5 DEF Proceed

LEMMA HandleTyped ==
  ASSUME TypeInv, NEW h \in Operators, Handle(h)
  PROVE  TypeInv'
<1> DEFINE r == handler[h].run
           x == handler[h].runner
<1>1. handler[h].at # "off" /\ r \in Runs
  <2>1. handler[h].at # "off"
    BY DEF Handle, Handles, TerminateStores, TerminatePops, DeletePops, DeleteStores,
           RestartPops, RestartStores, RestartStreams, RestartFails, Retry
  <2> QED
    BY <2>1 DEF TypeInv, HandlersTyped
<1>2. CASE TerminateStores(h) \/ DeleteStores(h) \/ RestartStores(h)
  <2>1. run' \in [Runs -> Run]
    BY <1>1, <1>2, StatusTyped, StatusNamed DEF TerminateStores, DeleteStores, RestartStores
  <2>2. HandlersTyped'
    BY <1>1, <1>2, HandlerTyped DEF TerminateStores, DeleteStores, RestartStores
  <2> QED
    BY <1>2, <2>1, <2>2, ExecutionTyped
       DEF TerminateStores, DeleteStores, RestartStores, TypeInv, TypeOK, process, TasksTyped
<1>3. CASE TerminatePops(h) \/ DeletePops(h) \/ RestartPops(h)
  <2>1. live' \in [Runs -> Built] /\ cut' \in [Runs -> BOOLEAN]
    BY <1>1, <1>3, PopTyped, BooleanGuards DEF TerminatePops, DeletePops, RestartPops
  <2>2. HandlersTyped'
    BY <1>1, <1>3, HandlerTyped DEF TerminatePops, DeletePops, RestartPops
  <2> QED
    BY <1>3, <2>1, <2>2, ExecutionTyped
       DEF TerminatePops, DeletePops, RestartPops, TypeInv, TypeOK, process, TasksTyped
<1>4. CASE RestartStreams(h) \/ Retry(h)
  <2>1. x \in Real
    BY <1>1, <1>4 DEF RestartStreams, Retry, Handles, TypeInv, HandlersTyped
  <2>2. run' \in [Runs -> Run]
    BY <1>1, <1>4, StatusTyped, StatusNamed DEF RestartStreams, Retry, TypeInv, TypeOK
  <2>3. live' \in [Runs -> Built]
    BY <1>4, <2>1 DEF RestartStreams, Retry, SetLive, TypeInv, Built
  <2>4. TasksTyped' /\ bound' \in [Version -> Binding]
    BY <1>1, <1>4, <2>1, BeginTyped, BindTyped DEF RestartStreams, Retry, Stream
  <2>5. HandlersTyped'
    BY <1>1, <1>4, HandlerTyped DEF RestartStreams, Retry
  <2> QED
    BY <1>4, <2>2, <2>3, <2>4, <2>5, ExecutionTyped
       DEF RestartStreams, Retry, TypeInv, TypeOK, process
<1>5. CASE RestartFails(h)
  <2>1. HandlersTyped' /\ cut' \in [Runs -> BOOLEAN]
    BY <1>1, <1>5, HandlerTyped DEF RestartFails, TypeInv, TypeOK
  <2> QED
    BY <1>5, <2>1, ExecutionTyped DEF RestartFails, TypeInv, TypeOK, process, TasksTyped
<1> QED
  BY <1>2, <1>3, <1>4, <1>5 DEF Handle

LEMMA ReadsTyped ==
  ASSUME TypeInv, NEW h \in Operators, NEW op \in RunOp, NEW r \in Runs, HandlerReads(h, op, r)
  PROVE  TypeInv'
<1>1. PICK x \in HandlerRunners(op, r) :
        handler' = [handler EXCEPT ![h] = [at |-> "read", op |-> op, run |-> r, runner |-> x]]
  BY DEF HandlerReads
<1>2. x \in Runner /\ (op \in {"restart", "retry"} => x \in Real)
  BY RecoveryBuilt, NoneBuilt DEF HandlerRunners, TypeInv, Built, Real
<1>3. HandlersTyped'
  BY <1>1, <1>2 DEF TypeInv, HandlersTyped, Handler, RunOrNone
<1>4. ops' \in 0..MaxOps
  BY DefinitionsAssumption DEF HandlerReads, TypeInv, TypeOK
<1> QED
  BY <1>3, <1>4, ExecutionTyped
     DEF HandlerReads, TypeInv, TypeOK, process, execution, TasksTyped

LEMMA RestartTyped ==
  ASSUME TypeInv, Crash \/ Load \/ LoadFails
  PROVE  TypeInv'
<1> USE VersionStored, NoneBuilt, AwayTyped, IdleTyped, DefinitionsAssumption DEF TypeInv
<1>1. CASE Crash
  <2>1. live' \in [Runs -> Built] /\ live' \in [Runs -> Runner]
    BY <1>1 DEF Crash
  <2>2. crashes' \in 0..MaxCrash
    BY <1>1 DEF Crash, TypeOK
  <2>3. TasksTyped' /\ HandlersTyped'
    BY <1>1 DEF Crash, TasksTyped, HandlersTyped, Idle, Gone
  <2>4. TypeOK'
    BY <1>1, <2>1, <2>2 DEF Crash, TypeOK
  <2> QED
    BY <2>1, <2>3, <2>4
<1>2. \A r \in Runs : Listed(r) \in {"none", "running", "waiting"}
  BY DEF Listed
<1>3. CASE Load \/ LoadFails
  <2>1. registry' \in Stored /\ cron' \in Stored
    BY <1>3 DEF Load, LoadFails, TypeOK, JobOf
  <2>2. todo' \in [Runs -> {"none", "running", "waiting"}]
    BY <1>2, <1>3 DEF Load, LoadFails
  <2>3. TypeOK'
    BY <1>3, <2>1, <2>2 DEF Load, LoadFails, TypeOK, requests, execution
  <2> QED
    BY <1>3, <2>3 DEF Load, LoadFails, requests, execution, TasksTyped, HandlersTyped
<1> QED
  BY <1>1, <1>3

LEMMA RecoverTyped ==
  ASSUME TypeInv, NEW r \in Runs, Recover(r)
  PROVE  TypeInv'
<1>1. PICK x \in RecoveryRunners(r) :
        /\ todo' = [todo EXCEPT ![r] = "none"]
        /\ \/ RecoverFails(r, x)
           \/ RecoverWaiting(r, x)
           \/ RecoverRunning(r, x)
        /\ \/ UNCHANGED used
           \/ /\ x # None /\ todo[r] = "waiting"
              /\ used' = [used EXCEPT ![r] = @ \cup {x.v}]
        /\ UNCHANGED <<definition, boot, crashes, requests, strayed, cut>>
  BY DEF Recover
<1>2. x \in Built /\ (x # None => x \in Real /\ x.v \in Version)
  BY RecoveryBuilt, VersionStored DEF TypeInv, Built, Real, Runner
<1>3. used' \in [Runs -> SUBSET Version] /\ todo' \in [Runs -> {"none", "running", "waiting"}]
  BY <1>1, <1>2 DEF TypeInv, TypeOK
<1>4. run' \in [Runs -> Run] /\ live' \in [Runs -> Built] /\ TasksTyped'
      /\ bound' \in [Version -> Binding]
  <2>1. CASE RecoverFails(r, x)
    BY <2>1, StatusTyped, StatusNamed DEF RecoverFails, TypeInv, TypeOK, TasksTyped
  <2>2. CASE RecoverWaiting(r, x)
    BY <1>2, <2>2 DEF RecoverWaiting, SetLive, TypeInv, TypeOK, TasksTyped
  <2>3. CASE RecoverRunning(r, x)
    BY <1>2, <2>3, BeginTyped, BindTyped DEF RecoverRunning, SetLive, Stream, TypeInv, TypeOK
  <2> QED
    BY <1>1, <2>1, <2>2, <2>3
<1> QED
  BY <1>1, <1>3, <1>4, ExecutionTyped DEF TypeInv, TypeOK, requests, HandlersTyped

LEMMA NextTyped == TypeInv /\ [Next]_vars => TypeInv'
<1> SUFFICES ASSUME TypeInv, [Next]_vars PROVE TypeInv'
  OBVIOUS
<1>1. CASE UNCHANGED vars
  BY <1>1 DEF TypeInv, TypeOK, TasksTyped, HandlersTyped, vars
<1>2. CASE Execute
  BY <1>2, StartTyped, DeciderBuilt, DecideTyped DEF Execute, CronJob, DecideRoute, DecideCallback
<1> QED
  BY <1>1, <1>2, EditTyped, TaskTyped, HandleTyped, ReadsTyped, RestartTyped, RecoverTyped DEF Next

LEMMA AlwaysTyped == Spec => []TypeInv
BY InitTyped, NextTyped, PTL DEF Spec

(* Every variable keeps its type (the state of the definition's handlers,    *)
(* the run routes, container.py and workflow_backend.py).                    *)
THEOREM TypeCorrect == Spec => []TypeOK
<1>1. TypeInv => TypeOK
  BY DEF TypeInv
<1> QED
  BY <1>1, AlwaysTyped, PTL

(***************************************************************************)
(* A run keeps its definition, and its runner.  Neither property is        *)
(* inductive: a waiting run whose runner is lost would be given the        *)
(* registry's by a link or a button.  So the invariant says where the      *)
(* runners of a sound run are: every task and handler that works on it     *)
(* holds one of its snapshot, no shared runner is bound to it, and when it *)
(* can be decided live_runners has its runner, or recovery or              *)
(* restart-from-step is about to put it there.  A streamed run has it      *)
(* there, because a pop under the stream makes the run unsound (cut).      *)
(* It needs that decisions wait for recovery (Early).                      *)
(***************************************************************************)
Unused(r) ==
  /\ run[r].snap = 0 /\ used[r] = {} /\ todo[r] = "none"
  /\ \A t \in Tasks : task[t].run # r
  /\ \A h \in Operators : handler[h].run # r
  /\ \A v \in Version : bound[v].to # r

OwnedBy(r, own) ==
  /\ used[r] \subseteq {own.v}
  /\ live[r] \in {None, own}
  /\ \A t \in Tasks : task[t].run = r => task[t].runner = own
  /\ \A h \in Operators :
       handler[h].run = r /\ handler[h].op \in {"restart", "retry"} => handler[h].runner = own
  /\ \A v \in Version : bound[v].to # r

HasRunner(r) ==
  /\ Streamed(r) => live[r] # None
  /\ Up /\ run[r].st = "waiting" => live[r] # None \/ todo[r] # "none" \/ Restarting(r)

Kept(r) ==
  /\ run[r].st = "none" => Unused(r)
  /\ \A v \in Version : bound[v].to = r => bound[v].st # "none"
  /\ Sound(r) => OwnedBy(r, Own(run[r].snap)) /\ HasRunner(r)

LEMMA InitKept ==
  ASSUME Init, NEW r \in Runs
  PROVE  Kept(r)
<1>1. run[r].st = "none" /\ run[r].snap = 0
  BY DEF Init
<1>2. Unused(r)
  BY <1>1, DefinitionsAssumption DEF Init, Unused, Idle, Gone, Unbound
<1> QED
  BY <1>1, <1>2 DEF Kept, Sound, Unused

(* A step leaves the tasks, the handlers and the bindings of run r as they   *)
(* are, or takes them away.                                                  *)
TasksKept(r) ==
  \A t \in Tasks : task'[t].run = r =>
    /\ task[t].run = r /\ task'[t].runner = task[t].runner
    /\ task'[t].at = "stream" => task[t].at = "stream"

HandlersKept(r) ==
  \A h \in Operators : handler'[h].run = r =>
    handler[h].run = r /\ handler'[h].op = handler[h].op /\ handler'[h].runner = handler[h].runner

BoundKept(r) ==
  \A v \in Version : bound'[v].to = r => bound[v].to = r /\ bound'[v].st # "none"

LEMMA StreamedKept ==
  ASSUME NEW r, TasksKept(r)
  PROVE  Streamed(r)' => Streamed(r)
BY DEF TasksKept, Streamed

LEMMA OwnedKept ==
  ASSUME NEW r \in Runs, NEW own, OwnedBy(r, own), TasksKept(r), HandlersKept(r), BoundKept(r),
         used'[r] = used[r], live'[r] \in {live[r], None, own}
  PROVE  OwnedBy(r, own)'
BY DEF OwnedBy, TasksKept, HandlersKept, BoundKept

(* Kept depends on what belongs to the run.                                  *)
LEMMA KeptElsewhere ==
  ASSUME NEW r \in Runs, Kept(r), Up' = Up,
         run'[r] = run[r], live'[r] = live[r], todo'[r] = todo[r], used'[r] = used[r],
         cut'[r] = cut[r], Restarting(r) => Restarting(r)',
         TasksKept(r), HandlersKept(r), BoundKept(r)
  PROVE  Kept(r)'
<1>1. Unused(r) => Unused(r)'
  BY DEF Unused, TasksKept, HandlersKept, BoundKept
<1>2. HasRunner(r) => HasRunner(r)'
  BY StreamedKept DEF HasRunner
<1>3. Sound(r)' => Sound(r)
  BY DEF Sound
<1>4. Own(run[r].snap)' = Own(run[r].snap)
  BY DEF Own
<1> QED
  BY <1>1, <1>2, <1>3, <1>4, OwnedKept DEF Kept, BoundKept

(* A run that exists, whose status is set.                                   *)
LEMMA KeptHere ==
  ASSUME NEW r \in Runs, Kept(r),
         run'[r].snap = run[r].snap, run'[r].st # "none",
         \A v \in Version : bound'[v].to = r => bound'[v].st # "none",
         Sound(r)' => /\ Sound(r)
                      /\ OwnedBy(r, Own(run[r].snap)) => OwnedBy(r, Own(run[r].snap))'
                      /\ HasRunner(r) /\ OwnedBy(r, Own(run[r].snap)) => HasRunner(r)'
  PROVE  Kept(r)'
<1>1. Own(run[r].snap)' = Own(run[r].snap)
  BY DEF Own
<1> QED
  BY <1>1 DEF Kept

LEMMA EditKept ==
  ASSUME TypeInv, Edit, NEW r \in Runs, Kept(r)
  PROVE  Kept(r)'
<1>1. PICK e \in Editors :
        \/ \E op \in EditOps : EditCheck(e, op)
        \/ EditStore(e) \/ EditDelete(e) \/ EditChatDelete(e) \/ Refresh(e) \/ Install(e)
  BY DEF Edit
<1>2. UNCHANGED <<process, requests, execution>>
  BY <1>1 DEF EditCheck, EditStore, EditDelete, EditChatDelete, Refresh, Install
<1>3. BoundKept(r)
  <2>1. \A v \in Version : bound'[v] = bound[v] \/ bound'[v] = Unbound
    BY <1>1 DEF EditCheck, EditStore, EditDelete, EditChatDelete, Refresh, Install, TypeInv, TypeOK
  <2> QED
    BY <2>1, DefinitionsAssumption DEF BoundKept, Unbound, Kept
<1>4. TasksKept(r) /\ HandlersKept(r) /\ (Restarting(r) => Restarting(r)')
  BY <1>2 DEF TasksKept, HandlersKept, Restarting, requests, execution
<1> QED
  BY <1>2, <1>3, <1>4, KeptElsewhere DEF process, execution, Up

(* A task that begins belongs to its run, and only a shared runner is bound. *)
LEMMA BeginKeeps ==
  ASSUME TypeInv, NEW q \in Runs, NEW x \in Runner, Begin(q, x), NEW r \in Runs
  PROVE  /\ r # q => TasksKept(r)
         /\ \A t \in Tasks : task'[t].run = r =>
              (task[t].run = r /\ task'[t].runner = task[t].runner) \/ task'[t].runner = x
BY DEF Begin, TasksKept, TypeInv, TypeOK

LEMMA BindKeeps ==
  ASSUME TypeInv, NEW q \in Runs, NEW x \in Runner, Bind(q, x), NEW r \in Runs, Kept(r)
  PROVE  /\ r # q => BoundKept(r)
         /\ ~x.shared => BoundKept(r)
         /\ \A v \in Version : bound'[v].to = r => bound'[v].st # "none"
BY DEF Bind, BoundKept, TypeInv, TypeOK, Kept

LEMMA RebindKeeps ==
  ASSUME TypeInv, NEW q \in Runs, NEW x \in Runner, NEW st \in RunStatus, st # "none",
         Rebind(q, x, st), NEW r \in Runs, Kept(r)
  PROVE  BoundKept(r)
BY DEF Rebind, BoundKept, TypeInv, TypeOK, Binding, Kept

LEMMA StatusKeeps ==
  ASSUME TypeInv, NEW q \in Runs, NEW st, SetStatus(q, st)
  PROVE  /\ run'[q].st = st /\ run'[q].snap = run[q].snap
         /\ \A r \in Runs \ {q} : run'[r] = run[r]
BY DEF TypeInv, TypeOK, SetStatus, Run

LEMMA StartKept ==
  ASSUME TypeInv, NEW q \in Runs, StartOwn(q) \/ StartShared(q), NEW r \in Runs, Kept(r)
  PROVE  Kept(r)'
<1> DEFINE x == IF StartOwn(q) THEN Own(stored) ELSE Registered
<1>1. /\ run[q].st = "none" /\ run'[q].st = "running" /\ run' = [run EXCEPT ![q] = run'[q]]
      /\ boot' = boot /\ UNCHANGED <<todo, handler, used, cut>>
      /\ \A p \in Runs \ {q} : live'[p] = live[p]
  BY DEF StartOwn, StartShared, StartFrom, SetLive, TypeInv, TypeOK, process, requests
<1>2. PICK y \in Runner : Begin(q, y) /\ (StartOwn(q) => y = Own(stored))
  <2>1. CASE StartOwn(q)
    BY <2>1, OwnBuilt, VersionStored DEF StartOwn, StartFrom, Buildable, TypeInv, TypeOK, Real
  <2>2. CASE ~StartOwn(q)
    BY <2>2, RegisteredBuilt, NoneBuilt DEF StartShared, StartFrom, TypeInv, Built, Real
  <2> QED
    BY <2>1, <2>2
<1>3. r # q => BoundKept(r)
  BY BindKeeps, RegisteredBuilt, NoneBuilt
     DEF StartOwn, StartShared, BoundKept, Kept, TypeInv, Built, Real
<1>4. \A v \in Version : bound'[v].to = r => bound'[v].st # "none"
  BY BindKeeps, RegisteredBuilt, NoneBuilt DEF StartOwn, StartShared, Kept, TypeInv, Built, Real
<1>5. CASE r # q
  BY <1>1, <1>2, <1>3, <1>5, BeginKeeps, KeptElsewhere
     DEF TypeInv, TypeOK, HandlersKept, Restarting, Up
<1>6. CASE r = q
  <2>1. Unused(r)
    BY <1>1, <1>6 DEF Kept
  <2>2. CASE StartOwn(q)
    <3>1. stored \in Version /\ run'[r].snap = stored
      BY <1>6, <2>2, VersionStored DEF StartOwn, StartFrom, Buildable, TypeInv, TypeOK
    <3>2. live'[r] = Own(stored) /\ Own(stored).v = stored /\ Own(stored) # None
          /\ UNCHANGED bound
      BY <1>6, <2>2, <3>1, OwnBuilt DEF StartOwn, SetLive, TypeInv, TypeOK
    <3>3. OwnedBy(r, Own(stored))'
      <4>1. Own(stored)' = Own(stored)
        BY <2>2 DEF Own, StartOwn, definition
      <4> QED
        BY <1>1, <1>2, <1>6, <2>1, <2>2, <3>2, <4>1, BeginKeeps DEF OwnedBy, Unused
    <3>4. HasRunner(r)'
      BY <3>2 DEF HasRunner
    <3> QED
      BY <1>1, <1>4, <1>6, <2>2, <3>1, <3>3, <3>4 DEF Kept, StartOwn, definition
  <2>3. CASE StartShared(q)
    <3>1. run'[r].snap = 0
      BY <1>6, <2>3 DEF StartShared, StartFrom, TypeInv, TypeOK
    <3> QED
      BY <1>1, <1>4, <1>6, <3>1 DEF Kept, Sound
  <2> QED
    BY <2>2, <2>3
<1> QED
  BY <1>5, <1>6

LEMMA DecideKept ==
  ASSUME TypeInv, ~Early, NEW q \in Runs, DecideRoute(q) \/ DecideCallback(q),
         NEW r \in Runs, Kept(r)
  PROVE  Kept(r)'
<1>1. PICK x \in {RunnerForRun(q), RunnerForCallback(q)} : Decide(q, x)
  BY DEF DecideRoute, DecideCallback
<1>2. /\ Up /\ run[q].st = "waiting" /\ todo[q] = "none" /\ x \in Runner
      /\ boot' = boot /\ UNCHANGED <<todo, handler, used, live>>
      /\ cut' = [cut EXCEPT ![q] = @ \/ Restarting(q)]
      /\ SetStatus(q, "running")
  BY <1>1, DeciderBuilt, NoneBuilt DEF Decide, process, requests, Built, Real
<1>3. r # q => TasksKept(r) /\ BoundKept(r)
  BY <1>1, <1>2, BeginKeeps, BindKeeps DEF Decide, Stream, TasksKept, BoundKept, Kept
<1>4. \A v \in Version : bound'[v].to = r => bound'[v].st # "none"
  BY <1>1, <1>2, BindKeeps DEF Decide, Stream, Kept
<1>5. CASE r # q
  BY <1>2, <1>3, <1>5, StatusKeeps, KeptElsewhere
     DEF TypeInv, TypeOK, HandlersKept, Restarting, Up
<1>6. CASE r = q
  <2>1. run'[r].st = "running" /\ run'[r].snap = run[r].snap
    BY <1>2, <1>6, StatusKeeps
  <2> DEFINE own == Own(run[r].snap)
  <2>2. SUFFICES ASSUME Sound(r)'
                 PROVE  /\ Sound(r)
                        /\ OwnedBy(r, own) => OwnedBy(r, own)'
                        /\ HasRunner(r) /\ OwnedBy(r, own) => HasRunner(r)'
    BY <1>4, <2>1, KeptHere
  <2>3. Sound(r) /\ ~Restarting(r)
    BY <1>2, <1>6, <2>1, <2>2 DEF Sound, TypeInv, TypeOK
  <2>4. OwnedBy(r, own) /\ HasRunner(r) /\ live[r] = own /\ live[r] # None
    BY <1>2, <1>6, <2>3 DEF Kept, HasRunner, OwnedBy
  <2>5. x = own /\ x # None /\ ~x.shared
    BY <1>1, <1>6, <2>4 DEF RunnerForRun, RunnerForCallback, Own
  <2>6. Begin(q, x) /\ Bind(q, x)
    BY <1>1, <2>5 DEF Decide, Stream
  <2>7. OwnedBy(r, own)'
    <3>1. own' = own
      BY <2>1 DEF Own
    <3>2. \A v \in Version : bound'[v].to # r
      BY <1>2, <2>4, <2>5, <2>6, BindKeeps DEF BoundKept, OwnedBy
    <3>3. \A t \in Tasks : task'[t].run = r => task'[t].runner = own
      BY <1>2, <2>4, <2>5, <2>6, BeginKeeps DEF OwnedBy
    <3> HIDE DEF own
    <3> QED
      BY <1>2, <2>4, <3>1, <3>2, <3>3 DEF OwnedBy
  <2>8. HasRunner(r)'
    BY <1>2, <2>4 DEF HasRunner
  <2> QED
    BY <2>3, <2>7, <2>8
<1> QED
  BY <1>5, <1>6

LEMMA TaskKept ==
  ASSUME TypeInv, NEW t \in Tasks, Step(t) \/ Pause(t) \/ End(t),
         NEW r \in Runs, Kept(r)
  PROVE  Kept(r)'
<1> DEFINE q == task[t].run
           x == task[t].runner
           own == Own(run[r].snap)
<1>1. /\ task[t].at = "stream" /\ q \in Runs /\ x \in Real /\ x.v \in Version /\ x \in Runner
      /\ boot' = boot /\ UNCHANGED <<todo, handler, live, cut>>
  <2>1. task[t].at = "stream"
    BY DEF Step, Pause, End
  <2>2. q \in Runs /\ x \in Real /\ x.v \in Version /\ x \in Runner
    BY <2>1, VersionStored DEF TypeInv, TasksTyped, Real, Runner
  <2> QED
    BY <2>1, <2>2 DEF Step, Pause, End, process, requests
<1>2. TasksKept(r) /\ HandlersKept(r) /\ (Restarting(r) <=> Restarting(r)')
  <2>1. TasksKept(r)
    <3>1. \A u \in Tasks : u # t => task'[u] = task[u]
      BY DEF Step, Pause, End, TypeInv, TasksTyped
    <3>2. \/ task'[t] = task[t] \/ task'[t].run = NoRun
          \/ task'[t].run = q /\ task'[t].runner = x /\ task'[t].at = "leave"
      <4>1. CASE Step(t) \/ Pause(t)
        BY <4>1 DEF Step, Pause, TypeInv, TasksTyped, Idle
      <4>2. CASE End(t)
        BY <4>2 DEF End, TypeInv, TasksTyped, Task
      <4> QED
        BY <4>1, <4>2
    <3> HIDE DEF q, x
    <3>3. SUFFICES ASSUME NEW u \in Tasks, task'[u].run = r
                   PROVE  /\ task[u].run = r /\ task'[u].runner = task[u].runner
                          /\ task'[u].at = "stream" => task[u].at = "stream"
      BY DEF TasksKept
    <3>4. CASE u = t
      BY <1>1, <3>2, <3>3, <3>4, DefinitionsAssumption DEF q, x
    <3> QED
      BY <3>1, <3>3, <3>4
  <2>2. handler' = handler
    BY <1>1
  <2>3. HandlersKept(r)
    BY <2>2 DEF HandlersKept
  <2>4. Restarting(r) <=> Restarting(r)'
    BY <2>2 DEF Restarting
  <2> QED
    BY <2>1, <2>3, <2>4
<1>3. q = r => run[r].st # "none" /\ (Sound(r) => x = own /\ x.v = own.v /\ ~x.shared)
  <2> SUFFICES ASSUME q = r
               PROVE  run[r].st # "none" /\ (Sound(r) => x = own /\ x.v = own.v /\ ~x.shared)
    OBVIOUS
  <2>1. run[r].st # "none"
    BY DEF Kept, Unused
  <2>2. ASSUME Sound(r) PROVE x = own
    BY <2>2 DEF Kept, OwnedBy
  <2>3. ~own.shared
    BY DEF Own
  <2> QED
    BY <2>1, <2>2, <2>3
<1>4. CASE Step(t)
  <2> DEFINE b == IF x.shared THEN bound[x.v] ELSE [to |-> q, st |-> "running"]
  <2>1. bound' = bound /\ BoundKept(r)
    BY <1>4 DEF Step, BoundKept, Kept
  <2>2. b.to = r => run[r].st # "none" /\ b.st # "none" /\ b.st \in RunStatus
    <3>1. CASE x.shared
      BY <1>1, <3>1 DEF Kept, Unused, TypeInv, TypeOK, Binding
    <3>2. CASE ~x.shared
      BY <1>3, <3>2 DEF RunStatus
    <3> QED
      BY <3>1, <3>2
  <2>3. /\ b.to # r => run'[r] = run[r]
        /\ b.to = r => run'[r].snap = run[r].snap /\ run'[r].st = b.st
    <3>1. CASE b.to = NoRun
      BY <1>4, <3>1, DefinitionsAssumption DEF Step
    <3>2. CASE b.to # NoRun
      <4>1. SetStatus(b.to, b.st)
        BY <1>4, <3>2 DEF Step
      <4> HIDE DEF b
      <4>2. run' = [run EXCEPT ![b.to].st = b.st]
        BY <4>1 DEF SetStatus
      <4> QED
        BY <4>2 DEF TypeInv, TypeOK, Run
    <3> QED
      BY <3>1, <3>2
  <2>4. /\ q # r => used'[r] = used[r]
        /\ q = r => used'[r] = used[r] \cup {x.v}
    BY <1>1, <1>4 DEF Step, TypeInv, TypeOK
  <2>5. CASE b.to # r /\ q # r
    BY <1>1, <1>2, <2>1, <2>3, <2>4, <2>5, KeptElsewhere DEF Up
  <2>6. CASE b.to = r \/ q = r
    <3>1. run'[r].snap = run[r].snap /\ run'[r].st # "none" /\ run[r].st # "none"
      BY <1>3, <2>2, <2>3, <2>6
    <3>2. Sound(r)' => Sound(r)
      BY <1>1, <3>1 DEF Sound
    <3>3. ASSUME Sound(r), OwnedBy(r, own) PROVE OwnedBy(r, own)'
      <4>1. own' = own
        BY <3>1 DEF Own
      <4>2. used'[r] \subseteq {own.v}
        BY <1>3, <2>4, <3>3 DEF OwnedBy
      <4> HIDE DEF own
      <4> QED
        BY <1>1, <1>2, <2>1, <3>3, <4>1, <4>2 DEF OwnedBy, TasksKept, HandlersKept, BoundKept
    <3>4. ASSUME Sound(r), HasRunner(r), OwnedBy(r, own) PROVE HasRunner(r)'
      <4>1. b.to = r => q = r /\ b.st = "running"
        BY <1>1, <3>4 DEF OwnedBy
      <4>2. Streamed(r)' => Streamed(r)
        BY <1>2, StreamedKept
      <4>3. run'[r].st = "waiting" => run[r].st = "waiting"
        BY <2>3, <2>6, <4>1
      <4> QED
        BY <1>1, <1>2, <3>4, <4>2, <4>3 DEF HasRunner, Up
    <3> QED
      BY <1>2, <2>1, <3>1, <3>2, <3>3, <3>4, KeptHere DEF BoundKept
  <2> QED
    BY <2>5, <2>6
<1>5. CASE Pause(t) \/ End(t)
  <2>1. PICK st \in {"waiting", "completed", "failed"} : SetStatus(q, st) /\ Rebind(q, x, st)
    BY <1>5 DEF Pause, End
  <2>2. BoundKept(r) /\ UNCHANGED used
    BY <1>1, <1>5, <2>1, RebindKeeps, StatusNamed DEF Pause, End
  <2>3. CASE r # q
    BY <1>1, <1>2, <2>1, <2>2, <2>3, StatusKeeps, KeptElsewhere DEF Up
  <2>4. CASE r = q
    <3>1. run'[r].snap = run[r].snap /\ run'[r].st # "none"
      BY <1>1, <2>1, <2>4, StatusKeeps
    <3>2. Sound(r)' => Sound(r)
      BY <1>1, <3>1 DEF Sound
    <3>3. ASSUME OwnedBy(r, own) PROVE OwnedBy(r, own)'
      <4>1. own' = own
        BY <3>1 DEF Own
      <4> HIDE DEF own
      <4> QED
        BY <1>1, <1>2, <2>2, <3>3, <4>1, OwnedKept
    <3>4. HasRunner(r) => HasRunner(r)'
      BY <1>1, <1>2, <2>4, StreamedKept DEF HasRunner, Streamed
    <3> QED
      BY <2>2, <3>1, <3>2, <3>3, <3>4, KeptHere DEF BoundKept
  <2> QED
    BY <2>3, <2>4
<1> QED
  BY <1>4, <1>5

(* A pop of live_runners: the run is cut off, or nobody needs the runner.    *)
LEMMA PopKept ==
  ASSUME TypeInv, NEW q \in Runs, NEW b \in BOOLEAN, Pop(q, b), NEW r \in Runs, Kept(r),
         Up' = Up, UNCHANGED <<run, todo, used, bound>>,
         TasksKept(r), HandlersKept(r), Restarting(r) => Restarting(r)',
         r = q => run[q].st # "none",
         Streamed(q) => b, run[q].st = "waiting" => b \/ Restarting(q)'
  PROVE  Kept(r)'
<1>1. BoundKept(r)
  BY DEF BoundKept, Kept
<1>2. CASE r # q
  BY <1>1, <1>2, KeptElsewhere DEF Pop, SetLive, TypeInv, TypeOK
<1>3. CASE r = q
  <2> DEFINE own == Own(run[r].snap)
  <2>1. live'[r] = None /\ own' = own
    BY <1>3 DEF Pop, SetLive, TypeInv, TypeOK, Own
  <2>2. Sound(r)' => Sound(r) /\ (live[r] = None \/ ~b)
    BY <1>3 DEF Sound, Pop, TypeInv, TypeOK
  <2>3. ASSUME OwnedBy(r, own) PROVE OwnedBy(r, own)'
    <3> HIDE DEF own
    <3> QED
      BY <1>1, <2>1, <2>3, OwnedKept
  <2>4. ASSUME HasRunner(r), live[r] = None \/ ~b PROVE HasRunner(r)'
    <3>1. Streamed(r)' => Streamed(r)
      BY StreamedKept
    <3> QED
      BY <1>3, <2>1, <2>4, <3>1 DEF HasRunner
  <2> QED
    BY <1>1, <1>3, <2>2, <2>3, <2>4, KeptHere DEF BoundKept
<1> QED
  BY <1>2, <1>3

LEMMA LeaveKept ==
  ASSUME TypeInv, NEW t \in Tasks, Leave(t), NEW r \in Runs, Kept(r), Kept(task[t].run)
  PROVE  Kept(r)'
<1> DEFINE q == task[t].run
<1>1. /\ q \in Runs /\ run[q].st # "none" /\ GoesOn(q) \in BOOLEAN
      /\ (Streamed(q) => GoesOn(q)) /\ (run[q].st = "waiting" => GoesOn(q))
  BY BooleanGuards DEF Leave, TypeInv, TasksTyped, Kept, Unused, GoesOn
<1>2. TasksKept(r) /\ HandlersKept(r) /\ (Restarting(r) <=> Restarting(r)')
  BY DefinitionsAssumption
     DEF Leave, TasksKept, HandlersKept, Restarting, requests, TypeInv, TasksTyped, Idle
<1> QED
  BY <1>1, <1>2, PopKept DEF Leave, process, Up

(* A run that exists is given a runner and a stream.                         *)
LEMMA GivenKept ==
  ASSUME TypeInv, NEW q \in Runs, Kept(q), run[q].st # "none",
         NEW x \in Real, Stream(q, x), SetLive(q, x),
         Sound(q)' => Sound(q) /\ x = Own(run[q].snap),
         run'[q].snap = run[q].snap, run'[q].st # "none",
         used'[q] \subseteq used[q] \cup {x.v},
         HandlersKept(q)
  PROVE  Kept(q)'
<1> DEFINE own == Own(run[q].snap)
<1>1. x \in Runner /\ x # None /\ own' = own
  BY NoneBuilt DEF Real, Own
<1>2. Begin(q, x) /\ Bind(q, x) /\ live'[q] = x
  BY DEF Stream, SetLive, TypeInv, TypeOK
<1>3. \A v \in Version : bound'[v].to = q => bound'[v].st # "none"
  BY <1>1, <1>2, BindKeeps
<1>4. ASSUME Sound(q)', OwnedBy(q, own) PROVE OwnedBy(q, own)'
  <2>1. x = own /\ ~x.shared
    BY <1>4 DEF Own
  <2>2. \A v \in Version : bound'[v].to # q
    BY <1>1, <1>2, <1>4, <2>1, BindKeeps DEF BoundKept, OwnedBy
  <2>3. \A t \in Tasks : task'[t].run = q => task'[t].runner = own
    BY <1>1, <1>2, <1>4, <2>1, BeginKeeps DEF OwnedBy
  <2> HIDE DEF own
  <2>4. used'[q] \subseteq {own.v}
    BY <1>4, <2>1 DEF OwnedBy
  <2> QED
    BY <1>1, <1>2, <1>4, <2>1, <2>2, <2>3, <2>4 DEF OwnedBy, HandlersKept
<1>5. HasRunner(q)'
  BY <1>1, <1>2 DEF HasRunner
<1> QED
  BY <1>3, <1>4, <1>5, KeptHere

LEMMA HandleKept ==
  ASSUME TypeInv, \A p \in Runs : Kept(p), NEW h \in Operators, Handle(h), NEW r \in Runs
  PROVE  Kept(r)'
<1>0. PICK q, x : q = handler[h].run /\ x = handler[h].runner
  OBVIOUS
<1>1. /\ handler[h].at # "off" /\ q \in Runs /\ run[q].st # "none" /\ boot' = boot /\ todo' = todo
      /\ Kept(q) /\ Kept(r)
  <2>1. handler[h].at # "off" /\ boot' = boot /\ todo' = todo
    BY DEF Handle, Handles, TerminateStores, TerminatePops, DeletePops, DeleteStores,
           RestartPops, RestartStores, RestartStreams, RestartFails, Retry, process
  <2>2. q \in Runs
    BY <1>0, <2>1 DEF TypeInv, HandlersTyped
  <2>3. run[q].st # "none"
    BY <1>0, <2>2 DEF Kept, Unused
  <2> QED
    BY <2>1, <2>2, <2>3
<1>2. /\ \A g \in Operators \ {h} : handler'[g] = handler[g]
      /\ \/ handler'[h].run = NoRun
         \/ handler'[h].run = q /\ handler'[h].op = handler[h].op /\ handler'[h].runner = x
  <2>1. \/ HandlerEnds(h)
        \/ \E to \in {"popped", "stored"} : HandlerGoes(h, to)
    BY DEF Handle, TerminateStores, TerminatePops, DeletePops, DeleteStores,
           RestartPops, RestartStores, RestartStreams, RestartFails, Retry
  <2>2. CASE HandlerEnds(h)
    BY <2>2 DEF HandlerEnds, Gone, TypeInv, HandlersTyped
  <2>3. ASSUME NEW to \in {"popped", "stored"}, HandlerGoes(h, to)
        PROVE  /\ \A g \in Operators \ {h} : handler'[g] = handler[g]
               /\ handler'[h].run = q /\ handler'[h].op = handler[h].op /\ handler'[h].runner = x
    BY <1>0, <2>3 DEF HandlerGoes, TypeInv, HandlersTyped, Handler
  <2> QED
    BY <2>1, <2>2, <2>3
<1>3. \A p \in Runs : HandlersKept(p)
  <2>1. SUFFICES ASSUME NEW p \in Runs, NEW g \in Operators, handler'[g].run = p
                 PROVE  /\ handler[g].run = p /\ handler'[g].op = handler[g].op
                        /\ handler'[g].runner = handler[g].runner
    BY DEF HandlersKept
  <2>2. CASE g = h
    BY <1>0, <1>1, <1>2, <2>1, <2>2, DefinitionsAssumption
  <2> QED
    BY <1>2, <2>1, <2>2
<1>4. r # q => (Restarting(r) => Restarting(r)')
  BY <1>0, <1>2 DEF Restarting
<1>5. CASE TerminateStores(h) \/ DeleteStores(h) \/ RestartStores(h)
  <2>1. /\ UNCHANGED <<live, task, bound, used, cut>>
        /\ \E st \in {"failed", "deleted", "running"} : SetStatus(q, st)
    BY <1>0, <1>5 DEF TerminateStores, DeleteStores, RestartStores
  <2>2. TasksKept(r) /\ BoundKept(r)
    BY <1>1, <2>1 DEF TasksKept, BoundKept, Kept
  <2>3. CASE r # q
    BY <1>1, <1>3, <1>4, <2>1, <2>2, <2>3, StatusKeeps, KeptElsewhere DEF Up
  <2>4. CASE r = q
    <3> DEFINE own == Own(run[r].snap)
    <3>1. run'[r].snap = run[r].snap /\ run'[r].st \in {"failed", "deleted", "running"}
      BY <1>1, <2>1, <2>4, StatusKeeps
    <3>2. Sound(r)' => Sound(r)
      BY <2>1, <3>1 DEF Sound
    <3>3. ASSUME OwnedBy(r, own) PROVE OwnedBy(r, own)'
      <4>1. own' = own
        BY <3>1 DEF Own
      <4> HIDE DEF own
      <4> QED
        BY <1>3, <2>1, <2>2, <3>3, <4>1, OwnedKept
    <3>4. HasRunner(r) => HasRunner(r)'
      BY <2>1, <2>2, <3>1, StreamedKept DEF HasRunner
    <3> QED
      BY <2>2, <3>1, <3>2, <3>3, <3>4, KeptHere DEF BoundKept
  <2> QED
    BY <2>3, <2>4
<1>6. CASE TerminatePops(h) \/ DeletePops(h)
  <2>1. Pop(q, GoesOn(q)) /\ UNCHANGED <<run, task, bound, used>>
    BY <1>0, <1>6 DEF TerminatePops, DeletePops
  <2>2. /\ GoesOn(q) \in BOOLEAN /\ (Streamed(q) => GoesOn(q))
        /\ (run[q].st = "waiting" => GoesOn(q)) /\ TasksKept(r)
    BY <2>1, BooleanGuards DEF GoesOn, TasksKept
  <2>3. Restarting(r) => Restarting(r)'
    <3>1. handler[h].op # "restart"
      BY <1>6 DEF TerminatePops, DeletePops, Handles
    <3> QED
      BY <1>2, <3>1 DEF Restarting
  <2> QED
    BY <1>1, <1>3, <2>1, <2>2, <2>3, PopKept DEF Up
<1>7. CASE RestartPops(h)
  <2>1. Pop(q, Streamed(q)) /\ UNCHANGED <<run, task, bound, used>>
    BY <1>0, <1>7 DEF RestartPops
  <2>2. Streamed(q) \in BOOLEAN /\ TasksKept(r)
    BY <2>1, BooleanGuards DEF TasksKept
  <2>3. handler[h].op = "restart" /\ handler[h].at = "read" /\ handler'[h].at = "popped"
        /\ handler'[h].run = q /\ handler'[h].op = "restart"
    BY <1>0, <1>7 DEF RestartPops, Handles, HandlerGoes, TypeInv, HandlersTyped, Handler
  <2>4. Restarting(q)' /\ (Restarting(r) => Restarting(r)')
    <3> QED
      BY <1>2, <2>3 DEF Restarting
  <2> QED
    BY <1>1, <1>3, <2>1, <2>2, <2>4, PopKept DEF Up
<1>8. CASE RestartStreams(h) \/ Retry(h)
  <2>1. /\ SetLive(q, x) /\ Stream(q, x) /\ x \in Real /\ x \in Runner
        /\ handler[h].op \in {"restart", "retry"} /\ UNCHANGED <<used, cut>>
    BY <1>0, <1>1, <1>8 DEF RestartStreams, Retry, Handles, TypeInv, HandlersTyped, Real
  <2>2. /\ run'[q].snap = run[q].snap /\ run'[q].st # "none"
        /\ \A p \in Runs \ {q} : run'[p] = run[p]
    BY <1>0, <1>1, <1>8, StatusKeeps DEF RestartStreams, Retry
  <2>3. CASE r # q
    <3>1. TasksKept(r) /\ BoundKept(r)
      BY <1>1, <2>1, <2>3, BeginKeeps, BindKeeps DEF Stream
    <3>2. live'[r] = live[r]
      BY <2>1, <2>3 DEF SetLive, TypeInv, TypeOK
    <3> QED
      BY <1>1, <1>3, <1>4, <2>1, <2>2, <2>3, <3>1, <3>2, KeptElsewhere DEF Up
  <2>4. CASE r = q
    <3>1. Kept(q) /\ HandlersKept(q)
      BY <1>1, <1>3
    <3>2. Sound(q)' => Sound(q)
      BY <2>1, <2>2 DEF Sound
    <3>3. Sound(q) => OwnedBy(q, Own(run[q].snap))
      BY <3>1 DEF Kept
    <3>4. Sound(q) => x = Own(run[q].snap)
      BY <1>0, <2>1, <3>3 DEF OwnedBy
    <3>5. used'[q] \subseteq used[q] \cup {x.v}
      BY <2>1
    <3>6. Kept(q)'
      BY <1>1, <2>1, <2>2, <3>1, <3>2, <3>4, <3>5, GivenKept
    <3> QED
      BY <2>4, <3>6
  <2> QED
    BY <2>3, <2>4
<1>9. CASE RestartFails(h)
  <2>1. /\ UNCHANGED <<run, live, task, bound, used>>
        /\ cut' = [cut EXCEPT ![q] = TRUE]
    BY <1>0, <1>9 DEF RestartFails
  <2>2. TasksKept(r) /\ BoundKept(r)
    BY <1>1, <2>1 DEF TasksKept, BoundKept, Kept
  <2>3. CASE r # q
    BY <1>1, <1>3, <1>4, <2>1, <2>2, <2>3, KeptElsewhere DEF Up, TypeInv, TypeOK
  <2>4. CASE r = q
    BY <1>1, <2>1, <2>2, <2>4 DEF Kept, Sound, BoundKept, TypeInv, TypeOK
  <2> QED
    BY <2>3, <2>4
<1> QED
  BY <1>5, <1>6, <1>7, <1>8, <1>9 DEF Handle

LEMMA ReadsKept ==
  ASSUME TypeInv, NEW h \in Operators, NEW op \in RunOp, NEW q \in Runs, HandlerReads(h, op, q),
         NEW r \in Runs, Kept(r)
  PROVE  Kept(r)'
<1>1. PICK x \in HandlerRunners(op, q) :
        handler' = [handler EXCEPT ![h] = [at |-> "read", op |-> op, run |-> q, runner |-> x]]
  BY DEF HandlerReads
<1>2. /\ handler[h].at = "off" /\ boot' = boot /\ run[q].st # "none"
      /\ UNCHANGED <<todo, run, live, task, used, cut, bound>>
  <2>1. run[q].st # "none"
    BY DEF HandlerReads, Admits, RunOp
  <2> QED
    BY <2>1 DEF HandlerReads, process, execution
<1>3. TasksKept(r) /\ BoundKept(r)
  BY <1>2 DEF TasksKept, BoundKept, Kept
<1>4. Restarting(r) => Restarting(r)'
  BY <1>1, <1>2 DEF Restarting, TypeInv, HandlersTyped
<1>5. CASE r # q
  <2>1. HandlersKept(r)
    BY <1>1, <1>5 DEF HandlersKept, TypeInv, HandlersTyped
  <2> QED
    BY <1>2, <1>3, <1>4, <2>1, KeptElsewhere DEF Up
<1>6. CASE r = q
  <2> DEFINE own == Own(run[r].snap)
  <2>1. ASSUME Sound(r), OwnedBy(r, own) PROVE OwnedBy(r, own)'
    <3>1. op \in {"restart", "retry"} => x = own
      BY <1>6, <2>1, RecoveryBuilt DEF HandlerRunners, Sound, TypeInv
    <3>2. own' = own
      BY <1>2 DEF Own
    <3> HIDE DEF own
    <3> QED
      BY <1>1, <1>2, <2>1, <3>1, <3>2 DEF OwnedBy, TypeInv, HandlersTyped
  <2>2. HasRunner(r) => HasRunner(r)'
    BY <1>2, <1>4 DEF HasRunner, Streamed, Up
  <2>3. Sound(r)' => Sound(r)
    BY <1>2 DEF Sound
  <2> QED
    BY <1>2, <1>3, <1>6, <2>1, <2>2, <2>3, KeptHere DEF BoundKept
<1> QED
  BY <1>5, <1>6

LEMMA RecoverKept ==
  ASSUME TypeInv, NEW q \in Runs, Recover(q), NEW r \in Runs, Kept(r)
  PROVE  Kept(r)'
<1>1. PICK x \in RecoveryRunners(q) :
        /\ \/ RecoverFails(q, x)
           \/ RecoverWaiting(q, x)
           \/ RecoverRunning(q, x)
        /\ \/ UNCHANGED used
           \/ x # None /\ used' = [used EXCEPT ![q] = @ \cup {x.v}]
  BY DEF Recover
<1>2. /\ todo[q] # "none" /\ todo' = [todo EXCEPT ![q] = "none"]
      /\ boot' = boot /\ UNCHANGED <<handler, cut>>
  BY DEF Recover, requests
<1>3. x \in Runner /\ (x # None => x \in Real) /\ (Sound(q) => x = Own(run[q].snap) /\ x # None)
  <2>1. x \in Built
    BY RecoveryBuilt DEF TypeInv
  <2>2. Sound(q) => x = Own(run[q].snap) /\ run[q].snap \in Version
    BY RecoveryBuilt DEF TypeInv, Sound
  <2> QED
    BY <2>1, <2>2, OwnBuilt, NoneBuilt DEF Built, Real
<1>4. /\ HandlersKept(r) /\ (Restarting(r) => Restarting(r)')
      /\ used'[q] \subseteq used[q] \cup {x.v}
  BY <1>1, <1>2 DEF HandlersKept, Restarting, TypeInv, TypeOK
<1>5. CASE r # q
  <2>1. /\ run'[r] = run[r] /\ live'[r] = live[r] /\ todo'[r] = todo[r] /\ used'[r] = used[r]
        /\ TasksKept(r) /\ BoundKept(r)
    <3>1. used'[r] = used[r] /\ todo'[r] = todo[r]
      BY <1>1, <1>2, <1>5 DEF TypeInv, TypeOK
    <3>2. CASE RecoverFails(q, x)
      BY <1>5, <3>1, <3>2 DEF RecoverFails, SetStatus, TasksKept, BoundKept, Kept, TypeInv, TypeOK
    <3>3. CASE RecoverWaiting(q, x)
      BY <1>5, <3>1, <3>3 DEF RecoverWaiting, SetLive, TasksKept, BoundKept, Kept, TypeInv, TypeOK
    <3>4. CASE RecoverRunning(q, x)
      <4>1. TasksKept(r) /\ BoundKept(r)
        BY <1>3, <1>5, <3>4, BeginKeeps, BindKeeps DEF RecoverRunning, Stream
      <4> QED
        BY <1>5, <3>1, <3>4, <4>1 DEF RecoverRunning, SetLive, TypeInv, TypeOK
    <3> QED
      BY <1>1, <3>2, <3>3, <3>4
  <2> QED
    BY <1>2, <1>4, <2>1, KeptElsewhere DEF Up
<1>6. CASE r = q
  <2> DEFINE own == Own(run[r].snap)
  <2>1. run[r].st # "none"
    BY <1>2, <1>6 DEF Kept, Unused
  <2>2. CASE RecoverFails(q, x) \/ RecoverWaiting(q, x)
    <3>1. /\ run'[r].snap = run[r].snap
          /\ (run'[r] = run[r] /\ live'[r] = x /\ x # None)
             \/ (run'[r].st = "failed" /\ live'[r] = live[r])
      <4>1. CASE RecoverFails(q, x)
        BY <1>6, <4>1, StatusKeeps DEF RecoverFails
      <4>2. CASE RecoverWaiting(q, x)
        BY <1>6, <4>2 DEF RecoverWaiting, SetLive, TypeInv, TypeOK
      <4> QED
        BY <2>2, <4>1, <4>2
    <3>2. TasksKept(r) /\ BoundKept(r)
      BY <2>2 DEF RecoverFails, RecoverWaiting, TasksKept, BoundKept, Kept
    <3>3. Sound(r)' => Sound(r)
      BY <1>2, <3>1 DEF Sound
    <3>4. ASSUME Sound(r), OwnedBy(r, own) PROVE OwnedBy(r, own)'
      <4>1. own' = own /\ x = own
        BY <1>3, <1>6, <3>1, <3>4 DEF Own
      <4> HIDE DEF own
      <4>2. used'[r] \subseteq {own.v} /\ live'[r] \in {None, own}
        BY <1>4, <1>6, <3>1, <3>4, <4>1 DEF OwnedBy
      <4> QED
        BY <1>4, <3>2, <3>4, <4>1, <4>2 DEF OwnedBy, TasksKept, HandlersKept, BoundKept
    <3>5. HasRunner(r) => HasRunner(r)'
      BY <3>1, <3>2, StreamedKept DEF HasRunner
    <3> QED
      BY <2>1, <3>1, <3>2, <3>3, <3>4, <3>5, KeptHere DEF BoundKept
  <2>3. CASE RecoverRunning(q, x)
    <3>1. x \in Real /\ Stream(q, x) /\ SetLive(q, x) /\ run' = run
      BY <1>3, <2>3 DEF RecoverRunning
    <3>2. Sound(q)' => Sound(q) /\ x = Own(run[q].snap)
      BY <1>2, <1>3, <3>1 DEF Sound
    <3>3. Kept(q) /\ HandlersKept(q)
      BY <1>4, <1>6
    <3> QED
      BY <1>4, <1>6, <2>1, <3>1, <3>2, <3>3, GivenKept
  <2> QED
    BY <1>1, <2>2, <2>3
<1> QED
  BY <1>5, <1>6

LEMMA RestartKept ==
  ASSUME TypeInv, Crash \/ Load \/ LoadFails, NEW r \in Runs, Kept(r)
  PROVE  Kept(r)'
<1>1. CASE Crash
  <2>1. TasksKept(r) /\ HandlersKept(r) /\ BoundKept(r) /\ ~Streamed(r)' /\ ~Up'
    BY <1>1, DefinitionsAssumption
       DEF Crash, TasksKept, HandlersKept, BoundKept, Streamed, Up, Idle, Gone, Unbound
  <2>2. live'[r] = None /\ todo'[r] = "none" /\ UNCHANGED <<run, used, cut>>
    BY <1>1 DEF Crash
  <2>3. Unused(r) => Unused(r)'
    BY <2>1, <2>2 DEF Unused, TasksKept, HandlersKept, BoundKept
  <2>4. OwnedBy(r, Own(run[r].snap)) => OwnedBy(r, Own(run[r].snap))'
    <3> DEFINE own == Own(run[r].snap)
    <3>1. own' = own
      BY <2>2 DEF Own
    <3> HIDE DEF own
    <3>2. OwnedBy(r, own) => OwnedBy(r, own)'
      BY <2>1, <2>2, <3>1, OwnedKept
    <3> QED
      BY <3>2 DEF own
  <2>5. HasRunner(r)'
    BY <2>1 DEF HasRunner
  <2> QED
    BY <2>1, <2>2, <2>3, <2>4, <2>5 DEF Kept, Sound, BoundKept
<1>2. CASE Load \/ LoadFails
  <2>1. todo'[r] = Listed(r) /\ UNCHANGED <<run, live, task, handler, bound, used, cut>>
    BY <1>2 DEF Load, LoadFails, requests, execution
  <2>2. Unused(r) /\ run[r].st = "none" => Unused(r)'
    BY <2>1 DEF Unused, Listed
  <2>3. OwnedBy(r, Own(run[r].snap)) => OwnedBy(r, Own(run[r].snap))'
    BY <2>1 DEF OwnedBy, Own
  <2>4. HasRunner(r) => HasRunner(r)'
    BY <2>1 DEF HasRunner, Streamed, Listed
  <2> QED
    BY <2>1, <2>2, <2>3, <2>4 DEF Kept, Sound
<1> QED
  BY <1>1, <1>2

KeptInv == \A r \in Runs : Kept(r)

LEMMA NextKept ==
  ASSUME TypeInv, ~Early, KeptInv, [Next]_vars
  PROVE  KeptInv'
<1> SUFFICES ASSUME NEW r \in Runs PROVE Kept(r)'
  BY DEF KeptInv
<1>1. Kept(r)
  BY DEF KeptInv
<1>2. CASE UNCHANGED vars
  BY <1>1, <1>2, KeptElsewhere
     DEF vars, Up, Restarting, TasksKept, HandlersKept, BoundKept, Kept
<1>3. CASE Execute
  BY <1>1, <1>3, StartKept, DecideKept DEF Execute, CronJob
<1>4. ASSUME NEW t \in Tasks, Proceed(t) PROVE Kept(r)'
  <2>1. CASE Leave(t)
    <3>1. task[t].run \in Runs
      BY <2>1 DEF Leave, TypeInv, TasksTyped
    <3> QED
      BY <1>1, <2>1, <3>1, LeaveKept DEF KeptInv
  <2> QED
    BY <1>1, <1>4, <2>1, TaskKept DEF Proceed
<1>5. ASSUME NEW h \in Operators, Handle(h) PROVE Kept(r)'
  BY <1>5, HandleKept DEF KeptInv
<1> QED
  BY <1>1, <1>2, <1>3, <1>4, <1>5, EditKept, ReadsKept, RestartKept, RecoverKept DEF Next

LEMMA AlwaysKept ==
  ASSUME ~Early
  PROVE  Spec => []KeptInv
<1>1. Init => KeptInv
  BY InitKept DEF KeptInv
<1>2. TypeInv /\ KeptInv /\ [Next]_vars => KeptInv'
  BY NextKept
<1> QED
  BY <1>1, <1>2, AlwaysTyped, PTL DEF Spec

(* If decisions wait for recovery, every step of a run whose runner can be   *)
(* had is executed by a runner built from its snapshot ("In-flight runs are  *)
(* not affected", update_workflow), through edits, restarts, recovery, and   *)
(* the pops of terminate, delete, restart-from-step and ended streams, for   *)
(* any number of them at the same time.                                      *)
THEOREM DefinitionKept ==
  ASSUME ~Early
  PROVE  Spec => []KeepsItsDefinition
<1>1. KeptInv => KeepsItsDefinition
  BY DEF KeptInv, Kept, OwnedBy, Own, KeepsItsDefinition
<1> QED
  BY <1>1, AlwaysKept, PTL

(* Under the same condition such a run has its runner in live_runners when   *)
(* it waits for a decision (_runner_for_run, _recover_run): no decision is   *)
(* claimed and then answered with a 404, and none falls back to the          *)
(* registry.                                                                 *)
THEOREM WaitingRunsHaveRunners ==
  ASSUME ~Early
  PROVE  Spec => []WaitingRunHasRunner
<1>1. KeptInv => WaitingRunHasRunner
  BY DEF KeptInv, Kept, HasRunner, WaitingRunHasRunner
<1> QED
  BY <1>1, AlwaysKept, PTL

(***************************************************************************)
(* What an edit leaves behind.  Between its write and its last step an     *)
(* edit holds a version it has read, the registry is behind and the job is *)
(* gone; the invariant follows it.  It needs that edits do not overlap.    *)
(***************************************************************************)
Settled == \A e \in Editors : editor[e].st \in {"off", "write"}

Current ==
  boot = "up" /\ Settled =>
    /\ stored \notin Broken => registry = stored
    /\ Buildable(stored) => cron = JobOf(stored)

EditInv ==
  /\ \A e, f \in Editors : editor[e].st # "off" /\ editor[f].st # "off" => e = f
  /\ ~Up => NobodyEdits
  /\ \A e \in Editors : editor[e].st = "install" => editor[e].v = stored /\ cron = 0
  /\ Current

LEMMA InitEdit == Init => EditInv
<1> SUFFICES ASSUME Init PROVE EditInv
  OBVIOUS
<1>1. boot = "load" /\ \A e \in Editors : editor[e].st = "off"
  BY DEF Init, Away
<1> QED
  BY <1>1 DEF EditInv, Current, NobodyEdits, Up

LEMMA EditKeepsCurrent ==
  ASSUME TypeInv, ~Overlap, EditInv, Edit
  PROVE  EditInv'
<1>1. PICK e \in Editors :
        \/ \E op \in EditOps : EditCheck(e, op)
        \/ EditStore(e) \/ EditDelete(e) \/ EditChatDelete(e) \/ Refresh(e) \/ Install(e)
  BY DEF Edit
<1>2. boot' = boot /\ Up /\ \A f \in Editors \ {e} : editor[f].st = "off" /\ editor'[f] = editor[f]
  <2>1. CASE \E op \in EditOps : EditCheck(e, op)
    BY <2>1 DEF EditCheck, NobodyEdits, process, TypeInv, TypeOK
  <2>2. CASE editor[e].st # "off"
    <3>1. Up /\ \A f \in Editors \ {e} : editor[f].st = "off"
      BY <2>2 DEF EditInv, NobodyEdits
    <3>2. boot' = boot /\ \A f \in Editors \ {e} : editor'[f] = editor[f]
      BY <1>1 DEF EditCheck, EditStore, EditDelete, EditChatDelete, Refresh, Install, process,
                  TypeInv, TypeOK
    <3> QED
      BY <3>1, <3>2
  <2> QED
    BY <1>1, <2>1, <2>2 DEF EditStore, EditDelete, EditChatDelete, Refresh, Install, Writes
<1>3. /\ \A f, g \in Editors : editor'[f].st # "off" /\ editor'[g].st # "off" => f = g
      /\ Up'
  BY <1>2 DEF Up
<1>4. Settled' <=> editor'[e].st \in {"off", "write"}
  BY <1>2 DEF Settled
<1>5. SUFFICES /\ editor'[e].st = "install" => editor'[e].v = stored' /\ cron' = 0
               /\ Current'
  BY <1>2, <1>3 DEF EditInv
<1>6. CASE \E op \in EditOps : EditCheck(e, op)
  <2>1. editor[e].st = "off" /\ editor'[e].st = "write"
        /\ UNCHANGED <<stored, registry, cron>>
    BY <1>6 DEF EditCheck, TypeInv, TypeOK
  <2>2. Settled
    BY <1>2, <2>1 DEF Settled
  <2> QED
    BY <1>2, <2>1, <2>2 DEF EditInv, Current
<1>7. CASE EditStore(e) \/ EditDelete(e)
  <2>1. editor'[e].st = "refresh"
    BY <1>7 DEF EditStore, EditDelete, TypeInv, TypeOK, Editor
  <2> QED
    BY <1>4, <2>1 DEF Current
<1>8. CASE EditChatDelete(e)
  <2>1. editor'[e].st = "off" /\ stored' = 0 /\ registry' = 0
    BY <1>8 DEF EditChatDelete, TypeInv, TypeOK, Away
  <2> QED
    BY <2>1 DEF Current, Buildable
<1>9. CASE Refresh(e)
  <2>1. /\ editor'[e].st = "install" /\ editor'[e].v = stored
        /\ cron' = 0 /\ stored' = stored
    BY <1>9 DEF Refresh, TypeInv, TypeOK, Editor
  <2> QED
    BY <1>4, <2>1 DEF Current
<1>10. CASE Install(e)
  <2>1. /\ editor[e].v = stored /\ cron = 0 /\ stored' = stored /\ editor'[e].st = "off"
        /\ registry' = Installed(stored)
        /\ cron' = IF Buildable(stored) /\ stored \in Scheduled THEN stored ELSE 0
    BY <1>10 DEF Install, EditInv, TypeInv, TypeOK, Away
  <2> QED
    BY <2>1 DEF Current, Installed, Buildable, JobOf
<1> QED
  BY <1>1, <1>6, <1>7, <1>8, <1>9, <1>10

LEMMA RestartKeepsCurrent ==
  ASSUME TypeInv, EditInv, Crash \/ Load \/ LoadFails
  PROVE  EditInv'
<1>1. CASE Crash
  <2>1. boot' = "load" /\ \A e \in Editors : editor'[e].st = "off"
    BY <1>1 DEF Crash, Away
  <2> QED
    BY <2>1 DEF EditInv, Current, NobodyEdits, Up
<1>2. CASE Load \/ LoadFails
  <2>1. /\ editor' = editor /\ stored' = stored /\ boot' \in {"up", "bare"}
        /\ \A e \in Editors : editor[e].st = "off"
    BY <1>2 DEF Load, LoadFails, EditInv, NobodyEdits, Up
  <2>2. Current'
    BY <1>2, <2>1 DEF Load, LoadFails, Current, Buildable, JobOf
  <2> QED
    BY <2>1, <2>2 DEF EditInv, NobodyEdits, Up
<1> QED
  BY <1>1, <1>2

LEMMA NextEdit ==
  ASSUME TypeInv, ~Overlap, EditInv, [Next]_vars
  PROVE  EditInv'
<1>1. CASE \/ Execute \/ UNCHANGED vars \/ \E r \in Runs : Recover(r)
           \/ \E t \in Tasks : Proceed(t)
           \/ \E h \in Operators : Handle(h)
           \/ \E h \in Operators, op \in RunOp, r \in Runs : HandlerReads(h, op, r)
  <2>1. UNCHANGED <<stored, registry, cron, editor, boot>>
    <3>1. CASE Execute
      BY <3>1 DEF Execute, StartOwn, CronJob, StartShared, DecideRoute, DecideCallback, Decide,
                  definition, process
    <3>2. CASE \E t \in Tasks : Proceed(t)
      BY <3>2 DEF Proceed, Step, Pause, End, Leave, definition, process
    <3>3. CASE \E h \in Operators : Handle(h)
      BY <3>3 DEF Handle, TerminateStores, TerminatePops, DeletePops, DeleteStores,
                  RestartPops, RestartStores, RestartStreams, RestartFails, Retry,
                  definition, process
    <3>4. CASE \E h \in Operators, op \in RunOp, r \in Runs : HandlerReads(h, op, r)
      BY <3>4 DEF HandlerReads, definition, process
    <3>5. CASE UNCHANGED vars \/ \E r \in Runs : Recover(r)
      BY <3>5 DEF Recover, vars, definition
    <3> QED
      BY <1>1, <3>1, <3>2, <3>3, <3>4, <3>5
  <2> QED
    BY <2>1 DEF EditInv, Current, Settled, NobodyEdits, Up
<1> QED
  BY <1>1, EditKeepsCurrent, RestartKeepsCurrent DEF Next

LEMMA AlwaysEdited ==
  ASSUME ~Overlap
  PROVE  Spec => []EditInv
<1>1. Init => EditInv
  BY InitEdit
<1>2. TypeInv /\ EditInv /\ [Next]_vars => EditInv'
  BY NextEdit
<1> QED
  BY <1>1, <1>2, AlwaysTyped, PTL DEF Spec

(* If edits do not overlap, the registry's runner is that of the stored      *)
(* definition whenever no edit is under way (create, update and delete of    *)
(* /workflows, the chat agent's tools, refresh_runner).                      *)
THEOREM EditsTakeEffect ==
  ASSUME ~Overlap
  PROVE  Spec => []RegistryIsCurrent
<1>1. EditInv => RegistryIsCurrent
  BY DEF EditInv, Current, Settled, RegistryIsCurrent, NobodyEdits
<1> QED
  BY <1>1, AlwaysEdited, PTL

(* Under the same condition the scheduled job is that of the stored          *)
(* definition: an edit neither leaves the job of an older version behind nor *)
(* loses the new one, and a restart schedules it again.                      *)
THEOREM EditsReschedule ==
  ASSUME ~Overlap
  PROVE  Spec => []ScheduleIsCurrent
<1>1. EditInv => ScheduleIsCurrent
  BY DEF EditInv, Current, Settled, ScheduleIsCurrent, NobodyEdits
<1> QED
  BY <1>1, AlwaysEdited, PTL

=============================================================================
