-------------------------- MODULE AgentStep_proofs --------------------------
(***************************************************************************)
(* Theorems about AgentStep for every number of visits, polls, faults,     *)
(* restarts and retries.                                                   *)
(***************************************************************************)
EXTENDS AgentStep, TLAPS

USE DEF release, course, bounds, history

(***************************************************************************)
(* Type correctness.  That made holds visits only needs three facts beyond *)
(* the types: an agent that is not idle has a task, a coroutine belongs to *)
(* a run that executes the step, and such a run, or a cleanup, comes after *)
(* a first visit.                                                          *)
(***************************************************************************)
TypeInv ==
  /\ TypeOK
  /\ agent.st # "idle" => agent.task \in Visit
  /\ run # "between" => visit \in Visit
  /\ node.pc # "off" => run = "exec"
  /\ clean # "idle" => visit \in Visit

LEMMA OffTyped == Off \in Node /\ Off.pc = "off"
BY AgentStepAssumption DEF Off, Node, Pc, Final, AgentStatus

LEMMA NewAgentTyped == NewAgent \in Agent /\ NewAgent.st = "idle"
BY AgentStepAssumption DEF NewAgent, Agent, Final, AgentStatus

(* A coroutine that enters the step, and one that goes on.                   *)
LEMMA EnterTyped == [Off EXCEPT !.pc = "lookup"] \in Node
BY OffTyped DEF Node, Pc

LEMMA GotoTyped ==
  ASSUME node \in Node, NEW pc \in Pc, Goto(pc)
  PROVE  node' \in Node /\ node'.pc = pc
BY DEF Goto, Node

LEMMA UninstallTyped ==
  ASSUME Uninstall
  PROVE  /\ pod' = "none" /\ helm' = "deployed"
         /\ agent' \in Agent /\ agent'.st = "idle"
BY NewAgentTyped DEF Uninstall

LEMMA AcceptTyped ==
  ASSUME TypeInv, visit \in Visit, Accept
  PROVE  /\ agent' \in Agent /\ agent'.task \in Visit
         /\ starts' \in Nat
BY AgentStepAssumption DEF TypeInv, TypeOK, Accept, Agent, Final, Visit, AgentStatus

LEMMA FaultTyped ==
  ASSUME TypeInv, Fault
  PROVE  faults' \in 0..MaxFault
BY AgentStepAssumption DEF TypeInv, TypeOK, Fault

LEMMA FailTyped ==
  ASSUME Fail
  PROVE  /\ node' \in Node /\ node'.pc = "off"
         /\ run' = "ended" /\ clean' \in {"pods", clean}
         /\ result' \in [end : {"none", "ok", "failed"}, val : Final]
BY OffTyped, AgentStepAssumption DEF Fail, Final

(* What Store leaves in the task document, and Seen in the coroutine.        *)
LEMMA StoreTyped ==
  ASSUME TypeInv, Store
  PROVE  repo' \in Task
BY DEF TypeInv, TypeOK, Store, Task, Node

LEMMA SeenTyped ==
  ASSUME TypeInv
  PROVE  /\ Seen \in Final
         /\ Absorbed \in Node
         /\ Absorbed.raw = Seen
<1>1. /\ node \in [pc : Pc, raw : Final, loops : 0..(MaxLoops - 1),
                    st : AgentStatus, fin : Final]
      /\ node.raw \in Final /\ node.fin \in Final
  BY DEF TypeInv, TypeOK, Node
<1>2. Seen \in Final
  BY <1>1 DEF Seen
<1>3. 0 \in Final /\ "idle" \in AgentStatus
  BY AgentStepAssumption DEF Final, AgentStatus
<1>4. Absorbed \in Node /\ Absorbed.raw = Seen
  <2> HIDE DEF Seen
  <2> QED
    BY <1>1, <1>2, <1>3 DEF Absorbed, Node
<1> QED
  BY <1>2, <1>4

LEMMA AbsorbedTyped ==
  ASSUME TypeInv, NEW pc \in Pc, NEW raw \in Final
  PROVE  [Absorbed EXCEPT !.pc = pc, !.raw = raw] \in Node
BY SeenTyped DEF Node

(***************************************************************************)
(* The agent and its pod.                                                  *)
(***************************************************************************)
LEMMA AgentTypeInv ==
  ASSUME TypeInv, AgentWork \/ PodRestart \/ PodReady
  PROVE  TypeInv'
<1>1. CASE AgentFinal
  <2>1. agent.task \in Visit
    BY <1>1 DEF AgentFinal, TypeInv
  <2>2. agent' \in Agent /\ agent'.task = agent.task
    BY <1>1, <2>1 DEF AgentFinal, TypeInv, TypeOK, Agent, Visit, Final, AgentStatus
  <2> QED
    BY <1>1, <2>1, <2>2 DEF AgentFinal, TypeInv, TypeOK
<1>2. CASE AgentDone
  <2>1. agent' \in Agent /\ agent'.task = agent.task
    BY <1>2 DEF AgentDone, TypeInv, TypeOK, Agent, AgentStatus
  <2> QED
    BY <1>2, <2>1 DEF AgentDone, TypeInv, TypeOK
<1>3. CASE AgentFails
  <2>1. agent' \in Agent /\ agent'.task = agent.task
    BY <1>3 DEF AgentFails, TypeInv, TypeOK, Agent, AgentStatus
  <2> QED
    BY <1>3, <2>1 DEF AgentFails, TypeInv, TypeOK
<1>4. CASE PodRestart
  <2>1. faults' \in 0..MaxFault
    BY <1>4, AgentStepAssumption DEF PodRestart, TypeInv, TypeOK
  <2> QED
    BY <1>4, <2>1, NewAgentTyped DEF PodRestart, TypeInv, TypeOK
<1>5. CASE PodReady
  BY <1>5 DEF PodReady, TypeInv, TypeOK
<1> QED
  BY <1>1, <1>2, <1>3, <1>4, <1>5 DEF AgentWork

(***************************************************************************)
(* execute_agent_step up to the poll loop.                                 *)
(***************************************************************************)
DeployStep ==
  \/ Lookup \/ Health \/ Probe \/ Find \/ Spawn \/ HelmTimesOut \/ Deployed \/ DeployFails
  \/ PostStart \/ StartFails \/ SaveTask

LEMMA DeployTypeInv ==
  ASSUME TypeInv, DeployStep
  PROVE  TypeInv'
<1>1. node \in Node /\ visit \in 0..Visits /\ repo \in Task
  BY DEF TypeInv, TypeOK
<1>2. /\ At("lookup") \/ At("health") \/ At("probe") \/ At("find") \/ At("spawn")
         \/ At("deploy") \/ At("start") \/ At("reuse") \/ At("save")
      /\ run = "exec" /\ visit \in Visit
  BY DEF DeployStep, Lookup, Health, Probe, Find, Spawn, HelmTimesOut, Deployed, DeployFails,
         PostStart, StartFails, SaveTask, At, TypeInv
<1>3. CASE Lookup
  <2>1. node' \in Node
    BY <1>1, <1>3, GotoTyped DEF Lookup, Pc
  <2> QED
    BY <1>2, <1>3, <2>1 DEF Lookup, TypeInv, TypeOK
<1>4. CASE Health
  <2>1. node' \in Node
    BY <1>1, <1>4, GotoTyped DEF Health, Pc
  <2>2. faults' \in 0..MaxFault
    BY <1>4, FaultTyped DEF Health, TypeInv, TypeOK
  <2> QED
    BY <1>2, <1>4, <2>1, <2>2 DEF Health, TypeInv, TypeOK
<1>5. CASE Probe
  <2>1. node' \in Node
    BY <1>1, <1>5, GotoTyped DEF Probe, Pc
  <2>2. faults' \in 0..MaxFault
    BY <1>5, FaultTyped DEF Probe, TypeInv, TypeOK
  <2> QED
    BY <1>2, <1>5, <2>1, <2>2 DEF Probe, TypeInv, TypeOK
<1>6. CASE Find
  <2>1. node' \in Node
    BY <1>1, <1>6, GotoTyped DEF Find, Pc
  <2>2. faults' \in 0..MaxFault
    BY <1>6, FaultTyped DEF Find, TypeInv, TypeOK
  <2>3. /\ pod' \in {"none", "starting", "up"} /\ agent' \in Agent
        /\ helm' \in {"pending", "deployed", "failed"}
        /\ agent' = agent \/ agent'.st = "idle"
    BY <1>6, UninstallTyped DEF Find, TypeInv, TypeOK
  <2> QED
    BY <1>2, <1>6, <2>1, <2>2, <2>3 DEF Find, TypeInv, TypeOK
<1>7. CASE Spawn
  <2>1. node' \in Node
    BY <1>1, <1>7, GotoTyped DEF Spawn, Pc
  <2> QED
    BY <1>2, <1>7, <2>1 DEF Spawn, TypeInv, TypeOK
<1>8. CASE Deployed
  <2>1. node' \in Node
    BY <1>1, <1>8, GotoTyped DEF Deployed, Pc
  <2> QED
    BY <1>2, <1>8, <2>1 DEF Deployed, TypeInv, TypeOK
<1>9. CASE DeployFails
  <2>1. faults' \in 0..MaxFault
    BY <1>9, FaultTyped DEF DeployFails, TypeInv, TypeOK
  <2>2. /\ pod' \in {"none", "starting", "up"} /\ agent' \in Agent
        /\ helm' \in {"pending", "deployed", "failed"}
        /\ agent' = agent \/ agent'.st = "idle"
    BY <1>9, UninstallTyped DEF DeployFails, TypeInv, TypeOK
  <2>3. Fail
    BY <1>9 DEF DeployFails
  <2> QED
    BY <1>2, <1>9, <2>1, <2>2, <2>3, FailTyped DEF DeployFails, TypeInv, TypeOK
<1>10. CASE PostStart
  <2>1. node' \in Node
    BY <1>1, <1>10, GotoTyped DEF PostStart, Pc
  <2>2. Accept
    BY <1>10 DEF PostStart
  <2> QED
    BY <1>2, <1>10, <2>1, <2>2, AcceptTyped DEF PostStart, TypeInv, TypeOK
<1>11. CASE StartFails
  <2>1. faults' \in 0..MaxFault
    BY <1>11, FaultTyped DEF StartFails, TypeInv, TypeOK
  <2>2. Fail
    BY <1>11 DEF StartFails
  <2>3. /\ pod' \in {"none", "starting", "up"} /\ agent' \in Agent /\ starts' \in Nat
        /\ helm' \in {"pending", "deployed", "failed"}
        /\ agent' = agent \/ agent'.st = "idle" \/ agent'.task \in Visit
    <3>1. CASE At("start")
      BY <1>11, <3>1, UninstallTyped DEF StartFails, TypeInv, TypeOK
    <3>2. CASE ~At("start")
      BY <1>2, <1>11, <3>2, AcceptTyped DEF StartFails, TypeInv, TypeOK
    <3> QED
      BY <3>1, <3>2
  <2> QED
    BY <1>2, <1>11, <2>1, <2>2, <2>3, FailTyped DEF StartFails, TypeInv, TypeOK
<1>12. CASE SaveTask
  <2>1. node' \in Node
    BY <1>1, <1>12, GotoTyped DEF SaveTask, Pc
  <2>2. repo' \in Task
    BY <1>1, <1>12 DEF SaveTask, Task
  <2> QED
    BY <1>2, <1>12, <2>1, <2>2 DEF SaveTask, TypeInv, TypeOK
<1>13. CASE HelmTimesOut
  <2>1. faults' \in 0..MaxFault
    BY <1>13, FaultTyped DEF HelmTimesOut
  <2> QED
    BY <1>2, <1>13, <2>1 DEF HelmTimesOut, TypeInv, TypeOK
<1> QED
  BY <1>3, <1>4, <1>5, <1>6, <1>7, <1>8, <1>9, <1>10, <1>11, <1>12, <1>13 DEF DeployStep

(***************************************************************************)
(* The poll loop and what follows it.                                      *)
(***************************************************************************)
PollStep ==
  \/ Poll \/ PollFails \/ AbsorbWorking \/ AbsorbFinished \/ AbsorbFailed
  \/ AbsorbComplete \/ AbsorbIdle \/ Resend \/ Leave \/ Reject \/ Return

(* A lost answer takes the output out of the agent and changes nothing else. *)
LEMMA TakenTyped ==
  ASSUME TypeInv
  PROVE  /\ [agent EXCEPT !.out = 0] \in Agent
         /\ [agent EXCEPT !.out = 0].task = agent.task
         /\ [agent EXCEPT !.out = 0].st = agent.st
BY AgentStepAssumption DEF TypeInv, TypeOK, Agent, Final

(* One failed or idle poll more, below the limit.                            *)
LEMMA CountTyped ==
  ASSUME TypeInv, ~(node.loops + 1 >= MaxLoops)
  PROVE  /\ node.loops + 1 \in 0..(MaxLoops - 1)
         /\ [node EXCEPT !.loops = @ + 1] \in Node
<1>1. node \in Node /\ node.loops \in 0..(MaxLoops - 1)
  BY DEF TypeInv, TypeOK, Node
<1>2. node.loops + 1 \in 0..(MaxLoops - 1)
  BY <1>1, AgentStepAssumption
<1> QED
  BY <1>1, <1>2 DEF Node

LEMMA PollTypeInv ==
  ASSUME TypeInv, PollStep
  PROVE  TypeInv'
<1>1. node \in Node /\ visit \in 0..Visits /\ repo \in Task /\ agent \in Agent
  BY DEF TypeInv, TypeOK
<1>2. /\ At("poll") \/ At("absorb") \/ At("resend") \/ At("leave") \/ At("judge")
      /\ run = "exec" /\ visit \in Visit
  BY DEF PollStep, Poll, PollFails, AbsorbWorking, AbsorbFinished, AbsorbFailed,
         AbsorbComplete, AbsorbIdle, Resend, Leave, Reject, Return, At, TypeInv
<1>3. CASE Poll
  <2>1. Reported \in AgentStatus /\ agent.out \in Final
    BY <1>1 DEF Reported, Agent, AgentStatus
  <2>2. node' \in Node
    BY <1>1, <1>3, <2>1 DEF Poll, Node, Pc
  <2> QED
    BY <1>2, <1>3, <2>2, TakenTyped DEF Poll, TypeInv, TypeOK
<1>4. CASE PollFails
  <2>1. faults' \in 0..MaxFault
    BY <1>4, FaultTyped DEF PollFails, TypeInv, TypeOK
  <2>2. agent' \in Agent /\ agent'.task = agent.task /\ agent'.st = agent.st
    BY <1>1, <1>4, TakenTyped DEF PollFails
  <2>3. CASE node.loops + 1 >= MaxLoops
    <3>1. Fail
      BY <1>4, <2>3 DEF PollFails
    <3> QED
      BY <1>2, <1>4, <2>1, <2>2, <3>1, FailTyped
         DEF PollFails, TypeInv, TypeOK
  <2>4. CASE ~(node.loops + 1 >= MaxLoops)
    <3>1. node' \in Node
      BY <1>4, <2>4, CountTyped DEF PollFails
    <3> QED
      BY <1>2, <1>4, <2>1, <2>2, <2>4, <3>1
         DEF PollFails, TypeInv, TypeOK
  <2> QED
    BY <2>3, <2>4
<1>5. CASE AbsorbWorking
  <2>1. repo' \in Task
    BY <1>5, StoreTyped DEF AbsorbWorking
  <2>2. node' \in Node
    BY <1>5, SeenTyped DEF AbsorbWorking, Node, Pc
  <2> QED
    BY <1>2, <1>5, <2>1, <2>2 DEF AbsorbWorking, TypeInv, TypeOK
<1>6. CASE AbsorbFinished
  <2>1. repo' \in Task
    BY <1>6, StoreTyped DEF AbsorbFinished
  <2>2. (IF Seen # 0 THEN Seen ELSE repo.fin) \in Final
    BY <1>1, SeenTyped DEF Task
  <2>3. node' \in Node
    BY <1>6, <2>2, AbsorbedTyped DEF AbsorbFinished, Pc
  <2> QED
    BY <1>2, <1>6, <2>1, <2>3 DEF AbsorbFinished, TypeInv, TypeOK
<1>7. CASE AbsorbFailed
  <2>1. repo' \in Task
    BY <1>7, StoreTyped DEF AbsorbFailed
  <2>2. Fail
    BY <1>7 DEF AbsorbFailed
  <2> QED
    BY <1>2, <1>7, <2>1, <2>2, FailTyped DEF AbsorbFailed, TypeInv, TypeOK
<1>8. CASE AbsorbComplete
  <2>1. repo' \in Task
    BY <1>8, StoreTyped DEF AbsorbComplete
  <2>2. (IF repo'.fin # 0 THEN repo'.fin ELSE Seen) \in Final
    BY <2>1, SeenTyped DEF Task
  <2>3. node' \in Node
    BY <1>8, <2>2, AbsorbedTyped DEF AbsorbComplete, Pc
  <2> QED
    BY <1>2, <1>8, <2>1, <2>3 DEF AbsorbComplete, TypeInv, TypeOK
<1>9. CASE AbsorbIdle
  <2>1. repo' \in Task
    BY <1>9, StoreTyped DEF AbsorbIdle
  <2>2. CASE node.loops + 1 >= MaxLoops
    <3>1. Fail
      BY <1>9, <2>2 DEF AbsorbIdle
    <3> QED
      BY <1>2, <1>9, <2>1, <3>1, FailTyped DEF AbsorbIdle, TypeInv, TypeOK
  <2>3. CASE ~(node.loops + 1 >= MaxLoops)
    <3>1. Absorbed \in Node /\ Absorbed.loops = node.loops
      BY <1>1, SeenTyped DEF Absorbed, Node
    <3>2. node' = [Absorbed EXCEPT !.pc = "resend", !.loops = Absorbed.loops + 1]
      BY <1>9, <2>3 DEF AbsorbIdle
    <3>3. node' \in Node
      BY <2>3, <3>1, <3>2, CountTyped DEF Node, Pc
    <3> QED
      BY <1>2, <1>9, <2>1, <2>3, <3>3 DEF AbsorbIdle, TypeInv, TypeOK
  <2> QED
    BY <2>2, <2>3
<1>10. CASE Resend
  <2>1. node' \in Node
    BY <1>1, <1>10, GotoTyped DEF Resend, Pc
  <2>2. faults' \in 0..MaxFault
    BY <1>10, FaultTyped DEF Resend, TypeInv, TypeOK
  <2>3. /\ agent' \in Agent /\ starts' \in Nat
        /\ agent' = agent \/ agent'.task \in Visit
    BY <1>2, <1>10, AcceptTyped DEF Resend, TypeInv, TypeOK
  <2> QED
    BY <1>2, <1>10, <2>1, <2>2, <2>3 DEF Resend, TypeInv, TypeOK
<1>11. CASE Leave
  <2>1. node' \in Node
    BY <1>1, <1>11, GotoTyped DEF Leave, Pc
  <2>2. /\ pod' \in {"none", "starting", "up"} /\ agent' \in Agent
        /\ helm' \in {"pending", "deployed", "failed"}
        /\ pool' \in {"off", "none", "parked"}
        /\ agent' = agent \/ agent'.st = "idle"
    BY <1>11, UninstallTyped DEF Leave, TypeInv, TypeOK
  <2>3. faults' \in 0..MaxFault
    BY <1>11, FaultTyped DEF Leave, TypeInv, TypeOK
  <2> QED
    BY <1>2, <1>11, <2>1, <2>2, <2>3 DEF Leave, TypeInv, TypeOK
<1>12. CASE Reject
  <2>1. Fail
    BY <1>12 DEF Reject
  <2> QED
    BY <1>2, <1>12, <2>1, FailTyped DEF Reject, TypeInv, TypeOK
<1>13. CASE Return
  <2>1. result' \in [end : {"none", "ok", "failed"}, val : Final]
    BY <1>1, <1>13 DEF Return, Node
  <2> QED
    BY <1>2, <1>13, <2>1, OffTyped DEF Return, TypeInv, TypeOK
<1> QED
  BY <1>3, <1>4, <1>5, <1>6, <1>7, <1>8, <1>9, <1>10, <1>11, <1>12, <1>13 DEF PollStep

(***************************************************************************)
(* The run around the step.                                                *)
(***************************************************************************)
RunStep ==
  \/ Cleanup \/ Execute \/ PausedAndResumed \/ Finish \/ Withdraw \/ Delete
  \/ Retry \/ Crash \/ Recover \/ Sweep

LEMMA RunTypeInv ==
  ASSUME TypeInv, RunStep
  PROVE  TypeInv'
<1>1. CASE Cleanup
  <2>1. faults' \in 0..MaxFault
    BY <1>1, FaultTyped DEF Cleanup, CleanPods, CleanRecords, TypeInv, TypeOK
  <2>2. CASE CleanPods
    BY <2>1, <2>2, UninstallTyped DEF CleanPods, TypeInv, TypeOK
  <2>3. CASE CleanRecords
    BY <2>3 DEF CleanRecords, TypeInv, TypeOK
  <2> QED
    BY <1>1, <2>2, <2>3 DEF Cleanup
<1>2. CASE Execute
  <2>1. visit' \in Visit
    BY <1>2, AgentStepAssumption DEF Execute, TypeInv, TypeOK, Visit
  <2> QED
    BY <1>2, <2>1, EnterTyped DEF Execute, TypeInv, TypeOK, Visit
<1>3. CASE Finish
  BY <1>3 DEF Finish, TypeInv, TypeOK, Visit
<1>4. CASE Retry
  <2>1. retries' \in 0..MaxRetry
    BY <1>4, AgentStepAssumption DEF Retry, TypeInv, TypeOK
  <2> QED
    BY <1>4, <2>1, EnterTyped DEF Retry, TypeInv, TypeOK, Streams
<1>5. CASE Crash
  <2>1. crashes' \in 0..MaxCrash
    BY <1>5, AgentStepAssumption DEF Crash, TypeInv, TypeOK
  <2>2. run' # "between" => visit' \in Visit
    BY <1>5, AgentStepAssumption DEF Crash, TypeInv, TypeOK, Visit
  <2>3. result' \in [end : {"none", "ok", "failed"}, val : Final]
    BY <1>5, AgentStepAssumption DEF Crash, TypeInv, TypeOK, Final
  <2> QED
    BY <1>5, <2>1, <2>2, <2>3, OffTyped DEF Crash, TypeInv, TypeOK
<1>6. CASE Recover
  BY <1>6, EnterTyped DEF Recover, TypeInv, TypeOK, Streams
<1>7. CASE Sweep
  <2>1. faults' \in 0..MaxFault
    BY <1>7, FaultTyped DEF Sweep
  <2> QED
    BY <1>7, <2>1, UninstallTyped DEF Sweep, TypeInv, TypeOK
<1>8. CASE PausedAndResumed
  BY <1>8 DEF PausedAndResumed, TypeInv, TypeOK
<1>9. CASE Withdraw
  <2>1. faults' \in 0..MaxFault
    BY <1>9, FaultTyped DEF Withdraw
  <2>2. visit' \in Visit
    BY <1>9 DEF Withdraw, TypeInv, TypeOK, Visit
  <2> QED
    BY <1>9, <2>1, <2>2 DEF Withdraw, TypeInv, TypeOK
<1>10. CASE Delete
  BY <1>10 DEF Delete, TypeInv, TypeOK
<1> QED
  BY <1>1, <1>2, <1>3, <1>4, <1>5, <1>6, <1>7, <1>8, <1>9, <1>10 DEF RunStep

LEMMA InitTypeInv == Init => TypeInv
<1> SUFFICES ASSUME Init PROVE TypeInv
  OBVIOUS
<1>1. /\ visit \in 0..Visits /\ repo \in Task /\ made \subseteq Visit
      /\ result \in [end : {"none", "ok", "failed"}, val : Final]
      /\ faults \in 0..MaxFault /\ crashes \in 0..MaxCrash /\ retries \in 0..MaxRetry
  BY AgentStepAssumption DEF Init, Task, Final
<1>2. /\ node \in Node /\ node.pc = "off" /\ agent \in Agent /\ agent.st = "idle"
      /\ pool \in {"off", "none", "parked"}
  BY OffTyped, NewAgentTyped, AgentStepAssumption DEF Init
<1> QED
  BY <1>1, <1>2 DEF Init, TypeInv, TypeOK

LEMMA StepTypeInv == TypeInv /\ [Next]_vars => TypeInv'
<1> SUFFICES ASSUME TypeInv, [Next]_vars PROVE TypeInv'
  OBVIOUS
<1>1. CASE AgentWork \/ PodRestart \/ PodReady
  BY <1>1, AgentTypeInv
<1>2. CASE DeployStep
  BY <1>2, DeployTypeInv
<1>3. CASE PollStep
  BY <1>3, PollTypeInv
<1>4. CASE RunStep
  BY <1>4, RunTypeInv
<1>5. CASE UNCHANGED vars
  BY <1>5 DEF vars, TypeInv, TypeOK
<1> QED
  BY <1>1, <1>2, <1>3, <1>4, <1>5 DEF Next, NodeStep, DeployStep, PollStep, RunStep

LEMMA AlwaysTyped == Spec => []TypeInv
BY InitTypeInv, StepTypeInv, PTL DEF Spec

(* Every variable of the step, its pod, its agent and its records keeps its  *)
(* type: loop counts stay below AGENT_MAX_LOOPS, and an agent makes outputs  *)
(* only for visits that have been made.                                      *)
THEOREM StepTypeCorrect == Spec => []TypeOK
<1>1. TypeInv => TypeOK
  BY DEF TypeInv
<1> QED
  BY <1>1, AlwaysTyped, PTL

(***************************************************************************)
(* No stored final is overlooked.  The step is judged after Leave, so the  *)
(* invariant must hold from the poll that ends the loop on: nothing is     *)
(* stored between that poll and the judgement.                             *)
(***************************************************************************)
LastPollTaken ==
  node.pc \in {"leave", "judge"} /\ node.raw = 0 => repo.fin = 0

(* Only the polls that end the loop enter "leave"; elsewhere the coroutine   *)
(* is not there, or neither it nor the document has changed.                 *)
LEMMA LastPollAbsorbed ==
  ASSUME TypeInv, AbsorbFinished \/ AbsorbComplete
  PROVE  LastPollTaken'
<1>1. node'.raw = 0 => repo'.fin = 0
  <2>1. /\ node \in Node /\ Absorbed \in Node /\ Absorbed.raw = Seen
        /\ repo \in Task
    BY SeenTyped DEF TypeInv, TypeOK
  <2>2. CASE AbsorbFinished
    <3>1. node'.raw = (IF Seen # 0 THEN Seen ELSE repo.fin)
      BY <2>1, <2>2 DEF AbsorbFinished, Node
    <3>2. node.fin # 0 => Seen # 0
      BY DEF Seen
    <3>3. node.fin = 0 => repo' = repo
      BY <2>2 DEF AbsorbFinished, Store
    <3> QED
      BY <3>1, <3>2, <3>3
  <2>3. CASE AbsorbComplete
    <3>1. node'.raw = (IF repo'.fin # 0 THEN repo'.fin ELSE Seen)
      BY <2>1, <2>3 DEF AbsorbComplete, Node
    <3> QED
      BY <3>1
  <2> QED
    BY <2>2, <2>3
<1> QED
  BY <1>1 DEF LastPollTaken

(* Goto leaves everything but the place alone.                               *)
LEMMA GotoKeeps ==
  ASSUME node \in Node, NEW pc \in Pc, Goto(pc)
  PROVE  node'.pc = pc /\ node'.raw = node.raw
BY DEF Goto, Node

LEMMA StepLastPoll ==
  ASSUME TypeInv, LastPollTaken, [Next]_vars
  PROVE  LastPollTaken'
<1>1. node \in Node
  BY DEF TypeInv, TypeOK
<1>2. CASE AgentWork \/ PodRestart \/ PodReady
  BY <1>2 DEF AgentWork, AgentFinal, AgentDone, AgentFails, PodRestart, PodReady,
              LastPollTaken
<1>3. CASE DeployStep
  <2>1. node'.pc \notin {"leave", "judge"}
    BY <1>1, <1>3, GotoKeeps, FailTyped
       DEF DeployStep, Lookup, Health, Probe, Find, Spawn, HelmTimesOut, Deployed, DeployFails,
           PostStart, StartFails, SaveTask, At, Pc
  <2> QED
    BY <2>1 DEF LastPollTaken
<1>4. CASE AbsorbFinished \/ AbsorbComplete
  BY <1>4, LastPollAbsorbed
<1>5. CASE Leave
  <2>1. node'.raw = node.raw /\ repo' = repo
    BY <1>1, <1>5, GotoKeeps DEF Leave, Pc
  <2> QED
    BY <1>5, <2>1 DEF Leave, At, LastPollTaken
<1>6. CASE Poll \/ AbsorbWorking \/ AbsorbFailed \/ Resend \/ Reject \/ Return
  <2>1. node'.pc \notin {"leave", "judge"}
    BY <1>1, <1>6, GotoKeeps, FailTyped, SeenTyped, OffTyped
       DEF Poll, AbsorbWorking, AbsorbFailed, Resend, Reject, Return, Node, Pc
  <2> QED
    BY <2>1 DEF LastPollTaken
<1>7. CASE PollFails \/ AbsorbIdle
  <2>1. node'.pc \notin {"leave", "judge"}
    <3>1. CASE node.loops + 1 >= MaxLoops
      BY <1>7, <3>1, FailTyped DEF PollFails, AbsorbIdle
    <3>2. CASE ~(node.loops + 1 >= MaxLoops)
      BY <1>1, <1>7, <3>2, SeenTyped DEF PollFails, AbsorbIdle, At, Node, Pc
    <3> QED
      BY <3>1, <3>2
  <2> QED
    BY <2>1 DEF LastPollTaken
<1>8. CASE \/ Cleanup \/ PausedAndResumed \/ Finish \/ Withdraw \/ Delete \/ Sweep
           \/ UNCHANGED vars
  BY <1>8 DEF Cleanup, CleanPods, CleanRecords, PausedAndResumed, Finish, Withdraw, Delete,
              Sweep, vars, LastPollTaken
<1>9. CASE Execute \/ Retry \/ Crash \/ Recover
  <2>1. node'.pc \notin {"leave", "judge"}
    BY <1>9, OffTyped DEF Execute, Retry, Crash, Recover, Node
  <2> QED
    BY <2>1 DEF LastPollTaken
<1> QED
  BY <1>2, <1>3, <1>4, <1>5, <1>6, <1>7, <1>8, <1>9 DEF Next, NodeStep, DeployStep

(* FinalNotOverlooked: however many polls, restarts, resends and retries     *)
(* came before, a step that is judged on nothing has nothing stored.         *)
THEOREM StoredFinalIsUsed == Spec => []FinalNotOverlooked
<1>1. Init => LastPollTaken
  BY OffTyped DEF Init, LastPollTaken
<1>2. TypeInv /\ LastPollTaken /\ [Next]_vars => LastPollTaken'
  BY StepLastPoll
<1>3. LastPollTaken => FinalNotOverlooked
  BY DEF LastPollTaken, FinalNotOverlooked
<1> QED
  BY <1>1, <1>2, <1>3, AlwaysTyped, PTL DEF Spec

(***************************************************************************)
(* Pods do not outlive a run that stream_graph_to_pause has ended.  Such a *)
(* run ends only by entering the cleanup, and a run that has ended deploys *)
(* nothing; a cleanup that was cut off or that helm has failed is "cut",   *)
(* and a run that was deleted is no ended run any more.                    *)
(***************************************************************************)
CleanedUp ==
  run = "ended" /\ stream = "toPause" =>
    \/ clean \in {"pods", "lost", "cut"}
    \/ clean = "records" /\ pod = "none"
    \/ clean = "idle" /\ pod = "none" /\ pool # "parked"

(* A failure under stream_graph_to_pause enters the cleanup.                 *)
LEMMA FailCleansUp ==
  ASSUME Fail
  PROVE  run' = "ended" /\ (stream = "toPause" => clean' = "pods")
BY DEF Fail

LEMMA StepCleanedUp ==
  ASSUME TypeInv, CleanedUp, [Next]_vars
  PROVE  CleanedUp'
<1>1. clean \in {"idle", "pods", "records", "lost", "release", "cut"}
  BY DEF TypeInv, TypeOK
<1>2. CASE AgentWork \/ PodRestart \/ PodReady
  BY <1>2 DEF AgentWork, AgentFinal, AgentDone, AgentFails, PodRestart, PodReady, CleanedUp
<1>3. CASE NodeStep
  <2>1. run = "exec"
    BY <1>3 DEF NodeStep, Lookup, Health, Probe, Find, Spawn, HelmTimesOut, Deployed, DeployFails,
         PostStart, StartFails, SaveTask, Poll, PollFails, AbsorbWorking,
         AbsorbFinished, AbsorbFailed, AbsorbComplete, AbsorbIdle, Resend, Leave,
         Reject, Return, At, TypeInv
  <2>2. (run' = run \/ run' = "between" \/ Fail) /\ stream' = stream
    BY <1>3 DEF NodeStep, Lookup, Health, Probe, Find, Spawn, HelmTimesOut, Deployed, DeployFails,
         PostStart, StartFails, SaveTask, Poll, PollFails, AbsorbWorking,
         AbsorbFinished, AbsorbFailed, AbsorbComplete, AbsorbIdle, Resend, Leave,
         Reject, Return
  <2> QED
    BY <2>1, <2>2, FailCleansUp DEF CleanedUp
<1>4. CASE CleanPods
  BY <1>4, UninstallTyped DEF CleanPods, CleanedUp
<1>5. CASE CleanRecords
  BY <1>5 DEF CleanRecords, CleanedUp
<1>6. CASE Sweep
  BY <1>6, UninstallTyped DEF Sweep, CleanedUp
<1>7. CASE Crash
  BY <1>1, <1>7 DEF Crash, CleanedUp
<1>8. CASE \/ Execute \/ PausedAndResumed \/ Finish \/ Withdraw \/ Delete
           \/ Retry \/ Recover
  BY <1>8 DEF Execute, PausedAndResumed, Finish, Withdraw, Delete, Retry, Recover, CleanedUp
<1>9. CASE UNCHANGED vars
  BY <1>9 DEF vars, CleanedUp
<1> QED
  BY <1>2, <1>3, <1>4, <1>5, <1>6, <1>7, <1>8, <1>9 DEF Next, Cleanup

(* EndedRunHoldsNoPod: wherever restarts, retries, withdrawals and the sweep *)
(* of expired pods come in between, a run that stream_graph_to_pause has     *)
(* ended and whose cleanup was neither cut off nor failed by helm holds no   *)
(* pod and no record of one.                                                 *)
THEOREM EndedRunIsCleanedUp == Spec => []EndedRunHoldsNoPod
<1>1. Init => CleanedUp
  BY DEF Init, CleanedUp
<1>2. TypeInv /\ CleanedUp /\ [Next]_vars => CleanedUp'
  BY StepCleanedUp
<1>3. CleanedUp => EndedRunHoldsNoPod
  BY DEF CleanedUp, EndedRunHoldsNoPod
<1> QED
  BY <1>1, <1>2, <1>3, AlwaysTyped, PTL DEF Spec

(***************************************************************************)
(* Work is not doubled.  A task is posted at "start", "reuse" and          *)
(* "resend"; the invariant says where the coroutine cannot be while an     *)
(* agent works on this visit, from the probe that finds no release on and  *)
(* from the poll that is answered "idle" on.  A parked pod and a release   *)
(* that was not seen are the exceptions, and found remembers them.         *)
(***************************************************************************)
WorkInv ==
  /\ agent.task <= visit
  /\ agent.st # "idle" => pod = "up"
  /\ node.pc \in {"spawn", "deploy", "start"} => ~AtWork \/ found = "missed"
  /\ node.pc \in {"health", "reuse"} => found = "warm"
  /\ node.pc = "resend" => ~AtWork
  /\ node.pc = "absorb" /\ node.st = "idle" => ~AtWork

(* An uninstalled agent works on nothing.                                    *)
LEMMA UninstallIdles ==
  ASSUME Uninstall
  PROVE  pod' = "none" /\ agent'.st = "idle" /\ agent'.task = 0
BY DEF Uninstall, NewAgent

LEMMA AgentWorkInv ==
  ASSUME TypeInv, WorkInv, AgentWork \/ PodRestart \/ PodReady
  PROVE  WorkInv'
<1>1. /\ agent \in Agent /\ visit \in 0..Visits
      /\ UNCHANGED <<visit, node, found>>
  BY DEF TypeInv, TypeOK, AgentWork, AgentFinal, AgentDone, AgentFails, PodRestart, PodReady
<1>2. CASE AgentWork
  <2>1. /\ agent'.st # "working" /\ agent'.task = agent.task
        /\ agent.st # "idle" /\ pod' = pod
    BY <1>1, <1>2 DEF AgentWork, AgentFinal, AgentDone, AgentFails, Agent
  <2> QED
    BY <1>1, <2>1 DEF WorkInv, AtWork
<1>3. CASE PodRestart
  <2>1. agent'.st = "idle" /\ agent'.task = 0
    BY <1>3 DEF PodRestart, NewAgent
  <2> QED
    BY <1>1, <2>1 DEF WorkInv, AtWork
<1>4. CASE PodReady
  BY <1>1, <1>4 DEF PodReady, WorkInv, AtWork
<1> QED
  BY <1>2, <1>3, <1>4

LEMMA DeployWorkInv ==
  ASSUME TypeInv, WorkInv, DeployStep
  PROVE  WorkInv'
<1>1. /\ node \in Node /\ visit \in 0..Visits /\ agent \in Agent
      /\ visit' = visit
  BY DEF DeployStep, Lookup, Health, Probe, Find, Spawn, HelmTimesOut, Deployed, DeployFails,
         PostStart, StartFails, SaveTask, At, TypeInv, TypeOK
<1>2. CASE Lookup
  <2>1. (node'.pc = "health" /\ found' = "warm") \/ node'.pc = "probe"
    BY <1>1, <1>2, GotoKeeps DEF Lookup, Pc
  <2> QED
    BY <1>1, <1>2, <2>1 DEF Lookup, At, WorkInv, AtWork
<1>3. CASE Health
  <2>1. \/ node'.pc = "reuse" /\ found' = found
        \/ node'.pc = "probe"
    BY <1>1, <1>3, GotoKeeps DEF Health, Pc
  <2> QED
    BY <1>1, <1>3, <2>1 DEF Health, At, WorkInv, AtWork
<1>4. CASE Probe
  <2>1. \/ node'.pc = "find"
        \/ node'.pc = "spawn" /\ (pod = "none" \/ found' = "missed")
    BY <1>1, <1>4, GotoKeeps DEF Probe, Pc
  <2> QED
    BY <1>1, <1>4, <2>1 DEF Probe, At, WorkInv, AtWork
<1>5. CASE Find
  <2>1. \/ node'.pc = "poll" /\ UNCHANGED <<pod, agent>>
        \/ node'.pc = "spawn" /\ Uninstall
    BY <1>1, <1>5, GotoKeeps DEF Find, Pc
  <2> QED
    BY <1>1, <2>1, UninstallIdles DEF WorkInv, AtWork
<1>6. CASE Spawn
  <2>1. node'.pc = "deploy"
    BY <1>1, <1>6, GotoKeeps DEF Spawn, Pc
  <2> QED
    BY <1>1, <1>6, <2>1 DEF Spawn, At, WorkInv, AtWork
<1>7. CASE Deployed
  <2>1. node'.pc = "start"
    BY <1>1, <1>7, GotoKeeps DEF Deployed, Pc
  <2> QED
    BY <1>1, <1>7, <2>1 DEF Deployed, At, WorkInv, AtWork
<1>8. CASE DeployFails
  <2>1. node'.pc = "off"
    BY <1>8, FailTyped DEF DeployFails
  <2>2. Uninstall \/ UNCHANGED <<pod, agent>>
    BY <1>8 DEF DeployFails
  <2> QED
    BY <1>1, <2>1, <2>2, UninstallIdles DEF WorkInv
<1>9. CASE PostStart
  <2>1. node'.pc = "save"
    BY <1>1, <1>9, GotoKeeps DEF PostStart, Pc
  <2>2. pod' = "up" /\ agent'.task = visit
    BY <1>9 DEF PostStart, Accept
  <2> QED
    BY <1>1, <2>1, <2>2 DEF WorkInv
<1>10. CASE StartFails
  <2>1. node'.pc = "off"
    BY <1>10, FailTyped DEF StartFails
  <2>2. \/ Uninstall \/ UNCHANGED <<pod, agent>>
        \/ pod' = "up" /\ agent'.task = visit
    BY <1>10 DEF StartFails, Accept
  <2> QED
    BY <1>1, <2>1, <2>2, UninstallIdles DEF WorkInv
<1>11. CASE SaveTask
  <2>1. node'.pc = "poll"
    BY <1>1, <1>11, GotoKeeps DEF SaveTask, Pc
  <2> QED
    BY <1>1, <1>11, <2>1 DEF SaveTask, WorkInv
<1>12. CASE HelmTimesOut
  BY <1>1, <1>12 DEF HelmTimesOut, WorkInv, AtWork
<1> QED
  BY <1>2, <1>3, <1>4, <1>5, <1>6, <1>7, <1>8, <1>9, <1>10, <1>11, <1>12 DEF DeployStep

LEMMA PollWorkInv ==
  ASSUME TypeInv, WorkInv, PollStep
  PROVE  WorkInv'
<1>1. /\ node \in Node /\ visit \in 0..Visits /\ agent \in Agent
      /\ visit' = visit
  BY DEF PollStep, Poll, PollFails, AbsorbWorking, AbsorbFinished, AbsorbFailed,
         AbsorbComplete, AbsorbIdle, Resend, Leave, Reject, Return, At, TypeInv, TypeOK
<1>2. CASE Poll
  <2>1. node'.pc = "absorb" /\ (node'.st = "idle" => agent.st = "idle")
    BY <1>1, <1>2 DEF Poll, Reported, Node
  <2>2. agent'.task = agent.task /\ agent'.st = agent.st
    BY <1>2, TakenTyped DEF Poll
  <2> QED
    BY <1>1, <1>2, <2>1, <2>2 DEF Poll, WorkInv, AtWork
<1>3. CASE PollFails
  <2>1. agent'.task = agent.task /\ agent'.st = agent.st /\ pod' = pod
    BY <1>3, TakenTyped DEF PollFails
  <2>2. node'.pc \in {"off", "poll"}
    BY <1>1, <1>3, FailTyped DEF PollFails, At, Node
  <2> QED
    BY <1>1, <2>1, <2>2 DEF WorkInv
<1>4. CASE AbsorbWorking \/ AbsorbFinished \/ AbsorbFailed \/ AbsorbComplete
  <2>1. node'.pc \in {"off", "poll", "leave"}
    BY <1>1, <1>4, SeenTyped, FailTyped
       DEF AbsorbWorking, AbsorbFinished, AbsorbFailed, AbsorbComplete, Node, Pc
  <2>2. UNCHANGED <<agent, pod>>
    BY <1>4 DEF AbsorbWorking, AbsorbFinished, AbsorbFailed, AbsorbComplete
  <2> QED
    BY <1>1, <2>1, <2>2 DEF WorkInv
<1>5. CASE AbsorbIdle
  <2>1. node'.pc \in {"off", "resend"}
    BY <1>1, <1>5, SeenTyped, FailTyped DEF AbsorbIdle, Node, Pc
  <2>2. ~AtWork /\ UNCHANGED <<agent, pod>>
    BY <1>5 DEF AbsorbIdle, At, WorkInv
  <2> QED
    BY <1>1, <2>1, <2>2 DEF WorkInv, AtWork
<1>6. CASE Resend
  <2>1. node'.pc = "poll"
    BY <1>1, <1>6, GotoKeeps DEF Resend, Pc
  <2>2. pod' = pod /\ (agent' = agent \/ (pod = "up" /\ agent'.task = visit))
    BY <1>6 DEF Resend, Accept
  <2> QED
    BY <1>1, <2>1, <2>2 DEF WorkInv
<1>7. CASE Leave
  <2>1. node'.pc = "judge"
    BY <1>1, <1>7, GotoKeeps DEF Leave, Pc
  <2>2. Uninstall \/ UNCHANGED <<pod, agent>>
    BY <1>7 DEF Leave
  <2> QED
    BY <1>1, <2>1, <2>2, UninstallIdles DEF WorkInv
<1>8. CASE Reject \/ Return
  <2>1. node'.pc = "off" /\ UNCHANGED <<agent, pod>>
    BY <1>8, FailTyped, OffTyped DEF Reject, Return
  <2> QED
    BY <1>1, <2>1 DEF WorkInv
<1> QED
  BY <1>2, <1>3, <1>4, <1>5, <1>6, <1>7, <1>8 DEF PollStep

LEMMA RunWorkInv ==
  ASSUME TypeInv, WorkInv, RunStep
  PROVE  WorkInv'
<1>1. /\ visit \in 0..Visits /\ agent \in Agent /\ agent.task \in 0..Visits
      /\ [Off EXCEPT !.pc = "lookup"].pc = "lookup"
  BY DEF TypeInv, TypeOK, Agent, Off, Final
<1>2. CASE CleanPods \/ Sweep
  <2>1. UNCHANGED <<visit, node, found>> /\ (Uninstall \/ UNCHANGED <<pod, agent>>)
    BY <1>2 DEF CleanPods, Sweep
  <2> QED
    BY <1>1, <2>1, UninstallIdles DEF WorkInv, AtWork
<1>3. CASE CleanRecords \/ PausedAndResumed \/ Finish \/ Withdraw \/ Delete
  <2>1. UNCHANGED <<visit, node, found, pod, agent>>
    BY <1>3 DEF CleanRecords, PausedAndResumed, Finish, Withdraw, Delete
  <2> QED
    BY <2>1 DEF WorkInv, AtWork
<1>4. CASE Execute \/ Retry \/ Recover
  <2>1. node'.pc = "lookup" /\ UNCHANGED <<agent, pod>>
    BY <1>1, <1>4 DEF Execute, Retry, Recover
  <2>2. visit' = visit \/ visit' = visit + 1
    BY <1>4 DEF Execute, Retry, Recover
  <2>3. agent.task <= visit => agent'.task <= visit'
    BY <1>1, <2>1, <2>2, AgentStepAssumption
  <2> QED
    BY <1>1, <2>1, <2>3 DEF WorkInv
<1>5. CASE Crash
  <2>1. node'.pc = "off" /\ UNCHANGED <<agent, pod, visit>>
    BY <1>5, OffTyped DEF Crash
  <2> QED
    BY <2>1 DEF WorkInv, AtWork
<1> QED
  BY <1>2, <1>3, <1>4, <1>5 DEF RunStep, Cleanup

LEMMA StepWorkInv == TypeInv /\ WorkInv /\ [Next]_vars => WorkInv'
<1> SUFFICES ASSUME TypeInv, WorkInv, [Next]_vars PROVE WorkInv'
  OBVIOUS
<1>1. CASE UNCHANGED vars
  BY <1>1 DEF vars, WorkInv, AtWork
<1> QED
  BY <1>1, AgentWorkInv, DeployWorkInv, PollWorkInv, RunWorkInv
     DEF Next, NodeStep, DeployStep, PollStep, RunStep

(* Only three places post a task, and none of them does to an agent at work. *)
LEMMA OnlyPostsStart ==
  ASSUME TypeInv, WorkInv, [Next]_vars, starts' > starts, AtWork
  PROVE  found \in {"warm", "missed"}
<1>1. starts \in Nat
  BY DEF TypeInv, TypeOK
<1>2. starts' # starts /\ starts' # 0
  BY <1>1
<1>3. PostStart \/ StartFails \/ Resend
  BY <1>2 DEF Next, NodeStep, AgentWork, Cleanup, vars, history,
     Lookup, Health, Probe, Find, Spawn, HelmTimesOut, Deployed, DeployFails, SaveTask,
     Poll, PollFails, AbsorbWorking, AbsorbFinished, AbsorbFailed, AbsorbComplete,
     AbsorbIdle, Leave, Reject, Return, AgentFinal, AgentDone, AgentFails,
     CleanPods, CleanRecords, Execute, PausedAndResumed, Finish, Withdraw, Delete,
     Retry, Crash, Recover, PodRestart, PodReady, Sweep
<1>4. At("start") \/ At("reuse") \/ At("resend")
  BY <1>3 DEF PostStart, StartFails, Resend
<1> QED
  BY <1>4 DEF At, WorkInv

(* WorkNotDoubled: whatever polls are lost and wherever the backend          *)
(* restarts, the pods are swept or cleaned up, or the run is withdrawn or    *)
(* retried, a task is posted to an agent that works on it only by an         *)
(* execution that took a parked pod or did not see the release.              *)
THEOREM WorkIsTakenUp == Spec => WorkNotDoubled
<1>1. Init => WorkInv
  BY OffTyped, NewAgentTyped DEF Init, WorkInv, NewAgent, Off
<1>2. TypeInv /\ WorkInv /\ [Next]_vars => WorkInv'
  BY StepWorkInv
<1>3. TypeInv /\ WorkInv /\ [Next]_vars
        => [starts' > starts /\ AtWork => found \in {"warm", "missed"}]_vars
  BY OnlyPostsStart
<1> QED
  BY <1>1, <1>2, <1>3, AlwaysTyped, PTL DEF Spec, WorkNotDoubled

(***************************************************************************)
(* An undisturbed step returns its own work, where there is some.  What    *)
(* the visits share (task key, stored outputs, parked pod) could hand an   *)
(* earlier visit's final on; the invariant follows the execution from      *)
(* place to place.                                                         *)
(***************************************************************************)
Calm == faults = 0 /\ crashes = 0 /\ retries = 0

(* Between executions a pod is there if and only if it is parked.            *)
Rested == pod = IF pool = "parked" THEN "up" ELSE "none"

(* The pod on the way to /start, and from there to the end of the poll loop. *)
PodInPlace ==
  /\ node.pc \in {"off", "lookup", "judge"} => Rested
  /\ node.pc \in {"health", "save", "poll", "absorb", "leave"} => pod = "up"
  /\ node.pc = "health" => pool = "parked"
  /\ node.pc = "probe" => pod = "none"

(* The agent makes nothing any more.                                         *)
Settled == agent.st \notin {"working", "ending"}

(* The agent works on this visit; a final that it has made is with it, under *)
(* way or seen.                                                              *)
Polled ==
  /\ agent.task = visit /\ agent.st # "idle"
  /\ node.raw \in {0, visit} /\ agent.out \in {0, visit}
  /\ node.pc = "absorb" => node.fin \in {0, visit} /\ node.st # "idle"
  /\ node.pc = "absorb" /\ node.st = "done" => Settled /\ agent.out = 0
  /\ visit \in made =>
       \/ agent.out = visit \/ node.raw = visit
       \/ node.pc = "absorb" /\ node.fin = visit

Starting == {"lookup", "health", "probe", "spawn", "deploy", "start", "reuse"}

OnItsWay ==
  /\ PodInPlace
  /\ node.pc \notin {"find", "resend"}
  /\ node.pc \in Starting => node.raw = 0 /\ visit \notin made /\ Settled
  /\ node.pc = "save" => node.raw = 0
  /\ node.pc \in {"save", "poll", "absorb"} => Polled
  /\ node.pc \in {"leave", "judge"} => Settled /\ (visit \in made => node.raw = visit)
  /\ node.pc = "off" => Settled

OwnInv ==
  Calm /\ run \notin {"ended", "gone"} =>
    /\ run # "down" /\ clean = "idle"
    /\ run = "exec" => node.pc # "off"
    /\ agent.task <= visit /\ \A v \in made : v <= visit
    /\ run = "between" /\ result.end = "ok" /\ visit \in made => result.val = visit
    /\ OnItsWay

(* A call that fails is the end of an undisturbed execution.                 *)
LEMMA FaultDisturbs ==
  ASSUME TypeInv, Fault
  PROVE  ~Calm'
BY AgentStepAssumption DEF TypeInv, TypeOK, Fault, Calm

LEMMA AgentOwn ==
  ASSUME TypeInv, OwnInv, AgentWork \/ PodRestart \/ PodReady
  PROVE  OwnInv'
<1>1. /\ agent \in Agent /\ visit \in 0..Visits
      /\ UNCHANGED <<run, visit, node, pool, clean, result, crashes, retries>>
      /\ run = "between" => node.pc = "off"
  BY DEF TypeInv, TypeOK, AgentWork, AgentFinal, AgentDone, AgentFails, PodRestart,
         PodReady
<1>2. CASE AgentWork
  <2>1. /\ UNCHANGED <<pod, faults>>
        /\ agent'.task = agent.task /\ agent'.st # "idle" /\ ~Settled
        /\ \/ /\ agent'.out = agent.task /\ agent'.st = "ending"
              /\ made' = made \cup {agent.task}
           \/ /\ agent'.out = agent.out /\ agent'.st \in {"done", "failed"}
              /\ made' = made
    BY <1>1, <1>2 DEF AgentWork, AgentFinal, AgentDone, AgentFails, Agent, Settled
  <2>2. Polled => Polled'
    BY <1>1, <2>1 DEF Polled, Settled
  <2>3. OnItsWay => OnItsWay'
    BY <1>1, <2>1, <2>2 DEF OnItsWay, PodInPlace, Rested
  <2>4. Calm /\ run \notin {"ended", "gone"} => run # "between"
    BY <1>1, <2>1 DEF OwnInv, OnItsWay
  <2> QED
    BY <1>1, <2>1, <2>3, <2>4 DEF OwnInv, Calm
<1>3. CASE PodRestart
  BY <1>3, FaultDisturbs DEF PodRestart, Fault, OwnInv
<1>4. CASE PodReady
  <2>1. Polled => Polled'
    BY <1>1, <1>4 DEF PodReady, Polled, Settled
  <2>2. PodInPlace => PodInPlace'
    BY <1>1, <1>4 DEF PodReady, PodInPlace, Rested
  <2> QED
    BY <1>1, <1>4, <2>1, <2>2 DEF PodReady, OwnInv, Calm, OnItsWay, Settled
<1> QED
  BY <1>2, <1>3, <1>4

LEMMA DeployOwn ==
  ASSUME TypeInv, OwnInv, DeployStep
  PROVE  OwnInv'
<1>1. /\ node \in Node /\ visit \in 0..Visits /\ agent \in Agent
      /\ run = "exec" /\ UNCHANGED <<visit, crashes, retries>>
  BY DEF DeployStep, Lookup, Health, Probe, Find, Spawn, HelmTimesOut, Deployed, DeployFails,
         PostStart, StartFails, SaveTask, At, TypeInv, TypeOK
<1>2. CASE DeployFails \/ StartFails
  BY <1>2, FailTyped DEF DeployFails, StartFails, OwnInv
<1>3. ASSUME ~(DeployFails \/ StartFails), Calm'
      PROVE  /\ Calm /\ ~Fault
             /\ run' = "exec" /\ clean' = "idle" /\ node'.raw = node.raw
             /\ made' = made /\ agent'.task <= visit /\ \A v \in made : v <= visit
             /\ OnItsWay
  <2>1. ~Fault
    BY <1>3, FaultDisturbs
  <2>2. faults' = faults
    BY <1>3, <2>1 DEF DeployStep, Lookup, Health, Probe, Find, Spawn, HelmTimesOut, Deployed,
         PostStart, SaveTask
  <2>3. Calm
    BY <1>1, <1>3, <2>2 DEF Calm
  <2>4. UNCHANGED <<run, clean>> /\ node'.raw = node.raw
    BY <1>1, <1>3, GotoKeeps DEF DeployStep, Lookup, Health, Probe, Find, Spawn, HelmTimesOut, Deployed,
         PostStart, SaveTask, Pc
  <2>5. made' = made /\ (agent' = agent \/ agent'.task = visit \/ agent'.task = 0)
    BY <1>3, UninstallIdles DEF DeployStep, Lookup, Health, Probe, Find, Spawn, HelmTimesOut,
         Deployed, PostStart, SaveTask, Accept
  <2>6. 0 <= visit /\ visit <= visit
    BY <1>1, AgentStepAssumption
  <2> QED
    BY <1>1, <2>1, <2>3, <2>4, <2>5, <2>6 DEF OwnInv
<1>4. ASSUME ~(DeployFails \/ StartFails), Calm'
      PROVE  OnItsWay' /\ node'.pc # "off"
  <2> USE <1>1, <1>3, <1>4
  <2>1. CASE Lookup
    <3>1. node'.pc = IF pool = "parked" THEN "health" ELSE "probe"
      BY <2>1, GotoKeeps DEF Lookup, Pc
    <3> QED
      BY <2>1, <3>1 DEF Lookup, At, OnItsWay, PodInPlace, Rested, Starting, Settled
  <2>2. CASE Health
    <3>1. node'.pc = "reuse"
      BY <2>2, GotoKeeps DEF Health, At, OnItsWay, PodInPlace, Pc
    <3> QED
      BY <2>2, <3>1 DEF Health, At, OnItsWay, PodInPlace, Starting, Settled
  <2>3. CASE Probe
    <3>1. node'.pc = "spawn"
      BY <2>3, GotoKeeps DEF Probe, At, OnItsWay, PodInPlace, Pc
    <3> QED
      BY <2>3, <3>1 DEF Probe, At, OnItsWay, PodInPlace, Starting, Settled
  <2>4. CASE Find
    BY <2>4 DEF Find, At, OnItsWay
  <2>5. CASE Spawn
    <3>1. node'.pc = "deploy"
      BY <2>5, GotoKeeps DEF Spawn, Pc
    <3> QED
      BY <2>5, <3>1 DEF Spawn, At, OnItsWay, PodInPlace, Starting, Settled
  <2>6. CASE Deployed
    <3>1. node'.pc = "start"
      BY <2>6, GotoKeeps DEF Deployed, Pc
    <3> QED
      BY <2>6, <3>1 DEF Deployed, At, OnItsWay, PodInPlace, Starting, Settled
  <2>7. CASE PostStart
    <3>1. node'.pc = "save"
      BY <2>7, GotoKeeps DEF PostStart, Pc
    <3>2. agent' = [task |-> visit, st |-> "working", out |-> 0] /\ pod' = "up"
      BY <2>7 DEF PostStart, Accept
    <3>3. node.raw = 0 /\ visit \notin made
      BY <2>7 DEF PostStart, At, OnItsWay, Starting
    <3> QED
      BY <3>1, <3>2, <3>3 DEF OnItsWay, PodInPlace, Polled, Starting
  <2>8. CASE SaveTask
    <3>1. node'.pc = "poll"
      BY <2>8, GotoKeeps DEF SaveTask, Pc
    <3>2. Polled /\ pod = "up" /\ UNCHANGED <<agent, pod>> /\ node.pc = "save"
      BY <2>8 DEF SaveTask, At, OnItsWay, PodInPlace
    <3> QED
      BY <3>1, <3>2 DEF OnItsWay, PodInPlace, Polled, Starting, Settled
  <2>9. ~HelmTimesOut
    BY DEF HelmTimesOut
  <2> QED
    BY <2>1, <2>2, <2>3, <2>4, <2>5, <2>6, <2>7, <2>8, <2>9 DEF DeployStep
<1> QED
  BY <1>1, <1>2, <1>3, <1>4 DEF OwnInv

LEMMA PollOwn ==
  ASSUME TypeInv, OwnInv, PollStep
  PROVE  OwnInv'
<1>1. /\ node \in Node /\ visit \in 0..Visits /\ agent \in Agent
      /\ run = "exec" /\ UNCHANGED <<visit, crashes, retries>>
  BY DEF PollStep, Poll, PollFails, AbsorbWorking, AbsorbFinished, AbsorbFailed,
         AbsorbComplete, AbsorbIdle, Resend, Leave, Reject, Return, At, TypeInv, TypeOK,
         bounds
<1>2. CASE Fail
  BY <1>2, FailTyped DEF OwnInv
<1>3. ASSUME ~Fail, Calm'
      PROVE  /\ Calm /\ ~Fault
             /\ clean' = "idle" /\ OnItsWay
             /\ made' = made /\ agent'.task <= visit /\ \A v \in made : v <= visit
  <2>1. ~Fault
    BY <1>3, FaultDisturbs
  <2>2. faults' = faults /\ clean' = clean
    BY <1>3, <2>1 DEF PollStep, Poll, PollFails, AbsorbWorking, AbsorbFinished,
         AbsorbFailed, AbsorbComplete, AbsorbIdle, Resend, Leave, Reject, Return
  <2>3. Calm
    BY <1>1, <1>3, <2>2 DEF Calm
  <2>4. made' = made /\ (agent'.task = agent.task \/ agent'.task = visit \/ agent'.task = 0)
    <3>1. made' = made
      BY DEF PollStep, Poll, PollFails, AbsorbWorking, AbsorbFinished, AbsorbFailed,
             AbsorbComplete, AbsorbIdle, Resend, Leave, Reject, Return
    <3>2. \/ agent' = agent
          \/ agent' = [agent EXCEPT !.out = 0]
          \/ Accept
          \/ Uninstall
      BY DEF PollStep, Poll, PollFails, AbsorbWorking, AbsorbFinished, AbsorbFailed,
             AbsorbComplete, AbsorbIdle, Resend, Leave, Reject, Return
    <3>3. CASE agent' = [agent EXCEPT !.out = 0]
      <4>1. [agent EXCEPT !.out = 0].task = agent.task
        BY TakenTyped
      <4> QED
        BY <3>1, <3>3, <4>1
    <3>4. CASE Accept
      BY <3>1, <3>4 DEF Accept
    <3>5. CASE Uninstall
      BY <3>1, <3>5, UninstallIdles
    <3> QED
      BY <3>1, <3>2, <3>3, <3>4, <3>5
  <2>5. clean = "idle" /\ OnItsWay /\ agent.task <= visit /\ \A v \in made : v <= visit
    BY <1>1, <2>3 DEF OwnInv
  <2>6. agent'.task <= visit
    BY <1>1, <2>4, <2>5, AgentStepAssumption
  <2> QED
    BY <2>1, <2>2, <2>3, <2>4, <2>5, <2>6
<1>4. ASSUME ~Fail, Calm', ~Return
      PROVE  OnItsWay' /\ run' = "exec" /\ node'.pc # "off"
  <2> USE <1>1, <1>3, <1>4
  <2>1. CASE Poll
    <3>1. /\ node'.pc = "absorb" /\ node'.st = Reported /\ node'.fin = agent.out
          /\ node'.raw = node.raw
      BY <2>1 DEF Poll, Node
    <3>2. agent'.task = agent.task /\ agent'.st = agent.st /\ agent'.out = 0
      BY <2>1 DEF Poll, Agent
    <3>3. Polled /\ node.pc = "poll"
      BY <2>1 DEF Poll, At, OnItsWay
    <3>4. Polled'
      BY <3>1, <3>2, <3>3 DEF Polled, Reported, Settled
    <3> QED
      BY <2>1, <3>1, <3>4 DEF Poll, OnItsWay, PodInPlace, Starting
  <2>2. CASE PollFails
    <3>1. FALSE
      BY <2>2 DEF PollFails, At, OnItsWay, PodInPlace
    <3> QED
      BY <3>1
  <2>3. CASE AbsorbWorking
    <3>1. node'.pc = "poll" /\ node'.raw = Seen /\ UNCHANGED <<agent, pod, run>>
      BY <2>3, SeenTyped DEF AbsorbWorking, Node
    <3>2. Polled /\ pod = "up" /\ node.pc = "absorb"
      BY <2>3 DEF AbsorbWorking, At, OnItsWay, PodInPlace
    <3>3. Polled'
      BY <3>1, <3>2 DEF Polled, Seen, Settled
    <3> QED
      BY <3>1, <3>2, <3>3 DEF OnItsWay, PodInPlace, Starting
  <2>4. CASE AbsorbFinished
    <3>1. /\ node'.pc = "leave" /\ (Seen # 0 => node'.raw = Seen)
          /\ UNCHANGED <<agent, pod, run>>
      BY <2>4, SeenTyped DEF AbsorbFinished, Node
    <3>2. Polled /\ pod = "up" /\ node.pc = "absorb" /\ node.st = "done"
      BY <2>4 DEF AbsorbFinished, At, OnItsWay, PodInPlace
    <3>3. visit # 0
      BY DEF TypeInv, Visit
    <3>4. visit \in made => Seen = visit
      BY <3>2, <3>3 DEF Polled, Seen
    <3>5. Settled'
      BY <3>1, <3>2 DEF Polled, Settled
    <3> QED
      BY <3>1, <3>2, <3>3, <3>4, <3>5 DEF OnItsWay, PodInPlace, Starting
  <2>5. CASE AbsorbComplete \/ AbsorbIdle
    <3>1. FALSE
      BY <2>5 DEF AbsorbComplete, AbsorbIdle, At, OnItsWay, Polled
    <3> QED
      BY <3>1
  <2>6. CASE Resend
    BY <2>6 DEF Resend, At, OnItsWay
  <2>7. CASE Leave
    <3>1. node'.pc = "judge" /\ node'.raw = node.raw /\ run' = run
      BY <2>7, GotoKeeps DEF Leave, Pc
    <3>2. Rested' /\ Settled'
      BY <2>7, UninstallIdles DEF Leave, At, OnItsWay, PodInPlace, Rested, Settled
    <3> QED
      BY <2>7, <3>1, <3>2 DEF Leave, At, OnItsWay, PodInPlace, Starting
  <2> QED
    BY <2>1, <2>2, <2>3, <2>4, <2>5, <2>6, <2>7 DEF PollStep, AbsorbFailed, Reject
<1>5. ASSUME Return, Calm', ~Fail
      PROVE  /\ run' = "between" /\ (visit \in made => result'.val = visit)
             /\ OnItsWay'
  <2>1. (visit \in made => node.raw = visit) /\ Rested /\ Settled
    BY <1>3, <1>5 DEF Return, At, OnItsWay, PodInPlace
  <2>2. node'.pc = "off" /\ Rested' /\ Settled'
    BY <1>5, <2>1, OffTyped DEF Return, Rested, Settled
  <2> QED
    BY <1>5, <2>1, <2>2 DEF Return, OnItsWay, PodInPlace, Starting
<1>6. CASE Calm' /\ ~Fail /\ Return
  BY <1>1, <1>3, <1>5, <1>6 DEF OwnInv
<1>7. CASE Calm' /\ ~Fail /\ ~Return
  BY <1>1, <1>3, <1>4, <1>7 DEF OwnInv
<1> QED
  BY <1>2, <1>6, <1>7 DEF OwnInv

LEMMA RunOwn ==
  ASSUME TypeInv, OwnInv, RunStep
  PROVE  OwnInv'
<1>1. /\ node \in Node /\ visit \in 0..Visits
      /\ crashes \in Nat /\ retries \in Nat /\ faults \in Nat
  BY AgentStepAssumption DEF TypeInv, TypeOK
<1>2. CASE Cleanup
  <2>1. /\ clean # "idle" /\ UNCHANGED <<run, crashes, retries>>
        /\ faults' = faults \/ Fault
    BY <1>2 DEF Cleanup, CleanPods, CleanRecords
  <2>2. Calm' => Calm
    BY <2>1, FaultDisturbs DEF Calm
  <2> QED
    BY <2>1, <2>2 DEF OwnInv
<1>3. CASE Execute
  <2>1. node'.pc = "lookup" /\ node'.raw = 0
    BY <1>3 DEF Execute, Off
  <2>2. node.pc = "off"
    BY <1>3 DEF Execute, TypeInv
  <2>3. /\ run = "between" /\ visit' = visit + 1 /\ run' = "exec"
        /\ UNCHANGED <<pod, pool, agent, made, clean, faults, crashes, retries>>
    BY <1>3 DEF Execute
  <2>4. ASSUME Calm'
        PROVE  /\ clean = "idle" /\ agent.task <= visit /\ OnItsWay
               /\ \A v \in made : v <= visit
    BY <2>3, <2>4 DEF OwnInv, Calm
  <2>5. ASSUME Calm'
        PROVE  /\ agent'.task <= visit' /\ \A v \in made' : v <= visit'
               /\ visit' \notin made'
    <3>1. made \subseteq Nat /\ agent.task \in Nat
      BY AgentStepAssumption DEF TypeInv, TypeOK, Visit, Agent, Final
    <3> QED
      BY <1>1, <2>3, <2>4, <2>5, <3>1, AgentStepAssumption
  <2>6. ASSUME Calm'
        PROVE  OnItsWay'
    BY <2>1, <2>2, <2>3, <2>4, <2>5, <2>6 DEF OnItsWay, PodInPlace, Rested, Starting, Settled
  <2> QED
    BY <2>1, <2>3, <2>4, <2>5, <2>6 DEF OwnInv
<1>4. CASE Finish \/ Delete
  BY <1>4 DEF Finish, Delete, OwnInv
<1>5. CASE Retry \/ Crash
  BY <1>1, <1>5 DEF Retry, Crash, OwnInv, Calm
<1>6. CASE Recover
  BY <1>6 DEF Recover, OwnInv, Calm
<1>7. CASE Sweep \/ Withdraw
  BY <1>7, FaultDisturbs DEF Sweep, Withdraw, OwnInv
<1>8. CASE PausedAndResumed
  BY <1>8 DEF PausedAndResumed, OwnInv, Calm, OnItsWay, PodInPlace, Rested, Polled, Settled
<1> QED
  BY <1>2, <1>3, <1>4, <1>5, <1>6, <1>7, <1>8 DEF RunStep

(* ResultIsOwnWork: while no call fails, nothing restarts and nobody         *)
(* withdraws or retries the run, an execution whose agent has made a final   *)
(* output of this visit's input returns that one, with warm pods and         *)
(* without, whatever the earlier visits have stored.                         *)
THEOREM ResultIsOfThisVisit == Spec => []ResultIsOwnWork
<1>1. Init => OwnInv
  <2> SUFFICES ASSUME Init PROVE OwnInv
    OBVIOUS
  <2>1. /\ node.pc = "off" /\ pool # "parked" /\ agent.st = "idle" /\ agent.task = 0
        /\ visit = 0 /\ made = {} /\ pod = "none" /\ clean = "idle" /\ run = "between"
        /\ result.end # "ok"
    BY OffTyped, AgentStepAssumption DEF Init, NewAgent
  <2> QED
    BY <2>1 DEF OwnInv, OnItsWay, PodInPlace, Rested, Starting, Settled
<1>2. TypeInv /\ OwnInv /\ [Next]_vars => OwnInv'
  <2> SUFFICES ASSUME TypeInv, OwnInv, [Next]_vars PROVE OwnInv'
    OBVIOUS
  <2>1. CASE UNCHANGED vars
    BY <2>1 DEF vars, OwnInv, Calm, OnItsWay, PodInPlace, Rested, Polled, Settled
  <2> QED
    BY <2>1, AgentOwn, DeployOwn, PollOwn, RunOwn
       DEF Next, NodeStep, DeployStep, PollStep, RunStep
<1>3. TypeInv /\ OwnInv => ResultIsOwnWork
  BY AgentStepAssumption DEF TypeInv, TypeOK, OwnInv, Calm, ResultIsOwnWork
<1> QED
  BY <1>1, <1>2, <1>3, AlwaysTyped, PTL DEF Spec
=============================================================================
