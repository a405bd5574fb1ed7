----------------------------- MODULE MCStepGraph -----------------------------
(* Workflows for StepGraph.                                                  *)
EXTENDS StepGraph

(* 1 plan -> 2 implement (an agent; skipped when the plan says no) ->        *)
(* 3 test (a tool), repeated until it passes -> 4 review, back to 2 until it *)
(* is content -> 5 switch on the plan -> 6 deliver, or the end.              *)
LoopKind == <<"llm", "agent", "tool", "llm", "switch", "llm">>
LoopCond == <<0, 0, 3, 4, 1, 0>>
LoopThen == <<2, 3, 4, 5, 6, 7>>
LoopElse == <<0, 0, 3, 2, 7, 0>>
LoopFan  == [i \in 1..6 |-> {}]
LoopWhen == <<0, 1, 0, 0, 0, 0>>

(* 1 fork -> 2 and 3 -> 4 join -> 5.                                         *)
ForkKind == <<"parallel", "llm", "llm", "join", "llm">>
ForkNone == <<0, 0, 0, 0, 0>>
ForkThen == <<6, 4, 4, 5, 6>>
ForkFan  == <<{2, 3}, {}, {}, {}, {}>>

(* A loop within a loop: 1 plan -> 2 implement (a tool) -> 3 review, back to *)
(* 2 -> 4 review of the plan, back to 1.                                     *)
NestKind == <<"llm", "tool", "llm", "llm">>
NestCond == <<0, 0, 3, 4>>
NestThen == <<2, 3, 4, 5>>
NestElse == <<0, 0, 2, 1>>
NestFan  == [i \in 1..4 |-> {}]
NestWhen == [i \in 1..4 |-> 0]
=============================================================================
