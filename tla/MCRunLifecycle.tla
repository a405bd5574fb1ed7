--------------------------- MODULE MCRunLifecycle ---------------------------
(* Values for the constants of RunLifecycle: the shapes of the workflow and  *)
(* the handlers that the clients of an instance use.                         *)
EXTENDS RunLifecycleContract, TLC

CONSTANTS t1, t2

OneTask == {t1}
TwoTasks == {t1, t2}
Symmetry == Permutations(Task)

None == {}
First == {1}
Second == {2}
Third == {3}
Fourth == {4}
FirstAndSecond == {1, 2}
SecondAndFourth == {2, 4}
ThirdAndSixth == {3, 6}
ThirdAndFifth == {3, 5}

UiOps == {"approve", "reject"}
DecisionsOnly == {"approve", "reject", "cbApprove", "cbReject"}
OperatorOps == DecisionsOnly \cup {"reply", "retry", "restart", "delete"}
UndisturbedOps == DecisionsOnly \cup {"reply", "retry"}
RestartOps == UiOps \cup {"restart"}
ReplyOps == UiOps \cup {"reply"}
RacingOps == {"approve", "cbReject", "terminate", "note", "output"}
EndingOps == {"terminate", "delete"}
=============================================================================
