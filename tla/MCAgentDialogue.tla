--------------------------- MODULE MCAgentDialogue ---------------------------
(* Values for the constants of AgentDialogue.                                *)
EXTENDS AgentDialogue

TwoPollers == {"p1", "p2"}
TwoRepliers == {"r1", "r2"}
OneReplier == {"r1"}
=============================================================================
