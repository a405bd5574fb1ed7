----------------------------- MODULE MCAgentStep -----------------------------
(* Values for the constants of AgentStep.                                    *)
EXTENDS AgentStep

BothPools == {"off", "none"}
=============================================================================
