---------------------------- MODULE MCDefinitions ----------------------------
(* Values for the constants of Definitions.                                  *)
EXTENDS Definitions

CONSTANTS r1, r2

OneRun == {r1}
TwoRuns == {r1, r2}
Nobody == {}
One == {"a1"}
Two == {"a1", "a2"}
First == {1}
Second == {2}
Third == {3}
AllEdits == {"create", "update", "delete", "chat_delete"}
RouteEdits == {"create", "update", "delete"}
Replacing == {"create", "update"}
=============================================================================
