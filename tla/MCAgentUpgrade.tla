--------------------------- MODULE MCAgentUpgrade ---------------------------
(***************************************************************************)
(* Small instances of the Agent's update for TLC.                          *)
(***************************************************************************)
EXTENDS AgentUpgrade

CONSTANTS t1, t2, v1, v2, v3

\* The first task installs v2, the second one v3.
MCTarget == [t \in Task |-> IF t = t1 THEN v2 ELSE v3]
=============================================================================
