---------------------------- MODULE MCAgentLife ----------------------------
(* AgentLife for TLC.  What follows a start that set a checkpoint aside is   *)
(* the life of another agent over the leftovers of this one: the search      *)
(* stops at its first step.                                                  *)
EXTENDS AgentLife

FirstLife == ~forgotten
=============================================================================
