----------------------------- MODULE MCQuestions -----------------------------
(* A small instance of Questions: two tool calls of the voice model and two  *)
(* requests of the agent, which are interchangeable.                         *)
EXTENDS Questions, TLC

CONSTANTS a1, a2

MCAgents == {a1, a2}
MCSymmetry == Permutations(MCAgents)
=============================================================================
