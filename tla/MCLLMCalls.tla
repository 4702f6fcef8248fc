----------------------------- MODULE MCLLMCalls -----------------------------
(* Three calls, two of which can cross the ceiling.                        *)
EXTENDS LLMCalls, TLC

CONSTANTS c1, c2, c3
MCCalls == {c1, c2, c3}
=============================================================================
