--------------------------- MODULE MCConversation ---------------------------
(* Instances of Conversation: who is in flight at once.                    *)
EXTENDS Conversation, TLC

CONSTANTS th1, th2, t1, t2, s1

OneThread  == {th1}
TwoThreads == {th1, th2}
TwoTurns   == {t1, t2}
NoSharer   == {}
OneSharer  == {s1}

\* Threads and turns are interchangeable; no run that uses this checks
\* liveness.
Symmetry == Permutations(TwoThreads) \cup Permutations(TwoTurns)
=============================================================================
