------------------------------ MODULE MCGather ------------------------------
(* An instance of Gather: two files of one repository, one of another.     *)
EXTENDS Gather, TLC

CONSTANTS h, g, s, x, y, f1, f2, f3, app, dep, route, key

\* Hits are usually of f1; s is named there, x is across, y is its setting.
MCChunks == {h, g, s, x, y}
MCFileOf == (h :> f1 @@ g :> f1 @@ s :> f2 @@ x :> f3 @@ y :> f3)
MCRepoOf == (h :> app @@ g :> app @@ s :> app @@ x :> dep @@ y :> dep)
MCCost   == (h :> 9 @@ g :> 5 @@ s :> 6 @@ x :> 4 @@ y :> 3)
MCRefs   == (h :> {s, x} @@ g :> {s} @@ s :> {g, h} @@ x :> {g, y} @@ y :> {})
MCFar    == (f1 :> {x, y} @@ f2 :> {y} @@ f3 :> {s})
MCDefined == (route :> {x, y} @@ key :> {g})
=============================================================================
