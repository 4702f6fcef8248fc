------------------------------ MODULE MCMemory ------------------------------
(* Two readers, two products that share a library, and a repos.yaml that   *)
(* loses one of them.                                                      *)
EXTENDS Memory, TLC

CONSTANTS shop, billing, commons, ann, bob, x, y, t1, t2, t3

MCNames   == {shop, billing, commons}
MCReaders == {ann, bob}
MCScoped  == {shop}
MCTexts   == {x, y}
MCTurns   == {t1, t2, t3}

Both ==
  [of |-> [n \in MCNames |-> n], parked |-> {}, library |-> {commons},
   uses |-> {<<shop, commons>>, <<billing, commons>>}]

MCGroupings == {Both, [Both EXCEPT !.parked = {shop}]}

Symmetry == Permutations(MCReaders) \cup Permutations(MCTexts) \cup Permutations(MCTurns)
=============================================================================
