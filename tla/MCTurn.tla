------------------------------- MODULE MCTurn -------------------------------
(* Instances of Turn: a product of two repositories, one of one, a library.*)
EXTENDS Turn, TLC

CONSTANTS shop, ui, be, crm, lib, q1, q2

MCNames == {shop, ui, be, crm, lib}

Listing(rs, parked, uses) ==
  [of |-> [n \in MCNames |-> IF n \notin rs THEN None ELSE IF n \in {ui, be} THEN shop ELSE n],
   parked |-> parked, library |-> {lib}, uses |-> uses]

Both == {<<be, lib>>, <<crm, lib>>}
Everything == {ui, be, crm, lib}

MCGroupings ==
  {Listing(Everything, {}, {}),
   Listing(Everything, {}, Both),
   Listing(Everything, {ui}, {<<be, lib>>}),
   Listing(Everything \ {crm}, {lib}, {<<be, lib>>})}

\* One question names a member of the product, the other nothing.
MCMentioned == [q \in {q1, q2} |-> IF q = q1 THEN {} ELSE {ui}]
=============================================================================
