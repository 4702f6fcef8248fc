------------------------------- MODULE Projects -------------------------------
(***************************************************************************)
(* The grouping of repos.yaml as routing, memory and the answer prompt     *)
(* read it (internal/projects): which repositories make up a product, and  *)
(* which shared libraries a product is searched with.                      *)
(*                                                                         *)
(* A grouping g gives each repository its project (g.of, None for one that *)
(* is not listed), the repositories that are parked (g.parked), those of   *)
(* the libraries block (g.library) and the declared edges (g.uses).        *)
(***************************************************************************)
EXTENDS Integers, FiniteSets

CONSTANTS
  Names,   \* names of projects and repositories, one name space
  None     \* no name

ASSUME NoneIsNoName == None \notin Names

ASSUME NamesFinite == IsFiniteSet(Names)

Grouping ==
  [of : [Names -> Names \cup {None}], parked : SUBSET Names, library : SUBSET Names,
   uses : SUBSET (Names \X Names)]

\* What repos.Load accepts: a project called like a repository holds that
\* repository alone, a library is such a project, an edge stays in its project
\* or ends in a library, and a library uses libraries only.
WellFormed(g) ==
  /\ g \in Grouping
  /\ \A r \in Names : g.of[r] # None /\ g.of[g.of[r]] # None => g.of[r] = r
  /\ \A r \in g.library : g.of[r] = r
  /\ \A e \in g.uses :
       /\ e[1] # e[2]
       /\ e[2] \in g.library \/ (e[1] \notin g.library /\ g.of[e[1]] = g.of[e[2]])

\* The rows with enabled = 1.
Enabled(g) == {r \in Names \ g.parked : g.of[r] # None}

Of(g, r) == IF r \in Enabled(g) THEN g.of[r] ELSE r

All(g) == {g.of[r] : r \in Enabled(g)}

\* A row that says library under another project's name is none.
Libraries(g) == {r \in g.library \cap Enabled(g) : g.of[r] = r}

IsLibrary(g, r) == r \in Libraries(g)

\* loadUses: an edge that leaves its project without ending in a listed
\* library is dropped, and one of a parked repository is not there at all.
Edges(g) ==
  {e \in g.uses : /\ {e[1], e[2]} \subseteq Enabled(g)
                  /\ g.of[e[1]] = g.of[e[2]] \/ e[2] \in g.library}

Own(g, p) == {r \in Enabled(g) : g.of[r] = p}

\* shareLibraries: the libraries the members of p use, and the libraries those
\* use, in at most as many rounds as there are libraries.
ReachedLibraries(g, p) ==
  LET rounds == Cardinality(Libraries(g))
      walk[n \in 0..rounds] ==
        IF n = 0 THEN Own(g, p)
        ELSE walk[n - 1] \cup
             {e[2] : e \in {x \in Edges(g) : x[1] \in walk[n - 1] /\ x[2] \in Libraries(g)}}
  IN  walk[rounds] \cap Libraries(g)

Members(g, p) ==
  IF p \in Libraries(g) THEN Own(g, p) ELSE Own(g, p) \cup
    (IF p \in All(g) THEN ReachedLibraries(g, p) ELSE {})

UsedBy(g, l) == {p \in All(g) \ Libraries(g) : l \in ReachedLibraries(g, p)}

\* The products among rs: what a library of rs can belong to.
Present(g, rs) == {Of(g, r) : r \in rs \ Libraries(g)}

\* Fold: every repository of rs under the project a turn treats it as.
Fold(g, rs) ==
  LET libs == rs \cap Libraries(g)
      alone == {l \in libs : UsedBy(g, l) \cap Present(g, rs) = {}}
  IN  [p \in Present(g, rs) \cup alone |->
         {r \in rs \ libs : Of(g, r) = p} \cup {l \in libs : p \in UsedBy(g, l) \/ p = l}]

Distinct(g, rs) == Cardinality(DOMAIN Fold(g, rs))

\* Covered: the projects rs holds entirely, a product's libraries not required
\* and a library absorbed by any product of rs that is built on it.
Covered(g, rs) ==
  {p \in All(g) :
     /\ \A r \in Members(g, p) : r \in rs \/ (r \in g.library /\ p \notin Libraries(g))
     /\ UsedBy(g, p) \cap Present(g, rs) = {}}

-----------------------------------------------------------------------------
(* Fold and Covered read the same turn: the projects a set of repositories *)
(* covers entirely are exactly the folded ones whose own repositories are  *)
(* all there, so a card's entry and the resumed turn agree on what it was. *)
FoldCovers(g) ==
  \A rs \in SUBSET Enabled(g) :
    Covered(g, rs) = {p \in DOMAIN Fold(g, rs) : Own(g, p) \subseteq rs}

(* Folding loses no repository and widens none: every repository lands in  *)
(* an entry, every entry holds repositories of its own product's search    *)
(* only, and a product offered alone is searched with all its members.     *)
FoldKeeps(g) ==
  \A rs \in SUBSET Enabled(g) :
    /\ UNION {Fold(g, rs)[p] : p \in DOMAIN Fold(g, rs)} = rs
    /\ \A p \in DOMAIN Fold(g, rs) : Fold(g, rs)[p] # {} /\ Fold(g, rs)[p] \subseteq Members(g, p)
=============================================================================
