------------------------------ MODULE Modules ------------------------------
(***************************************************************************)
(* How a repository's indexed files become the modules a question is       *)
(* routed between (modules/cluster.go over units.Of).  A directory is the  *)
(* sequence of its segments, the root <<>>.  Declared units take their     *)
(* files first; the rest is cut by directory, deepest first: one too small *)
(* is carried to its parent, and a parent its children would make too      *)
(* large gives them back.                                                  *)
(***************************************************************************)
EXTENDS Integers, Sequences, FiniteSets, FiniteSetsExt

CONSTANTS
  Trees,         \* sets of files: [dir, name, chunks, skipped]
  UnitSets,      \* sets of unit directories
  MinChunks, MaxChunks   \* modules.Opts; a MaxChunks of 0 splits nothing

\* What the tables hold: finitely many files, each with a path and a count of
\* chunks, and units with paths of their own.
ASSUME CutTables ==
  /\ MinChunks \in Nat /\ MaxChunks \in Nat
  /\ \A t \in Trees : IsFiniteSet(t) /\ \A f \in t : f.dir \in Seq(STRING) /\ f.chunks \in Nat
  /\ \A us \in UnitSets : us \subseteq Seq(STRING)

VARIABLES
  tree, units,   \* the repository's rows
  own,           \* directory -> its unclaimed files, for those still to visit
  pending,       \* directory -> the groups carried up to it: [key, files]
  cut,           \* the modules so far: [key, files, declared, oversized]
  clustering     \* "idle", "rows", "dirs" or "done"

moduleVars == <<tree, units, own, pending, cut, clustering>>

-----------------------------------------------------------------------------
Parent(d) == SubSeq(d, 1, Len(d) - 1)
Under(d, prefix) == Len(prefix) <= Len(d) /\ SubSeq(d, 1, Len(prefix)) = prefix
Chunks(files) == MapThenSumSet(LAMBDA f : f.chunks, files)

\* loadDirs: a file the selector skipped is a row and no part of a module.
Indexed == {f \in tree : ~f.skipped}

\* units.Of: the longest unit the file lies under; the root is no unit.
UnitsOver(f) == {u \in units : u # <<>> /\ Under(f.dir, u)}
UnitOf(f) == CHOOSE u \in UnitsOver(f) : \A v \in UnitsOver(f) : Len(v) <= Len(u)

ModuleIdle ==
  /\ tree = {} /\ units = {} /\ own = <<>> /\ pending = <<>> /\ cut = {} /\ clustering = "idle"

ModuleInit ==
  /\ tree \in Trees /\ units \in UnitSets
  /\ own = <<>> /\ pending = <<>> /\ cut = {}
  /\ clustering = "rows"

\* claimByUnits, and the directories of what no unit claims.
ClaimByUnits ==
  /\ clustering = "rows"
  /\ LET claimed == {f \in Indexed : UnitsOver(f) # {}}
         rest    == Indexed \ claimed
     IN  /\ cut' = {[key |-> u, files |-> {f \in claimed : UnitOf(f) = u},
                     declared |-> TRUE, oversized |-> FALSE] : u \in {UnitOf(f) : f \in claimed}}
         /\ own' = [d \in {f.dir : f \in rest} |-> {f \in rest : f.dir = d}]
  /\ clustering' = "dirs"
  /\ UNCHANGED <<tree, units, pending>>

Carried(d) == IF d \in DOMAIN pending THEN pending[d] ELSE {}
Module(group, oversized) ==
  [key |-> group.key, files |-> group.files, declared |-> FALSE, oversized |-> oversized]

\* Mutant: a parent without files of its own is never visited.
LeftOfOwn(d) == DOMAIN own \ {d}

\* The directories still to visit once d is carried to its parent.
LeftAfterCarry(d) == (DOMAIN own \ {d}) \cup {Parent(d)}

\* A directory splits when what its children carried up would make it too
\* large: they stand as they are, and it goes on with its own files.
Large(files) == MaxChunks > 0 /\ Chunks(files) > MaxChunks
Given(d)  == UNION {g.files : g \in Carried(d)}
Splits(d) == Carried(d) # {} /\ Large(own[d] \cup Given(d))
Back(d)   == IF Splits(d) THEN {Module(g, FALSE) : g \in Carried(d)} ELSE {}
Merged(d) == [key |-> d, files |-> IF Splits(d) THEN own[d] ELSE own[d] \cup Given(d)]
Stands(group) == Chunks(group.files) >= MinChunks \/ group.key = <<>>

WithoutDir(f, d) == [x \in DOMAIN f \ {d} |-> f[x]]

\* clusterDirs visits one of the deepest directories left; two of one depth
\* hand nothing to each other, so their order is any.  What is left of it is
\* nothing, a module, or a group carried to its parent.
Visits(d) ==
  /\ clustering = "dirs" /\ d \in DOMAIN own
  /\ \A x \in DOMAIN own : Len(x) <= Len(d)
  /\ UNCHANGED <<tree, units, clustering>>

LeaveDir(d) ==
  /\ Visits(d) /\ Merged(d).files = {}
  /\ cut' = cut \cup Back(d)
  /\ own' = WithoutDir(own, d) /\ pending' = WithoutDir(pending, d)

KeepDir(d) ==
  /\ Visits(d) /\ Merged(d).files # {} /\ Stands(Merged(d))
  /\ cut' = cut \cup Back(d) \cup {Module(Merged(d), Large(Merged(d).files))}
  /\ own' = WithoutDir(own, d) /\ pending' = WithoutDir(pending, d)

CarryDir(d) ==
  /\ Visits(d) /\ Merged(d).files # {} /\ ~Stands(Merged(d))
  /\ cut' = cut \cup Back(d)
  /\ LET up == Parent(d)
         rest == WithoutDir(pending, d)
     IN  pending' = [x \in DOMAIN rest \cup {up} |->
                       IF x = up THEN Carried(up) \cup {Merged(d)} ELSE rest[x]]
  /\ own' = [x \in LeftAfterCarry(d) |-> IF x \in DOMAIN own \ {d} THEN own[x] ELSE {}]

FinishCut ==
  /\ clustering = "dirs" /\ DOMAIN own = {}
  /\ clustering' = "done"
  /\ UNCHANGED <<tree, units, own, pending, cut>>

ModuleNext ==
  \/ ClaimByUnits \/ FinishCut
  \/ \E d \in DOMAIN own : LeaveDir(d) \/ KeepDir(d) \/ CarryDir(d)

\* One repository's cut by itself.
ModuleSpec == ModuleInit /\ [][ModuleNext]_moduleVars

-----------------------------------------------------------------------------
\* The cut loses no file and offers none twice: every indexed file is in one
\* module, under its key, and no two modules share a key, whatever units nest
\* in each other and whichever parents hold no file of their own.
CutIsPartition ==
  clustering = "done" =>
    /\ \A f \in Indexed : Cardinality({m \in cut : f \in m.files}) = 1
    /\ \A m \in cut : m.files # {} /\ \A f \in m.files : f \in Indexed /\ Under(f.dir, m.key)
    /\ \A m, n \in cut : m.key = n.key => m = n

\* A module is too small only where joining its parent would have been too
\* large, and too large only where there was nothing left to split: the first
\* would offer a reader slivers, the second one heap.  One that is too large
\* is marked, unless the configured minimum is above the maximum and it was
\* too small as well.
CutIsSized ==
  clustering = "done" =>
    \A m \in cut : ~m.declared =>
      /\ (Chunks(m.files) < MinChunks /\ m.key # <<>>) =>
           LET p == Parent(m.key)
               taken == UNION {n.files : n \in {n \in cut : n.declared}}
           IN  Large({f \in Indexed \ taken : Under(f.dir, p)})
      /\ m.oversized => Large(m.files) /\ \A f \in m.files : f.dir = m.key
      /\ Large(m.files) => m.oversized \/ Chunks(m.files) < MinChunks

\* A cut a question can be routed between: CutIsPartition and CutIsSized.
CutSound == CutIsPartition /\ CutIsSized
=============================================================================
