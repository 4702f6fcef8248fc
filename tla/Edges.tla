------------------------------- MODULE Edges -------------------------------
(***************************************************************************)
(* Who shares a queue, a route or a key with a file of another repository  *)
(* (edges/neighbours.go): the two halves of one table, read from a near    *)
(* file and from a spelled value, and the per-repository list of its       *)
(* links.  A row says that a file carries a value of a kind; a value is    *)
(* in the table as often as files carry it.                                *)
(***************************************************************************)
EXTENDS Integers, FiniteSets

CONSTANTS
  TokenTables,     \* sets of rows: [repo, path, kind, value]; path is [name, ext]
  TailOf,          \* pairs of route values, the second the end of the first
  SpreadCeiling,
  EnabledSets      \* the repositories not parked

VARIABLES
  rows, live,      \* integration_tokens, and repo_state's enabled ones
  near,            \* the file asked about, a [repo, path]
  suffix,          \* Match.Suffix, BACKEND's route rule
  across, held,    \* NeighboursWith; Holders by value
  linksOf, census,  \* the repositories LinkCensus is asked of, and their links
  crossing         \* "idle", "near", "values", "links" or "done"

edgeVars == <<rows, live, near, suffix, across, held, linksOf, census, crossing>>

-----------------------------------------------------------------------------
Crosses(kind) == kind \notin {"link", "image"}

\* Mutant: parked repositories are counted too.
SpreadAll(table, on, kind, value) ==
  Cardinality({t.repo : t \in {t \in table : t.kind = kind /\ t.value = value}})

\* spreadCount, over the enabled repositories only.
Spread(table, on, kind, value) ==
  Cardinality({t.repo : t \in {t \in table : t.repo \in on /\ t.kind = kind /\ t.value = value}})

\* Match: equal, or under the suffix rule one route ending in the other.
SameEnd(a, b, loose) ==
  \/ a.value = b.value
  \/ loose /\ a.kind = "route" /\ (<<a.value, b.value>> \in TailOf \/ <<b.value, a.value>> \in TailOf)

\* Another repository; for a property key read by code, also a properties file
\* of its own.
MayLand(from, t, kind) ==
  \/ t.repo # from.repo
  \/ /\ kind = "property" /\ t.path # from.path
     /\ from.path.ext # "properties" /\ t.path.ext = "properties"

NeighboursWith(table, on, from, loose) ==
  {t \in table :
     /\ t.repo \in on
     /\ \E mine \in table :
          /\ mine.repo = from.repo /\ mine.path = from.path
          /\ Crosses(mine.kind) /\ t.kind = mine.kind /\ SameEnd(mine, t, loose)
          /\ MayLand(from, t, mine.kind)
          /\ Spread(table, on, mine.kind, mine.value) <= SpreadCeiling}

Holders(table, on, kind, value) ==
  IF ~Crosses(kind) THEN {}
  ELSE {t \in table : /\ t.repo \in on /\ t.kind = kind /\ t.value = value
                      /\ Spread(table, on, kind, value) <= SpreadCeiling}

InRepo(table, on, repo, kind) == {t \in table : t.repo = repo /\ t.repo \in on /\ t.kind = kind}

-----------------------------------------------------------------------------
EdgeIdle ==
  /\ rows = {} /\ live = {} /\ near = <<>> /\ suffix = FALSE
  /\ across = {} /\ held = {} /\ linksOf = {} /\ census = {} /\ crossing = "idle"

\* The near file is a gathered source, of an enabled repository.
EdgeInit ==
  /\ rows \in TokenTables /\ live \in EnabledSets
  /\ near \in {[repo |-> t.repo, path |-> t.path] : t \in {t \in rows : t.repo \in live}}
  /\ suffix \in BOOLEAN
  /\ across = {} /\ held = {} /\ linksOf = {} /\ census = {} /\ crossing = "near"

AskNear ==
  /\ crossing = "near" /\ crossing' = "values"
  /\ across' = NeighboursWith(rows, live, near, suffix)
  /\ UNCHANGED <<rows, live, near, suffix, held, linksOf, census>>

\* The values the near file carries, each asked for by name.
AskValues ==
  /\ crossing = "values" /\ crossing' = "links"
  /\ held' = UNION {Holders(rows, live, t.kind, t.value) :
                      t \in {t \in rows : t.repo = near.repo /\ t.path = near.path}}
  /\ UNCHANGED <<rows, live, near, suffix, across, linksOf, census>>

\* LinkCensus: InRepo of each repository the question names, one parked since
\* among them.
AskLinks ==
  /\ crossing = "links" /\ crossing' = "done"
  /\ linksOf' \in SUBSET {t.repo : t \in rows}
  /\ census' = UNION {InRepo(rows, live, r, "link") : r \in linksOf'}
  /\ UNCHANGED <<rows, live, near, suffix, across, held>>

EdgeNext == AskNear \/ AskValues \/ AskLinks

EdgeSpec == EdgeInit /\ [][EdgeNext]_edgeVars

-----------------------------------------------------------------------------
\* A parked repository influences nothing: what is read is what a table
\* without its rows would give, in the spread a value is counted by too, where
\* it could cost two live repositories their edge.
ParkedInfluencesNothing ==
  LET alive == {t \in rows : t.repo \in live}
  IN  /\ crossing \in {"values", "links", "done"} =>
           across = NeighboursWith(alive, {t.repo : t \in alive}, near, suffix)
      /\ crossing \in {"links", "done"} => \A t \in held : t.repo \in live

\* The two halves of the table agree on what a link is, and it is one from
\* both ends: a file across the boundary by the exact rule holds a value of the
\* near file and the near file is across from it; no link, no image and no
\* value more repositories carry than the ceiling lands anywhere, and at home
\* only a key's properties file does.
HalvesAgree ==
  crossing \in {"links", "done"} =>
    /\ ~suffix => {t \in across : t.repo # near.repo} = {t \in held : t.repo # near.repo}
    /\ \A t \in across : t.repo # near.repo /\ t \in held =>
         \E back \in NeighboursWith(rows, live, [repo |-> t.repo, path |-> t.path], FALSE) :
           back.repo = near.repo /\ back.path = near.path
    /\ \A t \in across : /\ t.kind \notin {"link", "image"}
                         /\ t.repo = near.repo => t.kind = "property" /\ t.path.ext = "properties"
    /\ \A t \in across : ~suffix =>
         Cardinality({u.repo : u \in {u \in rows : u.repo \in live /\ u.kind = t.kind /\ u.value = t.value}})
           <= SpreadCeiling

\* A link is listed and never crossed: the census holds every link of the
\* repositories it was asked of that are not parked, however many carry the
\* value, and nothing it holds came across or is held for a value.
LinksListed ==
  crossing = "done" =>
    /\ census = {t \in rows : t.kind = "link" /\ t.repo \in linksOf \cap live}
    /\ census \cap (across \cup held) = {}

\* One reading of the table: ParkedInfluencesNothing, HalvesAgree, LinksListed.
CrossingsSound == ParkedInfluencesNothing /\ HalvesAgree /\ LinksListed
=============================================================================
