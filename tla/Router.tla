------------------------------- MODULE Router -------------------------------
(***************************************************************************)
(* Whether a searched question is answered or put back as a card (ask/     *)
(* route.go Router.route): the hits grouped into candidates, the ladder of *)
(* rungs, each run only when it can still matter, and the card's naming,   *)
(* one model call per entry at once.  What the rungs mean together is      *)
(* DecideWhy; which of them are run is the steps below.                    *)
(*                                                                         *)
(* related, judged and choosable hold the answers a rung may still give:   *)
(* both until it has run, one after.                                       *)
(***************************************************************************)
EXTENDS Projects, Sequences, FiniteSetsExt

CONSTANTS
  Asking,                    \* what a turn brings: [hits, named, allRepos, dev]
  Corpus,                    \* [grouping, requires, publishes, below, linked]
  FloorNum, FloorDen,        \* candidateFloor
  MarginNum, MarginDen,      \* the router's margin
  MaxCandidates, MaxRepoCandidates

\* Scores are not negative and a turn has finitely many hits; the floor is a
\* share of the leader's score; a card of products has two entries at least and
\* room for the one that says all of them.
ASSUME RoutedTurns ==
  /\ \A a \in Asking : a.hits \in Seq(Range(a.hits)) /\ \A h \in Range(a.hits) : h.score \in Nat
  /\ FloorNum \in Nat /\ FloorDen \in Nat /\ FloorNum <= FloorDen
  /\ MaxRepoCandidates \in Nat /\ MaxCandidates \in Nat
  /\ 2 <= MaxRepoCandidates /\ MaxRepoCandidates < MaxCandidates

VARIABLES
  asked,        \* the turn being routed, with its corpus
  ranked,       \* every candidate worth offering, best first
  related, judged, choosable,
  entries,      \* the entries being named: [entry, title]; title "due", "named" or "bare"
  decision,     \* [ask, broad, shown], or <<>> before there is one
  routing       \* "idle", the step due, "done" or "failed"

routerVars == <<asked, ranked, related, judged, choosable, entries, decision, routing>>

-----------------------------------------------------------------------------
(* Candidates.                                                             *)

\* The hits of a candidate are places in the turn's list; what it scores is its
\* best one.
TopScore(hits, of) == Max({hits[i].score : i \in of})

\* Best first, and an equal score keeps the order of first met.
BestFirst(cs) ==
  LET rank(c) == Cardinality({d \in cs : \/ d.score > c.score
                                         \/ d.score = c.score /\ d.met < c.met}) + 1
  IN  [n \in 1 .. Cardinality(cs) |-> CHOOSE c \in cs : rank(c) = n]

\* What a hit is grouped by: moduleLookup's module, or its own directory.
Place(h, by) == <<h.repo, IF by = "module" /\ h.module # "" THEN h.module ELSE h.dir>>

Candidates(hits, by) ==
  LET of(k) == {i \in DOMAIN hits : Place(hits[i], by) = k}
  IN  {[repos |-> {k[1]}, key |-> k[2], name |-> k[1],
        of |-> of(k), score |-> TopScore(hits, of(k)), met |-> Min(of(k))] :
         k \in {Place(hits[i], by) : i \in DOMAIN hits}}

OnlySupporting(hits, c) == \A i \in c.of : hits[i].supporting

\* worthOffering: near the leader, and code where any candidate near it has code.
WorthOffering(hits, cs) ==
  LET lead == Max({c.score : c \in cs})
      near == {c \in cs : lead > 0 => c.score * FloorDen >= lead * FloorNum}
      code == {c \in near : ~OnlySupporting(hits, c)}
  IN  IF code = {} THEN near ELSE code

Ranked(hits, by) == BestFirst(WorthOffering(hits, Candidates(hits, by)))

Cut(s, n) == SubSeq(s, 1, IF Len(s) < n THEN Len(s) ELSE n)

Dominates(cs) ==
  \/ Len(cs) < 2
  \/ cs[1].score > 0 /\ (cs[1].score - cs[2].score) * MarginDen > MarginNum * cs[1].score

ReposOf(cs) == UNION {c.repos : c \in Range(cs)}
DistinctProjects(cs) == Distinct(asked.corpus.grouping, ReposOf(cs))
Spans(cs) == asked.named = {} /\ DistinctProjects(cs) >= 2

\* Entries of cs under one name, first met where met says.
Entry(cs, repos, name, at, met) ==
  [repos |-> repos, key |-> "", name |-> name, of |-> UNION {cs[n].of : n \in at},
   score |-> Max({cs[n].score : n \in at}), met |-> met]

\* RepoCandidates: one entry a repository, no module.
RepoCandidates(cs) ==
  LET at(r) == {n \in DOMAIN cs : cs[n].name = r}
  IN  BestFirst({Entry(cs, {r}, r, at(r), Min(at(r))) : r \in {cs[n].name : n \in DOMAIN cs}})

\* projectCandidates: one entry a product with the repositories it folds, the
\* libraries that stand alone after the products.
ProductCandidates(cs) ==
  LET g      == asked.corpus.grouping
      fold   == Fold(g, ReposOf(cs))
      at(p)  == {n \in DOMAIN cs : cs[n].name \in fold[p]}
      own(p) == {n \in at(p) : cs[n].name \notin Libraries(g)}
      met(p) == IF own(p) # {} THEN Min(own(p)) ELSE Len(cs) + Min(at(p))
  IN  BestFirst({Entry(cs, fold[p], p, at(p), met(p)) : p \in DOMAIN fold})

-----------------------------------------------------------------------------
(* The rungs.                                                              *)

\* repodeps.AnyDependency: one requires what another publishes, or a path below it.
AnyDependency(repos) ==
  \E a, b \in repos : /\ a # b
    /\ \E x \in asked.corpus.requires[a] : \E y \in asked.corpus.publishes[b] :
         x = y \/ <<x, y>> \in asked.corpus.below

\* units.AnyLinked, inside one repository.
AnyLinked(repo, keys) ==
  \E k, l \in keys : k # l /\ <<repo, k, l>> \in asked.corpus.linked

Related(cs) ==
  \/ AnyDependency(ReposOf(cs))
  \/ \E r \in ReposOf(cs) :
       AnyLinked(r, {c.key : c \in {c \in Range(cs) : c.name = r /\ c.key # ""}})

\* decideWhy: the policy, over what every rung found.
DecideWhy(cs, isRelated, isJudged, canChoose) ==
  CASE asked.named # {}                         -> [ask |-> FALSE, rung |-> "named_repos"]
    [] asked.named = {} /\ asked.allRepos       -> [ask |-> FALSE, rung |-> "all_repos"]
    [] OTHER ->
       IF DistinctProjects(cs) > MaxRepoCandidates THEN [ask |-> TRUE, rung |-> "too_broad"]
       ELSE IF isRelated THEN [ask |-> FALSE, rung |-> "repo_deps"]
       ELSE IF Spans(cs) THEN [ask |-> TRUE, rung |-> "repository"]
       ELSE IF Dominates(cs) THEN [ask |-> FALSE, rung |-> "margin"]
       ELSE IF ~isJudged THEN [ask |-> FALSE, rung |-> "judge"]
       ELSE IF ~canChoose THEN [ask |-> FALSE, rung |-> "role"]
       ELSE [ask |-> TRUE, rung |-> "judge"]

-----------------------------------------------------------------------------
(* Steps.                                                                  *)

RouterIdle ==
  /\ asked = <<>> /\ ranked = <<>> /\ entries = <<>> /\ decision = <<>>
  /\ related = BOOLEAN /\ judged = BOOLEAN /\ choosable = BOOLEAN /\ routing = "idle"

RouterInit ==
  /\ \E a \in Asking, c \in Corpus :
       asked = [hits |-> a.hits, named |-> a.named, allRepos |-> a.allRepos, dev |-> a.dev, corpus |-> c]
  /\ ranked = <<>> /\ entries = <<>> /\ decision = <<>>
  /\ related = BOOLEAN /\ judged = BOOLEAN /\ choosable = BOOLEAN
  /\ routing = "rank"

Settle(ask, broad, shown) ==
  /\ decision' = [ask |-> ask, broad |-> broad, shown |-> shown]
  /\ routing' = "done"

\* Mutant: a leader's margin settles a question that spans products.
LeaderAnyway(cs) == Dominates(cs)

\* What the margin may settle before any manifest is read.
LeaderAlone(cs) == ~Spans(cs) /\ Dominates(cs)

\* A named repository, or all of them: grouped by directory, for the trace.
RankByPath ==
  /\ routing = "rank" /\ (asked.named # {} \/ asked.allRepos)
  /\ ranked' = Ranked(asked.hits, "path")
  /\ Settle(FALSE, FALSE, ranked')
  /\ UNCHANGED <<asked, related, judged, choosable, entries>>

\* Rank, and what it settles alone: one clear leader in one product, or more
\* products than a card can show.
Rank ==
  /\ routing = "rank" /\ asked.named = {} /\ ~asked.allRepos
  /\ ranked' = Ranked(asked.hits, "module")
  /\ IF LeaderAlone(ranked') THEN Settle(FALSE, FALSE, ranked')
     ELSE IF Spans(ranked') /\ DistinctProjects(ranked') > MaxRepoCandidates
       THEN Settle(TRUE, TRUE, ProductCandidates(RepoCandidates(ranked')))
     ELSE routing' = "related" /\ UNCHANGED decision
  /\ UNCHANGED <<asked, related, judged, choosable, entries>>

Nameable(cs) == [n \in DOMAIN cs |-> [entry |-> cs[n], title |-> "due"]]

\* The manifest rung: over every repository when products are apart, over what
\* a module card would show otherwise.
AskManifests ==
  /\ routing = "related"
  /\ LET capped == Cut(ranked, MaxCandidates)
         found == Related(IF Spans(ranked) THEN RepoCandidates(ranked) ELSE capped)
     IN  /\ related' = {found}
         /\ IF found THEN Settle(FALSE, FALSE, capped) /\ UNCHANGED entries
            ELSE IF Spans(ranked)
              THEN /\ entries' = Nameable(Cut(ProductCandidates(RepoCandidates(ranked)), MaxRepoCandidates))
                   /\ routing' = "name"
                   /\ UNCHANGED decision
            ELSE routing' = "judge" /\ UNCHANGED <<entries, decision>>
  /\ UNCHANGED <<asked, ranked, judged, choosable>>

\* judge: "compose" answers; any other reply, an unreadable one included, asks.
JudgeRung ==
  /\ routing = "judge"
  /\ \E reply \in {"ask", "compose", "unreadable"} :
       /\ judged' = {reply # "compose"}
       /\ IF reply = "compose"
          THEN Settle(FALSE, FALSE, Cut(ranked, MaxCandidates)) /\ UNCHANGED entries
          ELSE /\ entries' = Nameable(Cut(ranked, MaxCandidates))
               /\ routing' = "name"
               /\ UNCHANGED decision
  /\ UNCHANGED <<asked, ranked, related, choosable>>

\* name: each entry's call returns on its own; one that fails, or gives no
\* title, leaves the module key or the repository there.
NameEntry(n) ==
  /\ routing = "name" /\ entries[n].title = "due"
  /\ \E title \in {"named", "bare"} : entries' = [entries EXCEPT ![n].title = title]
  /\ UNCHANGED <<asked, ranked, related, judged, choosable, decision, routing>>

AllIn == routing = "name" /\ \A n \in DOMAIN entries : entries[n].title # "due"

\* A card of products, or a developer's, is shown as it is; an analyst's card
\* with a bare title is not, and no model is asked about it.
ShowCard ==
  /\ AllIn /\ (Spans(ranked) \/ asked.dev)
  /\ Settle(TRUE, FALSE, [n \in DOMAIN entries |-> entries[n].entry])
  /\ UNCHANGED <<asked, ranked, related, judged, choosable, entries>>

RefuseBareCard ==
  /\ AllIn /\ ~Spans(ranked) /\ ~asked.dev
  /\ \E n \in DOMAIN entries : entries[n].title = "bare"
  /\ choosable' = {FALSE}
  /\ Settle(FALSE, FALSE, [n \in DOMAIN entries |-> entries[n].entry])
  /\ UNCHANGED <<asked, ranked, related, judged, entries>>

\* Choosable: "choose" asks; any other reply answers.
Choosable ==
  /\ AllIn /\ ~Spans(ranked) /\ ~asked.dev
  /\ \A n \in DOMAIN entries : entries[n].title = "named"
  /\ \E reply \in {"choose", "cannot", "unreadable"} :
       /\ choosable' = {reply = "choose"}
       /\ Settle(reply = "choose", FALSE, [n \in DOMAIN entries |-> entries[n].entry])
  /\ UNCHANGED <<asked, ranked, related, judged, entries>>

\* A query or a model call that fails fails the turn; a naming call does not.
RouteFails ==
  /\ \/ routing \in {"rank", "related", "judge"}
     \/ AllIn /\ ~Spans(ranked) /\ ~asked.dev
        /\ \A n \in DOMAIN entries : entries[n].title = "named"
  /\ routing' = "failed"
  /\ UNCHANGED <<asked, ranked, related, judged, choosable, entries, decision>>

RouterNext ==
  \/ RankByPath \/ Rank \/ AskManifests \/ JudgeRung \/ ShowCard \/ RefuseBareCard
  \/ Choosable \/ RouteFails
  \/ \E n \in DOMAIN entries : NameEntry(n)

\* One turn by itself.
RouterSpec == RouterInit /\ [][RouterNext]_routerVars

-----------------------------------------------------------------------------
\* Skipping a rung never changes the decision: whatever the rungs that were
\* not run would have said, the ladder over all of them decides as the turn
\* did.  The shortcuts are written beside the policy and must not become one.
ShortcutsKeepPolicy ==
  routing = "done" =>
    \A r \in related, j \in judged, c \in (IF asked.dev THEN {TRUE} ELSE choosable) :
      DecideWhy(ranked, r, j, c).ask = decision.ask

\* A card is worth its click: two entries at least and no more than a card
\* holds, the entry for all repositories counted; each with code in it where
\* any hit worth offering has code; none of its entries uses another by a
\* manifest; and an analyst sees no path for a title.
CardWorthAsking ==
  (routing = "done" /\ decision.ask /\ ~decision.broad) =>
    LET shown == Range(decision.shown)
        buttons == Len(decision.shown) + (IF Spans(ranked) THEN 1 ELSE 0)
    IN  /\ Len(decision.shown) >= 2 /\ buttons <= MaxCandidates
        /\ Cardinality(shown) = Len(decision.shown)
        /\ \A a, b \in shown : a # b =>
             /\ \A r \in a.repos, s \in b.repos : ~AnyDependency({r, s})
             /\ (a.key # "" /\ b.key # "" /\ a.name = b.name) => ~AnyLinked(a.name, {a.key, b.key})
        /\ (~Spans(ranked) /\ ~asked.dev) => \A n \in DOMAIN entries : entries[n].title = "named"
        /\ \A c \in Range(ranked) : OnlySupporting(asked.hits, c) =>
             \A h \in Range(asked.hits) : h.supporting \/ h.score * FloorDen < ranked[1].score * FloorNum

\* A card is asked when the policy asks, and is worth it: ShortcutsKeepPolicy
\* and CardWorthAsking.
CardSound == ShortcutsKeepPolicy /\ CardWorthAsking
=============================================================================
