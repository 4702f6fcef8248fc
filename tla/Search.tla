------------------------------- MODULE Search -------------------------------
(***************************************************************************)
(* One search of the index (retrieve.go searchTexts, store.go's lanes,     *)
(* hybrid.go's fusion, llmrerank.go), beside the poller that re-indexes a  *)
(* file or parks a repository between two of its reads.  Each semantic and *)
(* each keyword lane is a query of its own; the substring lane is three    *)
(* reads in one read transaction.  A chunk is what the lanes tell apart    *)
(* about it: its address, its kind, how near each text it lies (0 is past  *)
(* MaxDistance), which rung of each text's ladder it reaches, the terms    *)
(* its source holds.                                                       *)
(***************************************************************************)
EXTENDS Ranking, SequencesExt

CONSTANTS
  Corpora,      \* sets of chunks: [repo, path, line, kind, dir, near, words, holds]
  Queries,      \* [texts, ladder, code, terms, repos, stage, k]
  LaneCandidates, Pool,          \* rows a lane fetches; the reranker's pool, 0 without one
  HubFloor, HubNum, HubDen,  \* the hub guard: a corpus size, and a share of it
  Picks,        \* what the reranking model may answer: sequences of numbers
  MaxReindexes, MaxParks     \* bounds of the run

VARIABLES
  db,           \* chunk id -> chunk
  enabled,      \* the repositories not parked
  query,        \* the search asked
  lanes,        \* the lanes so far: [weight, hits], a hit is [id, chunk]
  snapshot,     \* the state the substring transaction reads
  perTerm,      \* the substring matches, one sequence of ids a kept term
  fused, found, \* the fused list, and what the search returns
  picked,       \* the model's answer, empty when it gave none
  moves,        \* [reindexed, parked], counted for the bounds
  searching     \* "idle", the step due, "done" or "failed"

searchVars == <<db, enabled, query, lanes, snapshot, perTerm, fused, found, picked, moves, searching>>

-----------------------------------------------------------------------------
(* Order and scope.                                                        *)

Address(c) == <<c.repo, c.path, c.line>>

ASSUME CorporaAssumption ==
  \A corpus \in Corpora :
    /\ IsFiniteSet(corpus)
    /\ \A c, d \in corpus : Address(c) = Address(d) => c = d
    /\ \A c \in corpus :
         /\ {c.repo, c.path, c.line} \subseteq Nat /\ c.kind \in {"code", "test", "doc"}
         /\ \A q \in Queries : \A t \in Range(q.texts) : c.near[t] \in 0 .. 2 /\ c.words[t] \in 0 .. 3

ASSUME SearchAssumption ==
  /\ \A q \in Queries :
       /\ {q.texts, q.terms} \subseteq Seq(STRING) /\ q.k \in Int
       /\ \A i \in DOMAIN q.texts :
            q.ladder[i] \in Seq({"strict", "content", "prefix", "any"}) /\ Len(q.ladder[i]) <= 4
  /\ Picks \subseteq Seq(Int)
  /\ LaneCandidates \in Nat \ {0} /\ Pool \in Nat

\* Addresses are numbers here, compared field by field.
AddressBelow(a, b) ==
  \/ a.repo < b.repo
  \/ a.repo = b.repo /\ a.path < b.path
  \/ a.repo = b.repo /\ a.path = b.path /\ a.line < b.line

\* Mutant: a tie is broken on the id.
IdBelow(a, b) == a.id < b.id

\* lessByAddress: the address, and the id only where that is the same.
HitBelow(a, b) ==
  AddressBelow(a.chunk, b.chunk) \/ (Address(a.chunk) = Address(b.chunk) /\ a.id < b.id)

\* repoScope and the enabled clause, one for every lane: the named
\* repositories, or all, and the asked stage's directory where one is declared.
InScope(c, on, q) ==
  /\ c.repo \in on
  /\ q.repos # {} => c.repo \in q.repos
  /\ c.repo \in DOMAIN q.stage => c.dir = q.stage[c.repo]

Scoped(state, q) == {id \in DOMAIN state.db : InScope(state.db[id], state.on, q)}

Hits(state, ids) == [i \in 1 .. Len(ids) |-> [id |-> ids[i], chunk |-> state.db[ids[i]]]]

First(s, n) == SubSeq(s, 1, IF Len(s) < n THEN Len(s) ELSE n)

\* The ids that measure something, by the measure, then by address.
Ordered(state, measure) ==
  InOrder([x \in DOMAIN measure |->
    {y \in DOMAIN measure :
       \/ measure[y] < measure[x]
       \/ measure[y] = measure[x] /\ AddressBelow(state.db[y], state.db[x])}])

-----------------------------------------------------------------------------
(* Lanes.                                                                  *)

K(q) == IF q.k <= 0 THEN 10 ELSE q.k
CutTo(q) == IF Pool > K(q) THEN Pool ELSE K(q)
Depth(q) == IF Pool > K(q) /\ LaneCandidates < CutTo(q) THEN CutTo(q) ELSE LaneCandidates

\* SearchVectorIn: the rows vec0 may keep at its k boundary (which of several
\* equidistant ones is its own choice), those within the distance, in order.
SemanticLanes(state, q, t) ==
  LET rows    == Scoped(state, q)
      dist(x) == IF state.db[x].near[t] = 0 THEN 3 ELSE state.db[x].near[t]
      size    == IF Cardinality(rows) < Depth(q) THEN Cardinality(rows) ELSE Depth(q)
      kept    == {S \in SUBSET rows : /\ Cardinality(S) = size
                                      /\ \A x \in S, y \in rows \ S : dist(x) <= dist(y)}
  IN  {Ordered(state, [x \in {x \in S : dist(x) < 3} |-> dist(x)]) : S \in kept}

\* The rung a chunk must reach for a tier of the ladder to match it.
Rung == [strict |-> 3, content |-> 3, prefix |-> 2, any |-> 1]

\* SearchKeywordIn, bm25 read as how much of the text a chunk holds.
KeywordLane(state, q, t, tier) ==
  LET reached == {x \in Scoped(state, q) : state.db[x].words[t] >= Rung[tier]}
  IN  First(Ordered(state, [x \in reached |-> 0 - state.db[x].words[t]]), Depth(q))

\* The weights, in twentieths; the OR floor of the code text has its own.
WeightSemantic == 12
WeightSubstring == 17
Weight(q, t, tier) ==
  CASE tier = "strict"  -> 20
    [] tier = "content" -> 18
    [] tier = "prefix"  -> 14
    [] tier = "any"     -> IF t = q.code THEN 16 ELSE 8

\* The hub guard: a term in more than its share of the scope is no evidence.
Matches(state, q, term) == {x \in Scoped(state, q) : term \in state.db[x].holds}
Hub(state, q, term) ==
  /\ Cardinality(Scoped(state, q)) >= HubFloor
  /\ Cardinality(Matches(state, q, term)) * HubDen > HubNum * Cardinality(Scoped(state, q))

Kept(state, q) ==
  Picked(q.terms, {i \in DOMAIN q.terms :
                     Matches(state, q, q.terms[i]) # {} /\ ~Hub(state, q, q.terms[i])})

\* substringKindRank: code, then tests, then documentation.
KindRank(c) == CASE c.kind = "code" -> 0 [] c.kind = "test" -> 1 [] c.kind = "doc" -> 2

TermMatches(state, q, term) ==
  First(Ordered(state, [x \in Matches(state, q, term) |-> KindRank(state.db[x])]), Depth(q))

\* The round robin over the terms: first by depth and then by term, each id
\* at the first place it is met.
RoundRobin(ids, n) ==
  LET places == {p \in (1 .. n) \X (1 .. Len(ids)) : p[1] <= Len(ids[p[2]])}
      id(p)  == ids[p[2]][p[1]]
      firsts == {p \in places : \A r \in places :
                   (r[1] < p[1] \/ (r[1] = p[1] /\ r[2] < p[2])) => id(r) # id(p)}
      order  == InRows(firsts)
  IN  First([i \in 1 .. Len(order) |-> id(order[i])], n)

-----------------------------------------------------------------------------
(* Fusion.                                                                 *)

\* 1/(60 + rank) over a common denominator, for the four ranks an instance has.
Reciprocal(rank) == 2382660 \div (60 + rank)

\* supportingDecay, in twentieths: the harsher of the two, once.
Decay(c) == CASE c.kind = "test" -> 7 [] c.kind = "doc" -> 14 [] OTHER -> 20

\* What a lane adds to a chunk's score: its weight by the rank, if it has it.
Share(id, lane) ==
  IF lane.weight > 0 /\ \E r \in DOMAIN lane.hits : lane.hits[r].id = id
  THEN lane.weight * Reciprocal((CHOOSE r \in DOMAIN lane.hits : lane.hits[r].id = id) - 1)
  ELSE 0

LaneSum(id, ls) == MapThenSumSet(LAMBDA i : Share(id, ls[i]), DOMAIN ls)

\* FuseWeightedDecayed: every hit of a lane that weighs something, by its
\* decayed score, then by lessByAddress.
Fuse(ls, k) ==
  LET hits     == UNION {Range(ls[i].hits) : i \in {i \in DOMAIN ls : ls[i].weight > 0}}
      score    == [h \in hits |-> LaneSum(h.id, ls) * Decay(h.chunk)]
  IN  First(InOrder([b \in hits |->
                       {a \in hits :
                          \/ score[a] > score[b]
                          \/ score[a] = score[b] /\ HitBelow(a, b)}]), k)

\* Rerank: the picks in range and not repeated, in the model's order, then the
\* rest in the fused order.
Rerank(hits, picks, k) ==
  LET good == {i \in DOMAIN picks : /\ picks[i] \in DOMAIN hits
                                    /\ \A j \in 1 .. i - 1 : picks[j] # picks[i]}
      head == Picked(picks, good)
      rest == {n \in DOMAIN hits : \A i \in good : picks[i] # n}
  IN  First([i \in 1 .. Len(head) |-> hits[head[i]]] \o Picked(hits, rest), k)

-----------------------------------------------------------------------------
(* Steps.                                                                  *)

NoState == [db |-> <<>>, on |-> {}]
NoQuery == [texts |-> <<>>]
Now == [db |-> db, on |-> enabled]

\* The rungs due: every tier of every text's ladder, in order.
Rungs(q) ==
  LET at == InRows({p \in (DOMAIN q.texts) \X (1 .. 4) : p[2] <= Len(q.ladder[p[1]])})
  IN  [n \in 1 .. Len(at) |-> [text |-> q.texts[at[n][1]], tier |-> q.ladder[at[n][1]][at[n][2]]]]

SearchIdle ==
  /\ db = <<>> /\ enabled = {} /\ query = NoQuery /\ lanes = <<>> /\ snapshot = NoState
  /\ perTerm = <<>> /\ fused = <<>> /\ found = <<>> /\ picked = <<>>
  /\ moves = [reindexed |-> 0, parked |-> 0] /\ searching = [at |-> "idle", n |-> 0]

\* Ids are in the order the files were indexed, any order.
SearchInit ==
  /\ \E corpus \in Corpora : \E order \in SetToSeqs(corpus) : db = order
  /\ enabled = {db[id].repo : id \in DOMAIN db}
  /\ query \in Queries
  /\ lanes = <<>> /\ snapshot = NoState /\ perTerm = <<>>
  /\ fused = <<>> /\ found = <<>> /\ picked = <<>>
  /\ moves = [reindexed |-> 0, parked |-> 0]
  /\ searching = [at |-> "embed", n |-> 0]

SearchAt(step) == searching.at = step
Goto(step, n) == searching' = [at |-> step, n |-> n]

\* No text to search is no hit and no error; otherwise all are embedded.
EmbedTexts ==
  /\ SearchAt("embed")
  /\ IF query.texts = <<>> THEN Goto("done", 0) ELSE Goto("semantic", 1)
  /\ UNCHANGED <<db, enabled, query, lanes, snapshot, perTerm, fused, found, picked, moves>>

SearchSemantic ==
  /\ SearchAt("semantic")
  /\ \E ids \in SemanticLanes(Now, query, query.texts[searching.n]) :
       lanes' = Append(lanes, [weight |-> WeightSemantic, hits |-> Hits(Now, ids)])
  /\ IF searching.n < Len(query.texts) THEN Goto("semantic", searching.n + 1)
     ELSE IF Rungs(query) = <<>> THEN Goto("count", 0) ELSE Goto("keyword", 1)
  /\ UNCHANGED <<db, enabled, query, snapshot, perTerm, fused, found, picked, moves>>

\* A rung without a hit is no lane.
SearchKeyword ==
  /\ SearchAt("keyword")
  /\ LET rung == Rungs(query)[searching.n]
         ids  == KeywordLane(Now, query, rung.text, rung.tier)
     IN  lanes' = IF ids = <<>> THEN lanes
                  ELSE Append(lanes, [weight |-> Weight(query, rung.text, rung.tier),
                                      hits |-> Hits(Now, ids)])
  /\ IF searching.n < Len(Rungs(query)) THEN Goto("keyword", searching.n + 1) ELSE Goto("count", 0)
  /\ UNCHANGED <<db, enabled, query, snapshot, perTerm, fused, found, picked, moves>>

\* SearchSubstringsIn's first scan opens the read transaction.
CountTerms ==
  /\ SearchAt("count")
  /\ IF query.terms = <<>> THEN snapshot' = snapshot /\ Goto("fuse", 0)
     ELSE /\ snapshot' = Now
          /\ IF Kept(Now, query) = <<>> THEN Goto("fuse", 0) ELSE Goto("scan", 0)
  /\ UNCHANGED <<db, enabled, query, lanes, perTerm, fused, found, picked, moves>>

ScanTerms ==
  /\ SearchAt("scan")
  /\ LET kept == Kept(snapshot, query)
     IN  perTerm' = [i \in 1 .. Len(kept) |-> TermMatches(snapshot, query, kept[i])]
  /\ Goto("fetch", 0)
  /\ UNCHANGED <<db, enabled, query, lanes, snapshot, fused, found, picked, moves>>

\* The blank Hit a map gives for an id it does not have.
NoChunk == [repo |-> 0, path |-> 0, line |-> 0, kind |-> "code", dir |-> "", holds |-> {}]

\* Mutant: the rows are read outside the transaction.
FetchedLive(state, ids) ==
  [i \in 1 .. Len(ids) |->
     IF ids[i] \in DOMAIN db THEN [id |-> ids[i], chunk |-> db[ids[i]]]
                             ELSE [id |-> 0, chunk |-> NoChunk]]

\* What the ids read back as.
Fetched(state, ids) ==
  [i \in 1 .. Len(ids) |->
     IF ids[i] \in DOMAIN state.db THEN [id |-> ids[i], chunk |-> state.db[ids[i]]]
                                   ELSE [id |-> 0, chunk |-> NoChunk]]

\* The rows of the matches, from the same snapshot, into one lane.
FetchTerms ==
  /\ SearchAt("fetch")
  /\ lanes' = Append(lanes, [weight |-> WeightSubstring,
                             hits |-> Fetched(snapshot, RoundRobin(perTerm, Depth(query)))])
  /\ Goto("fuse", 0)
  /\ UNCHANGED <<db, enabled, query, snapshot, perTerm, fused, found, picked, moves>>

FuseLanes ==
  /\ SearchAt("fuse")
  /\ fused' = Fuse(lanes, CutTo(query))
  /\ IF Pool = 0 \/ Len(fused') <= 1
     THEN found' = First(fused', K(query)) /\ Goto("done", 0)
     ELSE found' = found /\ Goto("rerank", 0)
  /\ UNCHANGED <<db, enabled, query, lanes, snapshot, perTerm, picked, moves>>

\* The model ranks; an error or an unreadable reply is no pick at all.
RerankHits ==
  /\ SearchAt("rerank")
  /\ picked' \in Picks
  /\ found' = Rerank(fused, picked', K(query))
  /\ Goto("done", 0)
  /\ UNCHANGED <<db, enabled, query, lanes, snapshot, perTerm, fused, moves>>

\* Any call of the search may fail, and the reader may leave: an error, no list.
SearchFails ==
  /\ searching.at \in {"embed", "semantic", "keyword", "count", "scan", "fetch", "rerank"}
  /\ Goto("failed", 0)
  /\ UNCHANGED <<db, enabled, query, lanes, snapshot, perTerm, fused, found, picked, moves>>

Running == searching.at \notin {"idle", "embed", "done", "failed"}

\* The poller writes a file again: its chunks keep their addresses under new ids.
ReindexFile ==
  /\ Running /\ moves.reindexed < MaxReindexes
  /\ \E id \in DOMAIN db :
       LET file == {x \in DOMAIN db : db[x].repo = db[id].repo /\ db[x].path = db[id].path}
           old  == InOrder([x \in file |-> {y \in file : y < x}])
           top  == CHOOSE m \in DOMAIN db : \A x \in DOMAIN db : x <= m
       IN  db' = [x \in (DOMAIN db \ file) \cup (top + 1 .. top + Len(old)) |->
                    IF x \in DOMAIN db THEN db[x] ELSE db[old[x - top]]]
  /\ moves' = [moves EXCEPT !.reindexed = @ + 1]
  /\ UNCHANGED <<enabled, query, lanes, snapshot, perTerm, fused, found, picked, searching>>

ParkRepo ==
  /\ Running /\ moves.parked < MaxParks
  /\ \E r \in enabled : enabled' = enabled \ {r}
  /\ moves' = [moves EXCEPT !.parked = @ + 1]
  /\ UNCHANGED <<db, query, lanes, snapshot, perTerm, fused, found, picked, searching>>

SearchNext ==
  \/ EmbedTexts \/ SearchSemantic \/ SearchKeyword \/ CountTerms \/ ScanTerms
  \/ FetchTerms \/ FuseLanes \/ RerankHits \/ SearchFails
  \/ ReindexFile \/ ParkRepo

SearchSpec == SearchInit /\ [][SearchNext]_searchVars

-----------------------------------------------------------------------------
(* Properties.                                                             *)

\* The fused lists one undisturbed search of a state may give, as addresses.
Outcomes(state, q) ==
  LET rungs == Rungs(q)
      words == [j \in 1 .. Len(rungs) |->
                  [weight |-> Weight(q, rungs[j].text, rungs[j].tier),
                   hits |-> Hits(state, KeywordLane(state, q, rungs[j].text, rungs[j].tier))]]
      kept  == Kept(state, q)
      subs  == [weight |-> WeightSubstring,
                hits |-> Hits(state, RoundRobin([i \in 1 .. Len(kept) |->
                                                   TermMatches(state, q, kept[i])], Depth(q)))]
      near  == [i \in 1 .. Len(q.texts) |-> SemanticLanes(state, q, q.texts[i])]
      drawn == {f \in [1 .. Len(q.texts) -> UNION Range(near)] : \A i \in DOMAIN f : f[i] \in near[i]}
      list(f) == Fuse([i \in 1 .. Len(f) |-> [weight |-> WeightSemantic, hits |-> Hits(state, f[i])]]
                        \o words \o <<subs>>, CutTo(q))
  IN  {[i \in 1 .. Len(list(f)) |-> Address(list(f)[i].chunk)] : f \in drawn}

\* The corpus with its ids in address order.
Renumbered ==
  [db |-> InOrder([c \in Range(db) |-> {d \in Range(db) : AddressBelow(d, c)}]), on |-> enabled]

\* An unchanged corpus is ranked the same however often it was indexed: what a
\* search nothing disturbed fuses is what the corpus gives with its ids dealt
\* out in another order.  Ids are index order; a tie broken on one reorders an
\* answer no line of code changed under.
OrderFromAddresses ==
  (searching.at \in {"rerank", "done"} /\ moves = [reindexed |-> 0, parked |-> 0]
     /\ query.texts # <<>>)
    => [i \in 1 .. Len(fused) |-> Address(fused[i].chunk)] \in Outcomes(Renumbered, query)

\* The substring lane is of one moment and serves every term: it holds each
\* kept term's best match while the lane has a place per term, however many
\* matches the terms before it have, and no hit in it is blank or matches
\* none, whatever the poller wrote between its three reads.
TermsServed ==
  \A i \in DOMAIN lanes : lanes[i].weight = WeightSubstring =>
    /\ \A h \in Range(lanes[i].hits) : h.chunk.holds \cap Range(query.terms) # {}
    /\ Len(perTerm) <= Depth(query) =>
         \A t \in DOMAIN perTerm : \E h \in Range(lanes[i].hits) : h.id = perTerm[t][1]

\* Reranking reorders and nothing else: the list is as long as the fused one
\* allows, names only hits of it and each once; two the model did not pick keep
\* their order, and no unpicked hit takes the place of a picked one.
RerankLosesNothing ==
  (Pool > 0 /\ searching.at = "done" /\ query.texts # <<>>) =>
    LET place(h) == CHOOSE i \in DOMAIN fused : fused[i] = h
        good(i)  == \E j \in DOMAIN picked : picked[j] = i
    IN  /\ Len(found) = (IF Len(fused) < K(query) THEN Len(fused) ELSE K(query))
        /\ Range(found) \subseteq Range(fused) /\ IsInjective(found)
        /\ \A i, j \in DOMAIN found : i < j =>
             \/ good(place(found[i]))
             \/ ~good(place(found[j])) /\ place(found[i]) < place(found[j])
        /\ \A n \in DOMAIN fused : good(n) =>
             \/ fused[n] \in Range(found)
             \/ \A i \in DOMAIN found : good(place(found[i]))

\* No list loses a hit it owes: TermsServed and RerankLosesNothing.
ListsComplete == TermsServed /\ RerankLosesNothing
=============================================================================
