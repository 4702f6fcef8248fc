-------------------------------- MODULE Turn --------------------------------
(***************************************************************************)
(* What one thread's turns are about: how a question is narrowed to the    *)
(* repositories it names or its thread is pinned to, searched, routed to   *)
(* an answer or a card, and how a card's choice, a retry and a follow-up   *)
(* take the narrowing over (ask.Pipeline.Run, Resume, ResumeRepo, the      *)
(* Router's ladder, and the part of httpapi.handleAsk that reads and       *)
(* stores the scope).                                                      *)
(*                                                                         *)
(* repos.yaml is read at boot only, so the grouping changes with a restart *)
(* and never under a turn; what changes is what the rows of earlier turns  *)
(* still name. Hits are the set of repositories they come from; the        *)
(* model's judgements are choices. The turns of the thread follow one      *)
(* another here; Conversation has them side by side.                       *)
(***************************************************************************)
EXTENDS Projects, Sequences

CONSTANTS
  Groupings,         \* the repos.yaml files the operator may start rongo with
  Questions,         \* what the reader types
  Mentioned,         \* the names each question holds as whole words
  MaxRepoCandidates, \* maxRepoCandidates, four in the code
  MaxNarrowRepos,    \* maxNarrowRepos of handleAsk
  MaxGuess,          \* bound on the names the model reads into a question
  MaxRows,           \* bound on the thread's rows
  MaxEdits           \* bound on restarts under another file

ASSUME GroupingsLoad == Groupings # {} /\ \A g \in Groupings : WellFormed(g)

ASSUME MentionedNames == Mentioned \in [Questions -> SUBSET Names]

VARIABLES
  grouping,   \* repo_state and repo_uses, as the last boot left them
  messages,   \* the rows of the thread
  turn,       \* the turn in progress, or None
  permitted,  \* the questions the reader allowed the whole corpus for
  edits

vars == <<grouping, messages, turn, permitted, edits>>

NoScope == [known |-> {}, all |-> FALSE]

Scopes == [known : SUBSET Names, all : BOOLEAN]

\* The turn as it starts: lane is what kind of turn it is, pin what it may not
\* leave, searched what the search was restricted to, read where sources are from.
Started(q, lane, pin, all, card, scope) ==
  [at |-> "run", q |-> q, lane |-> lane, pin |-> pin, all |-> all, card |-> card, scope |-> scope,
   searched |-> {}, hits |-> {}, mixed |-> FALSE, read |-> {}]

Row(q, scope, head) ==
  [q |-> q, scope |-> scope, head |-> head, state |-> "open", card |-> None]

Ready == turn = None /\ Len(messages) < MaxRows

Last == Len(messages)

-----------------------------------------------------------------------------
(* Which repositories a list of names and a question stand for.            *)

\* knownReposIn over the enabled repositories and their projects: a project's
\* name expands to its members.
ResolveRepos(want, mentioned) ==
  {r \in Enabled(grouping) : r \in want \cup mentioned}
    \cup UNION {Members(grouping, p) : p \in All(grouping) \cap (want \cup mentioned)}

\* Retriever.Search: a restriction left with nothing is no restriction.
Restriction(want, mentioned) ==
  LET known == ResolveRepos(want, mentioned)
  IN  IF known = {} THEN Enabled(grouping) ELSE known

\* The newest row that narrowed to anything.
ThreadScope ==
  LET narrowed == {i \in 1..Len(messages) : messages[i].scope.known # {}}
  IN  IF narrowed = {} THEN {}
      ELSE messages[CHOOSE i \in narrowed : \A j \in narrowed : j <= i].scope.known

\* LastTurnBefore: an answer below the turn's head, which a rework restates. A
\* noted instruction is no answer.
HasBasis == \E j \in 1..(messages[Last].head - 1) : messages[j].state = "answer"

\* More than one repository, and exactly the members of one product.
OnlyOneProduct(known) ==
  /\ Cardinality(known) > 1
  /\ \E p \in All(grouping) : Covered(grouping, known) = {p} /\ known = Members(grouping, p)

\* searchScoped: one search, or one for each side of a comparison.
SearchScoped(known, mentioned, oneProduct) ==
  IF Cardinality(known) < 2 \/ oneProduct
  THEN Restriction(known, mentioned)
  ELSE UNION {Restriction({r}, {}) : r \in known}

\* turnCeiling: the products of what was named or, with nothing named, hit.
Ceiling(known, hits) ==
  LET seeds == IF known = {} THEN hits ELSE known
  IN  seeds \cup UNION {Members(grouping, Of(grouping, r)) : r \in seeds}

-----------------------------------------------------------------------------
(* The request: typed, retried, or a choice off a card.                    *)

AddQuestion(q, scope, head) == messages' = Append(messages, Row(q, scope, head))

Type(q) ==
  /\ Ready
  /\ turn' = Started(q, "fresh", ThreadScope, FALSE, 0, NoScope)
  /\ AddQuestion(q, NoScope, Last + 1)
  /\ UNCHANGED <<grouping, permitted, edits>>

\* Mutant: a retry keeps the permission whatever it asks now.
RetryScopeLoose(i, q) ==
  LET scope == messages[i].scope
  IN  IF scope.all \/ scope.known # {} THEN scope ELSE [known |-> ThreadScope, all |-> FALSE]

\* The retried row's own narrowing when it recorded one; its permission only
\* for the question it was given for.
RetryScope(i, q) ==
  LET scope == messages[i].scope
  IN  IF scope.all \/ scope.known # {}
      THEN [known |-> scope.known, all |-> scope.all /\ q = messages[i].q]
      ELSE [known |-> ThreadScope, all |-> FALSE]

Retry(i, q) ==
  /\ Ready /\ i <= Last
  /\ LET s == RetryScope(i, q)
     IN  turn' = Started(q, "fresh", s.known, s.all, 0, NoScope)
  /\ AddQuestion(q, NoScope, messages[i].head)
  /\ UNCHANGED <<grouping, permitted, edits>>

OpenCard(i) == i <= Last /\ messages[i].state = "card"

\* A card of products: the choice is the scope, an empty one is every repository.
ChooseRepos(i, repos) ==
  LET scope == [known |-> repos, all |-> repos = {}]
  IN  /\ turn' = Started(messages[i].q, "repos", repos, FALSE, i, scope)
      /\ AddQuestion(messages[i].q, scope, messages[i].head)
      /\ permitted' = IF repos = {} THEN permitted \cup {messages[i].q} ELSE permitted
      /\ UNCHANGED <<grouping, edits>>

\* One entry of a card.
Choose(i) ==
  /\ Ready /\ OpenCard(i)
  /\ messages[i].card.kind = "repos"
  /\ \/ \E p \in DOMAIN messages[i].card.members : ChooseRepos(i, messages[i].card.members[p])
     \/ ChooseRepos(i, {})

\* Some of the products of a panel that asked for a narrower question.
Narrow(i) ==
  /\ Ready /\ OpenCard(i)
  /\ messages[i].card.kind = "broad"
  /\ \E ps \in SUBSET DOMAIN messages[i].card.members :
       /\ Cardinality(ps) \in 1..MaxNarrowRepos
       /\ ChooseRepos(i, UNION {messages[i].card.members[p] : p \in ps})

\* One module: its stored hits are replayed under the card's own scope.
ChooseModule(i) ==
  /\ Ready /\ OpenCard(i)
  /\ messages[i].card.kind = "modules"
  /\ \E r \in DOMAIN messages[i].card.members :
       turn' = [Started(messages[i].q, "module", messages[i].scope.known, FALSE, i, messages[i].scope)
                  EXCEPT !.hits = {r}]
  /\ AddQuestion(messages[i].q, messages[i].scope, messages[i].head)
  /\ UNCHANGED <<grouping, permitted, edits>>

-----------------------------------------------------------------------------
(* Pipeline.Run, up to the search.                                         *)

At(step) == turn # None /\ turn.at = step

\* The answer's prompt is built: where its sources are from is all that is left.
GoesTo(lane, read) ==
  turn' = [turn EXCEPT !.at = "answer", !.lane = lane, !.read = read,
                       !.searched = {}, !.hits = {}, !.mixed = FALSE]

\* Every error of the pipeline: the row says so, its scope stays what it was.
Fail ==
  /\ turn # None
  /\ messages' = [messages EXCEPT ![Last].state = "error"]
  /\ turn' = None
  /\ UNCHANGED <<grouping, permitted, edits>>

\* A turn that was only a standing instruction is noted and narrows nothing.
Remember ==
  /\ At("run") /\ turn.lane = "fresh"
  /\ messages' = [messages EXCEPT ![Last].state = "noted"]
  /\ turn' = None
  /\ UNCHANGED <<grouping, permitted, edits>>

\* Mutant: a question that names another repository searches that one.
PinReplaced(guess, live) ==
  LET named == ResolveRepos(guess, Mentioned[turn.q])
  IN  [known |-> IF named = {} THEN live ELSE named, all |-> FALSE]

\* The scope of a turn that guesses these names: the thread's repositories as
\* the index resolves them, fewer when the question names some of them.
PinnedScope(guess, live) ==
  LET named == ResolveRepos(guess, Mentioned[turn.q]) \cap live
  IN  [known |-> IF named = {} THEN live ELSE named, all |-> FALSE]

FreeScope(guess, all) == [known |-> ResolveRepos(guess, Mentioned[turn.q]), all |-> all \/ turn.all]

\* One repository of the pin gone or parked fails the turn: Fail.
PinResolves(live) == turn.pin \subseteq live

Understand(guess, all) ==
  /\ At("run") /\ turn.lane = "fresh"
  /\ LET live == ResolveRepos(turn.pin, {})
     IN  \/ /\ turn.pin = {}
            /\ turn' = [turn EXCEPT !.at = "scoped", !.scope = FreeScope(guess, all)]
         \/ /\ turn.pin # {} /\ PinResolves(live)
            /\ turn' = [turn EXCEPT !.at = "scoped", !.scope = PinnedScope(guess, live)]
  /\ permitted' = IF all THEN permitted \cup {turn.q} ELSE permitted
  /\ UNCHANGED <<grouping, messages, edits>>

Searched(restriction, hits) ==
  turn' = [turn EXCEPT !.at = IF turn.lane = "fresh" THEN "route" ELSE "gather",
                       !.searched = restriction, !.hits = hits]

\* The fused search of a fresh turn; under a pin the question is left out.
Search ==
  /\ At("scoped")
  /\ LET known == turn.scope.known
         mentioned == IF turn.pin = {} THEN Mentioned[turn.q] ELSE {}
         restriction == SearchScoped(known, mentioned, OnlyOneProduct(known))
     IN  \E hits \in SUBSET restriction : Searched(restriction, hits)
  /\ UNCHANGED <<grouping, messages, permitted, edits>>

\* A question about commits leaves before the search, with every commit of the
\* known repositories, or of all of them, in its window.
AnswerChanges ==
  /\ At("scoped")
  /\ LET from == IF turn.scope.known = {} THEN Enabled(grouping) ELSE turn.scope.known
     IN  \E repos \in SUBSET from :
           GoesTo("changes", repos)
  /\ UNCHANGED <<grouping, messages, permitted, edits>>

\* A question about a release reads the commits of one product's members.
AnswerRelease ==
  /\ At("scoped")
  /\ \E p \in All(grouping) :
       /\ turn.scope.known # {} => \E r \in turn.scope.known : Of(grouping, r) = p
       /\ \E repos \in SUBSET Own(grouping, p) :
            GoesTo("release", repos)
  /\ UNCHANGED <<grouping, messages, permitted, edits>>

\* A rework restates the last answer from that answer's own sources, re-read
\* from git at the stored paths; nothing new is searched or read.
AnswerRework ==
  /\ At("scoped")
  /\ HasBasis
  /\ GoesTo("rework", {})
  /\ UNCHANGED <<grouping, messages, permitted, edits>>

-----------------------------------------------------------------------------
(* A choice off a card.                                                    *)

\* Mutant: what is left of the choice is searched.
ResumeSurvivors ==
  /\ At("run") /\ turn.lane = "repos"
  /\ LET known == ResolveRepos(turn.scope.known, {})
     IN  /\ known # {}
         /\ \E hits \in SUBSET known : Searched(known, hits)
  /\ UNCHANGED <<grouping, messages, permitted, edits>>

\* ResumeRepo: the chosen repositories are searched again; one of them gone
\* or parked since the card was drawn fails the turn. The entry for all
\* repositories is the search the card stood in front of.
ResumeRepo ==
  /\ At("run") /\ turn.lane = "repos"
  /\ LET repos == turn.scope.known
         known == ResolveRepos(repos, {})
         restriction == IF repos = {} THEN Restriction({}, Mentioned[turn.q])
                        ELSE SearchScoped(known, {}, OnlyOneProduct(repos))
     IN  /\ repos \subseteq known
         /\ \E hits \in SUBSET restriction : Searched(restriction, hits)
  /\ UNCHANGED <<grouping, messages, permitted, edits>>

\* Resume: the repositories of the stored hits must still resolve.
Resume ==
  /\ At("run") /\ turn.lane = "module"
  /\ turn.hits \subseteq ResolveRepos(turn.hits, {})
  /\ turn' = [turn EXCEPT !.at = "gather"]
  /\ UNCHANGED <<grouping, messages, permitted, edits>>

-----------------------------------------------------------------------------
(* The routing ladder.                                                     *)

\* Clarify: the turn ends by asking, with the scope it was asked under.
Asks(kind, members) ==
  /\ messages' = [messages EXCEPT ![Last] =
                     [@ EXCEPT !.state = "card", !.scope = turn.scope,
                               !.card = [kind |-> kind, members |-> members]]]
  /\ turn' = None

\* The turn goes on to its answer, from unrelated products or not.
Answers(mixed) ==
  /\ turn' = [turn EXCEPT !.at = "gather", !.searched = {}, !.mixed = mixed]
  /\ UNCHANGED messages

\* Mutant: libraries fold beside the products, under the first that uses them.
ProjectCandidatesOnce(repos) ==
  LET libs == {r \in repos : IsLibrary(grouping, r)}
      products == {Of(grouping, r) : r \in repos \ libs}
      placed(l) == LET ps == UsedBy(grouping, l) \cap products
                   IN  IF ps = {} THEN {} ELSE {CHOOSE p \in ps : TRUE}
      names == products \cup {l \in libs : placed(l) = {}}
  IN  [p \in names |-> {r \in repos \ libs : Of(grouping, r) = p}
                          \cup {l \in libs : p \in placed(l) \/ (placed(l) = {} /\ p = l)}]

\* projectCandidates: a repository under its product, then each library under
\* every product already there that uses it, else under its own name.
ProjectCandidates(repos) ==
  LET libs == {r \in repos : IsLibrary(grouping, r)}
      products == {Of(grouping, r) : r \in repos \ libs}
      placed(l) == UsedBy(grouping, l) \cap products
      names == products \cup {l \in libs : placed(l) = {}}
  IN  [p \in names |-> {r \in repos \ libs : Of(grouping, r) = p}
                          \cup {l \in libs : p \in placed(l) \/ (placed(l) = {} /\ p = l)}]

\* Spanning two products without an edge between them.
SpansRepos(offered) == Distinct(grouping, offered) >= 2

\* decideWhy: what is worth offering, whether a manifest edge joins it, whether
\* the leader dominates or the judge composes, and whether the reader can
\* choose, in the ladder's order.
Route ==
  /\ At("route")
  /\ \E offered \in SUBSET turn.hits, related, composes \in BOOLEAN :
       LET settled == turn.scope.known # {} \/ turn.scope.all
           broad == Distinct(grouping, offered) > MaxRepoCandidates
       IN  /\ offered = {} <=> turn.hits = {}
           /\ \/ settled /\ Answers(Distinct(grouping, offered) > 1 /\ ~related)
              \/ ~settled /\ broad /\ Asks("broad", ProjectCandidates(offered))
              \/ ~settled /\ ~broad /\ related /\ offered # {} /\ Answers(FALSE)
              \/ /\ ~settled /\ ~broad /\ ~related /\ SpansRepos(offered)
                 /\ Asks("repos", ProjectCandidates(offered))
              \/ ~settled /\ ~broad /\ ~related /\ ~SpansRepos(offered) /\ composes /\ Answers(Distinct(grouping, offered) > 1)
              \/ /\ ~settled /\ ~broad /\ ~related /\ ~SpansRepos(offered) /\ ~composes
                 /\ offered # {}
                 /\ Asks("modules", [r \in offered |-> {r}])
  /\ UNCHANGED <<grouping, permitted, edits>>

-----------------------------------------------------------------------------
(* Gathering and answering.                                                *)

\* Every hit, and what the census of the repositories named, the walk, the
\* crossings, the gap pass and the locate loop take in below the turn's ceiling:
\* without a hit only a census has anything to start from.
Gather ==
  /\ At("gather")
  /\ \E more \in SUBSET Ceiling(turn.scope.known, turn.hits) :
       /\ turn.hits = {} /\ turn.scope.known = {} => more = {}
       /\ GoesTo(turn.lane, turn.hits \cup more)
  /\ UNCHANGED <<grouping, messages, permitted, edits>>

\* The record closes with the answer: its scope, and the card it was chosen from.
Answer ==
  /\ At("answer")
  /\ messages' = [i \in 1..Last |->
       IF i = Last THEN [messages[i] EXCEPT !.state = "answer", !.scope = turn.scope]
       ELSE IF i = turn.card THEN [messages[i] EXCEPT !.state = "answered"]
       ELSE messages[i]]
  /\ turn' = None
  /\ UNCHANGED <<grouping, permitted, edits>>

\* The process ends, and starts with whatever repos.yaml says then. A turn it
\* was in is an error once it is back, Fail's row.
Restart(g) ==
  /\ turn = None
  /\ edits < MaxEdits
  /\ edits' = edits + 1
  /\ grouping' = g
  /\ UNCHANGED <<messages, turn, permitted>>

Guesses == {g \in SUBSET Names : Cardinality(g) <= MaxGuess}

Init ==
  /\ grouping \in Groupings
  /\ messages = <<>>
  /\ turn = None
  /\ permitted = {}
  /\ edits = 0

Next ==
  \/ \E q \in Questions : Type(q)
  \/ \E i \in 1..MaxRows, q \in Questions : Retry(i, q)
  \/ \E i \in 1..MaxRows : Choose(i)
  \/ \E i \in 1..MaxRows : Narrow(i)
  \/ \E i \in 1..MaxRows : ChooseModule(i)
  \/ Remember
  \/ \E guess \in Guesses, all \in BOOLEAN : Understand(guess, all)
  \/ Search
  \/ AnswerChanges
  \/ AnswerRelease
  \/ AnswerRework
  \/ ResumeRepo
  \/ Resume
  \/ Route
  \/ Gather
  \/ Answer
  \/ Fail
  \/ \E g \in Groupings : Restart(g)

Spec == Init /\ [][Next]_vars

-----------------------------------------------------------------------------
\* The libraries the repositories of rs are built on, through their products.
BuiltOn(rs) == Libraries(grouping) \cap UNION {Members(grouping, Of(grouping, r)) : r \in rs}

(* A thread is a funnel: whatever a follow-up names, asks for or retries,  *)
(* a pinned turn searches repositories of its pin and the libraries they   *)
(* are built on only, and reads no further than the pin's own products.    *)
Funnel ==
  turn # None /\ turn.pin # {} =>
    /\ turn.searched \subseteq turn.pin \cup BuiltOn(turn.pin)
    /\ At("answer") => turn.read \subseteq Ceiling(turn.pin \cup BuiltOn(turn.pin), {})

(* Nothing parked or purged gets into a new answer, also not through the   *)
(* hits a card stored or the pin a row kept from before the edit; only a   *)
(* rework restates an answer that was given when its sources were there.   *)
NoParkedSource ==
  At("answer") /\ turn.lane # "rework" => turn.read \subseteq Enabled(grouping)

(* What the record says was searched was searched: no answer comes from    *)
(* the survivors of the repositories its row names.                        *)
RecordSearched ==
  At("route") \/ (At("gather") /\ turn.lane = "repos") =>
    turn.scope.known \subseteq turn.searched

(* What a new answer reads is what its row says and what is still there.   *)
SourcesAsRecorded == NoParkedSource /\ RecordSearched

(* An answer that puts unrelated products together is written only for a   *)
(* question the reader opened to all repositories, never because a card    *)
(* was skipped or another question's permission was still around.          *)
AskedFirst ==
  At("gather") /\ turn.lane = "fresh" /\ turn.scope.known = {} /\ turn.mixed => turn.q \in permitted

(* A card and the turn chosen from it read one grouping: route.go's own    *)
(* fold of the candidates is projects.Fold for every set of repositories,  *)
(* Fold and Covered agree on what is there whole, and nothing that was hit *)
(* is left off the card or offered under a product it is not searched with.*)
FoldsAgree ==
  messages = <<>> =>
    /\ \A rs \in SUBSET Enabled(grouping) : ProjectCandidates(rs) = Fold(grouping, rs)
    /\ FoldCovers(grouping)
    /\ FoldKeeps(grouping)

(* "Read from the RECORD, never resolved again": a chosen entry is         *)
(* answered from the repositories the card offered it with.                *)
ChoiceHonoured ==
  turn # None /\ turn.lane = "repos" /\ turn.scope.known # {} => turn.searched \subseteq turn.scope.known
=============================================================================
