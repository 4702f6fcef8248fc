# A verification of rongo

rongo answers questions about a corpus of git repositories. A poller clones and
indexes them into SQLite; a pipeline of model calls narrows a question, searches
the index, asks back with a card when the question spans unrelated products, gathers
sources under a token budget and writes the answer; an HTTP API keeps the
conversation's record. This directory holds TLA+ models of those parts, the TLC
configurations that check them on small instances, and TLAPS proofs of what holds for
every instance.

- [The system](#the-system): parts, state, operations, what is hard
- [The modules](#the-modules): which module models what, and how
- [The runs](#the-runs), [the bounds](#the-bounds), [the fairness](#the-fairness)
- [The refinement](#the-refinement) and [the proofs](#the-proofs)
- [Where the code and its comments disagree](#where-the-code-and-its-comments-disagree)
- [What is not modelled](#what-is-not-modelled) and [the plan](#the-plan)

`PROJECT.json` maps every definition to the lines it models, lists the runs, a mutant
for every property, the hazards the properties are for, and the theorems.

## The system

All source paths below are under `src/backend/internal/` unless they say otherwise.

| Part | State | Operations | What is hard |
|---|---|---|---|
| **Index tables and writer** (`indexer/write.go`, `state.go`, `embed/cache.go`) | `repo_state`, `files`, `chunks`, its two mirrors `chunks_vec` and `chunks_fts`, `embed_cache` | replace, skip and delete a file; purge, reset, sweep, prune | the mirrors take part in no foreign key or trigger; one transaction per file, crashes between them; turns read between them and fuse by chunk id |
| **Vector compaction** (`indexer/compact.go`) | the storage chunks of `chunks_vec` | measure, copy out, copy back, count, commit, vacuum | rowids must survive; a statement of a long transaction fails, or the process dies in it |
| **Selector and chunker** (`indexer/select.go`, `index.go`, `chunk.go`) | none; a stored row's verdict | three verdicts on a file, the boot's verdict on its row; cut a file into passages | one set of rules applied at three moments; symbols that nest, end nowhere or come out of order; a line longer than a passage |
| **Poller** (`indexer/poller.go`, `index.go`) | a checkout per repository, `last_sha`, `branch`, `last_error`, `reindex_requested`, a one-place wake channel | boot reconciliation, visit (origin, clone or extracted archive, branch, fetch, diff, index, history, record), re-index request, nudge | a visit fails at any call; the process dies between two commits; remotes move and are rewritten; `repos.yaml` is edited across restarts |
| **Threads store** (`threads/store.go`, `share_store.go`) | message rows, heads, cards and their answers, share ceilings | add question, finish, fail, card, delete, share, raise, recover orphans | several tabs write at once; rows outlive the process that opened them |
| **HTTP API** (`httpapi/ask.go`, `turn.go`, `turns.go`, `share.go`, `memory.go`) | running turns, card claims | ask, retry, resume, re-explain, delete, share, remember, forget | checks made before a claim; deletes racing registrations; a reader who leaves |
| **Ask pipeline** (`ask/`) | one turn: scope, hits, route, sources, the streamed answer | understand, search, route, card, resume, gather, gap pass, locate loop, answer; the changes, release and rework lanes | stored names and hits that `repos.yaml` has moved under; a ladder whose rungs are skipped when they cannot matter; a budget shared by five passes; markers cut by token boundaries |
| **Retrieval** (`retrieve/`) | one search: its lanes, the fused list | keyword ladder, semantic, code and substring lanes, fusion, decay, reranking; the names a question says | each lane is a read of its own beside the poller; ties; a guess that crowds out the question; a name that is a repository's and a project's |
| **Projects** (`projects/projects.go`) | the grouping of `repos.yaml` | of, all, members, used-by, fold, covered | two copies of the fold, libraries that belong to several products |
| **Structure tables** (`modules`, `edges`, `units`, `repodeps`, `stages`) | module rows, integration tokens | cluster a repository into modules; neighbours, holders and census of the tokens | nested units; a value many repositories carry; a parked repository's rows |
| **LLM client** (`llm/`) | the turn's meter | complete, stream, call tools, each with one retry | calls at once under one ceiling; a stream that breaks off |
| **Memory** (`memory/`, `ask/memory.go`) | standing instructions, the holder a turn carries | add with replaced ids, forget, apply | turns that act on the list they read at their start |
| **Git client** (`gitrepo/`) | the checkout | clone, fetch, head, diff, log, commit an archive | clone is two commands; an archive may be missing, empty or mid-replacement |
| **Auth**, **configuration**, **symbols and redaction**, **store**, **web UI** | see [below](#what-is-not-modelled) | | |

How they meet. `cmd/rongo/main.go` loads `repos.yaml` once, reconciles `repo_state`
(`SyncSpecs`), sweeps, compacts, settles orphaned messages and then starts one poller
goroutine and the HTTP server. Poller and turns share the SQLite file only: the poller
commits between a turn's queries. A re-index request writes a row and then nudges the
poller's channel. Handlers of different tabs share the threads tables, the registry of
running turns and the set of claimed cards. A turn calls the model through one client
whose meter travels in the turn's context, and reads the grouping through
`projects.Load`.

What makes each part correct is stated as the properties in [the runs](#the-runs);
what can go wrong is `hazards` in `PROJECT.json`, each at its line.

## The modules

Systems: several actors, or one actor that is interrupted.

| Module | Models | State and actions |
|---|---|---|
| `IndexStore` | the tables and every transaction on them | a variable per table; `sequence` is `sqlite_sequence`; an action per transaction (`ReplaceFile`, the purges, the sweep ...), `pc` is where the boot and the poller's goroutine are, `job` the file being indexed between its transactions, `hits` what a turn holds between two lane queries |
| `Compaction` | `CompactVectors` at every boot | the vec0 table as rows, storage chunks and fill; `copy` is the temporary table of the open transaction; inserts and deletes between boots; every statement may fail or be the last |
| `Poller` | `Poller.Run` with everything one visit calls, for clones and for snapshots | `st` is the visit's local copy of the row and its plan, `pc` the call it is at; every call has its failing outcome; a commit is its first-parent chain of trees, so a diff, a missing commit and a moved branch mean what they mean in git; `files` is what is extracted in a snapshot's directory, and is what its next commit holds; `Crash` and `Boot` with another file |
| `Search` | `searchTexts`, the lanes of `store.go`, the fusion and the reranker | a step per lane query; the substring lane is three reads of one `snapshot`; the poller re-indexes a file and a repository is parked between steps |
| `Conversation` | handlers over the threads store | `pc[t]` is the stage of turn `t`'s handler: validate, claim, resolve, register, open, question, run, suggest, close; the delete and the share are two steps each as in the code; a failing write and a reader who leaves are actions |
| `Record` | what `Conversation` promises | see [the refinement](#the-refinement) |
| `Memory` | `memory.Store`, the turn's holder, the two handlers | `Add` is one transaction (the database opens every transaction with `BEGIN IMMEDIATE`), the turn's read, its directive, its link and its answer are separate steps |
| `LLMCalls` | `Client.attempted`, `worthAnother`, `underBudget` | one record per call; the endpoint's reply is any member of `Replies` |
| `Turn` | `Pipeline.Run`, `Resume`, `ResumeRepo`, the scope part of `handleAsk` | `messages` are the rows with their scope and card, `turn` the one in progress; a hit is the repository it comes from; the model's judgements are choices |
| `Router` | `Router.route`: candidates, their order, the ladder, the card's naming | `related`, `judged`, `choosable` are the sets of answers a rung may still give, so that a rung that was skipped still has both; entries are named by model calls at once, any of which may fail |
| `Gather` | `Gatherer`: files, symbol hops, crossings, gap pass, locate loop | one variable per loop variable of the passes; a chunk is a name with a cost and a file; the reference and symbol tables are constants |
| `Renumber` | the streamed answer: citation markers, spelling, code fences | a walk that holds back what a later token may still change; tokens cut the text anywhere; a stream ends, is cut or fails |

Pure parts: an input, a result, and a step per loop of the code.

| Module | Models | Shape |
|---|---|---|
| `Projects` | `internal/projects` and what `repos.Load` accepts | operators over a grouping record; used by `Memory`, `Turn` and `Router` |
| `Select` | the path, size and body verdicts, the boot's verdict on a stored row, exclusion patterns | a file is its segments, a kind of name and what its body holds; `read` says whether the body was opened |
| `Chunker` | `ChunkFile` and what it calls | a line is a kind and a length; regions and passages are sets, an anchor's region is where its doc comment and the next anchor's begin; one window a step, the topmost region first |
| `Modules` | `modules.Cluster` | directories deepest first; `pending` is what a directory could not keep for itself |
| `QueryTerms` | the keyword ladder and the substring terms | words are model values with a length; an expression is all or any of its terms |
| `Names` | which repositories and projects a question names | a name is the sequence of its segments, a question the set of names it is made of; singulars and one-edit neighbours are constants |
| `Edges` | `edges/neighbours.go`: the reads of the integration tokens | a token is a row; three queries, a step each |

| Module | What it is |
|---|---|
| `MC*` | instances of the above for TLC; `MCParts` puts the index tables, the search, the compaction, the router, the stream and the pure parts side by side |
| `PollerProofs`, `ConversationProofs`, `TurnProofs`, `AnswerProofs`, `MemoryProofs` | what is proved of the systems; `Projects` is with the turns, the gathering and the stream of its answer are one module |
| `QuestionProofs` | what is proved of a question's model calls, of the terms it is searched by and of its search, a section each |
| `PartsProofs` | what is proved of the index tables, the compaction, the card and the other pure parts, a section each |
| `Ranking` | the lists `Search` and `QueryTerms` make of sets: a set in the order of a relation, pairs row by row, the picked places of a list |
| `FiniteInduction` | induction over finite sets and numbers, the laws of sums, what the lists of `Ranking` hold and how they follow a renaming, for the other proof modules |

Two conventions. Where a module has several forms of one operator (`PinReplaced` next
to `PinnedScope`), the extra one is a mutant: a plausible mistake in that code, put in
its place to see that a property notices. Variables marked *ghost* are read by
properties only.

How the models fit together. `Turn` and `Conversation` look at the same handler from
two sides: `Conversation` has turns side by side and knows nothing of scopes, `Turn` has
the turns of one thread one after the other and follows the scope through rows, cards
and restarts. Where `Turn` abstracts, another module shows what it assumed: `Turn`
searches any hits below the ceiling and cards any candidates of them; `Search` has the
lanes and `Router` the ladder that decides. `Turn` gathers "every hit and anything below
the ceiling"; `Gather` shows that its passes stay below it (`BelowCeiling`). `Poller`
abstracts `IndexStore` to one row per path; `IndexStore` shows that a path's tables move
together, and takes a file's verdict and chunk texts as inputs, which `Select` and
`Chunker` produce. `IndexStore` has one table of vectors; `Compaction` has its storage.

## The runs

Every property of a passing run has a mutant of a mapped definition that violates it. A
property that joins named parts is listed by its parts in its module.

| Run | Instance | What it shows |
|---|---|---|
| `poller` | one repository that is a clone or a snapshot: pushes, force-pushes, deleted branch, a replaced archive, lost checkout, failures, crashes, requests | `RowsSound`: types; a row's content is its own commit's (`Attributed`); rows are the tree of `last_sha` except what an unfinished run wrote ahead (`IndexAgrees`). `NoLostRequest`: no re-index request is dropped by a run under way, a failure or a restart, nor left to the timer |
| `poller_edits` | two repositories; the entry of one is corrected, given a branch, made a snapshot, parked, removed, put back | `OneRemote`: a name never mixes two remotes' code. `CatchesUp`, `RequestServed` (liveness): once disturbances stop, every live repository is recorded at its head, or its archive, without a stale error, and requests are served |
| `poller_revert` | one repository | **violated**: see [below](#where-the-code-and-its-comments-disagree) |
| `conversation` | two tabs, two threads, a failing write | `TurnsSound`: types; a delete stops every pipeline running into the thread; one turn at a time holds a card. `KeepsRecord`: the refinement (crashes too are in its proof, not in this run) |
| `conversation_live` | one thread, two tabs, a share request, a failing write, a crash | `RecordFrozen`: a link never covers a turn being written, and no row of an earlier process still streams. `TurnsFinish` (liveness): a running turn's row is settled, or left to the next boot by a failing write; a claimed card is released |
| `card_answered_twice` | one thread, two tabs | **violated** |
| `memory` | two readers, three turns, a restart that parks a scope | `RulesStand`: an acknowledged rule stays until taken back and binds the answer while it stands. `TableSound`: types, no duplicates, cap kept. `ScopesHonest`: a scope neither goes silent nor reaches another product |
| `llm_calls` | three calls at once | `RetriesHonest`: types; no reader sees two answers run together; an outage doubles a turn's calls once. `SpendBounded`: at most one request per call past the ceiling. `CallEnds` (liveness) |
| `turn` | a product of two repositories, one of one, a library; four groupings | `Funnel`: a pinned turn stays with its pin. `SourcesAsRecorded`: no source from a parked repository, and the recorded search is the one made. `AskedFirst`: unrelated products are never mixed unasked. `FoldsAgree`: the card's fold is the projects package's, for every set of repositories |
| `choice_widened` | the same | **violated** |
| `gather` | five chunks in three files of two repositories, every combination of passes, a question with words and without | `Budgeted`: types, the running total is the cost of the sources, and no pass spends a later pass's reserve. `SourcesHonest`: nothing outside the ceiling is admitted or followed, and the pointer is a source. `NothingEvicted`, `EveryCallAnswered`, `GatherEnds` (liveness) |
| `parts` | below | below |

`parts` runs the modules that share no state with each other: a behaviour takes one of
them and one of its inputs.

| Property | Of | What it shows |
|---|---|---|
| `TablesAgree` | `IndexStore` | types; the vector and keyword mirrors hold exactly the chunks, and a file is searchable exactly when its row says so, after every transaction |
| `HitsStayTrue` | `IndexStore` | a chunk id a turn holds never names another chunk |
| `CacheCovers` | `IndexStore` | no prune takes a vector in use |
| `SweptClean` | `IndexStore` | what a boot's rules exclude, by path and stored size, stays out |
| `RebuildKeeps` | `Compaction` | whichever statement fails, a search reads every row under its rowid and with its vector; a boot leaves at most twice the storage chunks needed |
| `VerdictsAgree` | `Select` | an early verdict is the verdict a full look would have given; the boot's sweep removes exactly what indexing again would refuse |
| `PassagesWhole` | `Chunker` | every line of code is in a passage in all its pieces, no passage is larger than the endpoint takes, a doc comment travels with its symbol |
| `CutSound` | `Modules` | the modules are a partition of the indexed files, small only where joining would be too large and large only where nothing was left to split |
| `OrderFromAddresses` | `Search` | an unchanged corpus is ranked the same however often it was re-indexed |
| `ListsComplete` | `Search` | the substring lane is of one moment and serves every term; reranking reorders and loses nothing |
| `QuestionServed` | `QueryTerms` | every rung of the keyword ladder is wider than the one above, but for the floor of one repeated word, which is as wide; a guess never takes the question's own places |
| `NamesRead` | `Names` | what the reader named is what is searched, and what is reported missing is missing |
| `CardSound` | `Router` | skipping a rung never changes the decision; a card has two to `MaxCandidates` buttons, code where there is code, no two entries of which one uses the other |
| `CrossingsSound` | `Edges` | a parked repository influences nothing, the halves of the table agree on what a crossing is, from both ends, and the census of links is complete and shares nothing with the crossings |
| `StreamIsWhole` | `Renumber` | where the tokens were cut is nothing the reader can see, and nothing shown is taken back |
| `NumbersCount` | `Renumber` | numbers are first met in order, and renumbering again changes nothing |

### The bounds

Bounds are constants, named in the module that uses them in a guard.

- `IndexStore`: `MaxId = 3`, `MaxHits = 1`, `MaxFileChunks = 2`. Three ids are enough for
  a file of two chunks, its replacement and a second repository with the same content;
  two sizes, and rules that skip one path always and another only when it is large, so
  that a new build's rules may exclude a file at one of its sizes;
  one held hit is enough, because `HitsStayTrue` speaks of one hit and one chunk.
- `Poller`: `MaxEvents` counts disturbances (push, failure, crash, request, edit, a
  replaced archive ...) and `MaxDepth` the commits of a branch. Four events let a run
  fail, the branch move back, the process die and a request arrive in one behaviour. Two
  repositories are needed for "one repository's trouble is not another's", two urls and
  two branch names for a corrected entry whose default branch differs. In `poller` the
  archives differ in a file and in one that turns into a link.
- `Conversation`: a row more than tabs, so that a card, its first answer and a second
  choice meet; two turns are enough for every race the properties name, which are all
  about two handlers, or one handler and a delete, a share or a crash. One database
  write may fail. If it is the write of a failure, the handler logs it and returns, and
  the row stays unfinished until the next boot; `TurnsFinish` says so: once a write has
  failed it promises that the turn ends, not that its row is settled.
- `Memory`: the cap is two and three ids are issued, so the cap is reached by turns that
  run at once and an id is freed and not reused.
- `LLMCalls`: three calls, a ceiling of two and a bill of one: two calls can cross the
  ceiling together and a third sees it crossed.
- `Turn`: `MaxRows = 2`. A row carries to later turns only its scope, state and card, so
  a chosen row looks to its follow-up like a typed one that was narrowed; the proofs
  cover any number of rows. `MaxRepoCandidates = 2` brings the panel that asks for a
  narrower question into reach of three products.
- `Gather`: the costs are chosen so that the hits alone may fill a pass's budget, fill it
  exactly, or leave room; `MaxAsked = 3` is one above `MaxCalls`, so that a reply asks
  for more than the loop runs.
- `Search`: `MaxReindexes = MaxParks = 1`: one write between two reads is the case; two
  corpora with ties in every lane, a hub, a stage; pool and k above and below the list.
- `Compaction`: chunks of two slots, batches of one row, seven rowids, two boots: a
  table becomes sparse, is rebuilt, or fails at each statement and is rebuilt at the
  next boot.
- `Router`: up to four of nine hits over two products, a library and two more
  repositories; floor and margin keep their code values as fractions, the candidate
  ceilings are three and two so that four hits go past them.
- `Renumber`: up to three of twelve fragments, and four of a few, in tokens of one or two
  characters; a word's spelling, a fence and a marker each span a token boundary.
- `Chunker`, `Select`, `Modules`, `QueryTerms`, `Names`, `Edges`: every input of the sets
  `MCParts` names, in which each distinction the code makes occurs (a size on each side
  of a ceiling, nested units, a symbol without an end, a repeated word ...). `Modules`
  has `MinChunks = MaxChunks = 3`, so that a module may be large and not small by one
  file. `Names` has a repository of two segments, one whose half ends in two s, a product
  that shares a name with a repository, and guesses that fold alike.

Symmetry is used only where names are interchangeable and no liveness is checked: the
repositories, paths and hashes of `IndexStore`, which no other part of that run uses.
The configurations check no deadlock: every part may stop (no more requests, a bound
reached, a result delivered), and what must not stop is stated as liveness.

### The fairness

- `Poller`: weak fairness of `Boot`, of the goroutine's steps and of the handler's nudge.
  A supervisor restarts the process, the goroutine blocks only in calls with timeouts or
  in its `select` with a timer, and a handler that wrote a request goes on to nudge.
  Nothing is assumed of pushes, administrators or of the success of a call; after
  `MaxEvents` disturbances calls succeed, which is what "once the disturbances stop" means.
- `Conversation`: weak fairness of each handler and of `Boot`. Every call a handler makes
  is bounded by a context with a timeout.
- `LLMCalls`: weak fairness of each call's own steps; the attempt window closes a silent
  request.
- `Gather`: weak fairness of `Next`; the handler's goroutine waits for nothing but calls
  that return or fail.

## The refinement

`Record` says what a conversation is to its readers: a list of messages that only grows
at its end, each put as a root or under a root, unfinished until it is settled once, a
card closed by an answer of its own thread only, and all of it gone when its thread is
deleted. `Conversation` implements it: `Kept` instantiates `Record` with the rows as a
reader gets them (`Shown`: a deleted thread's rows are no rows), and `KeepsRecord ==
Kept!RecordSpec` is a property of the run with two threads, and a theorem
(`RecordIsKept`) for crashes too. Stages, claims, the registry, links and orphan
recovery are stuttering steps or `Record`'s four actions. A question whose thread was
deleted between the handler's look and its insert is `Forget`'s `late`: it is never
seen.

The proof goes step by step: the first rows are none (`RecordStarts`), and each step is
told as one of `Record`'s (`PutTold`, `SettleTold`, `ForgetTold`, `ForgetLateTold`) or as
none (`NothingTold`, for the steps that leave the shown rows alone); `StepTold` puts them
together. `ConversationInv` is what makes it go through: that a settled row is never
settled again and that a card's answer is of its own thread is not in the guards of the
writes, but in what the handlers have checked, claimed or registered before them.

## The proofs

Every theorem is of the form `Spec => []Inv`, but for one action property
(`SourcesStay`) and the refinement (`RecordIsKept`), and holds for every value of the
constants under the assumptions the modules name. What they assume is what a
configuration or a table can be: bounds and sizes are naturals, and the divisors among
them (the budget's shares, a storage chunk's slots, a copy batch) are not zero; sets of
names, calls and chunks are finite; `None` is outside the set it is the absence of; a
grouping is one `repos.Load` accepts (`WellFormed`); a path is a sequence of segments, a
name has at least one, and an indexed project's members are indexed (`NameTables`: the
projects of `retrieve` are built from the rows that are indexed); a line that is not
blank has a rune on it (`ChunkTables`). TLC evaluates the same assumptions in the runs.

There are eight proof modules. A system has a module of its own; the model calls, the
search and what it searches by share `QuestionProofs`; the index tables, the compaction
and the other pure parts each have a section of `PartsProofs`.

### Systems

**`PollerProofs`**: `OneRemote`, `RowsSound` and `NoLostRequest`, for any remotes, any
sequence of `repos.yaml` files, any depth of history and any number of disturbances. The
properties speak of rows, while between two commits a visit works from copies; the rest
of `PollerInv` says what the copies are still good for. `HeadKnown`: the visit's commit
is of the entry's own remote, and its copy of `last_sha` is what the row has.
`RunCovers`: whatever a run no longer has on its lists is already at its commit; without
it a run that lands could leave a path behind. `RequestAhead`: a request newer than the
one a full run read has a higher generation, so that the run's `clear` cannot take it;
without it `NoLostRequest` is not inductive. `RemotesOwn` and `BranchesOwn` say that a
commit comes from the remote it was fetched from, which is all `OneRemote` needs once
the boot has dropped the checkout of a changed url.

**`ConversationProofs`**: `TurnsSound`, `RecordFrozen` and the refinement
`KeepsRecord`, for any number of tabs, threads, rows, sharers, failed writes and crashes.
`ConversationInv` adds what every handler can rely on between its validation and its last
write while others step: `JobsShaped` (a request's thread, head and card belong together,
whether or not the rows are still there), `RunsOwn` (a pipeline writes a row of its own,
as its question left it), `LiveOrCut` (a turn is out of the registry before its end only
if it was cancelled), `CoveredSettled` (what a link covers, or a share request has read
and is about to write, is settled). The lemma `RowsStep` says once what any step does to
the rows (a new one behind the last, an unfinished one settled, nothing else), and the
other conjuncts use it instead of every action. For the refinement see [above](#the-refinement).

**`TurnProofs`**: the properties of `turn`, and of `Projects`: `CoveredIsFolded` and
`FoldLosesNothing` for every accepted `repos.yaml` and every set of enabled
repositories. A library's own project is itself (`OwnOfLibrary`), a product's members are
its own repositories or libraries (`MembersShape`), and what uses a library is never one,
so the fold's second pass can look a library up among the products of its first.
`Funnel`, `SourcesAsRecorded` and `AskedFirst` follow from `TurnInv`, which also says
what shape a row has: a row's permission was given for its own question and a card of
modules was drawn without a narrowing (`RowsKept`); the turn in progress is the last
row's (`TurnOfRow`); a chosen product is its own pin and a chosen module has none
(`TurnOfLane`); from the scoping on, scope and hits are enabled repositories, within the
pin and its libraries (`TurnNarrowed`). The key lemmas are `ResolveNear` (a repository's
name that is a project's too stands for the repository and the libraries it is built on,
nothing else) and `NearOnce` (taking libraries in twice adds nothing).

**`AnswerProofs`**, the gathering: `Billed` (one model call per round and one to
conclude; proved, not run), `SourcesHonest`, `NothingEvicted`, `EveryCallAnswered` and
`Budgeted`, for every index, reference graph, cost and budget. `BelowCeiling` and
`NothingEvicted` rest on one fact about all passes, `Grows`: a step adds chunks below
the ceiling or leaves the sources alone. `Budgeted` says that no pass spends the reserve
of a later one; its invariant `BudgetInv` is one bound per pass and `Accounted`, that
the running total is what the sources cost. The running total is a sum over a set: see
`FiniteInduction`.

**`AnswerProofs`**, the stream: `StreamIsWhole`, for any texts, numbers of sources and
tokens. The property compares the end of two walks that share no step: one restarted at
every token, one over the whole text. The invariant `StreamInv` compares what is kept
between two tokens (what has come out, what waits, the fence, the order: `Now`) with
every way the text can go on or end. `Stands` says that walking on from what is kept
gives, for whatever is still to come, what one walk over all of it gives; a walk that
was not told it has seen the end must therefore have stopped only where no more text
could change what it did. That is a lemma for each place it can stop or go on: in a
fence (`FenceResumes`: the two backticks kept are all a closing fence can still need),
at a backtick (`AtTickStays`), at a marker (`AtBracketStays`: a chain that may not grow
is the longest one whatever follows, which is what `MayGrow` is for), in prose
(`ProseResumes`: spelling reads no further than the word it is in, so it may be cut
before the last one) and at a marker behind prose (`MarkResumes`). `PassResumes` puts
them together for a turn of the loop; `WalkResumes` for all turns, by induction over the
text left. That nothing shown is taken back (`WalkBehind`) is that a walk only adds to
what has come out. `CitationsStayOne` says that at any moment no source has two numbers
and no number names something else than a source: only a marker mints
(`FenceMintsNothing`, `TickMintsNothing`), and what it mints is new and in range
(`MintLists`).

**`MemoryProofs`**: the properties of `memory`, for any number of readers and turns.
`MemoryInv` adds that no row, turn or holder knows an id that was not issued
(`IdsIssued`), that a held rule whose row still stands says what the row says
(`HolderTrue`: an id is never issued twice, so what a stale list names is what it was
when it was read) and that what the reader gave before the turn or in it is held while
it runs (`HolderWhole`). `ScopesHonest` is then a fact about well-formed groupings: a
product has a repository of its own, and its own are no libraries (`ProductHasOwn`).

### A question

The sections of **`QuestionProofs`**:

- *The model calls* (`LLMCalls`): `RetriesHonest` and `SpendBounded`, for any number of
  calls at once. `ShownOnce` rests on `NotYet` (a call under way has shown nothing),
  `LaterCallsOnce` on `MarkHolds` (a late call exists only once the mark is set and
  never waits for a second attempt); `SpendBounded` is inductive as it stands, by
  cardinalities of the calls outstanding.
- *What a question is searched by* (`QueryTerms`): `QuestionServed`, for every question,
  list of stopwords and ceilings. A rung is compared with the one the ladder put before
  it (`NextRung`), so each of the three ways to widen is a lemma about two neighbours:
  `ContentWidens` drops the stopwords, `PrefixWidens` gives words their prefixes,
  `AnyWidens` asks for one term of all, and finds more as soon as two of them differ
  (otherwise the rung is `AnyOfOne`). That a guess never takes the question's own places
  is a count: what stands before the reader's terms among the substring terms is at most
  one guess (`EarlierCount`), once repetitions are gone (`FirstOnceIs`).
- *The search* (`Search`): `ListsComplete`, for every corpus, question, candidate count,
  pool and answer of the reranking model. The central conjunct of `SearchInv` is that one
  id is one row wherever it is seen, in the table, in the snapshot of the read
  transaction and in the lanes, and that none is above the table's last (`SeenOnce`,
  `SeenIssued`): `lessByAddress` is a total order of hits only then, and without one the
  fused list need not hold each hit once (`FusedOnce`). A rewrite of a file keeps it,
  because the new ids are behind all that were seen (`Rewritten`, `Outgrows`). The round
  robin gives every term its first place because the first places of the terms before it
  are fewer than the lane has (`RoundRobinServes`). `RerankIs` counts the picked and the
  unpicked places of the reranked list into those of the fused one.
- *A search nothing disturbs* (`Search`): `OrderFromAddresses`, for the same values. A
  corpus and the same corpus with its ids dealt out by address are alike under a renaming
  of ids (`NumberedAlike`). Every list the search makes of one is the renamed list of the
  other (`SemanticMoves`, `KeywordMoves`, `RoundRobinMoves`, `FuseMoves`), because ties
  are broken on addresses, and an address is one row's; a score is a sum over the lanes
  and moves with them (`ScoreMoves`). The invariant `OrderInv` says that, until the poller
  moves, the lanes read so far are those an undisturbed search reads (`ReadUpTo`), but for
  the ones without a hit, which the code leaves out and which weigh nothing
  (`PaddedFuses`).

### Parts

The sections of **`PartsProofs`**:

- *The index tables* (`IndexStore`): `TablesAgree`, `HitsStayTrue`, `CacheCovers` and
  `SweptClean`. `IInv` adds `IdsIssued` (ids are unique and never above
  `sqlite_sequence`, hits included: without it a replaced file could reuse a held id),
  `JobCovered` (a file in flight has a path and size the boot does not exclude, and its vectors
  are cached once embedded: without it the write after a prune could miss a vector) and
  `SweepAhead` (before the sweep starts it has every repository ahead of it).
- *The tokens* (`Edges`): `CrossingsSound`, for every table. A live file's reads lose
  nothing with the parked rows (`SpreadOfAlive`, `NeighboursOfAlive`); the agreement of
  the two halves is the symmetry of their join. The census (`LinksListed`) is built of
  live rows only, and a link never crosses: neither half answers for its kind.
- *The modules* (`Modules`): `CutSound`, for every tree of files, units and sizes.
  `CutInv` says where every file is while the directories are visited: in a directory
  still to visit, in a module, or in a group carried up to one directory still to visit
  (`CutLaid`), no two of which share a key or a file (`Apart`), and that a finished
  module has its sizes (`Sized`). One lemma per action.
- *The selection* (`Select`): `VerdictsAgree`, for every path, body, exclusion list and
  size ceiling. The hard part is the matcher. `matchSegments` recurses over pattern and
  path; the model's `MatchFrom` is a recursive function from a pattern segment to the
  places it may start at. `MatchingIsCutting` shows that it finds a match exactly where
  the path can be cut into one piece per pattern segment, `**` any number of segments
  long, the definition the property is stated with. The size ceiling is one value for all
  verdicts; that a boot may come with other rules than the last is in `IndexStore`, whose
  rules by path and size change from boot to boot.
- *The rebuild of the vector table* (`Compaction`): `RebuildKeeps`, for any table, batch
  and chunk size and any failing statement. The invariant says what the copy holds at
  each statement: while rows go out, all rowids up to the last copied (`GoingOut`), while
  they come back, a table whose chunks are packed (`ComingBack`), so that a table just
  rebuilt is never `Bloated` again. `InsertAllKeeps` is by induction over the batch.
- *The names in a question* (`Names`): `NamesRead`, for every index, reading and
  question.
- *The passages of a file* (`Chunker`): `PassagesWhole`, for every file, list of symbols
  and setting, negative and zero sizes included (`EffectiveIs`). The regions partition
  the file (`RegionsAre`, from where each anchor's region starts and ends, `StartIs` and
  `EndIs`), a window ends inside its region and the next one starts behind its first
  line and at most one behind its last (`WindowEndIs`, `NextStartIs`), and every piece
  of a window holds the lines it says (`PiecesAre`, `WindowIs`). The invariant
  `ChunkInv`: all regions done, and the topmost left down to the next window, are held
  by passages already cut.
- *The card* (`Router`): `CardSound`, for every corpus, grouping, list of hits and
  ceiling. `BestFirstIs` says that ranking a finite set gives each member one place, the
  best first; `RankedIs`, `RepoCandidatesAre` and `ProductCandidatesAre` follow the three
  groupings to a card (a product's libraries come after it and never share its place, so
  no two entries collide), and `UnrelatedIsUnjoined` carries what the manifest rung found
  of all candidates over to the few a card shows. `RouterInv` holds what the rungs before
  a step have settled (`Undecided`: no clear leader, no more products than a card holds;
  then no join, then the judge's word), which is exactly what the policy reads of a rung
  that was skipped. The margin, the floor and the ceilings are assumed only as
  `RoutedTurns` says.
**`FiniteInduction`** is what the others share. The library's induction theorems take a
predicate, which the installed provers cannot instantiate. A *set* they can: `SetInduction` and
`CountInduction` say that a family of sets (a set of numbers) that no smallest set
(number) can be outside of holds them all, from the well-foundedness of the strict subset
ordering, and a claim is proved by defining the family of what satisfies it. On top of
them: `Recursion` (a recursive function over numbers has values that follow its own
definition), `LeastOf` and `GreatestOf` (finite sets of numbers have a minimum and a
maximum), and the laws of `MapThenSumSet` (`SumAdd`, `SumUnion`, `SumGrows`). Then the
lists: a finite set in an order that is total on it is listed with each member once,
those before it first (`InOrderLists`, `ListsEnumerate`); a measure with its ties broken
and the pairs of a grid are such orders (`MeasureOrdered`, `RowsOrdered`); the picked
places of a list keep their order (`PickedIs`, `PickedAt`). And renamings: an order
renamed with its members lists them renamed (`InOrderMoves`), and summands put elsewhere
sum to what they did (`SumMoves`).

### What the proofs found

- `Select` and `Poller` had `CASE`s whose guards overlapped. TLC takes the first that
  holds, TLA+ does not say which: the order of the code's `switch` is now in the guards.
- `CutIsSized` used to say that every module above the maximum is marked. It is, unless
  the configured minimum is above the maximum, which nothing in `config.go:261-262`
  refuses: a group below the minimum is then given back with no mark
  (`cluster.go:191`). The property says so, and `MCParts` has the two equal.
- `Names` took every repository a guess names with its part; the code takes the first
  (`repoWithPart`). Two clauses of the property were false in cases no instance had: a
  sibling may join for another product the word spells, and one guess may swallow
  another with the same fold. The instance now has them.
- `Router` ordered products of one score by their first repository in the ranking, a
  library that stands alone among them. `projectCandidates` folds the libraries after all
  products (`ask/route.go:292-310`), so such a library comes last of its score. The clause
  on linked modules read a key that a card of repositories does not have; both entries
  must have one.
- `Search` had no way on from the semantic lanes for a question none of whose ladders has
  a rung; `searchTexts` goes straight to the substring lane. In its instance no two fused
  hits of one score differed in address, so that a tie broken on the id went unnoticed;
  a corpus has such a tie now.

### Only model-checked

- liveness (`CatchesUp`, `RequestServed`, `TurnsFinish`, `CallEnds`, `GatherEnds`): the
  prover has no rule for fairness or `ENABLED`;
- `NumbersCount` (`Renumber`), all but its first clause, which `CitationsStayOne` proves:
  that renumbering its own output changes nothing compares two walks over different
  texts, fence by fence and span by span. It needs that no seam between two emitted pieces
  makes a fence, span or marker that neither piece had, for every pair of pieces, which no
  invariant of the one walk gives.

## Where the code and its comments disagree

- `poller_revert` / `PollLandsTree`. `indexer/index.go:399-403` says a failed run does
  not advance `last_sha`, so the next poll retries and no file keeps another commit's
  content for good. The next poll diffs from `last_sha` to the new head only. If the
  branch is back at the old content by then, the diff does not name the files the failed
  run rewrote, and they keep the abandoned commit's content after a poll that succeeded.
- `card_answered_twice` / `AnsweredOnce`. `httpapi/turns.go:138` says the claim closes
  the window in which a second choice links a second answer to a card. The handler reads
  whether the card is answered before it takes the claim and not again after.
- `choice_widened` / `ChoiceHonoured`. `httpapi/ask.go:174-177` says a chosen entry's
  repositories are read from the record and never resolved again. `ResumeRepo` resolves
  them by name; a project of one repository that carries its repository's name expands to
  the libraries it uses. `Funnel` says how far that goes: the libraries, nothing else.

Met while modelling, and worth knowing although no comment denies it:

- The chunker may cut a passage that lies wholly inside another one (a region's last
  window, where the overlap reaches back past the window before it).
- A file that is re-indexed between two lanes of one search has new ids in the later
  lane, so its passage can stand twice in the fused list, under both.
- A question whose one content word is repeated gets a floor rung that finds nothing its
  predecessor did not: `BuildFTSMatch` keeps repetitions, and any of a single term is
  that term. `AnyOfOne` in `QueryTerms` names the case; everywhere else, with repeated
  words too, `LadderWidens` promises a rung more than the one above it.
- `worthOffering` keeps the leading candidate only when it has code: a leader of tests
  and documents alone is dropped as soon as another candidate has some. `CardSound` is
  stated with what the code does.
- `foldRepo` drops the last s of a name, and `segmentOfAnyRepo` folds each segment of the
  folded name again (`retrieve/retrieve.go:378-392`). A half that ends in two s, as
  `access` of `data-access`, loses both there and one in the guess, does not match, and
  is reported as missing although the reader never wrote it; `access` of `access-data` is
  not. The comment there says that folding both sides keeps the two orders alike.
  `HalfOf` in `Names` names the case.
- A guess that folds like a later one hides it: with `tool` guessed before `tools`, what
  the reader wrote as `tools` is reported as `tool`.
- A marker group written over a line break (`[1,` newline `2]`) is closed up when it is
  renumbered. Between two lone backticks on its two lines that brings both on one line,
  and the citations stand in an inline span, where the record lists them and the browser
  shows code. `SpanCloses` in `Renumber` names the case; `NumbersCount` excepts it.
- An archive that is emptied between `EnsureSnapshot`'s look and its `git add` is
  committed as an empty tree, and the next poll reports it.

## What is not modelled

- `httpapi`'s titles, pinning, listing, activity, admin and configuration views, SSE
  encoding; `threads`' stored sources and steps;
- auth: a session is claims signed into a cookie by an external kit, with no table and
  nothing that revokes one; the only state is `Admit`'s five-minute memory of the users
  it has written (`auth/session.go`);
- how tokens, units, manifests, symbols, BPMN diagrams and secrets are found in file
  contents; the wire formats of the model endpoints; what git prints: parsers, data
  without control. Their results are inputs of the models;
- prompts and the quality of a model's answers: a reply is any reply;
- the windows of the release and changes lanes; the symbol and census passes beyond
  their results;
- `RepoDecay`, which no configuration of the product turns on;
- an operator who removes a checkout in the middle of its visit, or extracts an archive
  over a clone;
- the schema set-up and migrations; the web UI.

`components` in `PROJECT.json` says for each part what is in and what is not.

## The plan

Order: what loses or mixes a reader's data first, then what answers wrongly, then what
stalls.

1. Done: the tables; the poller with snapshots; the conversation's record and its
   refinement; memory; the model calls; a thread's turns; the gathering; the search; the
   router; the stream; the pure parts. Proofs for all of them.
2. Proofs: `NumbersCount`, from a description of the emitted text by its pieces.
3. Models: `Admit`'s memory of written users beside the `users` table; titles and
   pinning in `Conversation`; the release and changes windows.
