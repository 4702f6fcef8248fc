----------------------------- MODULE IndexStore -----------------------------
(***************************************************************************)
(* The SQLite tables of the index and everything that writes them:         *)
(* indexer.Writer, the purge and reset transactions of StateStore, the     *)
(* embedding cache, the boot sweep and the boot compaction.                *)
(*                                                                         *)
(* chunks, chunks_vec and chunks_fts are three views of the same rows,     *)
(* bridged by rowid = chunks.id.  No foreign key or trigger reaches the    *)
(* two virtual tables, so only the order of the statements inside each     *)
(* transaction keeps them in step.  A transaction is one action here; a    *)
(* crash falls between two of them.                                        *)
(***************************************************************************)
EXTENDS Naturals, Sequences, FiniteSets

CONSTANTS
  Repos,          \* repository names
  Paths,          \* paths inside a repository
  Hashes,         \* content hashes of chunk texts
  Sizes,          \* sizes an indexed file is stored with
  Rulings,        \* what a build's rules and a config's list may skip: [Paths x Sizes]
  MaxFileChunks,  \* bound: chunks one file is cut into
  MaxId,          \* bound: chunk ids ever handed out
  MaxHits,        \* bound: search hits a running turn holds
  NoJob            \* no file is being indexed

ASSUME BoundsAssumption ==
  /\ MaxFileChunks \in Nat \ {0}
  /\ MaxId \in Nat /\ MaxHits \in Nat

\* A verdict of selectByPath is one on a path and a size.
ASSUME RulingsAssumption ==
  /\ Rulings \subseteq SUBSET (Paths \X Sizes)
  /\ Sizes \cap {"absent", "skipped"} = {}

VARIABLES
  repo_state,   \* names with a row in repo_state
  files,        \* files[r][p]: no row, a skipped row, or the size of a row with chunks
  chunks,       \* rows of chunks
  chunks_vec,   \* rows of the vec0 mirror
  chunks_fts,   \* rows of the fts5 mirror
  sequence,     \* sqlite_sequence of chunks: the highest id ever used
  embed_cache,  \* content hashes with a stored vector
  excluded,     \* the <<path, size>> a rule of this build and config skips
  sweepTodo,    \* repositories the boot sweep has not finished
  sweepLost,    \* repositories whose sweep failed: logged, never fatal
  job,          \* the file the poller's goroutine is indexing, or NoJob
  hits,         \* hits a running turn holds from earlier lane queries
  pc            \* where main and the poller's goroutine are

tables == <<repo_state, files, chunks, chunks_vec, chunks_fts, sequence>>
vars == <<tables, embed_cache, excluded, sweepTodo, sweepLost, job, hits, pc>>

FileStates == Sizes \cup {"absent", "skipped"}
Phases == {"down", "purged", "compact", "compactServe", "sweep", "run", "serve"}

ChunkRow  == [id : Nat, repo : Repos, path : Paths, hash : Hashes]
MirrorRow == [id : Nat, hash : Hashes]
Chunkings == UNION {[1..n -> Hashes] : n \in 1..MaxFileChunks}
Job       == [repo : Repos, path : Paths, size : Sizes, texts : Chunkings, embedded : BOOLEAN]

ASSUME NoneAssumption == NoJob \notin Job

-----------------------------------------------------------------------------
(* The statements the transactions are made of.                            *)

Mirror(cs) == {[id |-> c.id, hash |-> c.hash] : c \in cs}
IdsOf(cs)  == {c.id : c \in cs}

OwnedBy(r)      == {c \in chunks : c.repo = r}
OwnedByFile(r, p) == {c \in chunks : c.repo = r /\ c.path = p}

\* DELETE ... WHERE rowid IN (ids) on one mirror.
Without(mirror, ids) == {m \in mirror : m.id \notin ids}

\* Mutant: ids handed out without AUTOINCREMENT, one above the rows present.
NewRowsReusing(r, p, texts) ==
  LET present == {0} \cup IdsOf(chunks \ OwnedByFile(r, p))
      top == CHOOSE n \in present : \A m \in present : m <= n
  IN  {[id |-> top + i, repo |-> r, path |-> p, hash |-> texts[i]] : i \in DOMAIN texts}

\* The rows one ReplaceFile inserts, numbered on from sequence.
NewRows(r, p, texts) ==
  {[id |-> sequence + i, repo |-> r, path |-> p, hash |-> texts[i]] : i \in DOMAIN texts}

\* clearFileContent / DeleteFile: both mirrors by the file's chunk ids, then
\* the chunks; then new are written to all three tables.
ClearThenWrite(r, p, new) ==
  LET gone == OwnedByFile(r, p)
  IN  /\ chunks_vec' = Without(chunks_vec, IdsOf(gone)) \cup Mirror(new)
      /\ chunks_fts' = Without(chunks_fts, IdsOf(gone)) \cup Mirror(new)
      /\ chunks' = (chunks \ gone) \cup new

\* Mutant: the files row goes first and its cascade takes the chunks, so the
\* ids the mirrors are cleared by select nothing.
PurgeCascadeFirst(rs) ==
  LET gone == UNION {OwnedBy(r) : r \in rs}
  IN  /\ UNCHANGED <<chunks_fts, chunks_vec>>
      /\ chunks' = chunks \ gone
      /\ files' = [r \in Repos |-> IF r \in rs THEN [p \in Paths |-> "absent"] ELSE files[r]]

\* purgeContent over several repositories of one transaction.
PurgeContent(rs) ==
  LET gone == UNION {OwnedBy(r) : r \in rs}
  IN  /\ chunks_fts' = Without(chunks_fts, IdsOf(gone))
      /\ chunks_vec' = Without(chunks_vec, IdsOf(gone))
      /\ chunks' = chunks \ gone
      /\ files' = [r \in Repos |-> IF r \in rs THEN [p \in Paths |-> "absent"] ELSE files[r]]

HashesOf(cs) == {c.hash : c \in cs}

\* PruneEmbedCache: drop every vector no chunk carries.
Prune == embed_cache' = embed_cache \cap HashesOf(chunks)

-----------------------------------------------------------------------------
Init ==
  /\ repo_state = {}
  /\ files = [r \in Repos |-> [p \in Paths |-> "absent"]]
  /\ chunks = {} /\ chunks_vec = {} /\ chunks_fts = {}
  /\ sequence = 0
  /\ embed_cache = {}
  /\ excluded = {}
  /\ sweepTodo = {} /\ sweepLost = {}
  /\ job = NoJob
  /\ hits = {}
  /\ pc = "down"

\* repos.yaml loaded: SyncSpecs purges what left the list and resets an entry
\* whose clone_url changed, in one transaction.
BootSync(list, reset, exclude) ==
  /\ pc = "down"
  /\ reset \subseteq list \cap repo_state
  /\ PurgeContent((repo_state \ list) \cup reset)
  /\ repo_state' = list
  /\ excluded' = exclude
  /\ sweepTodo' = list
  /\ pc' = IF repo_state \subseteq list THEN "compact" ELSE "purged"
  /\ UNCHANGED <<sequence, embed_cache, sweepLost, job, hits>>

\* No repos.yaml on disk: the tables stay, and nothing is polled or swept.
BootWithoutList ==
  /\ pc = "down"
  /\ pc' = "compactServe"
  /\ UNCHANGED <<tables, embed_cache, excluded, sweepTodo, sweepLost, job, hits>>

\* A purge at boot prunes the cache; a failed prune is logged and passed over.
BootPrune ==
  /\ pc = "purged"
  /\ Prune \/ UNCHANGED embed_cache
  /\ pc' = "compact"
  /\ UNCHANGED <<tables, excluded, sweepTodo, sweepLost, job, hits>>

\* LogVectorIndexAtBoot rewrites chunks_vec row for row (module Compaction).
\* Only a loaded list with indexing switched on starts the poller's goroutine.
BootCompact ==
  /\ \/ pc = "compact" /\ pc' \in {"sweep", "serve"}
     \/ pc = "compactServe" /\ pc' = "serve"
  /\ UNCHANGED <<tables, embed_cache, excluded, sweepTodo, sweepLost, job, hits>>

-----------------------------------------------------------------------------
(* The boot sweep, on the poller's goroutine beside live turns.            *)

SkipRow(r, p) ==
  /\ files' = [files EXCEPT ![r][p] = "skipped"]
  /\ ClearThenWrite(r, p, {})
  /\ UNCHANGED <<repo_state, sequence>>

\* Sweep judges the row's path and the size stored with it.
SweepFile(r, p) ==
  /\ pc = "sweep" /\ r \in sweepTodo
  /\ <<p, files[r][p]>> \in excluded
  /\ SkipRow(r, p)
  /\ UNCHANGED <<embed_cache, excluded, sweepTodo, sweepLost, job, hits, pc>>

\* Mutant: the sweep counts a repository done before its last hit.
SweepRepoEarly(r) ==
  /\ pc = "sweep" /\ r \in sweepTodo
  /\ sweepTodo' = sweepTodo \ {r}
  /\ Prune \/ UNCHANGED embed_cache
  /\ UNCHANGED <<tables, excluded, sweepLost, job, hits, pc>>

\* No hit left: the swept chunks' vectors go with them, or the prune fails.
SweepRepo(r) ==
  /\ pc = "sweep" /\ r \in sweepTodo
  /\ \A p \in Paths : <<p, files[r][p]>> \notin excluded
  /\ sweepTodo' = sweepTodo \ {r}
  /\ Prune \/ UNCHANGED embed_cache
  /\ UNCHANGED <<tables, excluded, sweepLost, job, hits, pc>>

SweepFails(r) ==
  /\ pc = "sweep" /\ r \in sweepTodo
  /\ sweepTodo' = sweepTodo \ {r}
  /\ sweepLost' = sweepLost \cup {r}
  /\ UNCHANGED <<tables, embed_cache, excluded, job, hits, pc>>

SweepDone ==
  /\ pc = "sweep" /\ sweepTodo = {}
  /\ pc' = "run"
  /\ UNCHANGED <<tables, embed_cache, excluded, sweepTodo, sweepLost, job, hits>>

-----------------------------------------------------------------------------
(* One index run, file by file.                                            *)

\* indexOne past every verdict: the chunks are cut, the cache is asked next.
IndexOne(r, p, size, texts) ==
  /\ pc = "run" /\ job = NoJob
  /\ r \in repo_state /\ <<p, size>> \notin excluded
  /\ sequence + Len(texts) <= MaxId
  /\ job' = [repo |-> r, path |-> p, size |-> size, texts |-> texts, embedded |-> FALSE]
  /\ UNCHANGED <<tables, embed_cache, excluded, sweepTodo, sweepLost, hits, pc>>

\* Mutant: the fresh vectors are used for the file and never stored.
VectorsUncached ==
  /\ job # NoJob /\ ~job.embedded
  /\ job' = [job EXCEPT !.embedded = TRUE]
  /\ UNCHANGED <<tables, embed_cache, excluded, sweepTodo, sweepLost, hits, pc>>

\* vectors: only the misses are embedded, and they are stored in one
\* transaction of their own before the file is written.
Vectors ==
  /\ job # NoJob /\ ~job.embedded
  /\ embed_cache' = embed_cache \cup {job.texts[i] : i \in DOMAIN job.texts}
  /\ job' = [job EXCEPT !.embedded = TRUE]
  /\ UNCHANGED <<tables, excluded, sweepTodo, sweepLost, hits, pc>>

ReplaceFile ==
  /\ job # NoJob /\ job.embedded
  /\ files' = [files EXCEPT ![job.repo][job.path] = job.size]
  /\ ClearThenWrite(job.repo, job.path, NewRows(job.repo, job.path, job.texts))
  /\ sequence' = sequence + Len(job.texts)
  /\ job' = NoJob
  /\ UNCHANGED <<repo_state, embed_cache, excluded, sweepTodo, sweepLost, hits, pc>>

\* The embedding endpoint or a write failed: the run ends, the tables stand.
RunFails ==
  /\ job # NoJob
  /\ job' = NoJob
  /\ UNCHANGED <<tables, embed_cache, excluded, sweepTodo, sweepLost, hits, pc>>

\* A verdict of the selector, an empty file or an excluded path and size.
RecordSkipped(r, p) ==
  /\ pc = "run" /\ job = NoJob /\ r \in repo_state
  /\ SkipRow(r, p)
  /\ UNCHANGED <<embed_cache, excluded, sweepTodo, sweepLost, job, hits, pc>>

\* A path the diff deleted, a symlink, or a path a full run retires.
DeleteFile(r, p) ==
  /\ pc = "run" /\ job = NoJob /\ r \in repo_state
  /\ files' = [files EXCEPT ![r][p] = "absent"]
  /\ ClearThenWrite(r, p, {})
  /\ UNCHANGED <<repo_state, sequence, embed_cache, excluded, sweepTodo, sweepLost, job, hits, pc>>

\* The end of a run prunes the cache.
RunEnds ==
  /\ pc = "run" /\ job = NoJob
  /\ Prune
  /\ UNCHANGED <<tables, excluded, sweepTodo, sweepLost, job, hits, pc>>

\* The poller found the checkout pointing elsewhere, or its commit lost.
ResetRepo(r) ==
  /\ pc = "run" /\ job = NoJob /\ r \in repo_state
  /\ PurgeContent({r})
  /\ UNCHANGED <<repo_state, sequence, embed_cache, excluded, sweepTodo, sweepLost, job, hits, pc>>

-----------------------------------------------------------------------------
(* A turn searches each lane with a query of its own and fuses the hits by *)
(* chunk id, so it holds rows of one snapshot while reading another.       *)

Serving == pc \in {"sweep", "run", "serve"}

Visible(mirror) == {c \in chunks : \E m \in mirror : m.id = c.id}

SearchLane(mirror) ==
  /\ Serving
  /\ Cardinality(hits) < MaxHits
  /\ \E c \in Visible(mirror) : hits' = hits \cup {c}
  /\ UNCHANGED <<tables, embed_cache, excluded, sweepTodo, sweepLost, job, pc>>

TurnEnds ==
  /\ hits # {}
  /\ hits' = {}
  /\ UNCHANGED <<tables, embed_cache, excluded, sweepTodo, sweepLost, job, pc>>

\* Killed or stopped between two transactions.
Crash ==
  /\ pc # "down"
  /\ pc' = "down"
  /\ job' = NoJob
  /\ hits' = {}
  /\ sweepTodo' = {} /\ sweepLost' = {}
  /\ UNCHANGED <<tables, embed_cache, excluded>>

PollerStep ==
  \/ \E list \in SUBSET Repos, reset \in SUBSET Repos, exclude \in Rulings :
       BootSync(list, reset, exclude)
  \/ BootWithoutList
  \/ BootPrune
  \/ BootCompact
  \/ \E r \in Repos, p \in Paths : SweepFile(r, p)
  \/ \E r \in Repos : SweepRepo(r)
  \/ \E r \in Repos : SweepFails(r)
  \/ SweepDone
  \/ \E r \in Repos, p \in Paths, size \in Sizes, texts \in Chunkings : IndexOne(r, p, size, texts)
  \/ Vectors
  \/ ReplaceFile
  \/ RunFails
  \/ \E r \in Repos, p \in Paths : RecordSkipped(r, p)
  \/ \E r \in Repos, p \in Paths : DeleteFile(r, p)
  \/ RunEnds
  \/ \E r \in Repos : ResetRepo(r)

Next ==
  \/ PollerStep
  \/ SearchLane(chunks_vec)
  \/ SearchLane(chunks_fts)
  \/ TurnEnds
  \/ Crash

Spec == Init /\ [][Next]_vars

-----------------------------------------------------------------------------
TypeOK ==
  /\ repo_state \subseteq Repos
  /\ files \in [Repos -> [Paths -> FileStates]]
  /\ chunks \subseteq ChunkRow
  /\ chunks_vec \subseteq MirrorRow
  /\ chunks_fts \subseteq MirrorRow
  /\ sequence \in Nat
  /\ embed_cache \subseteq Hashes
  /\ excluded \subseteq Paths \X Sizes
  /\ sweepTodo \subseteq Repos /\ sweepLost \subseteq Repos
  /\ job \in Job \cup {NoJob}
  /\ hits \subseteq ChunkRow
  /\ pc \in Phases

(* The semantic lane and the keyword lane hold exactly the chunks that     *)
(* exist, each under its own id and content, after every transaction the   *)
(* writer, the purge, the reset and the sweep can commit (write.go, "A     *)
(* half-written file leaves the semantic lane and the keyword lane         *)
(* disagreeing about what exists").                                        *)
LanesAgree ==
  /\ chunks_vec = Mirror(chunks)
  /\ chunks_fts = Mirror(chunks)

(* A file row carries no skip reason exactly when the file has chunks, and *)
(* only a listed repository has either: a skipped, deleted, purged or      *)
(* reset file is not searchable, and a searchable one has its row.         *)
IndexedIffChunks ==
  \A r \in Repos, p \in Paths :
    /\ (files[r][p] \in Sizes) <=> (OwnedByFile(r, p) # {})
    /\ files[r][p] # "absent" => r \in repo_state

(* The tables agree with each other: TypeOK, LanesAgree, IndexedIffChunks. *)
TablesAgree == TypeOK /\ LanesAgree /\ IndexedIffChunks

(* A hit a turn took from one lane query still names the same code when a  *)
(* later query of the turn returns that chunk id, whatever the poller      *)
(* committed between the two: fusion by id never merges two chunks.        *)
HitsStayTrue ==
  \A h \in hits, c \in chunks : c.id = h.id => c = h

(* Every stored chunk finds its vector in embed_cache, so a reset or a     *)
(* requested full run re-embeds nothing that is still indexed; the prune   *)
(* after a run never takes a vector a chunk of any repository uses.        *)
CacheCovers == HashesOf(chunks) \subseteq embed_cache

(* Once the boot sweep is through with a repository, no file whose path    *)
(* and size the rules of this boot exclude is searchable in it, and no     *)
(* later run of the same process brings one back.                          *)
SweptClean ==
  pc \in {"sweep", "run"} =>
    \A r \in repo_state \ (sweepTodo \cup sweepLost), p \in Paths :
      <<p, files[r][p]>> \notin excluded

=============================================================================
