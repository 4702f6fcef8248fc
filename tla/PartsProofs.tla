---------------------------- MODULE PartsProofs ----------------------------
(***************************************************************************)
(* What is proved of the parts of MCParts, for every value of their        *)
(* constants, one section each: the index tables, what a crossing reads of *)
(* the token table, the cut of a tree into modules, the exclude rules, the *)
(* rebuild of the vectors, the names of a repository, the passages of a    *)
(* file, and the card of a routed turn.                                    *)
(***************************************************************************)
EXTENDS IndexStore, Edges, Modules, Select, Compaction, Names, Chunker, Router,
        FiniteInduction, SequenceTheorems, FunctionTheorems, TLAPS

-----------------------------------------------------------------------------
(* The index tables.                                                       *)

\* Ids are handed out once: unique among the rows, never above sequence, and
\* a hit a turn holds was numbered by the same sequence.
IdsIssued ==
  /\ \A c, d \in chunks : c.id = d.id => c = d
  /\ \A c \in chunks \cup hits : c.id <= sequence

\* The cache covers the chunks, and the file in flight once it is embedded;
\* a file is in flight only while a run is on, and never under an excluded path and size.
JobCovered ==
  job # NoJob =>
    /\ pc = "run"
    /\ <<job.path, job.size>> \notin excluded
    /\ job.repo \in repo_state
    /\ job.embedded => \A i \in DOMAIN job.texts : job.texts[i] \in embed_cache

\* Before the sweep starts it has every listed repository ahead of it.
SweepAhead ==
  /\ pc \in {"purged", "compact"} => sweepTodo = repo_state
  /\ pc = "down" => sweepLost = {}

IInv ==
  /\ TypeOK
  /\ LanesAgree
  /\ IdsIssued
  /\ HitsStayTrue
  /\ CacheCovers
  /\ JobCovered
  /\ IndexedIffChunks
  /\ SweepAhead
  /\ SweptClean

-----------------------------------------------------------------------------
(* A chunking is a nonempty sequence of content hashes.                    *)
LEMMA ChunkingShape ==
  ASSUME NEW texts \in Chunkings
  PROVE  /\ Len(texts) \in Nat \ {0}
         /\ DOMAIN texts = 1..Len(texts)
         /\ \A i \in 1..Len(texts) : texts[i] \in Hashes
<1>1. PICK n \in 1..MaxFileChunks : texts \in [1..n -> Hashes]
  BY DEF Chunkings
<1>2. n \in Nat \ {0}
  BY BoundsAssumption
<1>3. texts \in Seq(Hashes) /\ Len(texts) = n
  BY <1>1, <1>2
<1> QED
  BY <1>1, <1>2, <1>3

(* The rows a ReplaceFile inserts carry ids above every id handed out so   *)
(* far, one per chunk text, and there is at least one of them.             *)
LEMMA NewRowsFresh ==
  ASSUME NEW r \in Repos, NEW p \in Paths, NEW texts \in Chunkings, sequence \in Nat
  PROVE  /\ NewRows(r, p, texts) \subseteq ChunkRow
         /\ NewRows(r, p, texts) # {}
         /\ \A c \in NewRows(r, p, texts) :
              /\ c.id > sequence
              /\ c.id <= sequence + Len(texts)
              /\ c.repo = r /\ c.path = p
              /\ \E i \in DOMAIN texts : c.hash = texts[i]
         /\ \A c, d \in NewRows(r, p, texts) : c.id = d.id => c = d
<1>1. /\ Len(texts) \in Nat \ {0}
      /\ DOMAIN texts = 1..Len(texts)
      /\ \A i \in 1..Len(texts) : texts[i] \in Hashes
  BY ChunkingShape
<1> DEFINE row(i) == [id |-> sequence + i, repo |-> r, path |-> p, hash |-> texts[i]]
<1>2. NewRows(r, p, texts) = {row(i) : i \in 1..Len(texts)}
  BY <1>1 DEF NewRows
<1>3. NewRows(r, p, texts) \subseteq ChunkRow
  BY <1>1, <1>2 DEF ChunkRow
<1>4. NewRows(r, p, texts) # {}
  <2>1. 1 \in 1..Len(texts)
    BY <1>1
  <2> QED
    BY <2>1, <1>2
<1>5. \A c \in NewRows(r, p, texts) :
        /\ c.id > sequence /\ c.id <= sequence + Len(texts)
        /\ c.repo = r /\ c.path = p
        /\ \E i \in DOMAIN texts : c.hash = texts[i]
  BY <1>1, <1>2
<1>6. \A c, d \in NewRows(r, p, texts) : c.id = d.id => c = d
  <2> SUFFICES ASSUME NEW i \in 1..Len(texts), NEW j \in 1..Len(texts),
                      row(i).id = row(j).id
               PROVE  row(i) = row(j)
    BY <1>2
  <2>1. sequence + i = sequence + j
    OBVIOUS
  <2>2. i = j
    BY <2>1, <1>1
  <2> QED
    BY <2>2
<1> QED
  BY <1>3, <1>4, <1>5, <1>6

-----------------------------------------------------------------------------
(* The three tables stay one set of rows through clearFileContent and the  *)
(* inserts that follow it, as long as the inserted ids are not in use.     *)
LEMMA ClearThenWriteLanes ==
  ASSUME TypeOK, LanesAgree, IdsIssued,
         NEW r \in Repos, NEW p \in Paths, NEW new \in SUBSET ChunkRow,
         \A c \in new : c.id > sequence,
         ClearThenWrite(r, p, new)
  PROVE  LanesAgree'
<1> DEFINE gone == OwnedByFile(r, p)
<1>1. gone \subseteq chunks
  BY DEF OwnedByFile
<1>2. Without(Mirror(chunks), IdsOf(gone)) = Mirror(chunks \ gone)
  <2>1. ASSUME NEW c \in chunks
        PROVE  c.id \in IdsOf(gone) <=> c \in gone
    BY <1>1, <2>1 DEF IdsIssued, IdsOf
  <2> HIDE DEF gone
  <2> QED
    BY <2>1 DEF Without, Mirror
<1>3. Mirror((chunks \ gone) \cup new) = Mirror(chunks \ gone) \cup Mirror(new)
  BY DEF Mirror
<1> QED
  BY <1>2, <1>3 DEF ClearThenWrite, LanesAgree, Mirror

(* The same for a purge of whole repositories.                             *)
LEMMA PurgeLanes ==
  ASSUME TypeOK, LanesAgree, IdsIssued, NEW rs \in SUBSET Repos, PurgeContent(rs)
  PROVE  LanesAgree'
<1> DEFINE gone == UNION {OwnedBy(r) : r \in rs}
<1>1. gone \subseteq chunks
  BY DEF OwnedBy
<1>2. Without(Mirror(chunks), IdsOf(gone)) = Mirror(chunks \ gone)
  <2>1. ASSUME NEW c \in chunks
        PROVE  c.id \in IdsOf(gone) <=> c \in gone
    BY <1>1, <2>1 DEF IdsIssued, IdsOf
  <2> HIDE DEF gone
  <2> QED
    BY <2>1 DEF Without, Mirror
<1> QED
  BY <1>2 DEF PurgeContent, LanesAgree, Mirror

-----------------------------------------------------------------------------
(* Deleting rows cannot break what is said of the rows that stay.          *)
LEMMA FewerChunks ==
  ASSUME TypeOK, IdsIssued, HitsStayTrue, CacheCovers,
         chunks' \subseteq chunks,
         UNCHANGED <<sequence, hits, embed_cache>>
  PROVE  IdsIssued' /\ HitsStayTrue' /\ CacheCovers'
BY DEF IdsIssued, HitsStayTrue, CacheCovers, HashesOf

(* A file turned away keeps its row and loses its chunks (RecordSkipped,   *)
(* and the sweep that reuses it).                                          *)
LEMMA SkipRowKeeps ==
  ASSUME IInv, NEW r \in repo_state, NEW p \in Paths, SkipRow(r, p),
         UNCHANGED <<embed_cache, hits>>
  PROVE  /\ LanesAgree' /\ IdsIssued' /\ HitsStayTrue' /\ CacheCovers'
         /\ IndexedIffChunks'
         /\ files' \in [Repos -> [Paths -> FileStates]]
         /\ chunks' \subseteq chunks
<1>0. TypeOK /\ LanesAgree /\ IdsIssued /\ IndexedIffChunks /\ r \in Repos
  BY DEF IInv, TypeOK
<1>1. LanesAgree'
  BY <1>0, ClearThenWriteLanes DEF SkipRow
<1>2. chunks' = chunks \ OwnedByFile(r, p)
  BY DEF SkipRow, ClearThenWrite
<1>3. IdsIssued' /\ HitsStayTrue' /\ CacheCovers'
  BY <1>2, FewerChunks DEF IInv, SkipRow
<1>4. files' \in [Repos -> [Paths -> FileStates]]
  BY <1>0 DEF SkipRow, TypeOK, FileStates
<1>5. IndexedIffChunks'
  <2> SUFFICES ASSUME NEW q \in Repos, NEW x \in Paths
               PROVE  /\ (files'[q][x] \in Sizes) <=> (OwnedByFile(q, x)' # {})
                      /\ files'[q][x] # "absent" => q \in repo_state'
    BY DEF IndexedIffChunks
  <2>1. OwnedByFile(q, x)' = IF q = r /\ x = p THEN {} ELSE OwnedByFile(q, x)
    BY <1>2 DEF OwnedByFile
  <2>2. files'[q][x] = IF q = r /\ x = p THEN "skipped" ELSE files[q][x]
    BY <1>0 DEF SkipRow, TypeOK
  <2>3. repo_state' = repo_state
    BY DEF SkipRow
  <2> QED
    BY <1>0, <2>1, <2>2, <2>3, RulingsAssumption DEF IndexedIffChunks
<1> QED
  BY <1>1, <1>2, <1>3, <1>4, <1>5

(* A purge leaves the purged repositories without rows of any kind.        *)
LEMMA PurgeKeeps ==
  ASSUME IInv, NEW rs \in SUBSET Repos, PurgeContent(rs),
         UNCHANGED <<sequence, embed_cache, hits>>,
         repo_state' \in SUBSET Repos, repo_state \ repo_state' \subseteq rs
  PROVE  /\ LanesAgree' /\ IdsIssued' /\ HitsStayTrue' /\ CacheCovers'
         /\ IndexedIffChunks'
         /\ files' \in [Repos -> [Paths -> FileStates]]
         /\ chunks' \subseteq chunks
<1>0. TypeOK /\ LanesAgree /\ IdsIssued /\ IndexedIffChunks
  BY DEF IInv
<1>1. LanesAgree'
  BY <1>0, PurgeLanes
<1>2. chunks' = chunks \ UNION {OwnedBy(r) : r \in rs}
  BY DEF PurgeContent
<1>3. IdsIssued' /\ HitsStayTrue' /\ CacheCovers'
  BY <1>2, FewerChunks DEF IInv
<1>4. files' = [q \in Repos |-> IF q \in rs THEN [x \in Paths |-> "absent"] ELSE files[q]]
  BY DEF PurgeContent
<1>5. files' \in [Repos -> [Paths -> FileStates]]
  BY <1>0, <1>4 DEF TypeOK, FileStates
<1>6. IndexedIffChunks'
  <2> SUFFICES ASSUME NEW q \in Repos, NEW x \in Paths
               PROVE  /\ (files'[q][x] \in Sizes) <=> (OwnedByFile(q, x)' # {})
                      /\ files'[q][x] # "absent" => q \in repo_state'
    BY DEF IndexedIffChunks
  <2>1. OwnedByFile(q, x)' = IF q \in rs THEN {} ELSE OwnedByFile(q, x)
    BY <1>2 DEF OwnedByFile, OwnedBy
  <2>2. files'[q][x] = IF q \in rs THEN "absent" ELSE files[q][x]
    BY <1>4
  <2> QED
    BY <1>0, <2>1, <2>2, RulingsAssumption DEF IndexedIffChunks
<1> QED
  BY <1>1, <1>2, <1>3, <1>5, <1>6

(* ReplaceFile: the old rows of the file go, the new ones take fresh ids,  *)
(* and every other file keeps its rows.                                    *)
LEMMA ReplaceFileKeeps ==
  ASSUME IInv, ReplaceFile
  PROVE  IInv'
<1>0. TypeOK /\ LanesAgree /\ IdsIssued /\ IndexedIffChunks
  BY DEF IInv
<1>1. /\ job \in Job /\ job.repo \in Repos /\ job.path \in Paths /\ job.size \in Sizes
      /\ job.texts \in Chunkings /\ sequence \in Nat
  BY <1>0 DEF TypeOK, ReplaceFile, Job
<1> DEFINE new == NewRows(job.repo, job.path, job.texts)
           old == OwnedByFile(job.repo, job.path)
<1>2. /\ new \subseteq ChunkRow
      /\ new # {}
      /\ \A c \in new : /\ c.id > sequence /\ c.id <= sequence + Len(job.texts)
                        /\ c.repo = job.repo /\ c.path = job.path
                        /\ \E i \in DOMAIN job.texts : c.hash = job.texts[i]
      /\ \A c, d \in new : c.id = d.id => c = d
  BY <1>1, NewRowsFresh
<1>3. Len(job.texts) \in Nat
  BY <1>1, ChunkingShape
<1>4. chunks' = (chunks \ old) \cup new /\ sequence' = sequence + Len(job.texts)
  BY DEF ReplaceFile, ClearThenWrite
<1>5. \A c \in chunks \cup hits : c.id \in Nat /\ c.id <= sequence
  BY <1>0 DEF IdsIssued, TypeOK, ChunkRow
<1>6. \A c \in new : c.id \in Nat
  BY <1>2 DEF ChunkRow
<1> HIDE DEF new
<1>7. LanesAgree'
  BY <1>0, <1>1, <1>2, ClearThenWriteLanes DEF ReplaceFile, new
<1>8. TypeOK'
  <2>1. chunks' \subseteq ChunkRow
    BY <1>0, <1>2, <1>4 DEF TypeOK
  <2>2. chunks_vec' \subseteq MirrorRow /\ chunks_fts' \subseteq MirrorRow
    BY <1>7, <2>1 DEF LanesAgree, Mirror, MirrorRow, ChunkRow
  <2>3. files' \in [Repos -> [Paths -> FileStates]]
    BY <1>0, <1>1 DEF TypeOK, ReplaceFile, FileStates
  <2>4. sequence' \in Nat
    BY <1>1, <1>3, <1>4
  <2> QED
    BY <1>0, <2>1, <2>2, <2>3, <2>4 DEF TypeOK, ReplaceFile
<1>9. IdsIssued'
  <2>1. ASSUME NEW c \in chunks', NEW d \in chunks', c.id = d.id
        PROVE  c = d
    BY <1>0, <1>1, <1>2, <1>4, <1>5, <1>6, <2>1 DEF IdsIssued
  <2>2. ASSUME NEW c \in chunks' \cup hits'
        PROVE  c.id <= sequence'
    BY <1>1, <1>2, <1>3, <1>4, <1>5, <1>6 DEF ReplaceFile
  <2> QED
    BY <2>1, <2>2 DEF IdsIssued
<1>10. HitsStayTrue'
  <2> SUFFICES ASSUME NEW h \in hits, NEW c \in chunks', c.id = h.id
               PROVE  c = h
    BY DEF HitsStayTrue, ReplaceFile
  <2>1. c \notin new
    BY <1>1, <1>2, <1>5, <1>6
  <2> QED
    BY <1>4, <2>1 DEF IInv, HitsStayTrue
<1>11. CacheCovers'
  <2>1. \A c \in new : c.hash \in embed_cache
    BY <1>2 DEF IInv, JobCovered, ReplaceFile
  <2> QED
    BY <1>4, <2>1 DEF IInv, CacheCovers, HashesOf, ReplaceFile
<1>12. IndexedIffChunks'
  <2> SUFFICES ASSUME NEW q \in Repos, NEW x \in Paths
               PROVE  /\ (files'[q][x] \in Sizes) <=> (OwnedByFile(q, x)' # {})
                      /\ files'[q][x] # "absent" => q \in repo_state'
    BY DEF IndexedIffChunks
  <2>1. OwnedByFile(q, x)' = IF q = job.repo /\ x = job.path THEN new
                             ELSE OwnedByFile(q, x)
    BY <1>2, <1>4 DEF OwnedByFile
  <2>2. files'[q][x] = IF q = job.repo /\ x = job.path THEN job.size ELSE files[q][x]
    BY <1>0 DEF ReplaceFile, TypeOK
  <2>3. repo_state' = repo_state /\ job.repo \in repo_state
    BY DEF ReplaceFile, IInv, JobCovered
  <2> QED
    BY <1>0, <1>1, <1>2, <2>1, <2>2, <2>3, RulingsAssumption DEF IndexedIffChunks
<1>13. JobCovered' /\ SweepAhead'
  BY DEF IInv, JobCovered, SweepAhead, ReplaceFile
<1>14. SweptClean'
  <2>1. <<job.path, job.size>> \notin excluded
    BY DEF IInv, JobCovered, ReplaceFile
  <2>2. \A q \in Repos, x \in Paths :
          files'[q][x] = IF q = job.repo /\ x = job.path THEN job.size ELSE files[q][x]
    BY <1>0 DEF ReplaceFile, TypeOK
  <2> QED
    BY <1>0, <2>1, <2>2 DEF IInv, SweptClean, ReplaceFile, TypeOK
<1> QED
  BY <1>7, <1>8, <1>9, <1>10, <1>11, <1>12, <1>13, <1>14 DEF IInv

(* Indexed files only become fewer: what the sweep has cleaned stays so.   *)
LEMMA SweptStays ==
  ASSUME IInv,
         \A q \in Repos, x \in Paths : files'[q][x] \in Sizes => files[q][x] = files'[q][x],
         UNCHANGED <<repo_state, excluded, sweepTodo, sweepLost, pc>>
  PROVE  SweptClean'
BY DEF IInv, SweptClean, TypeOK

(* A deletion takes the row with the chunks.                               *)
LEMMA DeleteFileKeeps ==
  ASSUME IInv, NEW r \in Repos, NEW p \in Paths, DeleteFile(r, p)
  PROVE  IInv'
<1>0. TypeOK /\ LanesAgree /\ IdsIssued /\ IndexedIffChunks
  BY DEF IInv
<1>1. LanesAgree'
  BY <1>0, ClearThenWriteLanes DEF DeleteFile
<1>2. chunks' = chunks \ OwnedByFile(r, p)
  BY DEF DeleteFile, ClearThenWrite
<1>3. IdsIssued' /\ HitsStayTrue' /\ CacheCovers'
  BY <1>2, FewerChunks DEF IInv, DeleteFile
<1>4. \A q \in Repos, x \in Paths :
        files'[q][x] = IF q = r /\ x = p THEN "absent" ELSE files[q][x]
  BY <1>0 DEF DeleteFile, TypeOK
<1>5. IndexedIffChunks'
  <2> SUFFICES ASSUME NEW q \in Repos, NEW x \in Paths
               PROVE  /\ (files'[q][x] \in Sizes) <=> (OwnedByFile(q, x)' # {})
                      /\ files'[q][x] # "absent" => q \in repo_state'
    BY DEF IndexedIffChunks
  <2>1. OwnedByFile(q, x)' = IF q = r /\ x = p THEN {} ELSE OwnedByFile(q, x)
    BY <1>2 DEF OwnedByFile
  <2> QED
    BY <1>0, <1>4, <2>1, RulingsAssumption DEF IndexedIffChunks, DeleteFile
<1>6. TypeOK'
  <2>1. files' \in [Repos -> [Paths -> FileStates]]
    BY <1>0 DEF TypeOK, DeleteFile, FileStates
  <2>2. chunks_vec' \subseteq MirrorRow /\ chunks_fts' \subseteq MirrorRow
    BY <1>0, <1>1, <1>2 DEF LanesAgree, Mirror, MirrorRow, ChunkRow, TypeOK
  <2> QED
    BY <1>0, <1>2, <2>1, <2>2 DEF TypeOK, DeleteFile
<1>7. JobCovered' /\ SweepAhead'
  BY DEF IInv, JobCovered, SweepAhead, DeleteFile
<1>8. SweptClean'
  <2>1. \A q \in Repos, x \in Paths : files'[q][x] \in Sizes => files[q][x] = files'[q][x]
    BY <1>4, RulingsAssumption
  <2> QED
    BY <2>1, SweptStays DEF DeleteFile
<1> QED
  BY <1>1, <1>3, <1>5, <1>6, <1>7, <1>8 DEF IInv

(* The sweep and RecordSkipped keep the invariant through SkipRow.         *)
LEMMA SkippedKeeps ==
  ASSUME IInv, NEW r \in repo_state, NEW p \in Paths, SkipRow(r, p),
         UNCHANGED <<embed_cache, excluded, sweepTodo, sweepLost, job, hits, pc>>
  PROVE  IInv'
<1>0. TypeOK /\ r \in Repos
  BY DEF IInv, TypeOK
<1>1. /\ LanesAgree' /\ IdsIssued' /\ HitsStayTrue' /\ CacheCovers'
      /\ IndexedIffChunks'
      /\ files' \in [Repos -> [Paths -> FileStates]]
      /\ chunks' \subseteq chunks
  BY SkipRowKeeps
<1>2. chunks_vec' \subseteq MirrorRow /\ chunks_fts' \subseteq MirrorRow
  BY <1>0, <1>1 DEF LanesAgree, Mirror, MirrorRow, ChunkRow, TypeOK
<1>3. TypeOK'
  BY <1>0, <1>1, <1>2 DEF TypeOK, SkipRow
<1>4. JobCovered' /\ SweepAhead'
  BY DEF IInv, JobCovered, SweepAhead, SkipRow
<1>5. SweptClean'
  <2>1. \A q \in Repos, x \in Paths : files'[q][x] \in Sizes => files[q][x] = files'[q][x]
    BY <1>0, RulingsAssumption DEF SkipRow, TypeOK
  <2> QED
    BY <2>1, SweptStays DEF SkipRow
<1> QED
  BY <1>1, <1>3, <1>4, <1>5 DEF IInv

(* So do the two purges: of SyncSpecs at boot and of the poller's reset.   *)
LEMMA BootSyncKeeps ==
  ASSUME IInv, NEW list \in SUBSET Repos, NEW reset \in SUBSET Repos,
         NEW exclude \in Rulings, BootSync(list, reset, exclude)
  PROVE  IInv'
<1>0. TypeOK
  BY DEF IInv
<1>1. /\ LanesAgree' /\ IdsIssued' /\ HitsStayTrue' /\ CacheCovers'
      /\ IndexedIffChunks'
      /\ files' \in [Repos -> [Paths -> FileStates]]
      /\ chunks' \subseteq chunks
  <2>1. (repo_state \ list) \cup reset \in SUBSET Repos
    BY <1>0 DEF TypeOK
  <2> QED
    BY <2>1, PurgeKeeps DEF BootSync
<1>2. chunks_vec' \subseteq MirrorRow /\ chunks_fts' \subseteq MirrorRow
  BY <1>0, <1>1 DEF LanesAgree, Mirror, MirrorRow, ChunkRow, TypeOK
<1>3. TypeOK'
  <2>1. excluded' \subseteq Paths \X Sizes
    BY RulingsAssumption DEF BootSync
  <2> QED
    BY <1>0, <1>1, <1>2, <2>1 DEF TypeOK, BootSync, Phases
<1>4. JobCovered' /\ SweepAhead' /\ SweptClean'
  BY DEF IInv, JobCovered, SweepAhead, SweptClean, BootSync
<1> QED
  BY <1>1, <1>3, <1>4 DEF IInv

LEMMA ResetRepoKeeps ==
  ASSUME IInv, NEW r \in Repos, ResetRepo(r)
  PROVE  IInv'
<1>0. TypeOK
  BY DEF IInv
<1>1. /\ LanesAgree' /\ IdsIssued' /\ HitsStayTrue' /\ CacheCovers'
      /\ IndexedIffChunks'
      /\ files' \in [Repos -> [Paths -> FileStates]]
      /\ chunks' \subseteq chunks
  <2>1. {r} \in SUBSET Repos /\ repo_state' \in SUBSET Repos
    BY <1>0 DEF TypeOK, ResetRepo
  <2> QED
    BY <2>1, PurgeKeeps DEF ResetRepo
<1>2. chunks_vec' \subseteq MirrorRow /\ chunks_fts' \subseteq MirrorRow
  BY <1>0, <1>1 DEF LanesAgree, Mirror, MirrorRow, ChunkRow, TypeOK
<1>3. TypeOK'
  BY <1>0, <1>1, <1>2 DEF TypeOK, ResetRepo
<1>4. JobCovered' /\ SweepAhead'
  BY DEF IInv, JobCovered, SweepAhead, ResetRepo
<1>5. SweptClean'
  <2>1. \A q \in Repos, x \in Paths : files'[q][x] \in Sizes => files[q][x] = files'[q][x]
    BY <1>0, RulingsAssumption DEF ResetRepo, PurgeContent, TypeOK
  <2> QED
    BY <2>1, SweptStays DEF ResetRepo
<1> QED
  BY <1>1, <1>3, <1>4, <1>5 DEF IInv

(* The steps that touch none of the three tables: prunes, phase changes,   *)
(* the cache, the turn and the crash.                                      *)
LEMMA TablesStand ==
  ASSUME IInv, UNCHANGED tables, hits' \subseteq hits \cup chunks, TypeOK'
  PROVE  LanesAgree' /\ IdsIssued' /\ HitsStayTrue' /\ IndexedIffChunks'
<1>1. LanesAgree' /\ IndexedIffChunks'
  BY DEF IInv, LanesAgree, IndexedIffChunks, tables, Mirror, OwnedByFile
<1>2. IdsIssued' /\ HitsStayTrue'
  BY DEF IInv, IdsIssued, HitsStayTrue, tables
<1> QED
  BY <1>1, <1>2

LEMMA InitHolds == Init => IInv
<1> SUFFICES ASSUME Init PROVE IInv
  OBVIOUS
<1>1. TypeOK
  BY DEF Init, TypeOK, FileStates, Phases
<1>2. LanesAgree /\ IdsIssued /\ HitsStayTrue /\ CacheCovers
  BY DEF Init, LanesAgree, IdsIssued, HitsStayTrue, CacheCovers, Mirror, HashesOf
<1>3. JobCovered /\ IndexedIffChunks /\ SweepAhead /\ SweptClean
  BY RulingsAssumption DEF Init, JobCovered, IndexedIffChunks, SweepAhead, SweptClean, OwnedByFile
<1> QED
  BY <1>1, <1>2, <1>3 DEF IInv

LEMMA NextKeeps == IInv /\ [Next]_vars => IInv'
<1> SUFFICES ASSUME IInv, [Next]_vars PROVE IInv'
  OBVIOUS
<1>0. TypeOK /\ CacheCovers /\ JobCovered /\ SweepAhead /\ SweptClean
  BY DEF IInv
<1>1. CASE UNCHANGED vars
  <2>1. TypeOK'
    BY <1>0, <1>1 DEF vars, tables, TypeOK
  <2>2. CacheCovers' /\ JobCovered' /\ SweepAhead' /\ SweptClean'
    BY <1>0, <1>1 DEF vars, tables, CacheCovers, HashesOf, JobCovered, SweepAhead, SweptClean
  <2> QED
    BY <1>1, <2>1, <2>2, TablesStand DEF vars, IInv
<1>2. ASSUME NEW list \in SUBSET Repos, NEW reset \in SUBSET Repos,
             NEW exclude \in Rulings, BootSync(list, reset, exclude)
      PROVE  IInv'
  BY <1>2, BootSyncKeeps
<1>3. CASE BootWithoutList \/ BootCompact
  <2>1. TypeOK'
    BY <1>0, <1>3 DEF BootWithoutList, BootCompact, tables, TypeOK, Phases
  <2>2. CacheCovers' /\ JobCovered' /\ SweepAhead' /\ SweptClean'
    BY <1>0, <1>3 DEF BootWithoutList, BootCompact, tables, CacheCovers, HashesOf,
                      JobCovered, SweepAhead, SweptClean
  <2> QED
    BY <1>3, <2>1, <2>2, TablesStand DEF BootWithoutList, BootCompact, IInv
<1>4. CASE BootPrune
  <2>1. TypeOK'
    BY <1>0, <1>4 DEF BootPrune, Prune, tables, TypeOK, Phases
  <2>2. CacheCovers' /\ JobCovered' /\ SweepAhead' /\ SweptClean'
    BY <1>0, <1>4 DEF BootPrune, Prune, tables, CacheCovers, HashesOf,
                      JobCovered, SweepAhead, SweptClean
  <2> QED
    BY <1>4, <2>1, <2>2, TablesStand DEF BootPrune, IInv
<1>5. ASSUME NEW r \in Repos, NEW p \in Paths, SweepFile(r, p)
      PROVE  IInv'
  <2>1. r \in repo_state
    <3>1. files[r][p] \in Sizes
      BY <1>0, <1>5 DEF SweepFile, TypeOK
    <3> QED
      BY <1>5, <3>1, RulingsAssumption DEF IInv, IndexedIffChunks
  <2> QED
    BY <1>5, <2>1, SkippedKeeps DEF SweepFile
<1>6. ASSUME NEW r \in Repos, SweepRepo(r)
      PROVE  IInv'
  <2>1. TypeOK'
    BY <1>0, <1>6 DEF SweepRepo, Prune, tables, TypeOK
  <2>2. CacheCovers' /\ JobCovered' /\ SweepAhead' /\ SweptClean'
    BY <1>0, <1>6 DEF SweepRepo, Prune, tables, CacheCovers, HashesOf,
                      JobCovered, SweepAhead, SweptClean
  <2> QED
    BY <1>6, <2>1, <2>2, TablesStand DEF SweepRepo, IInv
<1>7. CASE SweepDone \/ \E r \in Repos : SweepFails(r)
  <2>1. TypeOK'
    BY <1>0, <1>7 DEF SweepFails, SweepDone, tables, TypeOK, Phases
  <2>2. CacheCovers' /\ JobCovered' /\ SweepAhead' /\ SweptClean'
    BY <1>0, <1>7 DEF SweepFails, SweepDone, tables, CacheCovers, HashesOf,
                      JobCovered, SweepAhead, SweptClean
  <2> QED
    BY <1>7, <2>1, <2>2, TablesStand DEF SweepFails, SweepDone, IInv
<1>8. ASSUME NEW r \in Repos, NEW p \in Paths, NEW size \in Sizes,
             NEW texts \in Chunkings, IndexOne(r, p, size, texts)
      PROVE  IInv'
  <2>1. job' \in Job /\ job'.repo = r /\ job'.path = p /\ job'.size = size /\ job'.embedded = FALSE
    BY <1>8 DEF IndexOne, Job
  <2>2. TypeOK'
    BY <1>0, <1>8, <2>1 DEF IndexOne, tables, TypeOK
  <2>3. CacheCovers' /\ JobCovered' /\ SweepAhead' /\ SweptClean'
    BY <1>0, <1>8, <2>1 DEF IndexOne, tables, CacheCovers, HashesOf,
                            JobCovered, SweepAhead, SweptClean
  <2> QED
    BY <1>8, <2>2, <2>3, TablesStand DEF IndexOne, IInv
<1>9. CASE Vectors
  <2>1. /\ job \in Job /\ job' \in Job /\ job'.texts = job.texts
        /\ job'.repo = job.repo /\ job'.path = job.path /\ job'.size = job.size /\ job' # NoJob
    BY <1>0, <1>9, NoneAssumption DEF Vectors, Job, TypeOK
  <2>2. \A i \in DOMAIN job.texts : job.texts[i] \in Hashes
    <3>1. job.texts \in Chunkings
      BY <2>1 DEF Job
    <3> QED
      BY <3>1, ChunkingShape
  <2>3. TypeOK'
    BY <1>0, <1>9, <2>1, <2>2 DEF Vectors, tables, TypeOK
  <2>4. CacheCovers' /\ JobCovered' /\ SweepAhead' /\ SweptClean'
    BY <1>0, <1>9, <2>1 DEF Vectors, tables, CacheCovers, HashesOf,
                            JobCovered, SweepAhead, SweptClean
  <2> QED
    BY <1>9, <2>3, <2>4, TablesStand DEF Vectors, IInv
<1>10. CASE ReplaceFile
  BY <1>10, ReplaceFileKeeps
<1>11. CASE RunFails \/ RunEnds
  <2>1. TypeOK'
    BY <1>0, <1>11 DEF RunFails, RunEnds, Prune, tables, TypeOK
  <2>2. CacheCovers' /\ JobCovered' /\ SweepAhead' /\ SweptClean'
    BY <1>0, <1>11 DEF RunFails, RunEnds, Prune, tables, CacheCovers, HashesOf,
                       JobCovered, SweepAhead, SweptClean
  <2> QED
    BY <1>11, <2>1, <2>2, TablesStand DEF RunFails, RunEnds, IInv
<1>12. ASSUME NEW r \in Repos, NEW p \in Paths, RecordSkipped(r, p)
       PROVE  IInv'
  BY <1>12, SkippedKeeps DEF RecordSkipped
<1>13. ASSUME NEW r \in Repos, NEW p \in Paths, DeleteFile(r, p)
       PROVE  IInv'
  BY <1>13, DeleteFileKeeps
<1>14. ASSUME NEW r \in Repos, ResetRepo(r)
       PROVE  IInv'
  BY <1>14, ResetRepoKeeps
<1>15. ASSUME NEW mirror, SearchLane(mirror)
       PROVE  IInv'
  <2>1. hits' \subseteq hits \cup chunks
    BY <1>15 DEF SearchLane, Visible
  <2>2. TypeOK'
    BY <1>0, <1>15, <2>1 DEF SearchLane, tables, TypeOK
  <2>3. CacheCovers' /\ JobCovered' /\ SweepAhead' /\ SweptClean'
    BY <1>0, <1>15 DEF SearchLane, tables, CacheCovers, HashesOf,
                       JobCovered, SweepAhead, SweptClean
  <2> QED
    BY <1>15, <2>1, <2>2, <2>3, TablesStand DEF SearchLane, IInv
<1>16. CASE TurnEnds \/ Crash
  <2>1. TypeOK'
    BY <1>0, <1>16 DEF TurnEnds, Crash, tables, TypeOK, Phases
  <2>2. CacheCovers' /\ JobCovered' /\ SweepAhead' /\ SweptClean'
    BY <1>0, <1>16 DEF TurnEnds, Crash, tables, CacheCovers, HashesOf,
                       JobCovered, SweepAhead, SweptClean
  <2> QED
    BY <1>16, <2>1, <2>2, TablesStand DEF TurnEnds, Crash, IInv
<1> QED
  BY <1>1, <1>2, <1>3, <1>4, <1>5, <1>6, <1>7, <1>8, <1>9, <1>10, <1>11, <1>12,
     <1>13, <1>14, <1>15, <1>16 DEF Next, PollerStep

-----------------------------------------------------------------------------
LEMMA Inductive == Spec => []IInv
BY InitHolds, NextKeeps, PTL DEF Spec

(* Every variable keeps its type in every behaviour of the index store.    *)
THEOREM TypeCorrect == Spec => []TypeOK
<1>1. IInv => TypeOK
  BY DEF IInv
<1> QED
  BY <1>1, Inductive, PTL

(* The vector mirror and the keyword mirror hold exactly the chunks, after *)
(* every transaction of the writer, the purges, the reset and the sweep.   *)
THEOREM LanesAlwaysAgree == Spec => []LanesAgree
<1>1. IInv => LanesAgree
  BY DEF IInv
<1> QED
  BY <1>1, Inductive, PTL

(* A file is searchable exactly when its row carries no skip reason, and   *)
(* only in a listed repository.                                            *)
THEOREM RowsMatchChunks == Spec => []IndexedIffChunks
<1>1. IInv => IndexedIffChunks
  BY DEF IInv
<1> QED
  BY <1>1, Inductive, PTL

(* A chunk id a turn holds never comes to name another chunk, however many *)
(* files are rewritten between two of its lane queries.                    *)
THEOREM HitsNeverMistaken == Spec => []HitsStayTrue
<1>1. IInv => HitsStayTrue
  BY DEF IInv
<1> QED
  BY <1>1, Inductive, PTL

(* The cache holds the vector of every stored chunk.                       *)
THEOREM CacheAlwaysCovers == Spec => []CacheCovers
<1>1. IInv => CacheCovers
  BY DEF IInv
<1> QED
  BY <1>1, Inductive, PTL

(* A repository the boot sweep went through stays free of excluded files.  *)
THEOREM SweepHolds == Spec => []SweptClean
<1>1. IInv => SweptClean
  BY DEF IInv
<1> QED
  BY <1>1, Inductive, PTL

(* Files, chunks and both mirrors agree after every transaction, for any   *)
(* repositories, paths and chunkings.                                      *)
THEOREM TablesAlwaysAgree == Spec => []TablesAgree
<1>1. IInv => TablesAgree
  BY DEF IInv, TablesAgree
<1> QED
  BY <1>1, Inductive, PTL

-----------------------------------------------------------------------------
(* The crossings.                                                          *)

\* What each step leaves behind, and that the near file's repository is live.
EdgeInv ==
  /\ near.repo \in live
  /\ crossing \in {"near", "values", "links", "done"}
  /\ crossing # "near" => across = NeighboursWith(rows, live, near, suffix)
  /\ crossing \in {"links", "done"} =>
       held = UNION {Holders(rows, live, t.kind, t.value) :
                       t \in {t \in rows : t.repo = near.repo /\ t.path = near.path}}
  /\ crossing = "done" => \A t : t \in census <=> \E r \in linksOf : t \in InRepo(rows, live, r, "link")

\* Every step reads what its definition says, of a live file.
LEMMA EdgeInvHolds == EdgeSpec => []EdgeInv
<1>1. EdgeInit => EdgeInv
  BY DEF EdgeInit, EdgeInv
<1>2. ASSUME EdgeInv, [EdgeNext]_edgeVars
      PROVE  EdgeInv'
  <2>1. CASE AskNear
    BY <1>2, <2>1 DEF EdgeInv, AskNear
  <2>2. CASE AskValues
    BY <1>2, <2>2 DEF EdgeInv, AskValues
  <2>3. CASE AskLinks
    BY <1>2, <2>3 DEF EdgeInv, AskLinks
  <2>4. CASE UNCHANGED edgeVars
    <3>1. /\ rows' = rows /\ live' = live /\ near' = near /\ suffix' = suffix /\ across' = across
          /\ held' = held /\ linksOf' = linksOf /\ census' = census /\ crossing' = crossing
      BY <2>4 DEF edgeVars
    <3>2. near'.repo \in live' /\ crossing' \in {"near", "values", "links", "done"}
      BY <1>2, <3>1 DEF EdgeInv
    <3>3. crossing' # "near" => across' = NeighboursWith(rows', live', near', suffix')
      BY <1>2, <3>1 DEF EdgeInv
    <3>4. crossing' \in {"links", "done"} =>
            held' = UNION {Holders(rows', live', t.kind, t.value) :
                             t \in {t \in rows' : t.repo = near'.repo /\ t.path = near'.path}}
      <4>1. crossing' \in {"links", "done"} =>
              held = UNION {Holders(rows, live, t.kind, t.value) :
                              t \in {t \in rows : t.repo = near.repo /\ t.path = near.path}}
        BY <1>2, <3>1 DEF EdgeInv
      <4> QED
        BY <3>1, <4>1
    <3>5. crossing' = "done" => \A t : t \in census' <=> \E r \in linksOf' : t \in InRepo(rows', live', r, "link")
      BY <1>2, <3>1 DEF EdgeInv
    <3> QED
      BY <3>2, <3>3, <3>4, <3>5 DEF EdgeInv
  <2> QED
    BY <1>2, <2>1, <2>2, <2>3, <2>4 DEF EdgeNext
<1> QED
  BY <1>1, <1>2, PTL DEF EdgeSpec

-----------------------------------------------------------------------------
Alive(table, on) == {t \in table : t.repo \in on}

\* A value is counted the same without the parked rows.
LEMMA SpreadOfAlive ==
  ASSUME NEW table, NEW on, NEW kind, NEW value
  PROVE  Spread(Alive(table, on), {t.repo : t \in Alive(table, on)}, kind, value)
           = Spread(table, on, kind, value)
<1> DEFINE alive == Alive(table, on)
           homes == {t.repo : t \in alive}
<1>1. {t \in alive : t.repo \in homes /\ t.kind = kind /\ t.value = value}
        = {t \in table : t.repo \in on /\ t.kind = kind /\ t.value = value}
  BY DEF Alive
<1> QED
  BY <1>1 DEF Spread

\* A live file has the same neighbours without the parked rows.
LEMMA NeighboursOfAlive ==
  ASSUME NEW table, NEW on, NEW file, NEW loose, file.repo \in on
  PROVE  NeighboursWith(Alive(table, on), {t.repo : t \in Alive(table, on)}, file, loose)
           = NeighboursWith(table, on, file, loose)
<1> DEFINE alive == Alive(table, on)
           homes == {t.repo : t \in alive}
           Joined(mine, t) == /\ mine.repo = file.repo /\ mine.path = file.path
                              /\ Crosses(mine.kind) /\ t.kind = mine.kind
                              /\ SameEnd(mine, t, loose) /\ MayLand(file, t, mine.kind)
<1>1. \A kind, value : Spread(alive, homes, kind, value) = Spread(table, on, kind, value)
  BY SpreadOfAlive
<1>2. NeighboursWith(alive, homes, file, loose)
        = {t \in alive : /\ t.repo \in homes
                         /\ \E mine \in alive :
                              Joined(mine, t) /\ Spread(table, on, mine.kind, mine.value) <= SpreadCeiling}
  BY <1>1 DEF NeighboursWith
<1>3. NeighboursWith(table, on, file, loose)
        = {t \in table : /\ t.repo \in on
                         /\ \E mine \in table :
                              Joined(mine, t) /\ Spread(table, on, mine.kind, mine.value) <= SpreadCeiling}
  BY DEF NeighboursWith
<1>4. \A mine \in table : \A t : Joined(mine, t) => mine \in alive
  BY DEF Alive
<1>5. alive \subseteq table /\ \A t \in table : t \in alive <=> t.repo \in on
  BY DEF Alive
<1>6. \A t \in alive : t.repo \in homes
  OBVIOUS
<1>7. ASSUME NEW t
      PROVE  t \in NeighboursWith(alive, homes, file, loose) <=> t \in NeighboursWith(table, on, file, loose)
  <2> DEFINE Few(mine) == Spread(table, on, mine.kind, mine.value) <= SpreadCeiling
  <2>1. t \in NeighboursWith(alive, homes, file, loose)
          <=> t \in alive /\ t.repo \in homes /\ \E mine \in alive : Joined(mine, t) /\ Few(mine)
    BY <1>2
  <2>2. t \in NeighboursWith(table, on, file, loose)
          <=> t \in table /\ t.repo \in on /\ \E mine \in table : Joined(mine, t) /\ Few(mine)
    BY <1>3
  <2> HIDE DEF alive, homes, Joined, Few
  <2>3. (\E mine \in alive : Joined(mine, t) /\ Few(mine)) <=> (\E mine \in table : Joined(mine, t) /\ Few(mine))
    BY <1>4, <1>5
  <2> QED
    BY <1>5, <1>6, <2>1, <2>2, <2>3
<1> HIDE DEF alive, homes
<1>8. \A t : t \in NeighboursWith(alive, homes, file, loose) <=> t \in NeighboursWith(table, on, file, loose)
  BY <1>7
<1>9. /\ NeighboursWith(alive, homes, file, loose) \subseteq NeighboursWith(table, on, file, loose)
      /\ NeighboursWith(table, on, file, loose) \subseteq NeighboursWith(alive, homes, file, loose)
  BY <1>8
<1> QED
  BY <1>9 DEF alive, homes

\* What a spelled value is held by.
LEMMA HeldIs ==
  ASSUME EdgeInv, crossing \in {"links", "done"}, NEW t
  PROVE  t \in held <=>
           \E mine \in rows :
             /\ mine.repo = near.repo /\ mine.path = near.path /\ Crosses(mine.kind)
             /\ t \in rows /\ t.repo \in live /\ t.kind = mine.kind /\ t.value = mine.value
             /\ Spread(rows, live, mine.kind, mine.value) <= SpreadCeiling
BY DEF EdgeInv, Holders

\* What is across by the two rules.
LEMMA AcrossIs ==
  ASSUME EdgeInv, crossing # "near", NEW t
  PROVE  t \in across <=>
           /\ t \in rows /\ t.repo \in live
           /\ \E mine \in rows :
                /\ mine.repo = near.repo /\ mine.path = near.path /\ Crosses(mine.kind)
                /\ t.kind = mine.kind /\ SameEnd(mine, t, suffix) /\ MayLand(near, t, mine.kind)
                /\ Spread(rows, live, mine.kind, mine.value) <= SpreadCeiling
BY DEF EdgeInv, NeighboursWith

-----------------------------------------------------------------------------
\* The first half of CrossingsSound, in every state EdgeInv admits.
LEMMA ParkedHolds ==
  ASSUME EdgeInv
  PROVE  ParkedInfluencesNothing
<1>1. Alive(rows, live) = {t \in rows : t.repo \in live}
  BY DEF Alive
<1>2. NeighboursWith(Alive(rows, live), {t.repo : t \in Alive(rows, live)}, near, suffix)
        = NeighboursWith(rows, live, near, suffix)
  BY NeighboursOfAlive DEF EdgeInv
<1>3. crossing \in {"links", "done"} => \A t \in held : t.repo \in live
  BY HeldIs
<1> QED
  BY <1>1, <1>2, <1>3 DEF ParkedInfluencesNothing, EdgeInv

\* The second half: the join is symmetric, and a value within the spread is held.
LEMMA HalvesHold ==
  ASSUME EdgeInv, crossing \in {"links", "done"}
  PROVE  HalvesAgree
<1>0. crossing # "near" /\ near.repo \in live
  BY DEF EdgeInv
<1>1. ASSUME ~suffix, NEW t, t.repo # near.repo
      PROVE  t \in across <=> t \in held
  BY <1>0, <1>1, AcrossIs, HeldIs DEF SameEnd, MayLand
<1>2. ASSUME NEW t \in across, t.repo # near.repo, t \in held
      PROVE  \E back \in NeighboursWith(rows, live, [repo |-> t.repo, path |-> t.path], FALSE) :
               back.repo = near.repo /\ back.path = near.path
  <2>1. PICK mine \in rows :
          /\ mine.repo = near.repo /\ mine.path = near.path /\ Crosses(mine.kind)
          /\ t \in rows /\ t.repo \in live /\ t.kind = mine.kind /\ t.value = mine.value
          /\ Spread(rows, live, mine.kind, mine.value) <= SpreadCeiling
    BY <1>2, HeldIs
  <2> DEFINE file == [repo |-> t.repo, path |-> t.path]
  <2>2. file.repo = t.repo /\ file.path = t.path
    OBVIOUS
  <2>3. MayLand(file, mine, t.kind) /\ SameEnd(t, mine, FALSE)
    BY <1>2, <2>1, <2>2 DEF MayLand, SameEnd
  <2> HIDE DEF file
  <2>4. mine \in NeighboursWith(rows, live, file, FALSE)
    BY <1>0, <2>1, <2>2, <2>3 DEF NeighboursWith
  <2> QED
    BY <2>1, <2>4 DEF file
<1>3. ASSUME NEW t \in across
      PROVE  /\ t.kind \notin {"link", "image"}
             /\ t.repo = near.repo => t.kind = "property" /\ t.path.ext = "properties"
  BY <1>0, <1>3, AcrossIs DEF Crosses, MayLand
<1>4. ASSUME NEW t \in across, ~suffix
      PROVE  Cardinality({u.repo : u \in {u \in rows : u.repo \in live /\ u.kind = t.kind /\ u.value = t.value}})
               <= SpreadCeiling
  <2>1. Spread(rows, live, t.kind, t.value) <= SpreadCeiling
    BY <1>0, <1>4, AcrossIs DEF SameEnd
  <2> QED
    BY <2>1 DEF Spread
<1>5. ~suffix => {t \in across : t.repo # near.repo} = {t \in held : t.repo # near.repo}
  BY <1>1
<1> QED
  BY <1>2, <1>3, <1>4, <1>5 DEF HalvesAgree

\* The third: no link is among what crosses.
LEMMA LinksHold ==
  ASSUME EdgeInv
  PROVE  LinksListed
<1>1. ASSUME crossing = "done"
      PROVE  \A t : t \in census <=> t \in rows /\ t.kind = "link" /\ t.repo \in linksOf /\ t.repo \in live
  <2>1. \A t : t \in census <=> \E r \in linksOf : t \in InRepo(rows, live, r, "link")
    BY <1>1 DEF EdgeInv
  <2> QED
    BY <2>1 DEF InRepo
<1>2. ASSUME crossing = "done"
      PROVE  \A t \in across \cup held : t.kind # "link"
  BY <1>2, AcrossIs, HeldIs DEF Crosses
<1>3. ASSUME crossing = "done"
      PROVE  census = {t \in rows : t.kind = "link" /\ t.repo \in linksOf \cap live}
  BY <1>1, <1>3
<1>4. ASSUME crossing = "done"
      PROVE  census \cap (across \cup held) = {}
  BY <1>1, <1>2, <1>4
<1> QED
  BY <1>3, <1>4 DEF LinksListed

(* A crossing is read alike from both halves of the table, is one from     *)
(* both ends, and owes nothing to a parked repository, and no link that is *)
(* listed crosses: for every table, set of enabled repositories, suffix    *)
(* relation and spread ceiling.                                            *)
THEOREM CrossingsAreSound == EdgeSpec => []CrossingsSound
<1>1. EdgeInv => CrossingsSound
  <2> SUFFICES ASSUME EdgeInv PROVE CrossingsSound
    OBVIOUS
  <2>1. ParkedInfluencesNothing
    BY ParkedHolds
  <2>2. HalvesAgree
    BY HalvesHold DEF HalvesAgree
  <2>3. LinksListed
    BY LinksHold
  <2> QED
    BY <2>1, <2>2, <2>3 DEF CrossingsSound
<1> QED
  BY <1>1, EdgeInvHolds, PTL
-----------------------------------------------------------------------------
(* The cut.                                                                *)

(* What the rows hold.                                                     *)
LEMMA RowTypes ==
  ASSUME tree \in Trees, units \in UnitSets
  PROVE  /\ IsFiniteSet(tree) /\ units \subseteq Seq(STRING)
         /\ \A f \in tree : f.dir \in Seq(STRING) /\ f.chunks \in Nat
         /\ MinChunks \in Nat /\ MaxChunks \in Nat
BY CutTables

(* Chunks is a sum over the files.                                         *)
LEMMA ChunksAre ==
  ASSUME NEW S, NEW cs \in SUBSET S
  PROVE  Chunks(cs) = SumOf([f \in S |-> f.chunks], cs)
<1> DEFINE w == [f \in S |-> f.chunks]
<1>1. \A s \in SUBSET cs : s # {} => w[Pick(s)] = Pick(s).chunks
  BY PickOf
<1>2. \A g : Sums(g, SUBSET cs, w) <=>
        g = [s \in SUBSET cs |-> IF s = {} THEN 0 ELSE Pick(s).chunks + g[s \ {Pick(s)}]]
  BY <1>1 DEF Sums
<1>3. (CHOOSE g : Sums(g, SUBSET cs, w)) =
      CHOOSE g : g = [s \in SUBSET cs |-> IF s = {} THEN 0 ELSE Pick(s).chunks + g[s \ {Pick(s)}]]
  BY <1>2
<1> QED
  BY <1>3 DEF Chunks, MapThenSumSet, MapThenFoldSet, SumOf, Pick

(* More files hold no fewer chunks.                                        *)
LEMMA ChunksGrow ==
  ASSUME tree \in Trees, units \in UnitSets, NEW A \in SUBSET tree, NEW B \in SUBSET A
  PROVE  Chunks(A) \in Nat /\ Chunks(B) \in Nat /\ Chunks(B) <= Chunks(A)
<1> DEFINE w == [f \in tree |-> f.chunks]
<1>1. IsFiniteSet(tree) /\ \A f \in tree : w[f] \in Nat
  BY RowTypes
<1>2. Chunks(A) = SumOf(w, A) /\ Chunks(B) = SumOf(w, B)
  BY ChunksAre
<1> QED
  <2> HIDE DEF w
  <2> QED
    BY <1>1, <1>2, SumTyped, SumGrows

(* A directory lies under its parent, one segment shorter.                 *)
LEMMA UnderParent ==
  ASSUME NEW d \in Seq(STRING)
  PROVE  /\ Under(d, d) /\ Len(d) \in Nat /\ (d # <<>> => Len(d) > 0)
         /\ d # <<>> =>
              /\ Parent(d) \in Seq(STRING) /\ Len(Parent(d)) = Len(d) - 1 /\ Parent(d) # d
              /\ \A e \in Seq(STRING) : Under(e, d) => Under(e, Parent(d))
<1>1. Len(d) \in Nat /\ (d # <<>> => Len(d) > 0)
  BY EmptySeq
<1>2. Under(d, d)
  BY <1>1, SubSeqFull DEF Under
<1>3. ASSUME d # <<>>
      PROVE  Parent(d) \in Seq(STRING) /\ Len(Parent(d)) = Len(d) - 1 /\ Parent(d) # d
  <2>1. \A i \in 1 .. Len(d) - 1 : d[i] \in STRING
    BY <1>1, ElementOfSeq
  <2>2. Len(d) - 1 \in Nat
    BY <1>1, <1>3
  <2>3. /\ SubSeq(d, 1, Len(d) - 1) \in Seq(STRING)
        /\ Len(SubSeq(d, 1, Len(d) - 1)) = IF 1 <= Len(d) - 1 THEN Len(d) - 1 - 1 + 1 ELSE 0
    BY <2>1, <2>2, SubSeqProperties
  <2>4. Parent(d) \in Seq(STRING) /\ Len(Parent(d)) = Len(d) - 1
    <3> DEFINE k == Len(d) - 1
               q == SubSeq(d, 1, k)
    <3>1. Parent(d) = q
      BY DEF Parent
    <3>2. k \in Nat /\ q \in Seq(STRING) /\ Len(q) = IF 1 <= k THEN k - 1 + 1 ELSE 0
      BY <2>2, <2>3
    <3> HIDE DEF k, q
    <3>3. Len(q) = k
      BY <3>2
    <3> QED
      BY <3>1, <3>2, <3>3 DEF k
  <2> QED
    BY <1>1, <2>4
<1>4. ASSUME d # <<>>, NEW e \in Seq(STRING), Under(e, d)
      PROVE  Under(e, Parent(d))
  <2> DEFINE n == Len(d)
  <2>1. n \in Nat \ {0} /\ n <= Len(e) /\ SubSeq(e, 1, n) = d /\ Len(e) \in Nat
    BY <1>1, <1>4 DEF Under
  <2>2. \A i \in 1 .. n : d[i] = e[i]
    <3>1. \A i \in 1 .. n : e[i] \in STRING
      BY <2>1, ElementOfSeq
    <3> QED
      BY <2>1, <3>1, SubSeqProperties
  <2>3. \A i \in 1 .. n - 1 : d[i] \in STRING /\ e[i] \in STRING
    BY <2>1, ElementOfSeq
  <2>4. SubSeq(e, 1, n - 1) \in Seq(STRING) /\ Len(SubSeq(e, 1, n - 1)) = n - 1
    BY <2>1, <2>3, SubSeqProperties
  <2>5. SubSeq(d, 1, n - 1) \in Seq(STRING) /\ Len(SubSeq(d, 1, n - 1)) = n - 1
    BY <2>1, <2>3, SubSeqProperties
  <2>6. \A i \in 1 .. n - 1 : SubSeq(e, 1, n - 1)[i] = SubSeq(d, 1, n - 1)[i]
    BY <2>1, <2>2, <2>3, SubSeqProperties
  <2>7. SubSeq(e, 1, n - 1) = SubSeq(d, 1, n - 1)
    BY <2>1, <2>4, <2>5, <2>6, SeqEqual
  <2>8. Len(Parent(d)) = n - 1 /\ Parent(d) = SubSeq(d, 1, n - 1)
    BY <1>3, <1>4 DEF Parent
  <2>9. n - 1 <= Len(e)
    BY <2>1
  <2> HIDE DEF n
  <2> QED
    BY <2>7, <2>8, <2>9 DEF Under
<1> QED
  BY <1>1, <1>2, <1>3, <1>4

(* units.Of: a file a unit lies over has a longest one.                    *)
LEMMA UnitChosen ==
  ASSUME tree \in Trees, units \in UnitSets, NEW f \in tree, UnitsOver(f) # {}
  PROVE  UnitOf(f) \in UnitsOver(f)
<1> DEFINE M == {Len(f.dir) - Len(u) : u \in UnitsOver(f)}
<1>1. f.dir \in Seq(STRING) /\ \A u \in UnitsOver(f) : u \in Seq(STRING) /\ Len(u) <= Len(f.dir)
  BY RowTypes DEF UnitsOver, Under
<1>2. Len(f.dir) \in Nat /\ \A u \in UnitsOver(f) : Len(u) \in Nat
  BY <1>1
<1>3. M \in SUBSET Nat /\ M # {}
  BY <1>1, <1>2
<1>4. PICK m \in M : \A n \in M : m <= n
  <2> HIDE DEF M
  <2> QED
    BY <1>3, LeastNumber
<1>5. PICK u \in UnitsOver(f) : m = Len(f.dir) - Len(u)
  BY <1>4
<1>6. \A v \in UnitsOver(f) : Len(v) <= Len(u)
  <2> SUFFICES ASSUME NEW v \in UnitsOver(f)
               PROVE  Len(v) <= Len(u)
    OBVIOUS
  <2>1. Len(f.dir) - Len(u) <= Len(f.dir) - Len(v)
    BY <1>4, <1>5
  <2> QED
    BY <1>2, <2>1
<1> QED
  BY <1>6 DEF UnitOf


\* What no unit claims, the units' modules, and the modules and groups cut of
\* the rest so far.
Unclaimed == {f \in Indexed : UnitsOver(f) = {}}
UnitModules ==
  {[key |-> u, files |-> {f \in Indexed \ Unclaimed : UnitOf(f) = u},
    declared |-> TRUE, oversized |-> FALSE] : u \in {UnitOf(f) : f \in Indexed \ Unclaimed}}
KeptModules == {m \in cut : ~m.declared}
Waiting == UNION {pending[p] : p \in DOMAIN pending}

\* No two share a key or a file.
Apart(ms, gs) ==
  /\ \A m, n \in ms : m.key = n.key \/ m.files \cap n.files # {} => m = n
  /\ \A g, k \in gs : g.key = k.key \/ g.files \cap k.files # {} => g = k
  /\ \A m \in ms, g \in gs : m.key # g.key /\ m.files \cap g.files = {}

\* Of files no unit claims, all under the key; the directory is behind the
\* visit, and its files are in no directory still to visit.
PieceOf(h) ==
  /\ h.key \in Seq(STRING) /\ h.files \subseteq Unclaimed /\ h.files # {}
  /\ \A f \in h.files : Under(f.dir, h.key)
  /\ \A d \in DOMAIN own : Len(d) <= Len(h.key) /\ d # h.key /\ own[d] \cap h.files = {}

\* The sizes of one module.
Sized(m) ==
  /\ (Chunks(m.files) < MinChunks /\ m.key # <<>>) =>
       Large({f \in Unclaimed : Under(f.dir, Parent(m.key))})
  /\ m.oversized => Large(m.files) /\ \A f \in m.files : f.dir = m.key
  /\ Large(m.files) => m.oversized \/ Chunks(m.files) < MinChunks

OwnFiles == UNION {own[d] : d \in DOMAIN own}

\* Where every file is while the directories are visited.
CutLaid ==
  /\ {m \in cut : m.declared} = UnitModules
  /\ \A m \in KeptModules : m \in
                       [key : Seq(STRING), files : SUBSET tree, declared : {FALSE}, oversized : BOOLEAN]
  /\ \A g \in Waiting : g \in [key : Seq(STRING), files : SUBSET tree]
  /\ DOMAIN own \subseteq Seq(STRING) /\ DOMAIN pending \subseteq DOMAIN own
  /\ \A d \in DOMAIN own : own[d] \subseteq Unclaimed /\ \A f \in own[d] : f.dir = d
  /\ \A p \in DOMAIN pending : \A g \in pending[p] :
       g.key # <<>> /\ Parent(g.key) = p /\ Chunks(g.files) < MinChunks
  /\ \A h \in KeptModules \cup Waiting : PieceOf(h)
  /\ \A m \in KeptModules : Sized(m)
  /\ Apart(KeptModules, Waiting)
  /\ \A f \in Unclaimed : f \in OwnFiles \/ \E h \in KeptModules \cup Waiting : f \in h.files

\* The inductive invariant.
CutInv ==
  /\ tree \in Trees /\ units \in UnitSets
  /\ clustering \in {"rows", "dirs", "done"}
  /\ clustering = "rows" => cut = {} /\ pending = <<>>
  /\ clustering # "rows" => CutLaid
  /\ clustering = "done" => DOMAIN own = {}

(* What the rows give stays as it is while the directories are visited.    *)
LEMMA RowsStay ==
  ASSUME UNCHANGED <<tree, units>>
  PROVE  /\ Indexed' = Indexed /\ Unclaimed' = Unclaimed /\ UnitModules' = UnitModules
         /\ \A h : Sized(h)' = Sized(h)
<1>1. Indexed' = Indexed
  BY DEF Indexed
<1>2. \A f : UnitsOver(f)' = UnitsOver(f) /\ UnitOf(f)' = UnitOf(f)
  BY DEF UnitsOver, UnitOf
<1>3. Unclaimed' = Unclaimed
  BY <1>1, <1>2 DEF Unclaimed
<1> QED
  BY <1>1, <1>2, <1>3 DEF UnitModules, Sized

(* Groups given back stand among the modules.                              *)
LEMMA GiveBack ==
  ASSUME NEW ms, NEW gs, NEW back \in SUBSET gs, Apart(ms, gs),
         \A m \in ms : m \in
                         [key : Seq(STRING), files : SUBSET tree, declared : {FALSE}, oversized : BOOLEAN]
  PROVE  Apart(ms \cup {Module(g, FALSE) : g \in back}, gs \ back)
<1>1. \A g : Module(g, FALSE).key = g.key /\ Module(g, FALSE).files = g.files
  BY DEF Module
<1>2. ASSUME NEW m \in ms \cup {Module(g, FALSE) : g \in back}, NEW n \in ms \cup {Module(g, FALSE) : g \in back},
             m.key = n.key \/ m.files \cap n.files # {}
      PROVE  m = n
  <2>1. CASE m \in ms /\ n \in ms
    BY <1>2, <2>1 DEF Apart
  <2>2. ASSUME NEW a \in ms, NEW g \in back
        PROVE  a.key # Module(g, FALSE).key /\ a.files \cap Module(g, FALSE).files = {}
    <3>1. a.key # g.key /\ a.files \cap g.files = {}
      BY DEF Apart
    <3>2. Module(g, FALSE).key = g.key /\ Module(g, FALSE).files = g.files
      BY <1>1
    <3> QED
      BY <3>1, <3>2
  <2>3. ASSUME NEW g \in back, NEW k \in back, m = Module(g, FALSE), n = Module(k, FALSE)
        PROVE  m = n
    <3>1. g.key = k.key \/ g.files \cap k.files # {}
      BY <1>1, <1>2, <2>3
    <3>2. g = k
      BY <3>1 DEF Apart
    <3> QED
      BY <2>3, <3>2
  <2> QED
    BY <1>2, <2>1, <2>2, <2>3
<1>3. \A g, k \in gs \ back : g.key = k.key \/ g.files \cap k.files # {} => g = k
  BY DEF Apart
<1>4. ASSUME NEW m \in ms \cup {Module(g, FALSE) : g \in back}, NEW k \in gs \ back
      PROVE  m.key # k.key /\ m.files \cap k.files = {}
  <2>1. CASE m \in ms
    BY <2>1 DEF Apart
  <2>2. ASSUME NEW g \in back, m = Module(g, FALSE)
        PROVE  m.key # k.key /\ m.files \cap k.files = {}
    <3>1. m.key = g.key /\ m.files = g.files
      BY <1>1, <2>2
    <3>2. g \in gs /\ k \in gs /\ g # k
      OBVIOUS
    <3>3. ~(g.key = k.key \/ g.files \cap k.files # {})
      BY <3>2 DEF Apart
    <3> QED
      BY <3>1, <3>3
  <2> QED
    BY <2>1, <2>2
<1> QED
  BY <1>2, <1>3, <1>4 DEF Apart

(* A piece that shares nothing with the others joins them.                 *)
LEMMA JoinApart ==
  ASSUME NEW ms, NEW gs, NEW h, Apart(ms, gs),
         \A k \in ms \cup gs : k.key # h.key /\ k.files \cap h.files = {}
  PROVE  Apart(ms \cup {h}, gs) /\ Apart(ms, gs \cup {h})
BY DEF Apart

\* The modules and groups beside what is left of the directory visited.
KeptAfter(d) == KeptModules \cup Back(d)
WaitingAfter(d) == Waiting \ Carried(d)

(* What was carried to a directory still to visit.                         *)
LEMMA CarriedUp ==
  ASSUME CutInv, clustering = "dirs", NEW d \in DOMAIN own
  PROVE  /\ d \in Seq(STRING) /\ own[d] \subseteq Unclaimed /\ (\A f \in own[d] : f.dir = d)
         /\ Carried(d) \subseteq Waiting
         /\ \A g \in Carried(d) :
              /\ g \in [key : Seq(STRING), files : SUBSET tree] /\ PieceOf(g)
              /\ g.key # <<>> /\ Parent(g.key) = d /\ Chunks(g.files) < MinChunks
         /\ Given(d) \subseteq Unclaimed /\ \A f \in Given(d) : Under(f.dir, d)
         /\ UNION {WithoutDir(pending, d)[p] : p \in DOMAIN WithoutDir(pending, d)} = WaitingAfter(d)
<1>0. CutLaid
  BY DEF CutInv
<1>1. d \in Seq(STRING) /\ own[d] \subseteq Unclaimed /\ (\A f \in own[d] : f.dir = d)
  BY <1>0 DEF CutLaid
<1>2. Carried(d) \subseteq Waiting
  BY DEF Carried, Waiting
<1>3. \A g \in Carried(d) :
        /\ g \in [key : Seq(STRING), files : SUBSET tree] /\ PieceOf(g)
        /\ g.key # <<>> /\ Parent(g.key) = d /\ Chunks(g.files) < MinChunks
  BY <1>0, <1>2 DEF CutLaid, Carried
<1>4. ASSUME NEW f \in Given(d)
      PROVE  f \in Unclaimed /\ Under(f.dir, d)
  <2>1. PICK g \in Carried(d) : f \in g.files
    BY DEF Given
  <2>2. f \in Unclaimed /\ Under(f.dir, g.key) /\ g.key \in Seq(STRING)
    BY <1>3, <2>1 DEF PieceOf
  <2>3. f.dir \in Seq(STRING)
    BY <2>2, RowTypes DEF CutInv, Unclaimed, Indexed
  <2> QED
    BY <1>3, <2>2, <2>3, UnderParent
<1>5. UNION {WithoutDir(pending, d)[p] : p \in DOMAIN WithoutDir(pending, d)} = WaitingAfter(d)
  <2>1. /\ DOMAIN WithoutDir(pending, d) = DOMAIN pending \ {d}
        /\ \A p \in DOMAIN pending \ {d} : WithoutDir(pending, d)[p] = pending[p]
    BY DEF WithoutDir
  <2>2. \A p \in DOMAIN pending \ {d} : pending[p] \cap Carried(d) = {}
    BY <1>0, <1>3 DEF CutLaid
  <2>3. \A p \in DOMAIN pending : p = d => pending[p] = Carried(d)
    BY DEF Carried
  <2> QED
    BY <2>1, <2>2, <2>3 DEF WaitingAfter, Waiting
<1> QED
  BY <1>1, <1>2, <1>3, <1>4, <1>5

(* A group that is given back was too large with its siblings.             *)
LEMMA BackIsSized ==
  ASSUME CutInv, clustering = "dirs", NEW d \in DOMAIN own
  PROVE  \A m \in Back(d) :
           /\ m \in [key : Seq(STRING), files : SUBSET tree, declared : {FALSE}, oversized : BOOLEAN]
           /\ PieceOf(m) /\ Sized(m)
<1> SUFFICES ASSUME NEW g \in Carried(d), Splits(d)
             PROVE  /\ Module(g, FALSE) \in
                         [key : Seq(STRING), files : SUBSET tree, declared : {FALSE}, oversized : BOOLEAN]
                    /\ PieceOf(Module(g, FALSE)) /\ Sized(Module(g, FALSE))
  BY DEF Back
<1>1. /\ g \in [key : Seq(STRING), files : SUBSET tree] /\ PieceOf(g)
      /\ g.key # <<>> /\ Parent(g.key) = d /\ Chunks(g.files) < MinChunks
  BY CarriedUp
<1>2. Module(g, FALSE).key = g.key /\ Module(g, FALSE).files = g.files /\ Module(g, FALSE).oversized = FALSE
  BY DEF Module
<1>3. Large({f \in Unclaimed : Under(f.dir, d)})
  <2> DEFINE A == {f \in Unclaimed : Under(f.dir, d)}
             B == own[d] \cup Given(d)
  <2>1. A \in SUBSET tree
    BY DEF Unclaimed, Indexed
  <2>2. B \in SUBSET A
    BY CarriedUp, UnderParent
  <2>3. Large(B)
    BY DEF Splits
  <2>4. Chunks(A) \in Nat /\ Chunks(B) \in Nat /\ Chunks(B) <= Chunks(A)
    <3> HIDE DEF A, B
    <3> QED
      BY <2>1, <2>2, ChunksGrow DEF CutInv
  <2> HIDE DEF A, B
  <2>5. Large(A)
    BY <2>3, <2>4, CutTables DEF Large
  <2> QED
    BY <2>5 DEF A
<1>4. Sized(Module(g, FALSE))
  BY <1>1, <1>2, <1>3 DEF Sized
<1>5. PieceOf(Module(g, FALSE))
  BY <1>1, <1>2 DEF PieceOf
<1> QED
  BY <1>1, <1>4, <1>5 DEF Module

(* What is left of the directory visited, and what stands beside it.       *)
LEMMA MergedFiles ==
  ASSUME CutInv, clustering = "dirs", NEW d \in DOMAIN own
  PROVE  /\ Merged(d) \in [key : Seq(STRING), files : SUBSET tree] /\ Merged(d).key = d
         /\ Merged(d).files \subseteq Unclaimed /\ \A f \in Merged(d).files : Under(f.dir, d)
         /\ \A k \in KeptAfter(d) \cup WaitingAfter(d) : PieceOf(k)
         /\ Apart(KeptAfter(d), WaitingAfter(d))
         /\ \A k \in KeptAfter(d) \cup WaitingAfter(d) : k.key # d /\ k.files \cap Merged(d).files = {}
         /\ \A f \in Unclaimed :
              \/ f \in Merged(d).files \/ \E x \in DOMAIN own \ {d} : f \in own[x]
              \/ \E k \in KeptAfter(d) \cup WaitingAfter(d) : f \in k.files
<1>0. CutLaid
  BY DEF CutInv
<1>1. /\ d \in Seq(STRING) /\ own[d] \subseteq Unclaimed /\ (\A f \in own[d] : f.dir = d)
      /\ Carried(d) \subseteq Waiting
      /\ Given(d) \subseteq Unclaimed /\ \A f \in Given(d) : Under(f.dir, d)
  BY CarriedUp
<1>2. Merged(d).key = d /\ Merged(d).files = IF Splits(d) THEN own[d] ELSE own[d] \cup Given(d)
  BY DEF Merged
<1>3. Merged(d).files \subseteq Unclaimed /\ \A f \in Merged(d).files : Under(f.dir, d)
  BY <1>1, <1>2, UnderParent
<1>4. Merged(d) \in [key : Seq(STRING), files : SUBSET tree]
  BY <1>1, <1>2, <1>3 DEF Merged, Unclaimed, Indexed
<1>5. \A k \in KeptAfter(d) \cup WaitingAfter(d) : PieceOf(k)
  BY <1>0, BackIsSized DEF CutLaid, KeptAfter, WaitingAfter
<1>6. /\ Apart(KeptModules, Waiting) /\ Apart(KeptModules, WaitingAfter(d))
      /\ \A m \in KeptModules : m \in
                           [key : Seq(STRING), files : SUBSET tree, declared : {FALSE}, oversized : BOOLEAN]
  BY <1>0 DEF CutLaid, Apart, WaitingAfter
<1>7. \A g : Module(g, FALSE).key = g.key /\ Module(g, FALSE).files = g.files
  BY DEF Module
<1>8. \A k \in KeptAfter(d) \cup WaitingAfter(d) : k.key # d /\ k.files \cap own[d] = {}
  BY <1>5 DEF PieceOf
<1>9. CASE Splits(d)
  <2>1. Back(d) = {Module(g, FALSE) : g \in Carried(d)} /\ Merged(d).files = own[d]
    BY <1>2, <1>9 DEF Back
  <2>2. Apart(KeptAfter(d), WaitingAfter(d))
    BY <1>1, <1>6, <2>1, GiveBack DEF KeptAfter, WaitingAfter
  <2>3. ASSUME NEW f \in Unclaimed
        PROVE  \/ f \in Merged(d).files \/ \E x \in DOMAIN own \ {d} : f \in own[x]
               \/ \E k \in KeptAfter(d) \cup WaitingAfter(d) : f \in k.files
    <3>1. CASE f \in OwnFiles
      BY <2>1, <3>1 DEF OwnFiles
    <3>2. ASSUME NEW h \in KeptModules \cup Waiting, f \in h.files
          PROVE  \E k \in KeptAfter(d) \cup WaitingAfter(d) : f \in k.files
      <4>1. CASE h \in Carried(d)
        <5>1. Module(h, FALSE) \in KeptAfter(d) /\ f \in Module(h, FALSE).files
          BY <1>7, <2>1, <3>2, <4>1 DEF KeptAfter
        <5> QED
          BY <5>1
      <4>2. CASE h \notin Carried(d)
        BY <3>2, <4>2 DEF KeptAfter, WaitingAfter
      <4> QED
        BY <4>1, <4>2
    <3> QED
      BY <1>0, <3>1, <3>2 DEF CutLaid
  <2> QED
    BY <1>2, <1>3, <1>4, <1>5, <1>8, <2>1, <2>2, <2>3
<1>10. CASE ~Splits(d)
  <2>1. Back(d) = {} /\ Merged(d).files = own[d] \cup Given(d)
    BY <1>2, <1>10 DEF Back
  <2>2. KeptAfter(d) = KeptModules
    BY <2>1 DEF KeptAfter
  <2>3. ASSUME NEW k \in KeptAfter(d) \cup WaitingAfter(d)
        PROVE  k.files \cap Merged(d).files = {}
    <3>1. ASSUME NEW g \in Carried(d)
          PROVE  k.files \cap g.files = {}
      <4>1. CASE k \in KeptModules
        BY <1>1, <1>6, <4>1 DEF Apart
      <4>2. CASE k \in WaitingAfter(d)
        BY <1>1, <1>6, <4>2 DEF Apart, WaitingAfter
      <4> QED
        BY <2>2, <4>1, <4>2
    <3> QED
      BY <1>8, <2>1, <3>1 DEF Given
  <2>4. ASSUME NEW f \in Unclaimed
        PROVE  \/ f \in Merged(d).files \/ \E x \in DOMAIN own \ {d} : f \in own[x]
               \/ \E k \in KeptAfter(d) \cup WaitingAfter(d) : f \in k.files
    <3>1. CASE f \in OwnFiles
      BY <2>1, <3>1 DEF OwnFiles
    <3>2. ASSUME NEW h \in KeptModules \cup Waiting, f \in h.files
          PROVE  f \in Merged(d).files \/ \E k \in KeptAfter(d) \cup WaitingAfter(d) : f \in k.files
      <4>1. CASE h \in Carried(d)
        BY <2>1, <3>2, <4>1 DEF Given
      <4>2. CASE h \notin Carried(d)
        BY <3>2, <4>2 DEF KeptAfter, WaitingAfter
      <4> QED
        BY <4>1, <4>2
    <3> QED
      BY <1>0, <3>1, <3>2 DEF CutLaid
  <2> QED
    BY <1>2, <1>3, <1>4, <1>5, <1>6, <1>8, <2>2, <2>3, <2>4
<1> QED
  BY <1>9, <1>10

(* A piece stays one when the visit leaves the directories before it, and  *)
(* at most the parent joins them.                                          *)
LEMMA PieceStays ==
  ASSUME CutInv, NEW d \in DOMAIN own, d \in Seq(STRING), Visits(d), NEW h, h.key \in Seq(STRING),
         h.files \subseteq Unclaimed, h.files # {}, \A f \in h.files : Under(f.dir, h.key),
         Len(d) <= Len(h.key),
         \A x \in DOMAIN own \ {d} : x # h.key /\ own[x] \cap h.files = {},
         \A x \in DOMAIN own' : \/ x \in DOMAIN own \ {d} /\ own'[x] = own[x]
                                \/ d # <<>> /\ x = Parent(d) /\ own'[x] = {}
  PROVE  PieceOf(h)'
<1>1. Unclaimed' = Unclaimed
  BY RowsStay DEF Visits
<1>2. ASSUME NEW x \in DOMAIN own'
      PROVE  Len(x) <= Len(h.key) /\ x # h.key /\ own'[x] \cap h.files = {}
  <2>1. CASE x \in DOMAIN own \ {d} /\ own'[x] = own[x]
    <3>1. x \in Seq(STRING)
      BY <2>1 DEF CutInv, CutLaid, Visits
    <3>2. Len(x) \in Nat /\ Len(d) \in Nat /\ Len(h.key) \in Nat /\ Len(x) <= Len(d)
      BY <2>1, <3>1, UnderParent DEF Visits
    <3> QED
      BY <2>1, <3>2
  <2>2. CASE d # <<>> /\ x = Parent(d) /\ own'[x] = {}
    <3>1. Len(x) = Len(d) - 1 /\ Len(d) \in Nat /\ Len(h.key) \in Nat
      BY <2>2, UnderParent
    <3>2. Len(x) < Len(h.key)
      BY <3>1
    <3> QED
      BY <2>2, <3>1, <3>2
  <2> QED
    BY <2>1, <2>2
<1> QED
  BY <1>1, <1>2 DEF PieceOf

(* A directory that stands has the size of a module, or nothing above it.  *)
LEMMA KeptIsSized ==
  ASSUME CutInv, clustering = "dirs", NEW d \in DOMAIN own, Stands(Merged(d)),
         NEW m, m = Module(Merged(d), Large(Merged(d).files))
  PROVE  /\ m \in [key : Seq(STRING), files : SUBSET tree, declared : {FALSE}, oversized : BOOLEAN]
         /\ m.key = d /\ m.files = Merged(d).files /\ Sized(m)
<1>1. /\ m.key = d /\ m.files = Merged(d).files /\ m.oversized = Large(m.files)
      /\ m \in [key : Seq(STRING), files : SUBSET tree, declared : {FALSE}, oversized : BOOLEAN]
  BY MergedFiles DEF Module, Large
<1>2. Chunks(m.files) \in Nat /\ MinChunks \in Nat
  BY <1>1, ChunksGrow, CutTables DEF CutInv
<1>3. ~(Chunks(m.files) < MinChunks /\ m.key # <<>>)
  BY <1>1, <1>2, MergedFiles DEF Stands
<1>4. ASSUME Large(m.files)
      PROVE  \A f \in m.files : f.dir = m.key
  <2>1. Merged(d).files = own[d]
    <3>1. CASE Splits(d)
      BY <3>1 DEF Merged
    <3>2. CASE ~Splits(d)
      <4>1. m.files = own[d] \cup Given(d)
        BY <1>1, <3>2 DEF Merged
      <4>2. Carried(d) = {}
        BY <1>4, <3>2, <4>1 DEF Splits
      <4> QED
        BY <1>1, <4>1, <4>2 DEF Given
    <3> QED
      BY <3>1, <3>2
  <2> QED
    BY <1>1, <2>1, CarriedUp
<1> QED
  BY <1>1, <1>3, <1>4 DEF Sized

(* The types and places of the pieces once the visit has left d.           *)
LEMMA VisitStays ==
  ASSUME CutInv, NEW d \in DOMAIN own, Visits(d), NEW M, M = Merged(d),
         NEW ms, NEW gs, ms = KeptAfter(d), gs = WaitingAfter(d),
         \A x \in DOMAIN own' : \/ x \in DOMAIN own \ {d} /\ own'[x] = own[x]
                                \/ d # <<>> /\ x = Parent(d) /\ own'[x] = {},
         \A x \in DOMAIN own \ {d} : x \in DOMAIN own' /\ own'[x] = own[x]
  PROVE  /\ DOMAIN own' \subseteq Seq(STRING)
         /\ \A x \in DOMAIN own' : own'[x] \subseteq Unclaimed' /\ \A f \in own'[x] : f.dir = x
         /\ \A k \in ms \cup gs : PieceOf(k)'
         /\ M.files # {} => \A k : k.key = d /\ k.files = M.files => PieceOf(k)'
         /\ \A f \in Unclaimed' : \/ f \in M.files \/ f \in OwnFiles'
                                  \/ \E k \in ms \cup gs : f \in k.files
<1>0. CutLaid /\ clustering = "dirs" /\ Unclaimed' = Unclaimed /\ d \in Seq(STRING) /\ Len(d) \in Nat
  BY RowsStay, UnderParent DEF Visits, CutInv, CutLaid
<1>1. /\ DOMAIN own' \subseteq Seq(STRING)
      /\ \A x \in DOMAIN own' : own'[x] \subseteq Unclaimed' /\ \A f \in own'[x] : f.dir = x
  BY <1>0, UnderParent DEF CutLaid
<1>2. ASSUME NEW k \in ms \cup gs
      PROVE  PieceOf(k)'
  <2>1. PieceOf(k)
    BY <1>0, MergedFiles
  <2> QED
    BY <1>0, <2>1, PieceStays DEF PieceOf
<1>3. ASSUME M.files # {}, NEW k, k.key = d, k.files = M.files
      PROVE  PieceOf(k)'
  <2>1. M.files \subseteq Unclaimed /\ \A f \in M.files : Under(f.dir, d)
    BY <1>0, MergedFiles
  <2>2. ASSUME NEW x \in DOMAIN own \ {d}
        PROVE  own[x] \cap M.files = {}
    <3>1. own[x] \cap own[d] = {}
      BY <1>0 DEF CutLaid
    <3>2. own[x] \cap Given(d) = {}
      BY <1>0, CarriedUp DEF Given, PieceOf
    <3> QED
      BY <3>1, <3>2 DEF Merged
  <2> QED
    BY <1>0, <1>3, <2>1, <2>2, PieceStays
<1>4. \A f \in Unclaimed' : \/ f \in M.files \/ f \in OwnFiles'
                            \/ \E k \in ms \cup gs : f \in k.files
  BY <1>0, MergedFiles DEF OwnFiles
<1> QED
  BY <1>1, <1>2, <1>3, <1>4

(* The cut is laid again after a visit.                                    *)
LEMMA LaidAgain ==
  ASSUME CutInv, clustering = "dirs", UNCHANGED <<tree, units, clustering>>,
         {m \in cut' : m.declared} = {m \in cut : m.declared},
         \A m \in KeptModules' :
           /\ m \in [key : Seq(STRING), files : SUBSET tree, declared : {FALSE}, oversized : BOOLEAN]
           /\ Sized(m),
         \A g \in Waiting' : g \in [key : Seq(STRING), files : SUBSET tree],
         DOMAIN own' \subseteq Seq(STRING), DOMAIN pending' \subseteq DOMAIN own',
         \A x \in DOMAIN own' : own'[x] \subseteq Unclaimed' /\ \A f \in own'[x] : f.dir = x,
         \A p \in DOMAIN pending' : \A g \in pending'[p] :
           g.key # <<>> /\ Parent(g.key) = p /\ Chunks(g.files) < MinChunks,
         \A h \in (KeptModules \cup Waiting)' : PieceOf(h)', Apart(KeptModules, Waiting)',
         \A f \in Unclaimed' : f \in OwnFiles' \/ \E h \in (KeptModules \cup Waiting)' : f \in h.files
  PROVE  CutInv'
<1>1. CutLaid
  BY DEF CutInv
<1>2. UnitModules' = UnitModules /\ \A h : Sized(h)' = Sized(h)
  BY RowsStay
<1>3. \A m \in KeptModules' : Sized(m)'
  BY <1>2
<1>4. CutLaid'
  BY <1>1, <1>2, <1>3 DEF CutLaid
<1> QED
  BY <1>4 DEF CutInv

(* What the cut keeps of a visit beside what is left of the directory.     *)
LEMMA BesideVisit ==
  ASSUME CutInv, clustering = "dirs", NEW d \in DOMAIN own
  PROVE  /\ \A m \in KeptAfter(d) :
              /\ m \in
                   [key : Seq(STRING), files : SUBSET tree, declared : {FALSE}, oversized : BOOLEAN]
              /\ Sized(m)
         /\ \A g \in WaitingAfter(d) : g \in [key : Seq(STRING), files : SUBSET tree]
         /\ {m \in cut \cup Back(d) : ~m.declared} = KeptAfter(d)
         /\ {m \in cut \cup Back(d) : m.declared} = {m \in cut : m.declared}
<1>1. \A m \in Back(d) : ~m.declared
  BY DEF Back, Module
<1> QED
  BY <1>1, BackIsSized DEF CutInv, CutLaid, KeptAfter, WaitingAfter, KeptModules

(* Units take their files.                                                 *)
LEMMA ClaimLays ==
  ASSUME CutInv, ClaimByUnits
  PROVE  CutInv'
<1> DEFINE rest == Unclaimed
<1>0. /\ cut = {} /\ pending = <<>> /\ tree \in Trees /\ units \in UnitSets /\ UNCHANGED <<tree, units, pending>>
      /\ clustering' = "dirs"
  BY DEF CutInv, ClaimByUnits
<1>1. {f \in Indexed : UnitsOver(f) # {}} = Indexed \ Unclaimed /\ Unclaimed \subseteq tree
  BY DEF Unclaimed, Indexed
<1>2. cut' = UnitModules
  BY <1>1 DEF ClaimByUnits, UnitModules
<1>3. own' = [d \in {f.dir : f \in Unclaimed} |-> {f \in Unclaimed : f.dir = d}]
  <2>1. Indexed \ (Indexed \ Unclaimed) = Unclaimed
    BY DEF Unclaimed
  <2> QED
    BY <1>1, <2>1 DEF ClaimByUnits
<1>4. Unclaimed' = Unclaimed /\ UnitModules' = UnitModules
  BY <1>0, RowsStay
<1>5. (\A m \in UnitModules : m.declared) /\ KeptModules' = {} /\ {m \in cut' : m.declared} = UnitModules'
  <2>1. \A m \in UnitModules : m.declared
    BY DEF UnitModules
  <2> QED
    BY <1>2, <1>4, <2>1 DEF KeptModules
<1>6. DOMAIN pending' = {} /\ Waiting' = {}
  BY <1>0 DEF Waiting
<1>7. \A f \in Unclaimed : f.dir \in Seq(STRING)
  BY <1>0, <1>1, RowTypes
<1>8. /\ DOMAIN own' \subseteq Seq(STRING)
      /\ \A d \in DOMAIN own' : own'[d] \subseteq Unclaimed' /\ \A f \in own'[d] : f.dir = d
  BY <1>3, <1>4, <1>7
<1>9. \A f \in Unclaimed' : f \in OwnFiles'
  BY <1>3, <1>4 DEF OwnFiles
<1>10. CutLaid'
  BY <1>5, <1>6, <1>8, <1>9 DEF CutLaid, Apart
<1> QED
  BY <1>0, <1>10 DEF CutInv

(* A directory with nothing left of its own.                               *)
LEMMA LeaveLays ==
  ASSUME CutInv, NEW d \in DOMAIN own, LeaveDir(d)
  PROVE  CutInv'
<1>1. PICK M, ms, gs : M = Merged(d) /\ ms = KeptAfter(d) /\ gs = WaitingAfter(d)
  OBVIOUS
<1>2. /\ Visits(d) /\ clustering = "dirs" /\ M.files = {} /\ CutLaid /\ d \in Seq(STRING)
      /\ cut' = cut \cup Back(d) /\ own' = WithoutDir(own, d) /\ pending' = WithoutDir(pending, d)
  BY <1>1 DEF LeaveDir, Visits, CutInv, CutLaid
<1>3. /\ DOMAIN own' = DOMAIN own \ {d} /\ \A x \in DOMAIN own' : own'[x] = own[x]
      /\ DOMAIN pending' = DOMAIN pending \ {d} /\ \A x \in DOMAIN pending' : pending'[x] = pending[x]
  BY <1>2 DEF WithoutDir
<1>4. KeptModules' = ms /\ Waiting' = gs /\ {m \in cut' : m.declared} = {m \in cut : m.declared}
  <2>1. /\ {n \in cut \cup Back(d) : ~n.declared} = ms
        /\ {n \in cut \cup Back(d) : n.declared} = {n \in cut : n.declared}
    BY <1>1, <1>2, BesideVisit
  <2>2. Waiting' = gs
    BY <1>1, <1>2, CarriedUp DEF Waiting
  <2> QED
    BY <1>2, <2>1, <2>2 DEF KeptModules
<1>5. /\ DOMAIN own' \subseteq Seq(STRING)
      /\ \A x \in DOMAIN own' : own'[x] \subseteq Unclaimed' /\ \A f \in own'[x] : f.dir = x
      /\ \A k \in ms \cup gs : PieceOf(k)'
      /\ \A f \in Unclaimed' : f \in OwnFiles' \/ \E k \in ms \cup gs : f \in k.files
  BY <1>1, <1>2, <1>3, VisitStays
<1>6. /\ \A m \in ms : /\ m \in
                            [key : Seq(STRING), files : SUBSET tree, declared : {FALSE}, oversized : BOOLEAN]
                       /\ Sized(m)
      /\ \A g \in gs : g \in [key : Seq(STRING), files : SUBSET tree]
      /\ Apart(ms, gs)
  BY <1>1, <1>2, BesideVisit, MergedFiles
<1>7. /\ DOMAIN pending' \subseteq DOMAIN own'
      /\ \A p \in DOMAIN pending' : \A g \in pending'[p] :
           g.key # <<>> /\ Parent(g.key) = p /\ Chunks(g.files) < MinChunks
  BY <1>2, <1>3 DEF CutLaid
<1>8. Apart(KeptModules, Waiting)' /\ UNCHANGED <<tree, units, clustering>>
  BY <1>2, <1>4, <1>6 DEF Apart, Visits
<1> QED
  BY <1>2, <1>4, <1>5, <1>6, <1>7, <1>8, LaidAgain

(* A directory that becomes a module.                                      *)
LEMMA KeepLays ==
  ASSUME CutInv, NEW d \in DOMAIN own, KeepDir(d)
  PROVE  CutInv'
<1>1. PICK M, ks, gs, m : /\ M = Merged(d) /\ ks = KeptAfter(d) /\ gs = WaitingAfter(d)
                          /\ m = Module(Merged(d), Large(Merged(d).files))
  OBVIOUS
<1>2. /\ Visits(d) /\ clustering = "dirs" /\ M.files # {} /\ CutLaid /\ d \in Seq(STRING) /\ Stands(Merged(d))
      /\ cut' = cut \cup Back(d) \cup {m} /\ own' = WithoutDir(own, d) /\ pending' = WithoutDir(pending, d)
  BY <1>1 DEF KeepDir, Visits, CutInv, CutLaid
<1>3. /\ DOMAIN own' = DOMAIN own \ {d} /\ \A x \in DOMAIN own' : own'[x] = own[x]
      /\ DOMAIN pending' = DOMAIN pending \ {d} /\ \A x \in DOMAIN pending' : pending'[x] = pending[x]
  BY <1>2 DEF WithoutDir
<1>4. /\ m \in [key : Seq(STRING), files : SUBSET tree, declared : {FALSE}, oversized : BOOLEAN]
      /\ m.key = d /\ m.files = M.files /\ Sized(m)
  BY <1>1, <1>2, KeptIsSized
<1>5. PICK ms : ms = ks \cup {m}
  OBVIOUS
<1>6. KeptModules' = ms /\ Waiting' = gs /\ {n \in cut' : n.declared} = {n \in cut : n.declared}
  <2>1. ~m.declared
    BY <1>4
  <2>2. Waiting' = gs
    BY <1>1, <1>2, CarriedUp DEF Waiting
  <2>3. /\ {n \in cut \cup Back(d) : ~n.declared} = ks
        /\ {n \in cut \cup Back(d) : n.declared} = {n \in cut : n.declared}
    BY <1>1, <1>2, BesideVisit
  <2> QED
    BY <1>2, <1>5, <2>1, <2>2, <2>3 DEF KeptModules
<1>7. /\ DOMAIN own' \subseteq Seq(STRING)
      /\ \A x \in DOMAIN own' : own'[x] \subseteq Unclaimed' /\ \A f \in own'[x] : f.dir = x
      /\ \A k \in ks \cup gs : PieceOf(k)'
      /\ PieceOf(m)'
      /\ \A f \in Unclaimed' : \/ f \in M.files \/ f \in OwnFiles'
                               \/ \E k \in ks \cup gs : f \in k.files
  BY <1>1, <1>2, <1>3, <1>4, VisitStays
<1>8. /\ \A n \in ms : /\ n \in
                            [key : Seq(STRING), files : SUBSET tree, declared : {FALSE}, oversized : BOOLEAN]
                       /\ Sized(n)
      /\ \A g \in gs : g \in [key : Seq(STRING), files : SUBSET tree]
  BY <1>1, <1>2, <1>4, <1>5, BesideVisit
<1>9. Apart(ms, gs)
  <2>1. Apart(ks, gs) /\ \A k \in ks \cup gs : k.key # m.key /\ k.files \cap m.files = {}
    BY <1>1, <1>2, <1>4, MergedFiles
  <2> QED
    BY <1>5, <2>1, JoinApart
<1>10. /\ DOMAIN pending' \subseteq DOMAIN own'
       /\ \A p \in DOMAIN pending' : \A g \in pending'[p] :
            g.key # <<>> /\ Parent(g.key) = p /\ Chunks(g.files) < MinChunks
  BY <1>2, <1>3 DEF CutLaid
<1>11. /\ \A h \in ms \cup gs : PieceOf(h)'
       /\ \A f \in Unclaimed' : f \in OwnFiles' \/ \E h \in ms \cup gs : f \in h.files
  BY <1>4, <1>5, <1>7
<1>12. Apart(KeptModules, Waiting)' /\ UNCHANGED <<tree, units, clustering>>
  BY <1>2, <1>6, <1>9 DEF Apart, Visits
<1> QED
  BY <1>2, <1>6, <1>7, <1>8, <1>10, <1>11, <1>12, LaidAgain

(* A directory that is carried to its parent.                              *)
LEMMA CarryLays ==
  ASSUME CutInv, NEW d \in DOMAIN own, CarryDir(d)
  PROVE  CutInv'
<1>1. PICK M, ms, ks, up : M = Merged(d) /\ ms = KeptAfter(d) /\ ks = WaitingAfter(d) /\ up = Parent(d)
  OBVIOUS
<1> DEFINE left == WithoutDir(pending, d)
<1>2. /\ Visits(d) /\ clustering = "dirs" /\ M.files # {} /\ CutLaid /\ d \in Seq(STRING) /\ ~Stands(Merged(d))
      /\ cut' = cut \cup Back(d)
      /\ pending' = [x \in DOMAIN left \cup {up} |-> IF x = up THEN Carried(up) \cup {M} ELSE left[x]]
      /\ own' = [x \in LeftAfterCarry(d) |-> IF x \in DOMAIN own \ {d} THEN own[x] ELSE {}]
  BY <1>1 DEF CarryDir, Visits, CutInv, CutLaid
<1>3. /\ M.key = d /\ d # <<>> /\ Chunks(M.files) < MinChunks
      /\ up \in Seq(STRING) /\ Len(up) = Len(d) - 1 /\ up # d
  <2>1. M \in [key : Seq(STRING), files : SUBSET tree] /\ M.key = d
    BY <1>1, <1>2, MergedFiles
  <2>2. Chunks(M.files) \in Nat /\ MinChunks \in Nat
    BY <2>1, ChunksGrow, CutTables DEF CutInv
  <2> QED
    BY <1>1, <1>2, <2>1, <2>2, UnderParent DEF Stands
<1>4. /\ DOMAIN own' = (DOMAIN own \ {d}) \cup {up}
      /\ \A x \in DOMAIN own \ {d} : own'[x] = own[x]
      /\ up \notin DOMAIN own => own'[up] = {}
  BY <1>1, <1>2, <1>3 DEF LeftAfterCarry
<1>5. /\ DOMAIN left = DOMAIN pending \ {d} /\ \A x \in DOMAIN left : left[x] = pending[x]
  BY DEF WithoutDir
<1>6. PICK gs : gs = ks \cup {M}
  OBVIOUS
<1>7. KeptModules' = ms /\ {m \in cut' : m.declared} = {m \in cut : m.declared}
  BY <1>1, <1>2, BesideVisit DEF KeptModules
<1>8. Waiting' = gs
  <2>1. UNION {left[p] : p \in DOMAIN left} = ks
    BY <1>1, <1>2, CarriedUp
  <2>2. up \in DOMAIN left => left[up] = Carried(up)
    BY <1>3, <1>5 DEF Carried
  <2>3. up \notin DOMAIN left => Carried(up) = {}
    BY <1>3, <1>5 DEF Carried
  <2>4. /\ DOMAIN pending' = DOMAIN left \cup {up} /\ pending'[up] = Carried(up) \cup {M}
        /\ \A x \in DOMAIN left : x # up => pending'[x] = left[x]
    BY <1>2
  <2> HIDE DEF left
  <2> QED
    BY <1>6, <2>1, <2>2, <2>3, <2>4 DEF Waiting
<1>9. /\ DOMAIN own' \subseteq Seq(STRING)
      /\ \A x \in DOMAIN own' : own'[x] \subseteq Unclaimed' /\ \A f \in own'[x] : f.dir = x
      /\ \A k \in ms \cup ks : PieceOf(k)'
      /\ PieceOf(M)'
      /\ \A f \in Unclaimed' : \/ f \in M.files \/ f \in OwnFiles'
                               \/ \E k \in ms \cup ks : f \in k.files
  BY <1>1, <1>2, <1>3, <1>4, VisitStays
<1>10. /\ \A m \in ms : /\ m \in
                             [key : Seq(STRING), files : SUBSET tree, declared : {FALSE}, oversized : BOOLEAN]
                        /\ Sized(m)
       /\ \A g \in gs : g \in [key : Seq(STRING), files : SUBSET tree]
  <2>1. M \in [key : Seq(STRING), files : SUBSET tree]
    BY <1>1, <1>2, MergedFiles
  <2>2. \A g \in ks : g \in [key : Seq(STRING), files : SUBSET tree]
    BY <1>1, <1>2, BesideVisit
  <2> QED
    BY <1>1, <1>2, <1>6, <2>1, <2>2, BesideVisit
<1>11. Apart(ms, gs)
  <2>1. Apart(ms, ks) /\ \A k \in ms \cup ks : k.key # M.key /\ k.files \cap M.files = {}
    BY <1>1, <1>2, <1>3, MergedFiles
  <2> QED
    BY <1>6, <2>1, JoinApart
<1>12. /\ DOMAIN pending' \subseteq DOMAIN own'
       /\ \A p \in DOMAIN pending' : \A g \in pending'[p] :
            g.key # <<>> /\ Parent(g.key) = p /\ Chunks(g.files) < MinChunks
  <2>1. DOMAIN pending' = DOMAIN left \cup {up} /\ DOMAIN pending \subseteq DOMAIN own
    BY <1>2 DEF CutLaid
  <2>2. \A p \in DOMAIN pending : \A g \in pending[p] :
          g.key # <<>> /\ Parent(g.key) = p /\ Chunks(g.files) < MinChunks
    BY <1>2 DEF CutLaid
  <2>3. \A g \in Carried(up) \cup {M} : g.key # <<>> /\ Parent(g.key) = up /\ Chunks(g.files) < MinChunks
    BY <1>1, <1>3, <2>2 DEF Carried
  <2>4. \A p \in DOMAIN pending' : pending'[p] = IF p = up THEN Carried(up) \cup {M} ELSE pending[p]
    BY <1>2, <1>5
  <2> QED
    BY <1>4, <1>5, <2>1, <2>2, <2>3, <2>4
<1>13. /\ \A h \in ms \cup gs : PieceOf(h)'
       /\ \A f \in Unclaimed' : f \in OwnFiles' \/ \E h \in ms \cup gs : f \in h.files
  BY <1>6, <1>9
<1>14. Apart(KeptModules, Waiting)' /\ UNCHANGED <<tree, units, clustering>>
  BY <1>2, <1>7, <1>8, <1>11 DEF Apart, Visits
<1> QED
  BY <1>2, <1>7, <1>8, <1>9, <1>10, <1>12, <1>13, <1>14, LaidAgain

(* Every step of the cut keeps the invariant.                              *)
LEMMA CutStep ==
  ASSUME CutInv, [ModuleNext]_moduleVars
  PROVE  CutInv'
<1>1. CASE ClaimByUnits
  BY <1>1, ClaimLays
<1>2. CASE FinishCut \/ UNCHANGED moduleVars
  <2>1. /\ UNCHANGED <<tree, units, own, pending, cut>>
        /\ \/ clustering' = clustering
           \/ clustering = "dirs" /\ clustering' = "done" /\ DOMAIN own = {}
    BY <1>2 DEF FinishCut, moduleVars
  <2>2. Unclaimed' = Unclaimed /\ UnitModules' = UnitModules /\ \A h : Sized(h)' = Sized(h)
    BY <2>1, RowsStay
  <2>3. KeptModules' = KeptModules /\ Waiting' = Waiting /\ OwnFiles' = OwnFiles /\ \A h : PieceOf(h)' = PieceOf(h)
    BY <2>1, <2>2 DEF KeptModules, Waiting, OwnFiles, PieceOf
  <2>4. CutLaid => CutLaid'
    BY <2>1, <2>2, <2>3 DEF CutLaid, Apart
  <2> QED
    BY <2>1, <2>4 DEF CutInv
<1>3. ASSUME NEW d \in DOMAIN own, LeaveDir(d) \/ KeepDir(d) \/ CarryDir(d)
      PROVE  CutInv'
  BY <1>3, LeaveLays, KeepLays, CarryLays
<1> QED
  BY <1>1, <1>2, <1>3 DEF ModuleNext

LEMMA CutInvHolds == ModuleSpec => []CutInv
<1>1. ModuleInit => CutInv
  BY DEF ModuleInit, CutInv
<1> QED
  BY <1>1, CutStep, PTL DEF ModuleSpec

(* A unit's module holds the files the unit is the longest over.           *)
LEMMA UnitModulesAre ==
  /\ \A m \in UnitModules :
       /\ m.files = {f \in Indexed \ Unclaimed : UnitOf(f) = m.key} /\ m.files # {}
       /\ m = [key |-> m.key, files |-> m.files, declared |-> TRUE, oversized |-> FALSE]
  /\ \A f \in Indexed \ Unclaimed : \E m \in UnitModules : m.key = UnitOf(f) /\ f \in m.files
<1> DEFINE of(u) == [key |-> u, files |-> {f \in Indexed \ Unclaimed : UnitOf(f) = u},
                     declared |-> TRUE, oversized |-> FALSE]
<1>1. \A m \in UnitModules :
        /\ m.files = {f \in Indexed \ Unclaimed : UnitOf(f) = m.key} /\ m.files # {}
        /\ m = [key |-> m.key, files |-> m.files, declared |-> TRUE, oversized |-> FALSE]
  BY DEF UnitModules
<1>2. ASSUME NEW f \in Indexed \ Unclaimed
      PROVE  \E m \in UnitModules : m.key = UnitOf(f) /\ f \in m.files
  <2>1. of(UnitOf(f)) \in UnitModules
    BY DEF UnitModules
  <2>2. of(UnitOf(f)).key = UnitOf(f) /\ f \in of(UnitOf(f)).files
    OBVIOUS
  <2> QED
    BY <2>1, <2>2
<1> QED
  BY <1>1, <1>2

(* At the end every file is in the one module of its unit or directory.    *)
LEMMA LaidIsPartition ==
  ASSUME CutInv
  PROVE  CutIsPartition
<1> SUFFICES ASSUME clustering = "done"
             PROVE  /\ \A f \in Indexed : Cardinality({m \in cut : f \in m.files}) = 1
                    /\ \A m \in cut : m.files # {} /\ \A f \in m.files : f \in Indexed /\ Under(f.dir, m.key)
                    /\ \A m, n \in cut : m.key = n.key => m = n
  BY DEF CutIsPartition
<1>1. CutLaid /\ OwnFiles = {} /\ Waiting = {}
  BY DEF CutInv, CutLaid, OwnFiles, Waiting
<1>2. /\ \A m \in KeptModules : PieceOf(m)
      /\ \A m, n \in KeptModules : m.key = n.key \/ m.files \cap n.files # {} => m = n
      /\ \A f \in Unclaimed : \E m \in KeptModules : f \in m.files
      /\ cut = KeptModules \cup UnitModules
  BY <1>1 DEF CutLaid, Apart, KeptModules
<1>3. Unclaimed \subseteq Indexed /\ Indexed \subseteq tree
  BY DEF Unclaimed, Indexed
<1>4. \A f \in Indexed \ Unclaimed : UnitOf(f) \in UnitsOver(f)
  BY <1>3, UnitChosen DEF CutInv, Unclaimed
<1>5. /\ \A m \in UnitModules :
           /\ m.files = {f \in Indexed \ Unclaimed : UnitOf(f) = m.key} /\ m.files # {}
           /\ m = [key |-> m.key, files |-> m.files, declared |-> TRUE, oversized |-> FALSE]
      /\ \A f \in Indexed \ Unclaimed : \E m \in UnitModules : m.key = UnitOf(f) /\ f \in m.files
  BY UnitModulesAre
<1>6. ASSUME NEW m \in KeptModules, NEW n \in UnitModules
      PROVE  m.key # n.key
  <2>1. PICK f \in m.files : f \in Unclaimed /\ Under(f.dir, m.key)
    BY <1>2 DEF PieceOf
  <2>2. PICK g \in n.files : n.key \in UnitsOver(g)
    BY <1>4, <1>5
  <2> QED
    BY <2>1, <2>2 DEF Unclaimed, UnitsOver
<1>7. \A m, n \in cut : m.key = n.key => m = n
  <2>1. ASSUME NEW m \in UnitModules, NEW n \in UnitModules, m.key = n.key
        PROVE  m = n
    <3>1. m.files = n.files
      BY <1>5, <2>1
    <3> QED
      BY <1>5, <2>1, <3>1
  <2> QED
    BY <1>2, <1>6, <2>1
<1>8. ASSUME NEW m \in cut
      PROVE  m.files # {} /\ \A f \in m.files : f \in Indexed /\ Under(f.dir, m.key)
  <2>1. CASE m \in KeptModules
    BY <1>2, <1>3, <2>1 DEF PieceOf
  <2>2. CASE m \in UnitModules
    BY <1>4, <1>5, <2>2 DEF UnitsOver
  <2> QED
    BY <1>2, <2>1, <2>2
<1>9. ASSUME NEW f \in Indexed
      PROVE  Cardinality({m \in cut : f \in m.files}) = 1
  <2>1. \E m \in cut : f \in m.files
    BY <1>2, <1>5
  <2>2. ASSUME NEW m \in cut, NEW n \in cut, f \in m.files, f \in n.files
        PROVE  m = n
    <3>1. CASE f \in Unclaimed
      BY <1>2, <1>5, <2>2, <3>1
    <3>2. CASE f \notin Unclaimed
      BY <1>2, <1>5, <1>7, <2>2, <3>2 DEF PieceOf
    <3> QED
      BY <3>1, <3>2
  <2>3. PICK m \in cut : f \in m.files
    BY <2>1
  <2>4. {n \in cut : f \in n.files} = {m}
    BY <2>2, <2>3
  <2> QED
    BY <2>4, FS_Singleton
<1> QED
  BY <1>7, <1>8, <1>9

(* The modules the rule made have the sizes it is for.                     *)
LEMMA LaidIsSized ==
  ASSUME CutInv
  PROVE  CutIsSized
<1> SUFFICES ASSUME clustering = "done", NEW m \in KeptModules
             PROVE  /\ (Chunks(m.files) < MinChunks /\ m.key # <<>>) =>
                         LET p == Parent(m.key)
                             taken == UNION {n.files : n \in {n \in cut : n.declared}}
                         IN  Large({f \in Indexed \ taken : Under(f.dir, p)})
                    /\ m.oversized => Large(m.files) /\ \A f \in m.files : f.dir = m.key
                    /\ Large(m.files) => m.oversized \/ Chunks(m.files) < MinChunks
  BY DEF CutIsSized, KeptModules
<1>1. Sized(m) /\ {n \in cut : n.declared} = UnitModules
  BY DEF CutInv, CutLaid
<1>2. UNION {n.files : n \in UnitModules} = Indexed \ Unclaimed
  <2>1. \A f \in Indexed \ Unclaimed : \E n \in UnitModules : f \in n.files
    BY UnitModulesAre
  <2>2. \A n \in UnitModules : n.files \subseteq Indexed \ Unclaimed
    BY UnitModulesAre
  <2> QED
    BY <2>1, <2>2
<1>3. Indexed \ (Indexed \ Unclaimed) = Unclaimed
  BY DEF Unclaimed
<1> QED
  BY <1>1, <1>2, <1>3 DEF Sized

(* A repository's cut loses no file, offers none twice, and leaves slivers *)
(* only where their parent would be a heap: for any tree of directories,   *)
(* any units and any two sizes.                                            *)
THEOREM CutsAreSound == ModuleSpec => []CutSound
<1>1. CutInv => CutSound
  BY LaidIsPartition, LaidIsSized DEF CutSound
<1> QED
  BY <1>1, CutInvHolds, PTL

-----------------------------------------------------------------------------
(* The rules of selection.                                                 *)

\* The places a pattern segment matches from, given those the rest matches from.
PlaceStep(pat, segs, i, after) ==
  IF pat[i] = "**" THEN {j \in 1 .. Len(segs) + 1 : \E k \in after : j <= k}
  ELSE {j \in 1 .. Len(segs) : pat[i] \in {"*", segs[j]} /\ j + 1 \in after}

\* From marks[i] to marks[i + 1] is an interval the segment of pat at i matches.
MarkStep(pat, segs, marks, i) ==
  IF pat[i] = "**" THEN marks[i] <= marks[i + 1]
  ELSE marks[i + 1] = marks[i] + 1 /\ pat[i] \in {"*", segs[marks[i + 1]]}

\* marks cuts the path from j on, to its end, for the pattern from i on.
MarksFrom(pat, segs, i, j, marks) ==
  /\ marks \in [i .. Len(pat) + 1 -> 0 .. Len(segs)]
  /\ marks[i] = j - 1 /\ marks[Len(pat) + 1] = Len(segs)
  /\ \A k \in i .. Len(pat) : MarkStep(pat, segs, marks, k)

(* The places are as the recursion says they are.                          *)
LEMMA PlacesExist ==
  ASSUME NEW pat \in Seq(STRING), NEW segs \in Seq(STRING)
  PROVE  LET m == MatchFrom(pat, segs)
         IN  /\ m[Len(pat) + 1] = {Len(segs) + 1}
             /\ \A i \in 1 .. Len(pat) : m[i] = PlaceStep(pat, segs, i, m[i + 1])
             /\ \A i \in 1 .. Len(pat) + 1 : m[i] \subseteq 1 .. Len(segs) + 1
<1> DEFINE n == Len(pat)
           L == Len(segs)
           V == SUBSET (1 .. L + 1)
           F == [k \in 1 .. n |-> [S \in V |-> PlaceStep(pat, segs, n + 1 - k, S)]]
           Solves(p) == p = [i \in 1 .. n + 1 |->
                               IF i > n THEN {L + 1}
                               ELSE IF pat[i] = "**" THEN {j \in 1 .. L + 1 : \E k \in p[i + 1] : j <= k}
                               ELSE {j \in 1 .. L : pat[i] \in {"*", segs[j]} /\ j + 1 \in p[i + 1]}]
<1>0. n \in Nat /\ L \in Nat /\ {L + 1} \in V
  OBVIOUS
<1>1. \A i, S : PlaceStep(pat, segs, i, S) \in V
  BY <1>0 DEF PlaceStep
<1>2. \A k \in 1 .. n : \A S \in V : F[k][S] \in V
  BY <1>1
<1>3. PICK m \in [0 .. n -> V] : m[0] = {L + 1} /\ \A k \in 1 .. n : m[k] = F[k][m[k - 1]]
  <2> DEFINE b == {L + 1}
  <2>1. b \in V /\ n \in Nat
    BY <1>0
  <2> HIDE DEF F, V, n, b
  <2>2. \E m : Recurses(V, b, n, F, m)
    BY <1>2, <2>1, Recursion
  <2> QED
    BY <2>2 DEF Recurses, b
<1> DEFINE p == [i \in 1 .. n + 1 |-> m[n + 1 - i]]
<1>4. p[n + 1] = {L + 1}
  BY <1>0, <1>3
<1>5. ASSUME NEW i \in 1 .. n
      PROVE  p[i] = PlaceStep(pat, segs, i, p[i + 1])
  <2>1. n + 1 - i \in 1 .. n /\ n + 1 - (n + 1 - i) = i /\ (n + 1 - i) - 1 = n - i /\ n - i \in 0 .. n
    BY <1>0
  <2>2. m[n + 1 - i] = F[n + 1 - i][m[n - i]]
    BY <1>3, <2>1
  <2>3. p[i] = m[n + 1 - i] /\ p[i + 1] = m[n - i]
    <3>1. i \in 1 .. n + 1 /\ i + 1 \in 1 .. n + 1 /\ n + 1 - (i + 1) = n - i
      BY <1>0
    <3> QED
      BY <3>1
  <2>4. m[n - i] \in V
    BY <1>3, <2>1
  <2>5. F[n + 1 - i][m[n - i]] = PlaceStep(pat, segs, i, m[n - i])
    <3> HIDE DEF n, V
    <3> QED
      BY <2>1, <2>4
  <2> QED
    BY <2>2, <2>3, <2>5
<1>6. Solves(p)
  <2>1. ASSUME NEW i \in 1 .. n + 1
        PROVE  p[i] = IF i > n THEN {L + 1}
                      ELSE IF pat[i] = "**" THEN {j \in 1 .. L + 1 : \E k \in p[i + 1] : j <= k}
                      ELSE {j \in 1 .. L : pat[i] \in {"*", segs[j]} /\ j + 1 \in p[i + 1]}
    <3> HIDE DEF p
    <3>1. CASE i > n
      BY <1>0, <1>4, <3>1
    <3>2. CASE ~(i > n)
      <4>1. i \in 1 .. n
        BY <1>0, <3>2
      <4> QED
        BY <1>5, <3>2, <4>1 DEF PlaceStep
    <3> QED
      BY <3>1, <3>2
  <2>2. p = [i \in 1 .. n + 1 |-> p[i]]
    OBVIOUS
  <2> HIDE DEF p, n, L
  <2> QED
    BY <2>1, <2>2
<1> DEFINE c == MatchFrom(pat, segs)
<1>7. Solves(c)
  <2>1. c = CHOOSE q : Solves(q)
    BY DEF MatchFrom
  <2> HIDE DEF Solves, p, c
  <2> QED
    BY <1>6, <2>1
<1>8. c[n + 1] = {L + 1}
  <2> HIDE DEF c, L
  <2> QED
    BY <1>0, <1>7
<1>9. ASSUME NEW i \in 1 .. n
      PROVE  c[i] = PlaceStep(pat, segs, i, c[i + 1])
  <2>1. i \in 1 .. n + 1 /\ ~(i > n)
    BY <1>0
  <2> HIDE DEF c, n, L
  <2> QED
    BY <1>7, <2>1 DEF PlaceStep, L
<1>10. ASSUME NEW i \in 1 .. n + 1
       PROVE  c[i] \subseteq 1 .. L + 1
  <2>1. CASE i = n + 1
    <3> HIDE DEF c, n
    <3> QED
      BY <1>0, <1>8, <2>1
  <2>2. CASE i \in 1 .. n
    <3>1. c[i] = PlaceStep(pat, segs, i, c[i + 1])
      BY <1>9, <2>2
    <3>2. PlaceStep(pat, segs, i, c[i + 1]) \subseteq 1 .. L + 1
      <4> HIDE DEF c, n, L
      <4> QED
        BY <1>1
    <3> HIDE DEF c, n, L
    <3> QED
      BY <3>1, <3>2
  <2> QED
    BY <1>0, <2>1, <2>2
<1> HIDE DEF c
<1> QED
  BY <1>8, <1>9, <1>10 DEF c

(* The places are the ones a cut of the rest of the path starts from.      *)
LEMMA PlacesAreCuts ==
  ASSUME NEW pat \in Seq(STRING), NEW segs \in Seq(STRING)
  PROVE  \A i \in 1 .. Len(pat) + 1 : \A j \in 1 .. Len(segs) + 1 :
           j \in MatchFrom(pat, segs)[i] <=> \E marks : MarksFrom(pat, segs, i, j, marks)
<1> DEFINE n == Len(pat)
           L == Len(segs)
           m == MatchFrom(pat, segs)
           N == {k \in Nat : k <= n =>
                   \A j \in 1 .. L + 1 :
                     j \in m[n + 1 - k] <=> \E marks : MarksFrom(pat, segs, n + 1 - k, j, marks)}
<1>0. n \in Nat /\ L \in Nat
  OBVIOUS
<1>1. /\ m[n + 1] = {L + 1}
      /\ \A i \in 1 .. n : m[i] = PlaceStep(pat, segs, i, m[i + 1])
      /\ \A i \in 1 .. n + 1 : m[i] \subseteq 1 .. L + 1
  BY PlacesExist
<1> HIDE DEF m
<1>2. 0 \in N
  <2> SUFFICES ASSUME NEW j \in 1 .. L + 1
               PROVE  j \in m[n + 1] <=> \E marks : MarksFrom(pat, segs, n + 1, j, marks)
    BY <1>0
  <2>1. CASE j = L + 1
    <3> DEFINE marks == [i \in n + 1 .. n + 1 |-> L]
    <3>1. MarksFrom(pat, segs, n + 1, j, marks)
      BY <1>0, <2>1 DEF MarksFrom
    <3> QED
      BY <1>1, <2>1, <3>1
  <2>2. CASE j # L + 1
    <3>1. ASSUME NEW marks, MarksFrom(pat, segs, n + 1, j, marks)
          PROVE  FALSE
      BY <1>0, <2>2, <3>1 DEF MarksFrom
    <3> QED
      BY <1>1, <2>2, <3>1
  <2> QED
    BY <2>1, <2>2
<1>3. ASSUME NEW k \in Nat, k \in N
      PROVE  k + 1 \in N
  <2> SUFFICES ASSUME k + 1 <= n, NEW j \in 1 .. L + 1
               PROVE  j \in m[n + 1 - (k + 1)] <=>
                        \E marks : MarksFrom(pat, segs, n + 1 - (k + 1), j, marks)
    OBVIOUS
  <2> DEFINE i == n + 1 - (k + 1)
  <2>1. i \in 1 .. n /\ n + 1 - k = i + 1 /\ k <= n
    BY <1>0
  <2>2. \A q \in 1 .. L + 1 : q \in m[i + 1] <=> \E marks : MarksFrom(pat, segs, i + 1, q, marks)
    BY <1>3, <2>1
  <2>3. m[i] = PlaceStep(pat, segs, i, m[i + 1]) /\ m[i + 1] \subseteq 1 .. L + 1
    BY <1>0, <1>1, <2>1
  <2> HIDE DEF i, N
  <2>4. ASSUME NEW q \in 1 .. L + 1, NEW marks, MarksFrom(pat, segs, i + 1, q, marks),
               IF pat[i] = "**" THEN j <= q ELSE q = j + 1 /\ pat[i] \in {"*", segs[j]}
        PROVE  \E longer : MarksFrom(pat, segs, i, j, longer)
    <3> DEFINE longer == [r \in i .. n + 1 |-> IF r = i THEN j - 1 ELSE marks[r]]
    <3>1. /\ marks \in [i + 1 .. n + 1 -> 0 .. L] /\ marks[i + 1] = q - 1 /\ marks[n + 1] = L
          /\ \A r \in i + 1 .. n : MarkStep(pat, segs, marks, r)
      BY <2>4 DEF MarksFrom
    <3>2. longer \in [i .. n + 1 -> 0 .. L]
      <4>1. ASSUME NEW r \in i .. n + 1
            PROVE  (IF r = i THEN j - 1 ELSE marks[r]) \in 0 .. L
        <5>1. CASE r = i
          BY <1>0, <5>1
        <5>2. CASE r # i
          <6>1. r \in i + 1 .. n + 1
            BY <1>0, <2>1, <5>2
          <6> QED
            BY <3>1, <5>2, <6>1
        <5> QED
          BY <5>1, <5>2
      <4> QED
        BY <4>1
    <3>3. longer[i] = j - 1 /\ \A r \in i + 1 .. n + 1 : longer[r] = marks[r]
      <4>1. i \in i .. n + 1 /\ \A r \in i + 1 .. n + 1 : r \in i .. n + 1 /\ r # i
        BY <1>0, <2>1
      <4> QED
        BY <4>1
    <3> HIDE DEF longer
    <3>4. longer[n + 1] = L /\ longer[i + 1] = q - 1
      <4>1. n + 1 \in i + 1 .. n + 1 /\ i + 1 \in i + 1 .. n + 1
        BY <1>0, <2>1
      <4> QED
        BY <3>1, <3>3, <4>1
    <3>5. MarkStep(pat, segs, longer, i)
      <4>1. CASE pat[i] = "**"
        BY <2>4, <3>3, <3>4, <4>1 DEF MarkStep
      <4>2. CASE pat[i] # "**"
        <5>1. q = j + 1 /\ pat[i] \in {"*", segs[j]} /\ q - 1 = j /\ j = j - 1 + 1
          BY <2>4, <4>2
        <5> QED
          BY <3>3, <3>4, <4>2, <5>1 DEF MarkStep
      <4> QED
        BY <4>1, <4>2
    <3>6. ASSUME NEW r \in i .. n
          PROVE  MarkStep(pat, segs, longer, r)
      <4>1. CASE r = i
        BY <3>5, <4>1
      <4>2. CASE r # i
        <5>1. r \in i + 1 .. n /\ r \in i + 1 .. n + 1 /\ r + 1 \in i + 1 .. n + 1
          BY <1>0, <2>1, <4>2
        <5>2. MarkStep(pat, segs, marks, r) /\ longer[r] = marks[r] /\ longer[r + 1] = marks[r + 1]
          BY <3>1, <3>3, <5>1
        <5> QED
          BY <5>2 DEF MarkStep
      <4> QED
        BY <4>1, <4>2
    <3>7. MarksFrom(pat, segs, i, j, longer)
      BY <3>2, <3>3, <3>4, <3>6 DEF MarksFrom
    <3> QED
      BY <3>7
  <2>5. ASSUME j \in m[i]
        PROVE  \E marks : MarksFrom(pat, segs, i, j, marks)
    <3>1. \E q \in m[i + 1] : IF pat[i] = "**" THEN j <= q ELSE q = j + 1 /\ pat[i] \in {"*", segs[j]}
      BY <2>3, <2>5 DEF PlaceStep
    <3> QED
      BY <2>2, <2>3, <2>4, <3>1
  <2>6. ASSUME NEW marks, MarksFrom(pat, segs, i, j, marks)
        PROVE  j \in m[i]
    <3> DEFINE rest == [r \in i + 1 .. n + 1 |-> marks[r]]
               q == marks[i + 1] + 1
    <3>1. /\ marks \in [i .. n + 1 -> 0 .. L] /\ marks[i] = j - 1 /\ marks[n + 1] = L
          /\ \A r \in i .. n : MarkStep(pat, segs, marks, r)
      BY <2>6 DEF MarksFrom
    <3>2. \A r \in i + 1 .. n + 1 : r \in i .. n + 1 /\ rest[r] = marks[r]
      BY <1>0, <2>1
    <3>3. i + 1 \in i + 1 .. n + 1 /\ n + 1 \in i + 1 .. n + 1 /\ i \in i .. n
      BY <1>0, <2>1
    <3>4. marks[i + 1] \in 0 .. L /\ q \in 1 .. L + 1 /\ q - 1 = marks[i + 1]
      BY <1>0, <3>1, <3>2, <3>3
    <3>5. rest \in [i + 1 .. n + 1 -> 0 .. L]
      BY <3>1, <3>2
    <3> HIDE DEF rest, q
    <3>6. ASSUME NEW r \in i + 1 .. n
          PROVE  MarkStep(pat, segs, rest, r)
      <4>1. r \in i .. n /\ r \in i + 1 .. n + 1 /\ r + 1 \in i + 1 .. n + 1
        BY <1>0, <2>1
      <4> QED
        BY <3>1, <3>2, <4>1 DEF MarkStep
    <3>7. MarksFrom(pat, segs, i + 1, q, rest)
      BY <3>1, <3>2, <3>3, <3>4, <3>5, <3>6 DEF MarksFrom
    <3>8. q \in m[i + 1]
      BY <2>2, <3>4, <3>7
    <3>9. MarkStep(pat, segs, marks, i)
      BY <3>1, <3>3
    <3>10. CASE pat[i] = "**"
      <4>1. j <= q
        BY <3>1, <3>4, <3>9, <3>10 DEF MarkStep
      <4> QED
        BY <2>3, <3>8, <3>10, <4>1 DEF PlaceStep
    <3>11. CASE pat[i] # "**"
      <4>1. marks[i + 1] = j /\ q = j + 1 /\ j \in 1 .. L /\ pat[i] \in {"*", segs[j]}
        BY <1>0, <3>1, <3>4, <3>9, <3>11 DEF MarkStep
      <4> QED
        BY <2>3, <3>8, <3>11, <4>1 DEF PlaceStep
    <3> QED
      BY <3>10, <3>11
  <2> QED
    BY <2>5, <2>6 DEF i
<1>4. \A k \in Nat : k \in N
  <2> HIDE DEF N
  <2> QED
    BY <1>2, <1>3, CountInduction
<1>5. ASSUME NEW i \in 1 .. n + 1, NEW j \in 1 .. L + 1
      PROVE  j \in m[i] <=> \E marks : MarksFrom(pat, segs, i, j, marks)
  <2>1. n + 1 - i \in Nat /\ n + 1 - i <= n /\ n + 1 - (n + 1 - i) = i
    BY <1>0
  <2> QED
    BY <1>4, <2>1
<1> QED
  BY <1>5 DEF m

(* The matching the code searches for is the cut it means.                 *)
LEMMA MatchingIsCutting ==
  ASSUME NEW pat \in Seq(STRING), NEW segs \in Seq(STRING)
  PROVE  MatchSegments(pat, segs) <=> MatchesByCut(pat, segs)
<1>1. 1 \in 1 .. Len(pat) + 1 /\ 1 \in 1 .. Len(segs) + 1 /\ 1 - 1 = 0
  OBVIOUS
<1>2. 1 \in MatchFrom(pat, segs)[1] <=> \E marks : MarksFrom(pat, segs, 1, 1, marks)
  BY <1>1, PlacesAreCuts
<1>3. MatchesByCut(pat, segs) <=> \E marks : MarksFrom(pat, segs, 1, 1, marks)
  BY <1>1 DEF MatchesByCut, MarksFrom, MarkStep
<1> QED
  BY <1>2, <1>3 DEF MatchSegments

\* A file undecided has not been read; a row indexed has its indexed length.
SelectInv ==
  /\ path \in SelectPaths /\ body \in SelectBodies /\ excluding \in ExcludeLists
  /\ listed \in {0, body.raw}
  /\ selecting \in {"listed", "sized", "read", "row", "swept"}
  /\ selecting \in {"listed", "sized", "read"} => verdict = "" /\ ~read
  /\ selecting = "row" /\ verdict = "include" => stored = Length(path, body)
  /\ VerdictsAgree

\* What the bytes alone refuse, whatever the list.
Refused(p, b) ==
  b.raw > MaxBytes \/ b.nul \/ (b.secretManifest /\ p.base.config) \/ b.credential \/ b.marker

(* A file is included that neither its bytes nor its path and length refuse. *)
LEMMA IncludedIs ==
  ASSUME NEW list, NEW p, NEW b
  PROVE  SelectBody(list, p, b) = "include" <=>
           ~Refused(p, b) /\ SelectByPath(list, p, Length(p, b)) = ""
<1>1. SelectByPath(list, p, Length(p, b)) # "include"
  BY DEF SelectByPath, SelectPath
<1>2. SelectBody(list, p, b) = "include" <=>
        /\ ~(b.raw > MaxBytes) /\ ~b.nul /\ ~(b.secretManifest /\ p.base.config)
        /\ ~b.credential /\ SelectByPath(list, p, Length(p, b)) = "" /\ ~b.marker
  BY <1>1 DEF SelectBody
<1> QED
  BY <1>2 DEF Refused

(* No ceiling is below an empty file.                                      *)
LEMMA NothingIsSmall ==
  ~(0 > MaxBytes) /\ ~(0 > MaxDataBytes) /\ ~(0 > MaxSchemaBytes)
BY SelectTables

(* What is refused on the size git lists is refused on the bytes.          *)
LEMMA SizeRefusesLess ==
  ASSUME NEW list, NEW p \in SelectPaths, NEW b \in SelectBodies, NEW size \in {0, b.raw},
         SelectSize(list, p, size) # ""
  PROVE  SelectSize(list, p, size) # "include" /\ SelectBody(list, p, b) # "include"
<1>0. b.raw \in Nat /\ b.redacted \in Nat /\ MaxBytes \in Nat /\ MaxDataBytes \in Nat /\ MaxSchemaBytes \in Nat
  BY SelectTables
<1>5. (size = 0 \/ size = b.raw) /\ ~(0 > MaxBytes) /\ ~(0 > MaxDataBytes) /\ ~(0 > MaxSchemaBytes)
  BY NothingIsSmall
<1>1. SelectSize(list, p, size) # "include"
  BY DEF SelectSize, SelectByPath, SelectPath
<1>4. SelectBody(list, p, b) = "include" =>
        ~(b.raw > MaxBytes) /\ SelectByPath(list, p, Length(p, b)) = ""
  BY IncludedIs DEF Refused
<1>2. CASE size > MaxBytes
  <2>1. size = b.raw
    BY <1>2, <1>5
  <2> QED
    BY <1>1, <1>2, <1>4, <2>1
<1>3. CASE ~(size > MaxBytes)
  <2>1. SelectByPath(list, p, IF p.base.config THEN 0 ELSE size) # ""
    BY <1>3 DEF SelectSize
  <2>2. CASE SelectPath(list, p) # ""
    <3>1. SelectByPath(list, p, Length(p, b)) # ""
      BY <2>2 DEF SelectByPath
    <3> QED
      BY <1>1, <1>4, <3>1
  <2>3. CASE SelectPath(list, p) = ""
    <3>1. IsData(p, IF p.base.config THEN 0 ELSE size)
      BY <2>1, <2>3 DEF SelectByPath
    <3>2. IsData(p, Length(p, b))
      <4>1. CASE p.base.config
        <5>1. Length(p, b) = b.redacted /\ IsData(p, 0)
          BY <3>1, <4>1 DEF Length
        <5>2. p.base.ext = "data"
          BY <1>5, <5>1 DEF IsData
        <5> QED
          BY <5>2 DEF IsData
      <4>2. CASE ~p.base.config
        <5>1. Length(p, b) = b.raw /\ IsData(p, size)
          BY <3>1, <4>2 DEF Length
        <5>2. CASE size = b.raw
          BY <5>1, <5>2
        <5>3. CASE size = 0
          <6>1. p.base.ext = "data"
            BY <1>5, <5>1, <5>3 DEF IsData
          <6> QED
            BY <6>1 DEF IsData
        <5> QED
          BY <5>2, <5>3
      <4> QED
        BY <4>1, <4>2
    <3>3. SelectByPath(list, p, Length(p, b)) # ""
      BY <2>3, <3>2 DEF SelectByPath
    <3> QED
      BY <1>1, <1>4, <3>3
  <2> QED
    BY <2>2, <2>3
<1> QED
  BY <1>1, <1>2, <1>3

(* A path is excluded that a pattern of the list cuts.                     *)
LEMMA ExcludedIs ==
  ASSUME NEW list \in ExcludeLists, NEW p \in SelectPaths
  PROVE  Excluded(list, p) <=> \E pat \in list : MatchesByCut(pat, Segments(p))
<1>1. Segments(p) \in Seq(STRING) /\ list \subseteq Seq(STRING)
  BY SelectTables DEF Segments
<1> QED
  BY <1>1, MatchingIsCutting DEF Excluded

(* A file comes to the rules undecided.                                    *)
LEMMA SelectStarts == SelectInit => SelectInv
BY DEF SelectInit, SelectInv, VerdictsAgree, EarlyVerdictsAgree, SweepAgrees

(* No verdict is given but the one the full rules give.                    *)
LEMMA SelectSteps == SelectInv /\ [SelectNext]_selectVars => SelectInv'
<1> SUFFICES ASSUME SelectInv, [SelectNext]_selectVars
             PROVE  SelectInv'
  OBVIOUS
<1>0. /\ path \in SelectPaths /\ body \in SelectBodies /\ excluding \in ExcludeLists
      /\ listed \in {0, body.raw}
  BY DEF SelectInv
<1>1. CASE DecidePath
  <2>1. /\ verdict = "" /\ ~read /\ UNCHANGED <<path, body, excluding, listed, read>>
        /\ selecting = "listed"
    BY <1>1 DEF DecidePath, Decide, SelectInv
  <2>2. CASE SelectPath(excluding, path) = ""
    <3>1. selecting' = "sized" /\ verdict' = verdict
      BY <1>1, <2>2 DEF DecidePath, Decide
    <3> QED
      BY <1>0, <2>1, <3>1 DEF SelectInv, VerdictsAgree, EarlyVerdictsAgree, SweepAgrees
  <2>3. CASE SelectPath(excluding, path) # ""
    <3>1. selecting' = "row" /\ verdict' = SelectPath(excluding, path)
      BY <1>1, <2>3 DEF DecidePath, Decide
    <3>2. verdict' # "include"
      BY <3>1 DEF SelectPath
    <3>3. SelectBody(excluding, path, body) # "include"
      BY <2>3, IncludedIs DEF SelectByPath
    <3>4. EarlyVerdictsAgree' /\ SweepAgrees'
      BY <2>1, <3>1, <3>2, <3>3 DEF EarlyVerdictsAgree, SweepAgrees
    <3> QED
      BY <1>0, <2>1, <3>1, <3>2, <3>4 DEF SelectInv, VerdictsAgree
  <2> QED
    BY <2>2, <2>3
<1>2. CASE DecideSize
  <2>1. /\ verdict = "" /\ ~read /\ UNCHANGED <<path, body, excluding, listed, read>>
        /\ selecting = "sized"
    BY <1>2 DEF DecideSize, Decide, SelectInv
  <2>2. CASE SelectSize(excluding, path, listed) = ""
    <3>1. selecting' = "read" /\ verdict' = verdict
      BY <1>2, <2>2 DEF DecideSize, Decide
    <3> QED
      BY <1>0, <2>1, <3>1 DEF SelectInv, VerdictsAgree, EarlyVerdictsAgree, SweepAgrees
  <2>3. CASE SelectSize(excluding, path, listed) # ""
    <3>1. selecting' = "row" /\ verdict' = SelectSize(excluding, path, listed)
      BY <1>2, <2>3 DEF DecideSize, Decide
    <3>2. verdict' # "include" /\ SelectBody(excluding, path, body) # "include"
      BY <1>0, <2>3, <3>1, SizeRefusesLess
    <3>3. EarlyVerdictsAgree' /\ SweepAgrees'
      BY <2>1, <3>1, <3>2 DEF EarlyVerdictsAgree, SweepAgrees
    <3> QED
      BY <1>0, <2>1, <3>1, <3>2, <3>3 DEF SelectInv, VerdictsAgree
  <2> QED
    BY <2>2, <2>3
<1>3. CASE DecideBody
  <2> DEFINE v == SelectBody(excluding, path, body)
  <2>1. /\ UNCHANGED <<path, body, excluding, listed>>
        /\ read' = (body.raw <= MaxBytes)
    BY <1>3 DEF DecideBody, Decide
  <2>2. v # ""
    BY DEF SelectBody
  <2>3. selecting' = "row" /\ verdict' = v
        /\ stored' = IF body.raw > MaxBytes THEN body.raw ELSE Length(path, body)
    BY <1>3, <2>2 DEF DecideBody, Decide
  <2>4. v = "include" => ~(body.raw > MaxBytes)
    BY IncludedIs DEF Refused
  <2>5. body.raw \in Nat /\ MaxBytes \in Nat
    BY <1>0, SelectTables
  <2>6. v = "include" => read' /\ stored' = Length(path, body)
    <3>1. v = "include" => body.raw <= MaxBytes
      BY <2>4, <2>5
    <3> HIDE DEF v
    <3>2. v = "include" => stored' = Length(path, body)
      BY <2>3, <2>4
    <3>3. v = "include" => read'
      BY <2>1, <3>1, Zenon
    <3> QED
      BY <3>2, <3>3
  <2> HIDE DEF v
  <2>7. EarlyVerdictsAgree' /\ SweepAgrees'
    BY <2>1, <2>3, <2>6 DEF EarlyVerdictsAgree, SweepAgrees, v
  <2> QED
    BY <1>0, <2>1, <2>3, <2>6, <2>7 DEF SelectInv, VerdictsAgree
<1>4. CASE SweepRow
  <2>1. PICK list \in ExcludeLists :
          /\ excluding' = list
          /\ verdict' = IF SelectByPath(list, path, stored) = "" THEN "include"
                        ELSE SelectByPath(list, path, stored)
    BY <1>4 DEF SweepRow
  <2>2. /\ selecting = "row" /\ verdict = "include" /\ selecting' = "swept"
        /\ UNCHANGED <<path, body, listed, read, stored>>
    BY <1>4 DEF SweepRow
  <2>3. stored = Length(path, body) /\ ~Refused(path, body)
    <3>1. SelectBody(excluding, path, body) = "include"
      BY <2>2 DEF SelectInv, VerdictsAgree, EarlyVerdictsAgree
    <3> QED
      BY <2>2, <3>1, IncludedIs DEF SelectInv
  <2>4. (verdict' = "include") <=> (SelectBody(list, path, body) = "include")
    <3>1. SelectByPath(list, path, stored) # "include"
      BY DEF SelectByPath, SelectPath
    <3> QED
      BY <2>1, <2>3, <3>1, IncludedIs
  <2>5. (verdict' = "excluded") <=> Excluded(list, path)
    <3>1. SelectPath(list, path) = "excluded" <=> Excluded(list, path)
      <4>1. CASE Excluded(list, path)
        <5>1. SelectPath(list, path) = "excluded"
          BY <4>1 DEF SelectPath
        <5> QED
          BY <4>1, <5>1
      <4>2. CASE ~Excluded(list, path)
        BY <4>2 DEF SelectPath
      <4> QED
        BY <4>1, <4>2
    <3>2. SelectByPath(list, path, stored) = "excluded" <=> SelectPath(list, path) = "excluded"
      BY DEF SelectByPath
    <3> QED
      BY <2>1, <3>1, <3>2
  <2>6. (verdict' = "excluded") <=> \E pat \in list : MatchesByCut(pat, Segments(path))
    BY <1>0, <2>1, <2>5, ExcludedIs
  <2>7. EarlyVerdictsAgree' /\ SweepAgrees'
    BY <2>1, <2>2, <2>4, <2>6 DEF EarlyVerdictsAgree, SweepAgrees
  <2> QED
    BY <1>0, <2>1, <2>2, <2>7 DEF SelectInv, VerdictsAgree
<1>5. CASE UNCHANGED selectVars
  BY <1>5 DEF selectVars, SelectInv, VerdictsAgree, EarlyVerdictsAgree, SweepAgrees
<1> QED
  BY <1>1, <1>2, <1>3, <1>4, <1>5 DEF SelectNext

(* However early a file is decided on, at first or by a later sweep, the   *)
(* decision is the one all the rules give on its bytes, and a pattern of   *)
(* the operator's excludes the paths it cuts (select.go).                  *)
THEOREM RulesAreOne == SelectSpec => []VerdictsAgree
<1>1. SelectInv => VerdictsAgree
  BY DEF SelectInv
<1> QED
  BY <1>1, SelectStarts, SelectSteps, PTL DEF SelectSpec

-----------------------------------------------------------------------------
(* The rebuild of the vector table.                                        *)

\* What the vector table can be.
Tables == [rows : UNION {[S -> VecValues] : S \in SUBSET Nat}, at : Seq(SUBSET Nat), fill : Nat]

\* Every row is in one chunk, and a chunk holds nothing but rows.
Placed(t) ==
  /\ IsFiniteSet(DOMAIN t.rows)
  /\ \A i \in 1 .. Len(t.at) : t.at[i] \subseteq DOMAIN t.rows
  /\ \A id \in DOMAIN t.rows : \E i \in 1 .. Len(t.at) :
       id \in t.at[i] /\ \A j \in 1 .. Len(t.at) : id \in t.at[j] => j = i

\* Nothing was deleted: every chunk is full but the last.
Packed(t) ==
  IF t.at = <<>> THEN DOMAIN t.rows = {}
  ELSE /\ t.fill \in 1 .. SlotsPerChunk
       /\ Cardinality(DOMAIN t.rows) = (Len(t.at) - 1) * SlotsPerChunk + t.fill

\* r holds what t holds, and the rows vals has at ids.
Joined(r, t, ids, vals) ==
  /\ DOMAIN r.rows = DOMAIN t.rows \cup ids
  /\ \A x \in DOMAIN t.rows : r.rows[x] = t.rows[x]
  /\ \A x \in ids : r.rows[x] = vals[x]

(* What a table is made of.                                                *)
LEMMA TableShape ==
  ASSUME NEW t \in Tables
  PROVE  /\ DOMAIN t.rows \subseteq Nat /\ t.rows \in [DOMAIN t.rows -> VecValues]
         /\ t.at \in Seq(SUBSET Nat) /\ t.fill \in Nat
         /\ t = [rows |-> t.rows, at |-> t.at, fill |-> t.fill]
<1>1. /\ t.rows \in UNION {[S -> VecValues] : S \in SUBSET Nat}
      /\ t.at \in Seq(SUBSET Nat) /\ t.fill \in Nat
      /\ t = [rows |-> t.rows, at |-> t.at, fill |-> t.fill]
  BY DEF Tables
<1>2. PICK S \in SUBSET Nat : t.rows \in [S -> VecValues]
  BY <1>1
<1> QED
  BY <1>1, <1>2

(* A table by its parts.                                                   *)
LEMMA TableMade ==
  ASSUME NEW vectors, DOMAIN vectors \subseteq Nat, vectors \in [DOMAIN vectors -> VecValues],
         NEW at \in Seq(SUBSET Nat), NEW fill \in Nat
  PROVE  [rows |-> vectors, at |-> at, fill |-> fill] \in Tables
<1>1. vectors \in UNION {[D -> VecValues] : D \in SUBSET Nat}
  OBVIOUS
<1> QED
  BY <1>1 DEF Tables

(* An insert adds the row, in one chunk, and leaves a packed table packed. *)
LEMMA InsertedKeeps ==
  ASSUME NEW t \in Tables, Placed(t), NEW id \in Nat, id \notin DOMAIN t.rows, NEW v \in VecValues
  PROVE  /\ Inserted(t, id, v) \in Tables /\ Placed(Inserted(t, id, v))
         /\ Inserted(t, id, v).rows = Plus(t.rows, id, v)
         /\ Packed(t) => Packed(Inserted(t, id, v))
<1> DEFINE r == Inserted(t, id, v)
           opens == t.at = <<>> \/ t.fill = SlotsPerChunk
           D == DOMAIN t.rows
           n == Len(t.at)
<1>0. /\ D \subseteq Nat /\ t.rows \in [D -> VecValues] /\ t.at \in Seq(SUBSET Nat) /\ t.fill \in Nat
      /\ n \in Nat /\ SlotsPerChunk \in Nat \ {0}
  BY TableShape, CompactSizes
<1>1. /\ Plus(t.rows, id, v) \in [D \cup {id} -> VecValues] /\ D \cup {id} \in SUBSET Nat
      /\ DOMAIN Plus(t.rows, id, v) = D \cup {id}
  BY <1>0 DEF Plus
<1>2. /\ IsFiniteSet(D \cup {id}) /\ Cardinality(D \cup {id}) = Cardinality(D) + 1
      /\ Cardinality(D) \in Nat
  BY FS_AddElement, FS_CardinalityType DEF Placed
<1>3. /\ \A i \in 1 .. n : t.at[i] \subseteq D
      /\ \A x \in D : \E i \in 1 .. n : x \in t.at[i] /\ \A j \in 1 .. n : x \in t.at[j] => j = i
  BY DEF Placed
<1>4. CASE opens
  <2>1. r = [rows |-> Plus(t.rows, id, v), at |-> Append(t.at, {id}), fill |-> 1]
    BY <1>4 DEF Inserted
  <2> DEFINE at == Append(t.at, {id})
  <2>2. /\ at \in Seq(SUBSET Nat) /\ Len(at) = n + 1 /\ at[n + 1] = {id}
        /\ \A i \in 1 .. n : at[i] = t.at[i]
    BY <1>0
  <2> HIDE DEF at
  <2>3. r \in Tables
    <3> DEFINE vectors == Plus(t.rows, id, v)
    <3>1. DOMAIN vectors \subseteq Nat /\ vectors \in [DOMAIN vectors -> VecValues] /\ 1 \in Nat
      BY <1>0, <1>1
    <3>2. r = [rows |-> vectors, at |-> at, fill |-> 1]
      BY <2>1 DEF at
    <3> HIDE DEF vectors, r
    <3> QED
      BY <2>2, <3>1, <3>2, TableMade
  <2>4. r.rows = Plus(t.rows, id, v) /\ r.at = at /\ r.fill = 1
    BY <2>1 DEF at
  <2> HIDE DEF r
  <2>5. \A i \in 1 .. n + 1 : at[i] \subseteq D \cup {id}
    <3> SUFFICES ASSUME NEW i \in 1 .. n + 1 PROVE at[i] \subseteq D \cup {id}
      OBVIOUS
    <3>1. i \in 1 .. n \/ i = n + 1
      BY <1>0
    <3> QED
      BY <1>3, <2>2, <3>1
  <2>6. ASSUME NEW x \in D \cup {id}
        PROVE  \E i \in 1 .. n + 1 : x \in at[i] /\ \A j \in 1 .. n + 1 : x \in at[j] => j = i
    <3>0. /\ \A j \in 1 .. n + 1 : j \in 1 .. n \/ j = n + 1
          /\ \A j \in 1 .. n : j \in 1 .. n + 1
          /\ n + 1 \in 1 .. n + 1
      BY <1>0
    <3>1. CASE x = id
      <4>1. \A j \in 1 .. n : x \notin at[j]
        BY <1>3, <2>2, <3>1
      <4> QED
        BY <2>2, <3>0, <3>1, <4>1
    <3>2. CASE x # id
      <4>1. PICK i \in 1 .. n : x \in t.at[i] /\ \A j \in 1 .. n : x \in t.at[j] => j = i
        BY <1>3, <3>2
      <4>2. i \in 1 .. n + 1 /\ x \in at[i] /\ x \notin at[n + 1]
        BY <2>2, <3>0, <3>2, <4>1
      <4>3. ASSUME NEW j \in 1 .. n + 1, x \in at[j]
            PROVE  j = i
        BY <2>2, <3>0, <4>1, <4>2, <4>3
      <4> QED
        BY <4>2, <4>3
    <3> QED
      BY <3>1, <3>2
  <2>7. Placed(r)
    <3>1. DOMAIN r.rows = D \cup {id} /\ r.at = at /\ Len(at) = n + 1
      BY <1>1, <2>2, <2>4
    <3> HIDE DEF D
    <3> QED
      BY <1>2, <2>5, <2>6, <3>1 DEF Placed
  <2>8. Packed(t) => Packed(r)
    <3> SUFFICES ASSUME Packed(t) PROVE Packed(r)
      OBVIOUS
    <3>1. Cardinality(D) = n * SlotsPerChunk
      <4>1. CASE t.at = <<>>
        <5>1. n = 0 /\ Cardinality(D) = 0
          BY <4>1, FS_EmptySet DEF Packed
        <5> QED
          BY <1>0, <5>1
      <4>2. CASE t.at # <<>>
        <5>1. Cardinality(D) = (n - 1) * SlotsPerChunk + SlotsPerChunk
          BY <1>4, <4>2 DEF Packed
        <5> QED
          BY <1>0, <5>1
      <4> QED
        BY <4>1, <4>2
    <3>2. Cardinality(DOMAIN r.rows) = (Len(r.at) - 1) * SlotsPerChunk + r.fill
      <4>1. Len(r.at) - 1 = n /\ r.fill = 1 /\ Cardinality(DOMAIN r.rows) = Cardinality(D) + 1
        BY <1>0, <1>1, <1>2, <2>2, <2>4
      <4> QED
        BY <3>1, <4>1
    <3>3. r.at # <<>> /\ r.fill \in 1 .. SlotsPerChunk
      <4>1. at # <<>>
        BY <1>0, <2>2
      <4> QED
        BY <1>0, <2>4, <4>1
    <3> QED
      BY <3>2, <3>3 DEF Packed
  <2> QED
    BY <2>3, <2>4, <2>7, <2>8 DEF r
<1>5. CASE ~opens
  <2>1. r = [rows |-> Plus(t.rows, id, v), at |-> [t.at EXCEPT ![n] = @ \cup {id}], fill |-> t.fill + 1]
    BY <1>5 DEF Inserted
  <2> DEFINE at == [t.at EXCEPT ![n] = @ \cup {id}]
  <2>0. n \in 1 .. n /\ n # 0
    BY <1>0, <1>5, EmptySeq
  <2>2. /\ at \in Seq(SUBSET Nat) /\ Len(at) = n /\ at[n] = t.at[n] \cup {id}
        /\ \A i \in 1 .. n : i # n => at[i] = t.at[i]
    <3>1. t.at[n] \cup {id} \in SUBSET Nat
      BY <1>0, <2>0
    <3> QED
      BY <1>0, <2>0, <3>1
  <2> HIDE DEF at
  <2>3. r \in Tables
    <3> DEFINE vectors == Plus(t.rows, id, v)
               fill == t.fill + 1
    <3>1. DOMAIN vectors \subseteq Nat /\ vectors \in [DOMAIN vectors -> VecValues] /\ fill \in Nat
      BY <1>0, <1>1
    <3>2. r = [rows |-> vectors, at |-> at, fill |-> fill]
      BY <2>1 DEF at
    <3> HIDE DEF vectors, r, fill
    <3> QED
      BY <2>2, <3>1, <3>2, TableMade
  <2>4. r.rows = Plus(t.rows, id, v) /\ r.at = at /\ r.fill = t.fill + 1
    BY <2>1 DEF at
  <2> HIDE DEF r
  <2>5. \A i \in 1 .. n : at[i] \subseteq D \cup {id}
    BY <1>3, <2>2
  <2>6. ASSUME NEW x \in D \cup {id}
        PROVE  \E i \in 1 .. n : x \in at[i] /\ \A j \in 1 .. n : x \in at[j] => j = i
    <3>1. CASE x = id
      <4>1. \A j \in 1 .. n : x \in at[j] => j = n
        BY <1>3, <2>2, <3>1
      <4> QED
        BY <2>0, <2>2, <3>1, <4>1
    <3>2. CASE x # id
      <4>1. PICK i \in 1 .. n : x \in t.at[i] /\ \A j \in 1 .. n : x \in t.at[j] => j = i
        BY <1>3, <3>2
      <4>2. \A j \in 1 .. n : x \in at[j] <=> x \in t.at[j]
        BY <2>2, <3>2
      <4> QED
        BY <4>1, <4>2
    <3> QED
      BY <3>1, <3>2
  <2>7. Placed(r)
    <3>1. DOMAIN r.rows = D \cup {id} /\ r.at = at /\ Len(at) = n
      BY <1>1, <2>2, <2>4
    <3> HIDE DEF D
    <3> QED
      BY <1>2, <2>5, <2>6, <3>1 DEF Placed
  <2>8. Packed(t) => Packed(r)
    <3> SUFFICES ASSUME Packed(t) PROVE Packed(r)
      OBVIOUS
    <3>1. Cardinality(D) = (n - 1) * SlotsPerChunk + t.fill /\ t.fill \in 1 .. SlotsPerChunk
      BY <1>5 DEF Packed
    <3>2. (n - 1) * SlotsPerChunk \in Int
      BY <1>0
    <3> DEFINE base == (n - 1) * SlotsPerChunk
    <3>3. Len(r.at) = n /\ r.fill = t.fill + 1 /\ Cardinality(DOMAIN r.rows) = Cardinality(D) + 1
      BY <1>1, <1>2, <2>2, <2>4
    <3>4. Cardinality(D) = base + t.fill
      BY <3>1
    <3>5. base \in Int
      BY <3>2
    <3> HIDE DEF base
    <3>6. Cardinality(DOMAIN r.rows) = base + r.fill /\ r.fill \in 1 .. SlotsPerChunk
      <4>1. t.fill \in 1 .. SlotsPerChunk /\ SlotsPerChunk \in Nat
        BY <1>0, <3>1
      <4>2. r.fill \in 1 .. SlotsPerChunk
        BY <1>0, <1>5, <3>3, <4>1
      <4>3. Cardinality(DOMAIN r.rows) = base + r.fill
        BY <3>3, <3>4, <3>5, <4>1
      <4> QED
        BY <4>2, <4>3
    <3>7. r.at # <<>>
      BY <2>0, <3>3
    <3> QED
      BY <3>3, <3>6, <3>7 DEF Packed, base
  <2> QED
    BY <2>3, <2>4, <2>7, <2>8 DEF r
<1> QED
  BY <1>4, <1>5

(* A table with other rows and chunks.                                     *)
LEMMA TablePatched ==
  ASSUME NEW t \in Tables, NEW vectors, NEW at
  PROVE  [t EXCEPT !.rows = vectors, !.at = at] = [rows |-> vectors, at |-> at, fill |-> t.fill]
<1>1. t = [rows |-> t.rows, at |-> t.at, fill |-> t.fill]
  BY DEF Tables
<1>2. PICK R, A, f : t = [rows |-> R, at |-> A, fill |-> f]
  BY <1>1
<1>3. DOMAIN t = {"rows", "at", "fill"}
  BY <1>2
<1>4. [t EXCEPT !.rows = vectors, !.at = at]
        = [l \in {"rows", "at", "fill"} |-> IF l = "at" THEN at ELSE IF l = "rows" THEN vectors ELSE t[l]]
  BY <1>3
<1>5. t["fill"] = t.fill
  OBVIOUS
<1> QED
  BY <1>4, <1>5

(* A delete takes the row out, and leaves the others in their chunks.      *)
LEMMA DeletedKeeps ==
  ASSUME NEW t \in Tables, Placed(t), NEW id \in DOMAIN t.rows
  PROVE  /\ Deleted(t, id) \in Tables /\ Placed(Deleted(t, id))
         /\ Deleted(t, id).rows = Only(t.rows, DOMAIN t.rows \ {id})
<1> DEFINE r == Deleted(t, id)
           vectors == Only(t.rows, DOMAIN t.rows \ {id})
           at == [i \in DOMAIN t.at |-> t.at[i] \ {id}]
           D == DOMAIN t.rows
           n == Len(t.at)
<1>0. /\ D \subseteq Nat /\ t.rows \in [D -> VecValues] /\ t.at \in Seq(SUBSET Nat) /\ t.fill \in Nat
      /\ n \in Nat /\ t = [rows |-> t.rows, at |-> t.at, fill |-> t.fill]
  BY TableShape
<1>1. DOMAIN vectors = D \ {id} /\ vectors \in [DOMAIN vectors -> VecValues]
  BY <1>0 DEF Only
<1>2. at \in Seq(SUBSET Nat) /\ Len(at) = n /\ \A i \in 1 .. n : at[i] = t.at[i] \ {id}
  <2>1. DOMAIN t.at = 1 .. n /\ \A i \in 1 .. n : t.at[i] \ {id} \in SUBSET Nat
    BY <1>0
  <2>2. at = [i \in 1 .. n |-> t.at[i] \ {id}]
    BY <2>1
  <2>3. at \in [1 .. n -> SUBSET Nat]
    BY <2>1, <2>2
  <2> HIDE DEF at
  <2>4. at \in Seq(SUBSET Nat) /\ Len(at) = n
    BY <1>0, <2>3
  <2> QED
    BY <2>2, <2>4
<1>3. r = [rows |-> vectors, at |-> at, fill |-> t.fill]
  <2>2. r = [t EXCEPT !.rows = vectors, !.at = at]
    BY DEF Deleted
  <2> HIDE DEF r, vectors, at
  <2> QED
    BY <1>0, <2>2, TablePatched
<1> HIDE DEF r, vectors, at
<1>4. r \in Tables
  BY <1>0, <1>1, <1>2, <1>3, TableMade
<1>5. r.rows = vectors /\ r.at = at
  BY <1>3
<1>6. /\ IsFiniteSet(D)
      /\ \A i \in 1 .. n : t.at[i] \subseteq D
      /\ \A x \in D : \E i \in 1 .. n : x \in t.at[i] /\ \A j \in 1 .. n : x \in t.at[j] => j = i
  BY DEF Placed
<1>7. IsFiniteSet(D \ {id})
  BY <1>6, FS_Subset
<1>8. \A i \in 1 .. n : at[i] \subseteq D \ {id}
  BY <1>2, <1>6
<1>9. \A x \in D \ {id} : \E i \in 1 .. n : x \in at[i] /\ \A j \in 1 .. n : x \in at[j] => j = i
  BY <1>2, <1>6
<1>10. Placed(r)
  BY <1>1, <1>2, <1>5, <1>7, <1>8, <1>9 DEF Placed
<1> QED
  BY <1>4, <1>5, <1>10 DEF r, vectors

(* A batch is the lowest ids above the last one copied, and is empty when  *)
(* there are none.                                                         *)
LEMMA BatchTakes ==
  ASSUME NEW ids, ids \subseteq Nat, IsFiniteSet(ids), NEW after \in Nat
  PROVE  LET b == Batch(ids, after)
         IN  /\ b \subseteq ids /\ IsFiniteSet(b) /\ \A x \in b : x > after
             /\ b = {} => \A x \in ids : x <= after
             /\ b # {} => /\ Max(b) \in Nat /\ Max(b) > after
                          /\ {x \in ids : x <= Max(b)} = {x \in ids : x <= after} \cup b
<1> DEFINE b == Batch(ids, after)
           Before(x) == {y \in ids : after < y /\ y < x}
<1>1. b \subseteq ids /\ IsFiniteSet(b) /\ \A x \in b : x > after
  BY FS_Subset DEF Batch
<1>2. b = {} => \A x \in ids : x <= after
  <2> SUFFICES ASSUME NEW x \in ids, x > after
               PROVE  b # {}
    OBVIOUS
  <2> DEFINE above == {y \in ids : y > after}
  <2>1. above \subseteq Nat /\ above # {}
    OBVIOUS
  <2>2. Min(above) \in above /\ \A y \in above : Min(above) <= y
    <3> HIDE DEF above
    <3> QED
      BY <2>1, LeastOf
  <2>3. Before(Min(above)) = {}
    BY <2>1, <2>2
  <2>4. Cardinality(Before(Min(above))) < CompactBatch
    <3> HIDE DEF Before, above
    <3> QED
      BY <2>3, FS_EmptySet, CompactSizes
  <2>5. Min(above) \in b
    BY <2>2, <2>4 DEF Batch
  <2> QED
    BY <2>5
<1>3. ASSUME b # {}
      PROVE  /\ Max(b) \in Nat /\ Max(b) > after
             /\ {x \in ids : x <= Max(b)} = {x \in ids : x <= after} \cup b
  <2>1. Max(b) \in b /\ \A x \in b : x <= Max(b)
    <3> HIDE DEF b
    <3>1. b \subseteq Nat
      BY <1>1
    <3> QED
      BY <1>1, <1>3, <3>1, GreatestOf
  <2> DEFINE m == Max(b)
  <2>2. m \in ids /\ m \in Nat /\ m > after /\ Cardinality(Before(m)) < CompactBatch
    BY <1>1, <2>1 DEF Batch
  <2>3. ASSUME NEW x \in ids, x <= m, x > after
        PROVE  x \in b
    <3> HIDE DEF m
    <3>1. Before(x) \subseteq Before(m) /\ IsFiniteSet(Before(m)) /\ IsFiniteSet(Before(x))
      <4>1. Before(x) \subseteq Before(m)
        <5> SUFFICES ASSUME NEW y \in Before(x) PROVE y \in Before(m)
          OBVIOUS
        <5>1. y \in ids /\ y \in Nat /\ x \in Nat /\ after < y /\ y < x
          OBVIOUS
        <5>2. y < m
          BY <2>2, <2>3, <5>1
        <5> QED
          BY <5>1, <5>2
      <4>2. Before(x) \subseteq ids /\ Before(m) \subseteq ids
        OBVIOUS
      <4> HIDE DEF Before
      <4> QED
        BY <4>1, <4>2, FS_Subset
    <3>2. Cardinality(Before(x)) <= Cardinality(Before(m))
      BY <3>1, FS_Subset
    <3>3. /\ Cardinality(Before(x)) \in Nat /\ Cardinality(Before(m)) \in Nat /\ CompactBatch \in Nat
      BY <3>1, FS_CardinalityType, CompactSizes
    <3>4. Cardinality(Before(x)) < CompactBatch
      <4> HIDE DEF Before
      <4> QED
        BY <2>2, <3>2, <3>3
    <3> QED
      BY <2>3, <3>4 DEF Batch
  <2> HIDE DEF b, m
  <2>4. \A x \in ids : x <= m <=> x <= after \/ x \in b
    BY <1>1, <2>1, <2>2, <2>3 DEF m
  <2>5. {x \in ids : x <= m} = {x \in ids : x <= after} \cup b
    BY <1>1, <2>4
  <2> QED
    BY <2>2, <2>5 DEF m
<1> QED
  BY <1>1, <1>2, <1>3

\* One row of the batch inserted: what is made of the table and the ids left.
InsertNext(s, vals) ==
  [table |-> Inserted(s.table, Min(s.left), vals[Min(s.left)]), left |-> s.left \ {Min(s.left)}]

\* g is the batch's way through the first n inserts.
Inserting(g, n, t, ids, vals) ==
  g = [k \in 0 .. n |-> IF k = 0 THEN [table |-> t, left |-> ids] ELSE InsertNext(g[k - 1], vals)]

(* The inserts of a batch follow one another.                              *)
LEMMA InsertsRun ==
  ASSUME NEW t, NEW ids, NEW vals, IsFiniteSet(ids)
  PROVE  \E g : /\ Inserting(g, Cardinality(ids), t, ids, vals)
                /\ InsertAll(t, ids, vals) = g[Cardinality(ids)].table
<1> DEFINE N == {n \in Nat : \E g : Inserting(g, n, t, ids, vals)}
           C == Cardinality(ids)
<1>0. C \in Nat
  BY FS_CardinalityType
<1>1. 0 \in N
  <2>1. Inserting([k \in 0 .. 0 |-> [table |-> t, left |-> ids]], 0, t, ids, vals)
    BY DEF Inserting
  <2> QED
    BY <2>1
<1>2. ASSUME NEW n \in Nat, n \in N
      PROVE  n + 1 \in N
  <2>1. PICK g : Inserting(g, n, t, ids, vals)
    BY <1>2
  <2>2. PICK h : h = [k \in 0 .. n + 1 |-> IF k = 0 THEN [table |-> t, left |-> ids]
                                          ELSE InsertNext(g[k - 1], vals)]
    OBVIOUS
  <2>3. \A k \in 0 .. n : g[k] = IF k = 0 THEN [table |-> t, left |-> ids] ELSE InsertNext(g[k - 1], vals)
    BY <2>1 DEF Inserting
  <2>4. \A k \in 0 .. n : h[k] = g[k]
    BY <2>2, <2>3
  <2>5. h = [k \in 0 .. n + 1 |-> IF k = 0 THEN [table |-> t, left |-> ids] ELSE InsertNext(h[k - 1], vals)]
    <3>1. ASSUME NEW k \in 0 .. n + 1
          PROVE  (IF k = 0 THEN [table |-> t, left |-> ids] ELSE InsertNext(g[k - 1], vals))
                   = IF k = 0 THEN [table |-> t, left |-> ids] ELSE InsertNext(h[k - 1], vals)
      <4>1. k # 0 => k - 1 \in 0 .. n
        OBVIOUS
      <4>2. k # 0 => h[k - 1] = g[k - 1]
        BY <2>4, <4>1
      <4> QED
        BY <4>2
    <3> QED
      BY <2>2, <3>1
  <2>6. Inserting(h, n + 1, t, ids, vals)
    BY <2>5 DEF Inserting
  <2> QED
    BY <2>6
<1>3. \A n \in Nat : n \in N
  <2> HIDE DEF N
  <2> QED
    BY <1>1, <1>2, CountInduction
<1>4. \E g : Inserting(g, C, t, ids, vals)
  BY <1>0, <1>3
<1> DEFINE made == CHOOSE g : Inserting(g, C, t, ids, vals)
<1>5. Inserting(made, C, t, ids, vals)
  BY <1>4
<1>6. InsertAll(t, ids, vals) = made[C].table
  BY DEF InsertAll, Inserting, InsertNext
<1> HIDE DEF made
<1> QED
  BY <1>5, <1>6

(* A batch inserted adds its rows and no other, each in one chunk.         *)
LEMMA InsertAllKeeps ==
  ASSUME NEW t \in Tables, Placed(t), NEW ids, ids \subseteq Nat, IsFiniteSet(ids),
         ids \cap DOMAIN t.rows = {}, NEW vals, \A x \in ids : vals[x] \in VecValues
  PROVE  /\ InsertAll(t, ids, vals) \in Tables /\ Placed(InsertAll(t, ids, vals))
         /\ Joined(InsertAll(t, ids, vals), t, ids, vals)
         /\ Packed(t) => Packed(InsertAll(t, ids, vals))
<1> DEFINE C == Cardinality(ids)
           Stage(s, k) == /\ s.left \subseteq ids /\ Cardinality(s.left) = C - k
                          /\ s.table \in Tables /\ Placed(s.table)
                          /\ Joined(s.table, t, ids \ s.left, vals)
                          /\ Packed(t) => Packed(s.table)
<1>0. C \in Nat
  BY FS_CardinalityType
<1>1. PICK g : Inserting(g, C, t, ids, vals) /\ InsertAll(t, ids, vals) = g[C].table
  BY InsertsRun
<1>2. /\ g[0] = [table |-> t, left |-> ids]
      /\ \A k \in 1 .. C : g[k] = InsertNext(g[k - 1], vals)
  BY <1>0, <1>1 DEF Inserting
<1>3. ASSUME NEW s, NEW k \in Nat, k < C, Stage(s, k)
      PROVE  Stage(InsertNext(s, vals), k + 1)
  <2> DEFINE id == Min(s.left)
             r == Inserted(s.table, id, vals[id])
             rest == s.left \ {id}
  <2>1. s.left # {} /\ s.left \subseteq Nat /\ IsFiniteSet(s.left)
    <3>1. Cardinality(s.left) # 0 /\ IsFiniteSet(s.left)
      BY <1>0, <1>3, FS_Subset
    <3> QED
      BY <1>3, <3>1, FS_EmptySet
  <2>2. id \in s.left /\ id \in Nat /\ id \in ids
    BY <1>3, <2>1, LeastOf
  <2> HIDE DEF id
  <2>3. /\ s.table \in Tables /\ Placed(s.table) /\ vals[id] \in VecValues
        /\ DOMAIN s.table.rows = DOMAIN t.rows \cup (ids \ s.left)
        /\ \A x \in DOMAIN t.rows : s.table.rows[x] = t.rows[x]
        /\ \A x \in ids \ s.left : s.table.rows[x] = vals[x]
    BY <1>3, <2>2 DEF Joined
  <2>4. id \notin DOMAIN s.table.rows
    BY <2>2, <2>3
  <2>5. /\ r \in Tables /\ Placed(r) /\ r.rows = Plus(s.table.rows, id, vals[id])
        /\ Packed(s.table) => Packed(r)
    BY <2>2, <2>3, <2>4, InsertedKeeps
  <2> HIDE DEF r
  <2>6. DOMAIN r.rows = DOMAIN t.rows \cup (ids \ rest)
    BY <2>2, <2>3, <2>5 DEF Plus
  <2>7. \A x \in DOMAIN t.rows : r.rows[x] = t.rows[x]
    BY <2>2, <2>3, <2>5 DEF Plus
  <2>8. \A x \in ids \ rest : r.rows[x] = vals[x]
    BY <2>2, <2>3, <2>5 DEF Plus
  <2>9. rest \subseteq ids /\ Cardinality(rest) = C - (k + 1)
    <3>1. Cardinality(rest) = Cardinality(s.left) - 1
      BY <2>1, <2>2, FS_RemoveElement
    <3> QED
      BY <1>0, <1>3, <3>1
  <2>10. Packed(t) => Packed(r)
    BY <1>3, <2>5
  <2>11. InsertNext(s, vals).table = r /\ InsertNext(s, vals).left = rest
    BY DEF InsertNext, r, id
  <2> HIDE DEF rest
  <2>12. Joined(r, t, ids \ rest, vals)
    BY <2>6, <2>7, <2>8 DEF Joined
  <2> QED
    BY <2>5, <2>9, <2>10, <2>11, <2>12
<1> DEFINE N == {k \in Nat : k <= C => Stage(g[k], k)}
<1>4. 0 \in N
  <2>1. g[0].table = t /\ g[0].left = ids /\ C - 0 = C
    BY <1>0, <1>2
  <2>2. Joined(t, t, ids \ ids, vals)
    BY DEF Joined
  <2> QED
    BY <2>1, <2>2
<1>5. ASSUME NEW k \in Nat, k \in N
      PROVE  k + 1 \in N
  <2> SUFFICES ASSUME k + 1 <= C PROVE Stage(g[k + 1], k + 1)
    OBVIOUS
  <2>1. k < C /\ k <= C /\ k + 1 \in 1 .. C /\ k + 1 - 1 = k
    BY <1>0
  <2>2. g[k + 1] = InsertNext(g[k], vals)
    BY <1>2, <2>1
  <2>3. Stage(g[k], k)
    <3> HIDE DEF Stage
    <3> QED
      BY <1>5, <2>1
  <2> HIDE DEF Stage, N
  <2> QED
    BY <1>3, <2>1, <2>2, <2>3
<1>6. \A k \in Nat : k \in N
  <2> HIDE DEF N
  <2> QED
    BY <1>4, <1>5, CountInduction
<1>7. Stage(g[C], C)
  <2>1. C <= C
    BY <1>0
  <2> HIDE DEF Stage
  <2> QED
    BY <1>0, <1>6, <2>1
<1>8. g[C].left = {}
  <2>1. IsFiniteSet(g[C].left) /\ Cardinality(g[C].left) = 0
    BY <1>0, <1>7, FS_Subset
  <2> QED
    BY <2>1, FS_EmptySet
<1>9. ids \ g[C].left = ids
  BY <1>8
<1> QED
  BY <1>1, <1>7, <1>9

(* A packed table has no more chunks than its rows need.                   *)
LEMMA PackedNeeds ==
  ASSUME NEW t \in Tables, Packed(t), NEW d, d = DOMAIN t.rows
  PROVE  Len(t.at) <= Needed(t)
<1> DEFINE n == Len(t.at)
           S == SlotsPerChunk
           f == t.fill
<1>0. n \in Nat /\ S \in Nat \ {0} /\ f \in Nat
  BY TableShape, CompactSizes
<1>1. CASE t.at = <<>>
  BY <1>1 DEF Needed
<1>2. CASE t.at # <<>>
  <2>1. f \in 1 .. S /\ Cardinality(DOMAIN t.rows) = (n - 1) * S + f
    BY <1>2 DEF Packed
  <2>2. n >= 1
    BY <1>0, <1>2, TableShape, EmptySeq
  <2>3. Cardinality(DOMAIN t.rows) + S - 1 = n * S + (f - 1)
    <3> DEFINE c == Cardinality(DOMAIN t.rows)
    <3>1. (n - 1) * S = n * S - S
      BY <1>0
    <3>2. n * S \in Int
      BY <1>0
    <3> DEFINE p == n * S
               q == (n - 1) * S
    <3>3. c = q + f /\ q = p - S /\ p \in Int
      BY <2>1, <3>1, <3>2
    <3> HIDE DEF c, p, q
    <3>4. c + S - 1 = p + (f - 1)
      BY <1>0, <3>3
    <3> QED
      BY <3>4 DEF c, p
  <2>4. (n * S + (f - 1)) \div S = n
    <3>1. f - 1 \in 0 .. S - 1
      BY <1>0, <2>1
    <3> HIDE DEF n, S, f
    <3> QED
      BY <1>0, <3>1, SMTT(30)
  <2>5. (Cardinality(DOMAIN t.rows) + SlotsPerChunk - 1) \div SlotsPerChunk = n
    BY <2>3, <2>4
  <2> QED
    BY <1>0, <1>2, <2>2, <2>5 DEF Needed
<1> QED
  BY <1>1, <1>2

-----------------------------------------------------------------------------
\* The rows of f up to one.
UpTo(f, x) == Only(f, {y \in DOMAIN f : y <= x})

\* While the batches go out, the table is as it was, and kept up to after.
GoingOut ==
  /\ copy = [table |-> vec, keep |-> UpTo(vec.rows, copy.after), after |-> copy.after,
             rows |-> Cardinality(DOMAIN vec.rows)]
  /\ copy.after \in Nat

\* While they come back, the new table is packed, and has the rows up to after.
ComingBack ==
  /\ copy = [table |-> copy.table, keep |-> vec.rows, after |-> copy.after,
             rows |-> Cardinality(DOMAIN vec.rows)]
  /\ copy.after \in Nat
  /\ copy.table \in Tables /\ Placed(copy.table) /\ Packed(copy.table)
  /\ copy.table.rows = UpTo(vec.rows, copy.after)

CompactInv ==
  /\ vec \in Tables /\ Placed(vec) /\ vec.rows = truth
  /\ rowid \in Nat /\ DOMAIN vec.rows \subseteq 1 .. rowid
  /\ compacting = "out" => GoingOut
  /\ compacting \in {"back", "count"} => ComingBack
  /\ compacting = "count" => copy.table.rows = vec.rows
  /\ compacting = "vacuum" => Packed(vec)
  /\ compacting = "healthy" => ~Bloated(vec)

(* The table made new is in order.                                         *)
LEMMA EmptyIsPlaced == EmptyTable \in Tables /\ Placed(EmptyTable) /\ Packed(EmptyTable)
<1>1. DOMAIN EmptyTable.rows = {} /\ EmptyTable.at = <<>> /\ Len(EmptyTable.at) = 0
  BY DEF EmptyTable
<1>2. EmptyTable \in Tables
  <2> DEFINE vectors == EmptyTable.rows
             at == EmptyTable.at
             fill == EmptyTable.fill
  <2>1. DOMAIN vectors \subseteq Nat /\ vectors \in [DOMAIN vectors -> VecValues]
    BY DEF EmptyTable
  <2>2. at \in Seq(SUBSET Nat) /\ fill \in Nat /\ EmptyTable = [rows |-> vectors, at |-> at, fill |-> fill]
    BY DEF EmptyTable
  <2> HIDE DEF vectors, at, fill
  <2> QED
    BY <2>1, <2>2, TableMade
<1> QED
  BY <1>1, <1>2, FS_EmptySet DEF Placed, Packed

(* Every row kept is the table.                                            *)
LEMMA AllUpTo ==
  ASSUME NEW f, NEW V, f \in [DOMAIN f -> V], NEW k, \A x \in DOMAIN f : x <= k
  PROVE  UpTo(f, k) = f
<1>1. {y \in DOMAIN f : y <= k} = DOMAIN f
  OBVIOUS
<1>2. DOMAIN f \cap DOMAIN f = DOMAIN f
  OBVIOUS
<1>3. UpTo(f, k) = [x \in DOMAIN f |-> f[x]]
  BY <1>1, <1>2 DEF UpTo, Only
<1> QED
  BY <1>3

(* A table that is in order holds the rows, each in one chunk.             *)
LEMMA CompactKeeps == CompactInv => RebuildKeeps
<1> SUFFICES ASSUME CompactInv PROVE RebuildKeeps
  OBVIOUS
<1>0. vec \in Tables /\ Placed(vec) /\ vec.rows = truth /\ vec.at \in Seq(SUBSET Nat)
  BY TableShape DEF CompactInv
<1>1. ASSUME NEW id \in DOMAIN vec.rows
      PROVE  Cardinality({i \in DOMAIN vec.at : id \in vec.at[i]}) = 1
  <2>1. PICK i \in 1 .. Len(vec.at) :
          id \in vec.at[i] /\ \A j \in 1 .. Len(vec.at) : id \in vec.at[j] => j = i
    BY <1>0 DEF Placed
  <2>2. DOMAIN vec.at = 1 .. Len(vec.at)
    BY <1>0
  <2>3. {j \in DOMAIN vec.at : id \in vec.at[j]} = {i}
    BY <2>1, <2>2
  <2> QED
    BY <2>3, FS_Singleton
<1>2. compacting = "vacuum" => Len(vec.at) <= Needed(vec)
  BY <1>0, PackedNeeds DEF CompactInv
<1>3. compacting = "healthy" => Len(vec.at) <= 2 * Needed(vec)
  <2> SUFFICES ASSUME compacting = "healthy" PROVE Len(vec.at) <= 2 * Needed(vec)
    OBVIOUS
  <2>1. ~(Len(vec.at) > 2 * Needed(vec))
    BY DEF CompactInv, Bloated
  <2>2. Len(vec.at) \in Int /\ Needed(vec) \in Int
    <3>1. Cardinality(DOMAIN vec.rows) \in Nat /\ SlotsPerChunk \in Nat \ {0}
      BY <1>0, FS_CardinalityType, CompactSizes DEF Placed
    <3> DEFINE c == Cardinality(DOMAIN vec.rows)
    <3>2. (c + SlotsPerChunk - 1) \div SlotsPerChunk \in Int
      <4> HIDE DEF c
      <4> QED
        BY <3>1 DEF c
    <3> QED
      BY <1>0, <3>2 DEF Needed
  <2> QED
    BY <2>1, <2>2
<1> QED
  BY <1>0, <1>1, <1>2, <1>3 DEF RebuildKeeps

(* The first boot starts with no vectors.                                  *)
LEMMA CompactStarts == CompactInit => CompactInv
<1> SUFFICES ASSUME CompactInit PROVE CompactInv
  OBVIOUS
<1>1. DOMAIN EmptyTable.rows = {} /\ EmptyTable.rows = <<>> /\ Len(EmptyTable.at) = 0
  BY DEF EmptyTable
<1>2. EmptyTable \in Tables /\ Placed(EmptyTable) /\ Packed(EmptyTable)
  BY EmptyIsPlaced
<1> QED
  BY <1>1, <1>2 DEF CompactInit, CompactInv

(* Every step of a boot and of the writer keeps the table in order.        *)
LEMMA CompactSteps == CompactInv /\ [CompactNext]_compactVars => CompactInv'
<1> SUFFICES ASSUME CompactInv, [CompactNext]_compactVars PROVE CompactInv'
  OBVIOUS
<1>0. /\ vec \in Tables /\ Placed(vec) /\ vec.rows = truth
      /\ rowid \in Nat /\ DOMAIN vec.rows \subseteq 1 .. rowid
      /\ DOMAIN vec.rows \subseteq Nat /\ IsFiniteSet(DOMAIN vec.rows)
      /\ vec.rows \in [DOMAIN vec.rows -> VecValues]
  BY TableShape DEF CompactInv, Placed
<1>1. CASE WriteVector
  <2>1. PICK v \in VecValues : vec' = Inserted(vec, rowid', v) /\ truth' = Plus(truth, rowid', v)
    BY <1>1 DEF WriteVector
  <2>2. rowid' = rowid + 1 /\ rowid' \in Nat /\ rowid' \notin DOMAIN vec.rows /\ compacting' = "serve"
    BY <1>0, <1>1 DEF WriteVector
  <2>3. vec' \in Tables /\ Placed(vec') /\ vec'.rows = Plus(vec.rows, rowid', v)
    BY <1>0, <2>1, <2>2, InsertedKeeps
  <2>4. DOMAIN vec'.rows = DOMAIN vec.rows \cup {rowid'}
    BY <2>3 DEF Plus
  <2>5. DOMAIN vec'.rows \subseteq 1 .. rowid'
    BY <1>0, <2>2, <2>4
  <2> QED
    BY <1>0, <2>1, <2>2, <2>3, <2>5 DEF CompactInv
<1>2. CASE DeleteVector
  <2>1. PICK id \in DOMAIN vec.rows :
          vec' = Deleted(vec, id) /\ truth' = Only(truth, DOMAIN truth \ {id})
    BY <1>2 DEF DeleteVector
  <2>2. rowid' = rowid /\ compacting' = "serve"
    BY <1>2 DEF DeleteVector
  <2>3. vec' \in Tables /\ Placed(vec') /\ vec'.rows = Only(vec.rows, DOMAIN vec.rows \ {id})
    BY <1>0, <2>1, DeletedKeeps
  <2>4. DOMAIN vec'.rows \subseteq DOMAIN vec.rows
    BY <2>3 DEF Only
  <2> QED
    BY <1>0, <2>1, <2>2, <2>3, <2>4 DEF CompactInv
<1>3. CASE Reboot
  <2>1. compacting' = "measure" /\ UNCHANGED <<vec, truth, rowid>>
    BY <1>3 DEF Reboot
  <2> QED
    BY <1>0, <2>1 DEF CompactInv
<1>4. CASE Measure
  <2>1. UNCHANGED <<vec, truth, rowid>>
    BY <1>4 DEF Measure
  <2>2. CASE Bloated(vec)
    <3>1. copy' = [table |-> vec, keep |-> <<>>, after |-> 0, rows |-> Cardinality(DOMAIN vec.rows)]
          /\ compacting' = "out"
      BY <1>4, <2>2 DEF Measure
    <3>2. UpTo(vec.rows, 0) = <<>>
      <4>1. {y \in DOMAIN vec.rows : y <= 0} = {}
        BY <1>0
      <4> QED
        BY <4>1 DEF UpTo, Only
    <3>3. GoingOut'
      BY <2>1, <3>1, <3>2 DEF GoingOut
    <3> QED
      BY <1>0, <2>1, <3>1, <3>3 DEF CompactInv
  <2>3. CASE ~Bloated(vec)
    <3>1. compacting' = "healthy"
      BY <1>4, <2>3 DEF Measure
    <3>2. ~Bloated(vec)'
      BY <2>1, <2>3 DEF Bloated, Needed
    <3> QED
      BY <1>0, <2>1, <3>1, <3>2 DEF CompactInv
  <2> QED
    BY <2>2, <2>3
<1>5. CASE CopyOut
  <2>1. UNCHANGED <<vec, truth, rowid>> /\ compacting = "out"
    BY <1>5 DEF CopyOut
  <2>2. PICK k : copy.after = k
    OBVIOUS
  <2>3. copy = [table |-> vec, keep |-> UpTo(vec.rows, k), after |-> k,
                rows |-> Cardinality(DOMAIN vec.rows)] /\ k \in Nat
    BY <2>1, <2>2 DEF CompactInv, GoingOut
  <2>4. PICK D, ids : D = DOMAIN vec.rows /\ ids = Batch(D, k)
    OBVIOUS
  <2>5. /\ ids \subseteq D
        /\ ids = {} => \A x \in D : x <= k
        /\ ids # {} => Max(ids) \in Nat /\ {x \in D : x <= Max(ids)} = {x \in D : x <= k} \cup ids
    BY <1>0, <2>3, <2>4, BatchTakes
  <2>6. Batch(DOMAIN copy.table.rows, copy.after) = ids
    BY <2>3, <2>4
  <2>7. CASE ids = {}
    <3>1. copy' = [copy EXCEPT !.table = EmptyTable, !.after = 0] /\ compacting' = "back"
      BY <1>5, <2>6, <2>7 DEF CopyOut
    <3>2. UpTo(vec.rows, k) = vec.rows
      BY <1>0, <2>4, <2>5, <2>7, AllUpTo
    <3>3. copy' = [table |-> EmptyTable, keep |-> vec.rows, after |-> 0,
                   rows |-> Cardinality(DOMAIN vec.rows)]
      BY <2>3, <3>1, <3>2
    <3>4. EmptyTable \in Tables /\ Placed(EmptyTable) /\ Packed(EmptyTable)
      BY EmptyIsPlaced
    <3>5. EmptyTable.rows = UpTo(vec.rows, 0)
      <4>1. {y \in DOMAIN vec.rows : y <= 0} = {}
        BY <1>0
      <4> QED
        BY <4>1 DEF UpTo, Only, EmptyTable
    <3>6. ComingBack'
      BY <2>1, <3>3, <3>4, <3>5 DEF ComingBack
    <3> QED
      BY <1>0, <2>1, <3>1, <3>6 DEF CompactInv
  <2>8. CASE ids # {}
    <3>1. compacting' = "out" /\
          copy' = [copy EXCEPT !.after = Max(ids),
                     !.keep = [x \in DOMAIN @ \cup ids |->
                                 IF x \in ids THEN copy.table.rows[x] ELSE @[x]]]
      BY <1>5, <2>1, <2>6, <2>8 DEF CopyOut
    <3> DEFINE kept == [x \in DOMAIN UpTo(vec.rows, k) \cup ids |->
                          IF x \in ids THEN vec.rows[x] ELSE UpTo(vec.rows, k)[x]]
    <3>2. copy' = [table |-> vec, keep |-> kept, after |-> Max(ids),
                   rows |-> Cardinality(DOMAIN vec.rows)]
      BY <2>3, <3>1
    <3>3. kept = UpTo(vec.rows, Max(ids))
      <4>1. DOMAIN UpTo(vec.rows, k) = {x \in D : x <= k}
        BY <2>4 DEF UpTo, Only
      <4>2. \A x \in DOMAIN UpTo(vec.rows, k) : UpTo(vec.rows, k)[x] = vec.rows[x]
        BY DEF UpTo, Only
      <4>3. kept = [x \in {y \in D : y <= Max(ids)} |-> vec.rows[x]]
        BY <2>5, <2>8, <4>1, <4>2
      <4> QED
        BY <2>4, <4>3 DEF UpTo, Only
    <3> HIDE DEF kept
    <3>4. GoingOut'
      BY <2>1, <2>5, <2>8, <3>2, <3>3 DEF GoingOut
    <3> QED
      BY <1>0, <2>1, <3>1, <3>4 DEF CompactInv
  <2> QED
    BY <2>7, <2>8
<1>6. CASE CopyBack
  <2>1. UNCHANGED <<vec, truth, rowid>> /\ compacting = "back"
    BY <1>6 DEF CopyBack
  <2>2. PICK k, t : copy.after = k /\ copy.table = t
    OBVIOUS
  <2>3. /\ copy = [table |-> t, keep |-> vec.rows, after |-> k, rows |-> Cardinality(DOMAIN vec.rows)]
        /\ k \in Nat /\ t \in Tables /\ Placed(t) /\ Packed(t) /\ t.rows = UpTo(vec.rows, k)
    BY <2>1, <2>2 DEF CompactInv, ComingBack
  <2>4. PICK D, ids : D = DOMAIN vec.rows /\ ids = Batch(D, k)
    OBVIOUS
  <2>5. /\ ids \subseteq D /\ IsFiniteSet(ids) /\ \A x \in ids : x > k
        /\ ids = {} => \A x \in D : x <= k
        /\ ids # {} => Max(ids) \in Nat /\ {x \in D : x <= Max(ids)} = {x \in D : x <= k} \cup ids
    BY <1>0, <2>3, <2>4, BatchTakes
  <2>6. Batch(DOMAIN copy.keep, copy.after) = ids
    BY <2>3, <2>4
  <2>7. CASE ids = {}
    <3>1. copy' = copy /\ compacting' = "count"
      BY <1>6, <2>6, <2>7 DEF CopyBack
    <3>2. UpTo(vec.rows, k) = vec.rows
      BY <1>0, <2>4, <2>5, <2>7, AllUpTo
    <3>3. ComingBack'
      BY <2>1, <3>1 DEF CompactInv, ComingBack
    <3>4. (copy.table.rows = vec.rows)'
      BY <2>1, <2>2, <2>3, <3>1, <3>2
    <3> QED
      BY <1>0, <2>1, <3>1, <3>3, <3>4 DEF CompactInv
  <2>8. CASE ids # {}
    <3>1. compacting' = "back" /\
          copy' = [copy EXCEPT !.table = InsertAll(@, ids, copy.keep), !.after = Max(ids)]
      BY <1>6, <2>1, <2>6, <2>8 DEF CopyBack
    <3>2. PICK r : r = InsertAll(t, ids, vec.rows)
      OBVIOUS
    <3>3. copy' = [table |-> r, keep |-> vec.rows, after |-> Max(ids),
                   rows |-> Cardinality(DOMAIN vec.rows)]
      BY <2>3, <3>1, <3>2
    <3>4. DOMAIN t.rows = {x \in D : x <= k} /\ \A x \in DOMAIN t.rows : t.rows[x] = vec.rows[x]
      BY <2>3, <2>4 DEF UpTo, Only
    <3>5. /\ ids \subseteq Nat /\ ids \cap DOMAIN t.rows = {}
          /\ \A x \in ids : vec.rows[x] \in VecValues
      BY <1>0, <2>3, <2>4, <2>5, <3>4
    <3>6. r \in Tables /\ Placed(r) /\ Packed(r) /\ Joined(r, t, ids, vec.rows)
      BY <2>3, <2>5, <3>2, <3>5, InsertAllKeeps
    <3>7. r.rows = UpTo(vec.rows, Max(ids))
      <4>1. DOMAIN r.rows = {x \in D : x <= Max(ids)}
        BY <2>5, <2>8, <3>4, <3>6 DEF Joined
      <4>2. \A x \in DOMAIN r.rows : r.rows[x] = vec.rows[x]
        BY <3>4, <3>6 DEF Joined
      <4>3. r.rows = [x \in DOMAIN r.rows |-> r.rows[x]]
        BY <3>6, TableShape
      <4>4. r.rows = [x \in {y \in D : y <= Max(ids)} |-> vec.rows[x]]
        BY <4>1, <4>2, <4>3
      <4> QED
        BY <2>4, <4>4 DEF UpTo, Only
    <3>8. ComingBack'
      BY <2>1, <2>5, <2>8, <3>3, <3>6, <3>7 DEF ComingBack
    <3> QED
      BY <1>0, <2>1, <3>1, <3>8 DEF CompactInv
  <2> QED
    BY <2>7, <2>8
<1>7. CASE CountAndCommit
  <2>1. UNCHANGED <<truth, rowid>> /\ compacting = "count"
    BY <1>7 DEF CountAndCommit
  <2>2. PICK t : copy.table = t
    OBVIOUS
  <2>3. t \in Tables /\ Placed(t) /\ Packed(t) /\ t.rows = vec.rows
    BY <2>1, <2>2 DEF CompactInv, ComingBack
  <2>4. CASE vec' = copy.table /\ compacting' = "vacuum"
    <3>1. vec' = t
      BY <2>2, <2>4
    <3> QED
      BY <1>0, <2>1, <2>3, <2>4, <3>1 DEF CompactInv
  <2>5. CASE vec' = vec /\ compacting' = "failed"
    BY <1>0, <2>1, <2>5 DEF CompactInv
  <2> QED
    BY <1>7, <2>4, <2>5 DEF CountAndCommit
<1>8. CASE CompactFails
  <2>1. compacting' = "failed" /\ UNCHANGED <<vec, truth, rowid>>
    BY <1>8 DEF CompactFails
  <2> QED
    BY <1>0, <2>1 DEF CompactInv
<1>9. CASE BootGoesOn
  <2>1. compacting' = "serve" /\ UNCHANGED <<vec, truth, rowid>>
    BY <1>9 DEF BootGoesOn
  <2> QED
    BY <1>0, <2>1 DEF CompactInv
<1>10. CASE UNCHANGED compactVars
  BY <1>10 DEF compactVars, CompactInv, GoingOut, ComingBack, Bloated, Needed, Packed, Placed
<1> QED
  BY <1>1, <1>2, <1>3, <1>4, <1>5, <1>6, <1>7, <1>8, <1>9, <1>10 DEF CompactNext

(* Through every failed or interrupted rebuild a search finds each row the *)
(* writer left, once and with its own vector, and a rebuild that is over   *)
(* leaves no chunk the rows do not need (compact.go).                      *)
THEOREM RebuildIsSafe == CompactSpec => []RebuildKeeps
<1> QED
  BY CompactKeeps, CompactStarts, CompactSteps, PTL DEF CompactSpec

-----------------------------------------------------------------------------
(* The names in a question.                                                *)

\* A name.
Name == Seq(DOMAIN Singular) \ {<<>>}

\* What is known of an index and of a reading.
IsIndex(index) ==
  /\ index.repos \in Seq(Range(index.repos))
  /\ \A n \in IndexedNames(index) : n \in Name
  /\ \A p \in DOMAIN index.projects : index.projects[p] \subseteq Range(index.repos)

IsReading(want) == want \in Seq(Name)

\* One question: its index and reading stay, and its two answers are the two
\* that ResolveRepos gives of them.
NamesInv ==
  naming = "resolved" =>
    /\ IsIndex(holding) /\ IsReading(reading.want)
    /\ known = WithGluedParts(holding, KnownReposIn(holding, reading.want, reading.question), reading.want)
    /\ unknown = Unknown(holding, known, reading.want, reading.question)

(* A name spells itself.                                                   *)
LEMMA SpellsItself ==
  ASSUME NEW n \in Name
  PROVE  Infix(n, n)
<1>1. n \in Seq(DOMAIN Singular) /\ Len(n) \in Nat /\ Len(n) # 0
  BY EmptySeq DEF Name
<1>2. SubSeq(n, 1, Len(n)) = n
  BY <1>1
<1>3. 1 \in 1 .. Len(n) /\ 1 + Len(n) - 1 <= Len(n) /\ 1 + Len(n) - 1 = Len(n)
  BY <1>1
<1> QED
  BY <1>2, <1>3 DEF Infix

(* A guess is a repository with its part only when that repository is      *)
(* among the indexed, and only one is taken.                               *)
LEMMA PartTaken ==
  ASSUME NEW index, IsIndex(index), NEW guess
  PROVE  /\ RepoWithPart(index, guess) \subseteq Range(index.repos)
         /\ RepoWithPart(index, guess) = {} =>
              \/ \E r \in Range(index.repos) : FoldRepo(r) = FoldRepo(guess)
              \/ \A r \in Range(index.repos) : guess \notin GluedNames(index, r)
         /\ \A r \in RepoWithPart(index, guess) : guess \in GluedNames(index, r)
<1> DEFINE named == {i \in DOMAIN index.repos : guess \in GluedNames(index, index.repos[i])}
           taken == index.repos[Min(named)]
<1>1. RepoWithPart(index, guess) =
        IF named = {} \/ \E r \in Range(index.repos) : FoldRepo(r) = FoldRepo(guess) THEN {} ELSE {taken}
  BY DEF RepoWithPart
<1>2. DOMAIN index.repos \subseteq Nat
  BY DEF IsIndex
<1>3. named # {} => Min(named) \in named
  <2>1. named \subseteq Nat
    BY <1>2
  <2> HIDE DEF named
  <2> QED
    BY <2>1, LeastOf
<1>4. named # {} => taken \in Range(index.repos) /\ guess \in GluedNames(index, taken)
  BY <1>3 DEF Range
<1>5. named = {} => \A r \in Range(index.repos) : guess \notin GluedNames(index, r)
  BY DEF Range
<1> HIDE DEF named, taken
<1> QED
  BY <1>1, <1>4, <1>5

(* What is searched is indexed.                                            *)
LEMMA KnownIndexed ==
  ASSUME NEW index, IsIndex(index), NEW want, NEW words
  PROVE  WithGluedParts(index, KnownReposIn(index, want, words), want) \subseteq Range(index.repos)
<1>1. KnownReposIn(index, want, words) \subseteq Range(index.repos)
  BY DEF KnownReposIn
<1>2. \A w : RepoWithPart(index, w) \subseteq Range(index.repos)
  BY PartTaken
<1> QED
  BY <1>1, <1>2 DEF WithGluedParts

(* With no guess only the reader's own words choose.                       *)
LEMMA KnownByWords ==
  ASSUME NEW index, NEW words, NEW r \in WithGluedParts(index, KnownReposIn(index, <<>>, words), <<>>)
  PROVE  \/ \E w \in words : Infix(w, r)
         \/ \E q \in DOMAIN index.projects :
              /\ r \in index.projects[q]
              /\ \E w \in words \ (index.projects[q] \ {q}) : Infix(w, q)
<1>1. Range(<<>>) = {}
  BY DEF Range
<1>2. r \in KnownReposIn(index, <<>>, words)
  BY <1>1 DEF WithGluedParts
<1> QED
  BY <1>1, <1>2 DEF KnownReposIn, Mentions, WithoutMembers

(* What the reader wrote is searched, and a member's name narrows.         *)
LEMMA WordsNarrow ==
  ASSUME NamesInv
  PROVE  ReadersWordsNarrow
<1> SUFFICES ASSUME naming = "resolved"
             PROVE  ReadersWordsNarrow
  BY DEF ReadersWordsNarrow
<1> DEFINE words == reading.question
           want == reading.want
           names == KnownReposIn(holding, want, words)
<1>1. /\ IsIndex(holding) /\ IsReading(want)
      /\ known = WithGluedParts(holding, names, want)
  BY DEF NamesInv
<1>2. names \subseteq known
  BY <1>1 DEF WithGluedParts
<1>3. \A n \in IndexedNames(holding) : Infix(n, n)
  BY <1>1, SpellsItself DEF IsIndex
<1>4. ASSUME NEW r \in Range(holding.repos) \ Common, r \in words
      PROVE  r \in known
  <2>1. Mentions(words, r)
    BY <1>3, <1>4 DEF Mentions, IndexedNames
  <2> QED
    BY <1>2, <2>1 DEF KnownReposIn
<1>5. ASSUME NEW p \in DOMAIN holding.projects \ Common, p \in words
      PROVE  holding.projects[p] \subseteq known
  <2>1. p \in WithoutMembers(words, p, holding.projects[p])
    BY <1>5 DEF WithoutMembers
  <2>2. Mentions(WithoutMembers(words, p, holding.projects[p]), p)
    BY <1>3, <2>1 DEF Mentions, IndexedNames
  <2>3. holding.projects[p] \subseteq Range(holding.repos)
    BY <1>1 DEF IsIndex
  <2> QED
    BY <1>2, <2>2, <2>3 DEF KnownReposIn
<1>6. ASSUME NEW p \in DOMAIN holding.projects, NEW m \in holding.projects[p] \ {p},
             want = <<>>, m \in words, \A w \in words : NamesSomething(w) => w = m,
             NEW r \in holding.projects[p] \cap known
      PROVE  \/ Infix(m, r)
             \/ \E q \in DOMAIN holding.projects \ {p} : r \in holding.projects[q] /\ Infix(m, q)
  <2>1. r \in WithGluedParts(holding, KnownReposIn(holding, <<>>, words), <<>>)
    BY <1>1, <1>6
  <2>2. r \in IndexedNames(holding)
    BY <1>1, <1>6 DEF IsIndex, IndexedNames
  <2>3. CASE \E w \in words : Infix(w, r)
    BY <1>6, <2>2, <2>3 DEF NamesSomething
  <2>4. ASSUME NEW q \in DOMAIN holding.projects, r \in holding.projects[q],
               NEW w \in words \ (holding.projects[q] \ {q}), Infix(w, q)
        PROVE  q # p /\ r \in holding.projects[q] /\ Infix(m, q)
    <3>1. w = m
      BY <1>6, <2>4 DEF NamesSomething, IndexedNames
    <3> QED
      BY <1>6, <2>4, <3>1
  <2> HIDE DEF words
  <2> QED
    BY <2>1, <2>3, <2>4, KnownByWords
<1> QED
  BY <1>4, <1>5, <1>6 DEF ReadersWordsNarrow

(* A half of an indexed name is a segment of it, folded on both sides.     *)
LEMMA HalfIsSegment ==
  ASSUME NEW index, IsIndex(index), NEW n \in Name, NEW x \in IndexedNames(index), HalfOf(n, x),
         ~UnderFour(FoldRepo(n))
  PROVE  SegmentOfAny(index, FoldRepo(n))
<1>1. /\ n \in Seq(DOMAIN Singular) /\ Len(n) = 1 /\ DOMAIN n = {1}
      /\ x \in Seq(DOMAIN Singular) /\ Len(x) > 1 /\ DOMAIN x = 1 .. Len(x) /\ Len(x) \in Nat
  BY DEF HalfOf, Name, IsIndex
<1>2. FoldRepo(n) = <<Singular[n[1]]>>
  BY <1>1 DEF FoldRepo
<1>3. PICK i \in 1 .. Len(x) : SubSeq(x, i, i + Len(n) - 1) = n
  BY DEF HalfOf, Infix
<1>4. x[i] = n[1]
  <2>1. i + Len(n) - 1 = i
    BY <1>1
  <2>2. SubSeq(x, i, i)[1] = x[i]
    BY <1>1
  <2> QED
    BY <1>3, <2>1, <2>2
<1>5. FoldRepo(x)[i] = IF i = Len(x) THEN Singular[x[i]] ELSE x[i]
  BY <1>1 DEF FoldRepo
<1>6. Singular[FoldRepo(x)[i]] = Singular[n[1]]
  BY <1>4, <1>5 DEF HalfOf
<1> QED
  BY <1>1, <1>2, <1>6 DEF SegmentOfAny

(* What the rule leaves: a guess that is nothing the index carries.        *)
LEMMA Left ==
  ASSUME NEW index, IsIndex(index), NEW names, NEW want, IsReading(want), NEW words,
         NEW n \in Unknown(index, names, want, words)
  PROVE  /\ n \in Name
         /\ FoldRepo(n) \notin Resolved(index, names)
         /\ RepoWithPart(index, n) = {}
         /\ ~NearAny(index, FoldRepo(n))
         /\ SegmentOfAny(index, FoldRepo(n)) => NamesAsWholeWord(words, n)
<1>1. \A i \in DOMAIN want : want[i] \in Name
  BY DEF IsReading
<1> QED
  BY <1>1 DEF Unknown

(* A guess is reported under its fold, or one of the rules explains it.    *)
LEMMA Reported ==
  ASSUME NEW index, NEW names, NEW want, IsReading(want), NEW words, NEW n \in Range(want),
         \A g \in Range(want) : FoldRepo(g) = FoldRepo(n) => g = n
  PROVE  \/ n \in Unknown(index, names, want, words)
         \/ FoldRepo(n) \in Resolved(index, names)
         \/ RepoWithPart(index, n) # {}
         \/ NearAny(index, FoldRepo(n))
         \/ ~NamesAsWholeWord(words, n)
<1> DEFINE alike == {i \in DOMAIN want : FoldRepo(want[i]) = FoldRepo(n)}
           i == Min(alike)
<1>1. DOMAIN want \subseteq Nat /\ DOMAIN want = 1 .. Len(want) /\ Len(want) \in Nat
  BY DEF IsReading
<1>2. alike # {} /\ alike \subseteq Nat
  BY <1>1 DEF Range
<1>3. i \in alike /\ \A j \in alike : i <= j
  <2> HIDE DEF alike
  <2> QED
    BY <1>2, LeastOf
<1> HIDE DEF i
<1>4. want[i] = n
  BY <1>3 DEF Range
<1>5. \A j \in 1 .. i - 1 : FoldRepo(want[j]) # FoldRepo(want[i])
  <2> SUFFICES ASSUME NEW j \in 1 .. i - 1, FoldRepo(want[j]) = FoldRepo(n)
               PROVE  FALSE
    BY <1>4
  <2>1. i \in 1 .. Len(want)
    BY <1>1, <1>3
  <2>2. j \in alike /\ j < i
    BY <1>1, <2>1
  <2> QED
    BY <1>3, <2>1, <2>2
<1> QED
  BY <1>3, <1>4, <1>5 DEF Unknown

(* What is reported missing is missing, and nothing written is swallowed.  *)
LEMMA MissingHonest ==
  ASSUME NamesInv
  PROVE  MissingNamesHonest
<1> SUFFICES ASSUME naming = "resolved"
             PROVE  MissingNamesHonest
  BY DEF MissingNamesHonest
<1> DEFINE words == reading.question
           want == reading.want
<1>1. /\ IsIndex(holding) /\ IsReading(want)
      /\ known = WithGluedParts(holding, KnownReposIn(holding, want, words), want)
      /\ unknown = Unknown(holding, known, want, words)
  BY DEF NamesInv
<1>2. ASSUME NEW n \in unknown, ~UnderFour(FoldRepo(n))
      PROVE  /\ \A x \in IndexedNames(holding) : FoldRepo(x) # FoldRepo(n)
             /\ \A r \in Range(holding.repos) : n \notin GluedNames(holding, r)
             /\ words \cap {n, FoldRepo(n)} = {} =>
                  \A x \in IndexedNames(holding) : ~HalfOf(n, x)
  <2>1. /\ n \in Name /\ RepoWithPart(holding, n) = {} /\ ~NearAny(holding, FoldRepo(n))
        /\ SegmentOfAny(holding, FoldRepo(n)) => NamesAsWholeWord(words, n)
    BY <1>1, <1>2, Left
  <2>2. \A x \in IndexedNames(holding) : FoldRepo(x) # FoldRepo(n)
    BY <1>2, <2>1 DEF NearAny
  <2>3. \A r \in Range(holding.repos) : n \notin GluedNames(holding, r)
    BY <1>1, <2>1, <2>2, PartTaken DEF IndexedNames
  <2>4. words \cap {n, FoldRepo(n)} = {} => \A x \in IndexedNames(holding) : ~HalfOf(n, x)
    BY <1>1, <1>2, <2>1, HalfIsSegment DEF NamesAsWholeWord
  <2> QED
    BY <2>2, <2>3, <2>4
<1>3. ASSUME NEW n \in Range(want) \cap words
      PROVE  \/ \E u \in unknown : FoldRepo(u) = FoldRepo(n)
             \/ \E g \in Range(want) : g # n /\ FoldRepo(g) = FoldRepo(n)
             \/ \E x \in IndexedNames(holding) :
                  FoldRepo(x) = FoldRepo(n) \/ <<FoldRepo(n), FoldRepo(x)>> \in OneEdit
             \/ \E r \in known : n \in GluedNames(holding, r)
  <2> SUFFICES ASSUME \A g \in Range(want) : FoldRepo(g) = FoldRepo(n) => g = n
               PROVE  \/ n \in unknown
                      \/ \E x \in IndexedNames(holding) :
                           FoldRepo(x) = FoldRepo(n) \/ <<FoldRepo(n), FoldRepo(x)>> \in OneEdit
                      \/ \E r \in known : n \in GluedNames(holding, r)
    OBVIOUS
  <2>1. NamesAsWholeWord(words, n)
    BY <1>3 DEF NamesAsWholeWord
  <2>2. \/ n \in unknown
        \/ FoldRepo(n) \in Resolved(holding, known)
        \/ RepoWithPart(holding, n) # {}
        \/ NearAny(holding, FoldRepo(n))
    BY <1>1, <1>3, <2>1, Reported
  <2>3. known \subseteq Range(holding.repos)
    BY <1>1, KnownIndexed
  <2>4. FoldRepo(n) \in Resolved(holding, known) => \E x \in IndexedNames(holding) : FoldRepo(x) = FoldRepo(n)
    BY <2>3 DEF Resolved, IndexedNames
  <2>5. NearAny(holding, FoldRepo(n)) =>
          \E x \in IndexedNames(holding) :
            FoldRepo(x) = FoldRepo(n) \/ <<FoldRepo(n), FoldRepo(x)>> \in OneEdit
    BY DEF NearAny
  <2>6. RepoWithPart(holding, n) \subseteq known
    BY <1>1, <1>3 DEF WithGluedParts
  <2>7. RepoWithPart(holding, n) # {} => \E r \in known : n \in GluedNames(holding, r)
    BY <1>1, <2>6, PartTaken
  <2> QED
    BY <2>2, <2>4, <2>5, <2>7
<1> QED
  BY <1>2, <1>3 DEF MissingNamesHonest

(* The two answers are the ones of the question's own index and reading.   *)
LEMMA NamesTypes ==
  /\ \A index \in Indexes : IsIndex(index)
  /\ \A r \in Readings : IsReading(r.want)
BY NameTables DEF IsIndex, IsReading, IndexedNames, Name

LEMMA NamesStart ==
  NameInit => NamesInv /\ holding \in Indexes /\ reading \in Readings
BY DEF NameInit, NamesInv

LEMMA NamesStep ==
  ASSUME NamesInv, naming = "asked" => holding \in Indexes /\ reading \in Readings,
         [NameNext]_nameVars
  PROVE  NamesInv' /\ (naming = "asked" => holding \in Indexes /\ reading \in Readings)'
<1>1. CASE ResolveNames
  <2>1. IsIndex(holding) /\ IsReading(reading.want)
    BY <1>1, NamesTypes DEF ResolveNames
  <2> QED
    BY <1>1, <2>1 DEF ResolveNames, NamesInv
<1>2. CASE UNCHANGED nameVars
  BY <1>2 DEF nameVars, NamesInv
<1> QED
  BY <1>1, <1>2 DEF NameNext

(* What the reader named is what is searched, for every index, reading and *)
(* table of spellings: NamesRead.                                          *)
THEOREM NamesAreRead == NameSpec => []NamesRead
<1> DEFINE AsAsked == naming = "asked" => holding \in Indexes /\ reading \in Readings
<1>1. NameInit => NamesInv /\ AsAsked
  BY NamesStart
<1>2. NamesInv /\ AsAsked /\ [NameNext]_nameVars => NamesInv' /\ AsAsked'
  BY NamesStep
<1>3. NamesInv => NamesRead
  BY WordsNarrow, MissingHonest DEF NamesRead
<1> QED
  BY <1>1, <1>2, <1>3, PTL DEF NameSpec

-----------------------------------------------------------------------------
(* The passages of a file.                                                 *)

\* A file's lines.
IsLines(lines) ==
  /\ lines \in Seq([kind : {"code", "comment", "star", "blank"}, runes : Nat])
  /\ \A i \in 1 .. Len(lines) : lines[i].kind # "blank" => lines[i].runes > 0

\* Its symbols.
IsSymbols(syms) == syms \in Seq(Range(syms)) /\ \A s \in Range(syms) : s.line \in Int

\* The lines the search lanes owe the reader: code, and comments unless they
\* are stripped.
Owed(lines, strip, l) == ~(lines[l].kind = "blank" \/ (strip /\ lines[l].kind = "comment"))

\* A passage holds a line in all the pieces it was cut into.
HeldBy(ps, l) ==
  \E c \in ps : \A p \in 1 .. c.pieces :
    \E d \in ps : d.start = c.start /\ d.end = c.end /\ d.piece = p /\ l \in d.searched

(* What a line is.                                                         *)
LEMMA LineIs ==
  ASSUME NEW lines, IsLines(lines), NEW i \in 1 .. Len(lines)
  PROVE  /\ lines[i].runes \in Nat /\ LineCost(lines[i]) \in Nat
         /\ lines[i].kind # "blank" => lines[i].runes > 0
<1>1. lines[i] \in [kind : {"code", "comment", "star", "blank"}, runes : Nat]
  BY ElementOfSeq DEF IsLines
<1>2. lines[i].runes \in Nat
  BY <1>1
<1>3. LineCost(lines[i]) \in Nat
  BY <1>2 DEF LineCost, Tokens
<1> QED
  BY <1>2, <1>3 DEF IsLines

(* What lines cost is a number.                                            *)
LEMMA CostIs ==
  ASSUME NEW lines, IsLines(lines), NEW a \in Nat, NEW b \in Nat, a .. b \subseteq 1 .. Len(lines)
  PROVE  Cost(lines, a, b) \in Nat
<1> DEFINE S == a .. b
           w == [i \in S |-> LineCost(lines[i])]
<1>1. \A s \in SUBSET S : s # {} => w[Pick(s)] = LineCost(lines[Pick(s)])
  BY PickOf
<1>2. \A g : Sums(g, SUBSET S, w) <=>
        g = [s \in SUBSET S |-> IF s = {} THEN 0 ELSE LineCost(lines[Pick(s)]) + g[s \ {Pick(s)}]]
  BY <1>1 DEF Sums
<1>3. (CHOOSE g : Sums(g, SUBSET S, w)) =
      CHOOSE g : g = [s \in SUBSET S |-> IF s = {} THEN 0 ELSE LineCost(lines[Pick(s)]) + g[s \ {Pick(s)}]]
  BY <1>2
<1>4. Cost(lines, a, b) = SumOf(w, S)
  BY <1>3 DEF Cost, MapThenSumSet, MapThenFoldSet, SumOf, Pick
<1>5. IsFiniteSet(S) /\ \A i \in S : w[i] \in Nat
  <2>1. \A i \in S : w[i] \in Nat
    BY LineIs
  <2>2. a \in Int /\ b \in Int
    OBVIOUS
  <2>3. IsFiniteSet(S)
    BY <2>2, IntervalFinite
  <2> QED
    BY <2>1, <2>3
<1> HIDE DEF S, w
<1> QED
  BY <1>4, <1>5, SumTyped

(* The runes of lines are a number, and of lines with something on them at *)
(* least one.                                                              *)
LEMMA RunesAre ==
  ASSUME NEW lines, IsLines(lines), NEW a \in 1 .. Len(lines), NEW b \in a .. Len(lines)
  PROVE  /\ Runes(lines, a, b) \in Nat
         /\ (\E l \in a .. b : lines[l].kind # "blank") => Runes(lines, a, b) > 0
<1> DEFINE S == a .. b
           w == [i \in S |-> lines[i].runes]
           sum == MapThenSumSet(LAMBDA i : lines[i].runes, S)
<1>0. Len(lines) \in Nat
  BY DEF IsLines
<1>1. \A s \in SUBSET S : s # {} => w[Pick(s)] = lines[Pick(s)].runes
  BY PickOf
<1>2. \A g : Sums(g, SUBSET S, w) <=>
        g = [s \in SUBSET S |-> IF s = {} THEN 0 ELSE lines[Pick(s)].runes + g[s \ {Pick(s)}]]
  BY <1>1 DEF Sums
<1>3. (CHOOSE g : Sums(g, SUBSET S, w)) =
      CHOOSE g : g = [s \in SUBSET S |-> IF s = {} THEN 0 ELSE lines[Pick(s)].runes + g[s \ {Pick(s)}]]
  BY <1>2
<1>4. sum = SumOf(w, S)
  BY <1>3 DEF MapThenSumSet, MapThenFoldSet, SumOf, Pick
<1>5. S \subseteq 1 .. Len(lines)
  BY <1>0
<1>6. IsFiniteSet(S) /\ \A i \in S : w[i] \in Nat
  <2>1. \A i \in S : w[i] \in Nat
    BY <1>5, LineIs
  <2>2. a \in Int /\ b \in Int
    BY <1>0
  <2> QED
    <3>1. IsFiniteSet(S)
      BY <2>2, IntervalFinite
    <3> QED
      BY <2>1, <3>1
<1>7. SumOf(w, S) \in Nat
  <2> HIDE DEF S, w
  <2> QED
    BY <1>6, SumTyped
<1>8. Runes(lines, a, b) = sum + (b - a) /\ b - a \in Nat
  BY <1>0 DEF Runes
<1>9. ASSUME NEW l \in S, lines[l].kind # "blank"
      PROVE  SumOf(w, S) > 0
  <2>1. w[l] > 0 /\ w[l] \in Nat
    BY <1>5, <1>9, LineIs
  <2> HIDE DEF S, w
  <2>2. SumOf(w, {}) = 0 /\ SumOf(w, {} \cup {l}) = w[l] + SumOf(w, {})
    <3>1. SumOf(w, {}) = 0
      BY SumStep, FS_EmptySet
    <3>2. {} \in SUBSET S /\ l \in S \ {}
      BY <1>9
    <3> QED
      BY <1>6, <3>1, <3>2, SumAdd
  <2>3. {l} \in SUBSET S /\ {} \cup {l} = {l}
    BY <1>9
  <2>4. SumOf(w, {l}) <= SumOf(w, S)
    BY <1>6, <2>3, SumGrows
  <2> QED
    BY <1>7, <2>1, <2>2, <2>3, <2>4
<1> HIDE DEF S, w, sum
<1>10. (\E l \in S : lines[l].kind # "blank") => SumOf(w, S) > 0
  BY <1>9
<1>11. Runes(lines, a, b) \in Nat /\ (SumOf(w, S) > 0 => Runes(lines, a, b) > 0)
  BY <1>4, <1>7, <1>8
<1> QED
  BY <1>10, <1>11 DEF S

(* Options as ChunkFile uses them.                                         *)
LEMMA EffectiveIs ==
  ASSUME NEW opts, {opts.target, opts.max, opts.overlap} \subseteq Int
  PROVE  LET o == Effective(opts)
         IN  /\ o.target \in Nat /\ o.target > 0 /\ o.max \in Nat /\ o.max >= o.target
             /\ o.overlap \in Nat
<1> DEFINE n == IF opts.target <= 0 THEN DefaultChunkOptions
                ELSE [target |-> opts.target, max |-> opts.max, overlap |-> opts.overlap]
<1>1. n.target \in Nat /\ n.target > 0 /\ n.max \in Int /\ n.overlap \in Int
  BY DEF DefaultChunkOptions
<1>2. Effective(opts) = [target |-> n.target, max |-> IF n.max < n.target THEN n.target ELSE n.max,
                         overlap |-> IF n.overlap \in 0 .. n.target - 1 THEN n.overlap ELSE n.target \div 8]
  BY DEF Effective
<1> HIDE DEF n
<1> QED
  BY <1>1, <1>2

\* The topmost of the lines from a to b that are in Q.
FirstIn(Q, a, b, l) == l \in a .. b /\ l \in Q /\ \A m \in a .. l - 1 : m \notin Q

(* The topmost of some lines with a property that the last one has.        *)
LEMMA LineFound ==
  ASSUME NEW a \in Nat, NEW b \in Nat, a <= b, NEW Q, b \in Q
  PROVE  \E l : FirstIn(Q, a, b, l)
<1> DEFINE S == (a .. b) \cap Q
           l == Min(S)
<1>1. S \subseteq Nat /\ S # {}
  OBVIOUS
<1>2. l \in S /\ \A x \in S : l <= x
  <2> HIDE DEF S
  <2> QED
    BY <1>1, LeastOf
<1> HIDE DEF l
<1>3. \A m \in a .. l - 1 : m \notin Q
  <2> SUFFICES ASSUME NEW m \in a .. l - 1, m \in Q
               PROVE  FALSE
    OBVIOUS
  <2>1. l \in a .. b
    BY <1>2
  <2>2. m \in S /\ m < l
    BY <2>1
  <2> QED
    BY <1>2, <2>1, <2>2
<1> QED
  BY <1>2, <1>3 DEF FirstIn

(* The walk up over a doc comment ends at its first line, or at the floor. *)
LEMMA DocStartIs ==
  ASSUME NEW lines, NEW line \in Nat, NEW floor \in 1 .. line
  PROVE  LET d == DocStart(lines, line, floor)
         IN  /\ d \in floor .. line
             /\ \A l \in floor .. line :
                  (\A m \in l .. line - 1 : LooksComment(lines[m])) => d <= l
<1> DEFINE Q == {l \in floor .. line : \A m \in l .. line - 1 : LooksComment(lines[m])}
           Is(l) == /\ \A m \in l .. line - 1 : LooksComment(lines[m])
                    /\ l = floor \/ ~LooksComment(lines[l - 1])
           d == DocStart(lines, line, floor)
<1>1. line \in Q
  OBVIOUS
<1>2. PICK l \in floor .. line : l \in Q /\ \A m \in floor .. l - 1 : m \notin Q
  <2>1. floor \in Nat /\ floor <= line
    OBVIOUS
  <2> HIDE DEF Q
  <2>2. \E l : FirstIn(Q, floor, line, l)
    BY <1>1, <2>1, LineFound
  <2> QED
    BY <2>2 DEF FirstIn
<1>3. Is(l)
  <2> SUFFICES ASSUME l # floor, LooksComment(lines[l - 1])
               PROVE  FALSE
    BY <1>2
  <2>1. l - 1 \in floor .. l - 1 /\ l - 1 \in floor .. line
    OBVIOUS
  <2>2. \A m \in l - 1 .. line - 1 : m = l - 1 \/ m \in l .. line - 1
    OBVIOUS
  <2>3. l - 1 \in Q
    BY <1>2, <2>1, <2>2
  <2> QED
    BY <1>2, <2>1, <2>3
<1>4. d \in floor .. line /\ Is(d)
  BY <1>3 DEF DocStart
<1>5. ASSUME NEW k \in floor .. line, \A m \in k .. line - 1 : LooksComment(lines[m])
      PROVE  d <= k
  <2> SUFFICES ASSUME k < d
               PROVE  FALSE
    BY <1>4
  <2>1. d - 1 \in k .. line - 1 /\ d # floor
    BY <1>4
  <2> HIDE DEF d
  <2> QED
    BY <1>4, <1>5, <2>1
<1> HIDE DEF d
<1> QED
  BY <1>4, <1>5 DEF d

(* A window is some lines from where it starts, within its region.         *)
LEMMA WindowEndIs ==
  ASSUME NEW lines, IsLines(lines), NEW start \in 1 .. Len(lines), NEW to \in start .. Len(lines),
         NEW target \in Nat
  PROVE  WindowEnd(lines, start, to, target) \in start .. to
<1> DEFINE Q == {e \in start .. to : e = to \/ Cost(lines, start, e + 1) > target}
<1>0. Len(lines) \in Nat
  BY DEF IsLines
<1>1. to \in Q
  BY <1>0
<1>2. PICK e \in start .. to : e \in Q /\ \A m \in start .. e - 1 : m \notin Q
  <2>1. start \in Nat /\ to \in Nat /\ start <= to
    BY <1>0
  <2> HIDE DEF Q
  <2>2. \E e : FirstIn(Q, start, to, e)
    BY <1>1, <2>1, LineFound
  <2> QED
    BY <2>2 DEF FirstIn
<1>3. e = start \/ Cost(lines, start, e) <= target
  <2> SUFFICES ASSUME e # start
               PROVE  Cost(lines, start, e) <= target
    OBVIOUS
  <2>1. e - 1 \in start .. e - 1 /\ e - 1 \in start .. to /\ e - 1 # to /\ e - 1 + 1 = e
    BY <1>0
  <2>2. ~(Cost(lines, start, e) > target)
    BY <1>2, <2>1
  <2>3. start \in Nat /\ e \in Nat /\ start .. e \subseteq 1 .. Len(lines)
    BY <1>0
  <2>4. Cost(lines, start, e) \in Nat
    BY <2>3, CostIs
  <2> QED
    BY <2>2, <2>4
<1>4. e = to \/ Cost(lines, start, e + 1) > target
  BY <1>2
<1> QED
  BY <1>3, <1>4 DEF WindowEnd

(* The next window starts below the last, and leaves no line between them. *)
LEMMA NextStartIs ==
  ASSUME NEW lines, IsLines(lines), NEW start \in 1 .. Len(lines), NEW end \in start .. Len(lines),
         NEW overlap \in Nat
  PROVE  NextStart(lines, start, end, overlap) \in start + 1 .. end + 1
<1> DEFINE S == {b \in start .. end : b = start \/ Cost(lines, b + 1, end) >= overlap}
           b0 == Max(S)
           Is(b) == /\ b = start \/ Cost(lines, b + 1, end) >= overlap
                    /\ \A c \in b + 1 .. end : Cost(lines, c + 1, end) < overlap
           back == CHOOSE b \in start .. end : Is(b)
<1>0. Len(lines) \in Nat /\ start \in Nat /\ end \in Nat
  BY DEF IsLines
<1>1. S \subseteq Nat /\ S # {} /\ IsFiniteSet(S)
  <2>1. S \subseteq start .. end /\ start \in S
    BY <1>0
  <2>2. IsFiniteSet(start .. end)
    BY <1>0, IntervalFinite
  <2> HIDE DEF S
  <2>3. IsFiniteSet(S)
    BY <2>1, <2>2, FS_Subset
  <2> QED
    BY <1>0, <2>1, <2>3
<1>2. b0 \in S /\ \A x \in S : x <= b0
  <2> HIDE DEF S
  <2> QED
    BY <1>1, GreatestOf
<1> HIDE DEF b0
<1>3. ASSUME NEW c \in b0 + 1 .. end
      PROVE  Cost(lines, c + 1, end) < overlap
  <2>1. b0 \in start .. end
    BY <1>2
  <2>2. c \in start .. end /\ c # start /\ ~(c <= b0)
    BY <1>0, <2>1
  <2>3. ~(Cost(lines, c + 1, end) >= overlap)
    BY <1>2, <2>2
  <2>4. c + 1 \in Nat /\ c + 1 .. end \subseteq 1 .. Len(lines)
    BY <1>0, <2>2
  <2>5. Cost(lines, c + 1, end) \in Nat
    BY <1>0, <2>4, CostIs
  <2> QED
    BY <2>3, <2>5
<1>4. b0 \in start .. end /\ Is(b0)
  BY <1>2, <1>3
<1>5. back \in start .. end
  BY <1>4
<1>6. NextStart(lines, start, end, overlap) = IF back + 1 <= start THEN start + 1 ELSE back + 1
  BY DEF NextStart
<1> HIDE DEF back
<1> QED
  BY <1>0, <1>5, <1>6

-----------------------------------------------------------------------------

(* Anchors stand on lines of their own.                                    *)
LEMMA AnchorsAre ==
  ASSUME NEW syms, IsSymbols(syms), NEW count \in Nat
  PROVE  /\ \A a \in Anchors(syms, count) : a.line \in 1 .. count
         /\ \A a, b \in Anchors(syms, count) : a.line = b.line => a = b
<1> DEFINE all == Structural(syms, count)
           inner == {i \in all : ~Encloses(syms, i, all)}
<1>1. all \subseteq Nat /\ \A i \in all : syms[i].line \in 1 .. count
  BY DEF Structural, IsSymbols
<1>2. inner \subseteq Nat /\ \A i \in inner : syms[i].line \in 1 .. count
  BY <1>1
<1>3. Anchors(syms, count) = IF \A i, j \in inner : i < j => syms[i].line < syms[j].line
                             THEN {syms[i] : i \in inner} ELSE {}
  BY DEF Anchors
<1> HIDE DEF inner
<1>4. CASE \A i, j \in inner : i < j => syms[i].line < syms[j].line
  <2>1. \A i, j \in inner : syms[i].line = syms[j].line => i = j
    <3> SUFFICES ASSUME NEW i \in inner, NEW j \in inner, syms[i].line = syms[j].line, i # j
                 PROVE  FALSE
      OBVIOUS
    <3>1. i \in Nat /\ j \in Nat /\ syms[i].line \in Nat
      BY <1>2
    <3>2. i < j \/ j < i
      BY <3>1
    <3>3. ~(syms[i].line < syms[j].line) /\ ~(syms[j].line < syms[i].line)
      BY <3>1
    <3> QED
      BY <1>4, <3>2, <3>3
  <2> QED
    BY <1>2, <1>3, <1>4, <2>1
<1> QED
  BY <1>3, <1>4

\* Some anchors of some lines: each on a line of its own.
AreAnchors(lines, anchors) ==
  /\ Len(lines) \in Nat
  /\ \A a \in anchors : a.line \in 1 .. Len(lines)
  /\ \A a, b \in anchors : a.line = b.line => a = b

(* An anchor's region starts at the comment above it, below the anchor     *)
(* before.                                                                 *)
LEMMA StartIs ==
  ASSUME NEW lines, NEW anchors, AreAnchors(lines, anchors), NEW a \in anchors
  PROVE  LET s == AnchorStart(lines, anchors, a)
         IN  /\ s \in 1 .. a.line
             /\ \A b \in anchors : b.line < a.line => b.line < s
             /\ \A l \in 1 .. a.line :
                  (/\ \A m \in l .. a.line - 1 : LooksComment(lines[m])
                   /\ \A b \in anchors : b.line < a.line => b.line < l) => s <= l
<1> DEFINE above == {b.line : b \in {b \in anchors : b.line < a.line}}
           floor == IF above = {} THEN 1 ELSE Max(above) + 1
           s == AnchorStart(lines, anchors, a)
<1>1. a.line \in Nat /\ a.line > 0
  BY DEF AreAnchors
<1>2. above \subseteq 1 .. a.line - 1
  BY <1>1 DEF AreAnchors
<1>3. \A b \in anchors : b.line < a.line => b.line \in above
  OBVIOUS
<1>4. s = DocStart(lines, a.line, floor)
  BY DEF AnchorStart
<1> HIDE DEF above
<1>5. above # {} => Max(above) \in above /\ \A x \in above : x <= Max(above)
  <2>1. IsFiniteSet(1 .. a.line - 1)
    BY <1>1, IntervalFinite
  <2>2. IsFiniteSet(above)
    BY <1>2, <2>1, FS_Subset
  <2>3. above \subseteq Nat
    BY <1>1, <1>2
  <2> QED
    BY <2>2, <2>3, GreatestOf
<1>6. floor \in 1 .. a.line /\ \A b \in anchors : b.line < a.line => b.line < floor
  <2>1. CASE above = {}
    BY <1>1, <1>3, <2>1
  <2>2. CASE above # {}
    <3> DEFINE m == Max(above)
    <3>1. m \in 1 .. a.line - 1 /\ \A x \in above : x <= m
      BY <1>2, <1>5, <2>2
    <3>2. floor = m + 1
      BY <2>2
    <3> HIDE DEF m, floor
    <3>3. floor \in 1 .. a.line
      BY <1>1, <3>1, <3>2
    <3>4. ASSUME NEW b \in anchors, b.line < a.line
          PROVE  b.line < floor
      <4>1. b.line \in above /\ b.line \in Nat
        BY <1>3, <3>4 DEF AreAnchors
      <4> QED
        BY <3>1, <3>2, <4>1
    <3> QED
      BY <3>3, <3>4
  <2> QED
    BY <2>1, <2>2
<1>7. floor = 1 \/ \E b \in anchors : b.line < a.line /\ floor = b.line + 1
  <2>1. CASE above = {}
    BY <2>1
  <2>2. CASE above # {}
    <3>1. Max(above) \in above
      BY <1>5, <2>2
    <3>2. \A x \in above : \E b \in anchors : b.line < a.line /\ x = b.line
      BY DEF above
    <3> QED
      BY <2>2, <3>1, <3>2
  <2> QED
    BY <2>1, <2>2
<1> HIDE DEF floor, s
<1>8. /\ s \in floor .. a.line
      /\ \A l \in floor .. a.line : (\A m \in l .. a.line - 1 : LooksComment(lines[m])) => s <= l
  BY <1>1, <1>4, <1>6, DocStartIs
<1>9. \A b \in anchors : b.line < a.line => b.line < s
  BY <1>1, <1>6, <1>8 DEF AreAnchors
<1>10. ASSUME NEW l \in 1 .. a.line, \A m \in l .. a.line - 1 : LooksComment(lines[m]),
              \A b \in anchors : b.line < a.line => b.line < l
       PROVE  s <= l
  <2>1. floor <= l
    BY <1>6, <1>7, <1>10 DEF AreAnchors
  <2>2. l \in floor .. a.line
    BY <1>1, <1>6, <2>1
  <2> QED
    BY <1>8, <1>10, <2>2
<1>11. s \in 1 .. a.line
  BY <1>1, <1>6, <1>8
<1> QED
  BY <1>9, <1>10, <1>11 DEF s

(* It ends above the region of the next anchor, or with the file.          *)
LEMMA EndIs ==
  ASSUME NEW lines, NEW anchors, AreAnchors(lines, anchors), NEW a \in anchors
  PROVE  LET e == AnchorEnd(lines, anchors, a)
         IN  /\ e \in a.line .. Len(lines)
             /\ \A b \in anchors : b.line > a.line => e < AnchorStart(lines, anchors, b)
             /\ \/ e = Len(lines)
                \/ \E b \in anchors : e + 1 = AnchorStart(lines, anchors, b)
<1> DEFINE below == {AnchorStart(lines, anchors, b) : b \in {b \in anchors : b.line > a.line}}
           e == AnchorEnd(lines, anchors, a)
<1>0. Len(lines) \in Nat /\ a.line \in 1 .. Len(lines)
  BY DEF AreAnchors
<1>1. ASSUME NEW b \in anchors, b.line > a.line
      PROVE  AnchorStart(lines, anchors, b) \in a.line + 1 .. Len(lines)
  <2> DEFINE s == AnchorStart(lines, anchors, b)
  <2>1. s \in 1 .. b.line /\ a.line < s
    BY <1>1, StartIs
  <2>2. b.line \in 1 .. Len(lines)
    BY DEF AreAnchors
  <2> HIDE DEF s
  <2>3. s \in a.line + 1 .. Len(lines)
    BY <1>0, <2>1, <2>2
  <2> QED
    BY <2>3 DEF s
<1>2. below \subseteq a.line + 1 .. Len(lines)
  BY <1>1
<1>3. e = IF below = {} THEN Len(lines) ELSE Min(below) - 1
  BY DEF AnchorEnd
<1>4. \A b \in anchors : b.line > a.line => AnchorStart(lines, anchors, b) \in below
  OBVIOUS
<1>5. \A x \in below : \E b \in anchors : x = AnchorStart(lines, anchors, b)
  OBVIOUS
<1> HIDE DEF below, e
<1>6. CASE below = {}
  <2>1. \A b \in anchors : ~(b.line > a.line)
    BY <1>4, <1>6
  <2> QED
    BY <1>0, <1>3, <1>6, <2>1 DEF e
<1>7. CASE below # {}
  <2> DEFINE m == Min(below)
  <2>1. m \in below /\ \A x \in below : m <= x
    <3>1. below \subseteq Nat
      BY <1>0, <1>2
    <3> QED
      BY <1>7, <3>1, LeastOf
  <2>2. e = m - 1
    BY <1>3, <1>7
  <2> HIDE DEF m
  <2>3. m \in a.line + 1 .. Len(lines)
    BY <1>2, <2>1
  <2>4. e \in a.line .. Len(lines) /\ e + 1 = m
    BY <1>0, <2>2, <2>3
  <2>5. ASSUME NEW b \in anchors, b.line > a.line
        PROVE  e < AnchorStart(lines, anchors, b)
    <3> DEFINE s == AnchorStart(lines, anchors, b)
    <3>1. s \in below /\ s \in Nat
      BY <1>0, <1>1, <1>4, <2>5
    <3> HIDE DEF s
    <3>2. m <= s /\ e < s
      BY <2>1, <2>3, <2>4, <3>1
    <3> QED
      BY <3>2 DEF s
  <2>6. \E b \in anchors : e + 1 = AnchorStart(lines, anchors, b)
    BY <1>5, <2>1, <2>4
  <2> QED
    BY <2>4, <2>5, <2>6 DEF e
<1> QED
  BY <1>6, <1>7

\* What symbolRegions promises: the regions are parts of the file, every line
\* is in one and in no other, and an anchor's has its name and its lines.
Partitioned(lines, rs, anchors) ==
  /\ \A r \in rs : r.start \in 1 .. Len(lines) /\ r.end \in r.start .. Len(lines)
  /\ \A l \in 1 .. Len(lines) : \E r \in rs : l \in r.start .. r.end
  /\ \A r, q \in rs : r # q => r.end < q.start \/ q.end < r.start
  /\ \A a \in anchors : \E r \in rs :
       /\ r.sym = a /\ r.start = AnchorStart(lines, anchors, a) /\ a.line <= r.end

(* The regions partition the file.                                         *)
LEMMA RegionsAre ==
  ASSUME NEW lines, NEW syms, IsSymbols(syms), Len(lines) \in Nat, Len(lines) > 0
  PROVE  Partitioned(lines, SymbolRegions(lines, syms), Anchors(syms, Len(lines)))
<1> DEFINE anchors == Anchors(syms, Len(lines))
           S(a) == AnchorStart(lines, anchors, a)
           E(a) == AnchorEnd(lines, anchors, a)
           R(a) == [start |-> S(a), end |-> E(a), sym |-> a]
           owned == {R(a) : a \in anchors}
           starts == {r.start : r \in owned}
           first == Min(starts)
           head == [start |-> 1, end |-> first - 1, sym |-> NoSymbol]
           whole == [start |-> 1, end |-> Len(lines), sym |-> NoSymbol]
           rs == SymbolRegions(lines, syms)
           n == Len(lines)
<1>0. AreAnchors(lines, anchors)
  BY AnchorsAre DEF AreAnchors
<1>1. rs = IF anchors = {} THEN {whole} ELSE {r \in {head} \cup owned : r.start <= r.end}
  BY DEF SymbolRegions
<1> HIDE DEF anchors, rs, n
<1>2. CASE anchors = {}
  <2>1. rs = {whole} /\ whole.start = 1 /\ whole.end = n
    BY <1>1, <1>2 DEF n
  <2> HIDE DEF whole
  <2>2. /\ \A r \in rs : r.start \in 1 .. n /\ r.end \in r.start .. n
        /\ \A l \in 1 .. n : \E r \in rs : l \in r.start .. r.end
    BY <2>1 DEF n
  <2>3. \A r, q \in rs : r = q
    BY <2>1
  <2>4. Partitioned(lines, rs, anchors)
    BY <1>2, <2>2, <2>3 DEF Partitioned, n
  <2> QED
    BY <2>4 DEF rs, anchors
<1>3. CASE anchors # {}
  <2>1. \A a \in anchors : a.line \in 1 .. n /\ S(a) \in 1 .. a.line /\ E(a) \in a.line .. n
    BY <1>0, StartIs, EndIs DEF AreAnchors, n
  <2>2. \A a, b \in anchors : b.line > a.line => E(a) < S(b)
    BY <1>0, EndIs
  <2>3. \A a \in anchors : E(a) = n \/ \E b \in anchors : E(a) + 1 = S(b)
    BY <1>0, EndIs DEF n
  <2>4. n \in Nat /\ n > 0 /\ \A a, b \in anchors : a # b => a.line < b.line \/ b.line < a.line
    BY <1>0 DEF AreAnchors, n
  <2> DEFINE heads == {S(a) : a \in anchors}
  <2>9. \A a \in anchors : R(a).start = S(a) /\ R(a).end = E(a) /\ R(a).sym = a
    OBVIOUS
  <2> HIDE DEF S, E, R
  <2>5. starts = heads
    BY <2>9
  <2>6. heads \subseteq 1 .. n /\ heads # {}
    BY <1>3, <2>1, <2>4
  <2>7. first \in heads /\ \A a \in anchors : first <= S(a)
    <3>1. heads \subseteq Nat
      BY <2>4, <2>6
    <3>2. Min(heads) \in heads /\ \A x \in heads : Min(heads) <= x
      <4> HIDE DEF heads
      <4> QED
        BY <2>6, <3>1, LeastOf
    <3> QED
      BY <2>5, <3>2
  <2>8. head.start = 1 /\ head.end = first - 1
    OBVIOUS
  <2> HIDE DEF head, first
  <2>18. first \in Nat /\ (head.start <= head.end <=> first > 1)
    BY <2>4, <2>6, <2>7, <2>8
  <2>10. \A r \in rs : (r = head /\ first > 1) \/ \E a \in anchors : r = R(a)
    BY <1>1, <1>3, <2>18
  <2>11. \A a \in anchors : R(a) \in rs
    <3> SUFFICES ASSUME NEW a \in anchors
                 PROVE  R(a).start <= R(a).end
      BY <1>1, <1>3
    <3> QED
      BY <2>1, <2>4, <2>9
  <2>12. first > 1 => head \in rs
    BY <1>1, <1>3, <2>18
  <2>13. \A r \in rs : r.start \in 1 .. n /\ r.end \in r.start .. n
    BY <2>1, <2>4, <2>6, <2>7, <2>8, <2>9, <2>10
  <2>14. ASSUME NEW l \in 1 .. n
         PROVE  \E r \in rs : l \in r.start .. r.end
    <3> DEFINE up == {x \in heads : x <= l}
    <3>1. CASE up = {}
      <4>1. ~(first <= l) /\ first \in Nat
        BY <2>4, <2>6, <2>7, <3>1
      <4>2. first > 1 /\ l \in 1 .. first - 1
        BY <4>1
      <4> QED
        BY <2>8, <2>12, <4>2
    <3>2. CASE up # {}
      <4>1. Max(up) \in up /\ \A x \in up : x <= Max(up)
        <5>1. up \subseteq heads
          OBVIOUS
        <5> HIDE DEF up, heads
        <5>2. up \in SUBSET (1 .. n) /\ up \subseteq Nat
          BY <2>4, <2>6, <5>1
        <5>3. IsFiniteSet(1 .. n)
          BY <2>4, IntervalFinite
        <5>4. IsFiniteSet(up)
          BY <5>2, <5>3, FS_Subset
        <5> QED
          BY <3>2, <5>2, <5>4, GreatestOf
      <4>2. PICK a \in anchors : Max(up) = S(a)
        BY <4>1
      <4>3. S(a) <= l /\ \A b \in anchors : S(b) <= l => S(b) <= S(a)
        BY <4>1, <4>2
      <4>4. ~(E(a) < l)
        <5> SUFFICES ASSUME E(a) < l
                     PROVE  FALSE
          OBVIOUS
        <5>1. E(a) # n
          BY <2>4
        <5>2. PICK b \in anchors : E(a) + 1 = S(b)
          BY <2>3, <5>1
        <5>3. S(b) <= l
          BY <2>1, <2>4, <5>2
        <5>4. S(b) <= S(a) /\ S(a) <= E(a)
          BY <2>1, <2>4, <4>3, <5>3
        <5> QED
          BY <2>1, <2>4, <5>2, <5>4
      <4>5. l \in S(a) .. E(a)
        BY <2>1, <2>4, <4>3, <4>4
      <4> QED
        BY <2>9, <2>11, <4>5
    <3> QED
      BY <3>1, <3>2
  <2>15. ASSUME NEW r \in rs, NEW q \in rs, r # q
         PROVE  r.end < q.start \/ q.end < r.start
    <3>1. CASE r = head
      <4>1. PICK b \in anchors : q = R(b)
        BY <2>10, <2>15, <3>1
      <4>2. r.end = first - 1 /\ q.start = S(b) /\ first <= S(b)
        BY <2>7, <2>8, <2>9, <3>1, <4>1
      <4>3. first \in Nat /\ S(b) \in Nat
        BY <2>1, <2>4, <2>6, <2>7
      <4> QED
        BY <4>2, <4>3
    <3>2. CASE q = head
      <4>1. PICK b \in anchors : r = R(b)
        BY <2>10, <2>15, <3>2
      <4>2. q.end = first - 1 /\ r.start = S(b) /\ first <= S(b)
        BY <2>7, <2>8, <2>9, <3>2, <4>1
      <4>3. first \in Nat /\ S(b) \in Nat
        BY <2>1, <2>4, <2>6, <2>7
      <4> QED
        BY <4>2, <4>3
    <3>3. CASE r # head /\ q # head
      <4>1. PICK a \in anchors : r = R(a)
        BY <2>10, <3>3
      <4>2. PICK b \in anchors : q = R(b)
        BY <2>10, <3>3
      <4>3. a # b
        BY <2>15, <4>1, <4>2
      <4>4. a.line < b.line \/ b.line < a.line
        BY <2>4, <4>3
      <4>5. E(a) < S(b) \/ E(b) < S(a)
        BY <2>1, <2>2, <2>4, <4>4
      <4> QED
        BY <2>9, <4>1, <4>2, <4>5
    <3> QED
      BY <3>1, <3>2, <3>3
  <2>16. ASSUME NEW a \in anchors
         PROVE  \E r \in rs : r.sym = a /\ r.start = S(a) /\ a.line <= r.end
    BY <2>1, <2>4, <2>9, <2>11
  <2>17. Partitioned(lines, rs, anchors)
    BY <2>13, <2>14, <2>15, <2>16 DEF Partitioned, n, S
  <2> QED
    BY <2>17 DEF rs, anchors
<1> QED
  BY <1>2, <1>3

(* The pieces of a window that is too long are full but the last, and the  *)
(* last has at least a rune.                                               *)
LEMMA PiecesAre ==
  ASSUME NEW max \in Nat, max > 0, NEW size \in Nat, Tokens(size) > max
  PROVE  LET n == (size + 4 * max - 1) \div (4 * max)
         IN  /\ n \in Nat /\ n > 1
             /\ size - 4 * max * (n - 1) \in 1 .. 4 * max
<1> DEFINE d == 4 * max
           n == (size + d - 1) \div d
<1>1. d \in Nat /\ d > 0 /\ size > d
  BY DEF Tokens
<1> HIDE DEF d
<1>2. /\ n \in Int
      /\ d * n <= size + d - 1 /\ size + d - 1 < d * n + d
  BY <1>1
<1> HIDE DEF n
<1>3. n > 1
  <2> SUFFICES ASSUME n <= 1
               PROVE  FALSE
    BY <1>2
  <2>1. d * n <= d
    BY <1>1, <1>2
  <2> DEFINE dn == d * n
  <2>2. dn \in Int
    BY <1>1, <1>2
  <2> HIDE DEF dn
  <2> QED
    BY <1>1, <1>2, <2>1, <2>2 DEF dn
<1>4. d * (n - 1) = d * n - d
  BY <1>1, <1>2
<1>5. size - d * (n - 1) \in 1 .. d
  <2> DEFINE dn == d * n
             k == d * (n - 1)
  <2>1. dn \in Int /\ k = dn - d /\ dn <= size + d - 1 /\ size + d - 1 < dn + d
    BY <1>1, <1>2, <1>4
  <2> HIDE DEF dn, k
  <2>2. size - k \in 1 .. d
    BY <1>1, <2>1
  <2> QED
    BY <2>2 DEF k
<1> QED
  BY <1>2, <1>3, <1>5 DEF n, d

\* A passage the embedding endpoint takes.
Fits(c, max) == c.runes \in Nat /\ c.runes >= 1 /\ Tokens(c.runes) <= max

(* A window's passages are of the window, fit, and hold every line the     *)
(* lanes are owed of it.                                                   *)
LEMMA WindowIs ==
  ASSUME NEW lines, IsLines(lines), NEW a \in 1 .. Len(lines), NEW b \in a .. Len(lines),
         NEW sym, NEW opts, opts.max \in Nat, opts.max > 0, NEW strip
  PROVE  LET w == WindowChunks(lines, a, b, sym, opts, strip)
         IN  /\ \A c \in w : c.start = a /\ c.end = b /\ c.symbol = sym.name /\ Fits(c, opts.max)
             /\ \A l \in a .. b : Owed(lines, strip, l) => HeldBy(w, l)
<1> DEFINE w == WindowChunks(lines, a, b, sym, opts, strip)
           max == opts.max
           size == Runes(lines, a, b)
           n == Pieces(lines, a, b, max)
           amount(p) == IF n = 1 THEN size ELSE IF p < n THEN 4 * max ELSE size - 4 * max * (n - 1)
           part(p) == [start |-> a, end |-> b, symbol |-> sym.name, piece |-> p, pieces |-> n,
                       runes |-> amount(p), searched |-> Searched(lines, a, b, p, strip)]
<1>1. w = IF \A l \in a .. b : lines[l].kind = "blank" THEN {}
          ELSE {c \in {part(p) : p \in 1 .. n} : c.searched # {}}
  BY DEF WindowChunks
<1>2. \A p : /\ part(p).start = a /\ part(p).end = b /\ part(p).symbol = sym.name
             /\ part(p).piece = p /\ part(p).pieces = n /\ part(p).runes = amount(p)
             /\ part(p).searched = Searched(lines, a, b, p, strip)
  OBVIOUS
<1>3. size \in Nat /\ ((\E l \in a .. b : lines[l].kind # "blank") => size > 0)
  BY RunesAre
<1>4. n = IF Tokens(size) <= max THEN 1 ELSE (size + 4 * max - 1) \div (4 * max)
  BY DEF Pieces
<1>5. Tokens(size) \in Nat
  BY <1>3 DEF Tokens
<1> HIDE DEF w, size, n, part, max
<1>6. n \in Nat /\ n > 0
  BY <1>3, <1>4, <1>5, PiecesAre DEF max
<1>7. ASSUME size > 0, NEW p \in 1 .. n
      PROVE  amount(p) \in Nat /\ amount(p) >= 1 /\ Tokens(amount(p)) <= max
  <2>1. CASE Tokens(size) <= max
    BY <1>3, <1>4, <1>7, <2>1
  <2>2. CASE ~(Tokens(size) <= max)
    <3>1. max \in Nat /\ max > 0 /\ Tokens(size) > max
      BY <1>5, <2>2 DEF max
    <3>2. n > 1 /\ size - 4 * max * (n - 1) \in 1 .. 4 * max
      BY <1>3, <1>4, <2>2, <3>1, PiecesAre
    <3>3. amount(p) \in 1 .. 4 * max
      <4> DEFINE last == size - 4 * max * (n - 1)
      <4>1. last \in 1 .. 4 * max /\ amount(p) = IF p < n THEN 4 * max ELSE last
        BY <3>2
      <4> HIDE DEF last, amount
      <4> QED
        BY <3>1, <4>1
    <3> HIDE DEF amount
    <3> QED
      BY <3>1, <3>3 DEF Tokens
  <2> QED
    BY <2>1, <2>2
<1> HIDE DEF amount
<1>8. ASSUME NEW c \in w
      PROVE  c.start = a /\ c.end = b /\ c.symbol = sym.name /\ Fits(c, max)
  <2>1. size > 0
    BY <1>1, <1>3
  <2>2. PICK p \in 1 .. n : c = part(p)
    BY <1>1
  <2>3. amount(p) \in Nat /\ amount(p) >= 1 /\ Tokens(amount(p)) <= max
    BY <1>7, <2>1
  <2> QED
    BY <1>2, <2>2, <2>3 DEF Fits
<1>9. ASSUME NEW l \in a .. b, Owed(lines, strip, l)
      PROVE  HeldBy(w, l)
  <2>1. \A p \in 1 .. n : l \in Searched(lines, a, b, p, strip)
    BY <1>9 DEF Owed, Searched
  <2>2. \A p \in 1 .. n : part(p) \in w
    BY <1>1, <1>2, <1>9, <2>1 DEF Owed
  <2>3. 1 \in 1 .. n
    BY <1>6
  <2>4. \A p \in 1 .. part(1).pieces :
          /\ part(p) \in w /\ part(p).start = part(1).start /\ part(p).end = part(1).end
          /\ part(p).piece = p /\ l \in part(p).searched
    BY <1>2, <2>1, <2>2
  <2> QED
    BY <2>2, <2>3, <2>4 DEF HeldBy
<1> QED
  BY <1>8, <1>9 DEF w, max

\* The topmost region left is one of them, and none starts above it.
LEMMA TopmostIs ==
  ASSUME NEW rs, rs # {}, \A r \in rs : r.start \in Nat
  PROVE  Topmost(rs) \in rs
<1> DEFINE S == {r.start : r \in rs}
<1>1. S \subseteq Nat /\ S # {}
  OBVIOUS
<1>2. Min(S) \in S /\ \A x \in S : Min(S) <= x
  <2> HIDE DEF S
  <2> QED
    BY <1>1, LeastOf
<1>3. \E r \in rs : \A q \in rs : r.start <= q.start
  BY <1>2
<1> QED
  BY <1>3 DEF Topmost

\* What the file in hand comes to.
FileRegions == SymbolRegions(given.lines, given.syms)
FileAnchors == Anchors(given.syms, Len(given.lines))

\* The lines from a to b are in the passages, those that are owed.
AllHeld(a, b) ==
  \A l \in a .. b : Owed(given.lines, given.strip, l) => HeldBy(passages, l)

\* A passage is of one region, is named for it, and fits.
Sound(c) ==
  /\ Fits(c, Effective(given.opts).max)
  /\ \E r \in FileRegions : r.start <= c.start /\ c.end <= r.end /\ c.symbol = r.sym.name
  /\ c.start \in Nat /\ c.end \in Nat

\* Every region is windowed, or is a diagram, or is left; the topmost left is
\* windowed down to where the next window starts.
ChunkInv ==
  /\ given \in ChunkCases
  /\ cutting = "given" => passages = {}
  /\ \A c \in passages : Sound(c)
  /\ passages # {} => Len(given.lines) > 0
  /\ cutting = "windows" =>
       /\ Len(given.lines) > 0
       /\ regions # {} /\ regions \subseteq FileRegions
       /\ from \in Topmost(regions).start .. Topmost(regions).end
       /\ \A r \in FileRegions \ regions : r.sym.kind # "diagram" => AllHeld(r.start, r.end)
       /\ AllHeld(Topmost(regions).start, from - 1)
  /\ cutting = "done" =>
       \/ \A i \in 1 .. Len(given.lines) : given.lines[i].kind = "blank"
       \/ \A r \in FileRegions : r.sym.kind # "diagram" => AllHeld(r.start, r.end)

(* What the file in hand is.                                               *)
LEMMA GivenIs ==
  ASSUME given \in ChunkCases
  PROVE  /\ IsLines(given.lines) /\ IsSymbols(given.syms) /\ Len(given.lines) \in Nat
         /\ {given.opts.target, given.opts.max, given.opts.overlap} \subseteq Int
BY ChunkTables DEF IsLines, IsSymbols

(* A region's lines once it is windowed; the topmost of the ones left, when *)
(* there is one, is windowed down to nowhere.                               *)
LEMMA RegionDone ==
  ASSUME ChunkInv, cutting = "windows", NextRegion, given' = given,
         \A c \in passages' : Sound(c), passages \subseteq passages',
         Topmost(regions).sym.kind # "diagram" =>
           \A l \in Topmost(regions).start .. Topmost(regions).end :
             Owed(given.lines, given.strip, l) => HeldBy(passages', l)
  PROVE  ChunkInv'
<1> DEFINE rs == FileRegions
           top == Topmost(regions)
           left == regions \ {top}
<1>1. IsLines(given.lines) /\ IsSymbols(given.syms) /\ Len(given.lines) \in Nat /\ Len(given.lines) > 0
  BY GivenIs DEF ChunkInv
<1>2. rs' = rs /\ \A c : Sound(c)' <=> Sound(c)
  BY DEF FileRegions, Sound
<1>3. \A r \in rs : r.start \in Nat /\ r.start \in r.start .. r.end
  BY <1>1, RegionsAre DEF Partitioned, FileRegions
<1>4. regions # {} /\ regions \subseteq rs
  BY DEF ChunkInv
<1>5. \A l : HeldBy(passages, l) => HeldBy(passages', l)
  BY DEF HeldBy
<1>6. ASSUME NEW r \in rs \ left, r.sym.kind # "diagram"
      PROVE  AllHeld(r.start, r.end)'
  <2>1. CASE r = top
    BY <1>6, <2>1 DEF AllHeld
  <2>2. CASE r \notin regions
    <3>1. AllHeld(r.start, r.end)
      BY <1>6, <2>2 DEF ChunkInv
    <3> QED
      BY <1>5, <3>1 DEF AllHeld
  <2> QED
    BY <1>6, <2>1, <2>2
<1>7. CASE left = {}
  <2>1. cutting' = "done" /\ regions' = {}
    BY <1>7 DEF NextRegion
  <2>2. \A r \in rs : r.sym.kind # "diagram" => AllHeld(r.start, r.end)'
    BY <1>6, <1>7
  <2> QED
    BY <1>1, <1>2, <2>1, <2>2 DEF ChunkInv
<1>8. CASE left # {}
  <2>1. cutting' = "windows" /\ regions' = left /\ from' = Topmost(left).start
    BY <1>8 DEF NextRegion
  <2>2. Topmost(left) \in left
    BY <1>3, <1>4, <1>8, TopmostIs
  <2> HIDE DEF left
  <2>3. left \subseteq rs
    BY <1>4 DEF left
  <2>4. from' \in Topmost(left).start .. Topmost(left).end /\ from' \in Nat
    BY <1>3, <2>1, <2>2, <2>3
  <2>5. Topmost(regions') = Topmost(left)
    BY <2>1
  <2>6. AllHeld(Topmost(regions).start, from - 1)'
    <3>1. \A x \in Nat : x .. x - 1 = {}
      OBVIOUS
    <3>2. Topmost(regions').start .. from' - 1 = {}
      BY <2>1, <2>4, <2>5, <3>1
    <3> QED
      BY <3>2 DEF AllHeld
  <2>7. \A r \in FileRegions' \ regions' : r.sym.kind # "diagram" => AllHeld(r.start, r.end)'
    BY <1>2, <1>6, <2>1
  <2>8. /\ regions' # {} /\ regions' \subseteq FileRegions'
        /\ from' \in Topmost(regions').start .. Topmost(regions').end
    BY <1>2, <1>8, <2>1, <2>3, <2>4, <2>5
  <2> QED
    BY <1>1, <1>2, <2>1, <2>6, <2>7, <2>8 DEF ChunkInv
<1> QED
  BY <1>7, <1>8

(* The options a file is cut by.                                           *)
LEMMA SizesAre ==
  ASSUME given \in ChunkCases
  PROVE  LET o == Effective(given.opts)
         IN  o.target \in Nat /\ o.max \in Nat /\ o.max > 0 /\ o.overlap \in Nat
<1> DEFINE o == Effective(given.opts)
<1>1. o.target \in Nat /\ o.target > 0 /\ o.max \in Nat /\ o.max >= o.target /\ o.overlap \in Nat
  BY GivenIs, EffectiveIs
<1> HIDE DEF o
<1>2. o.target \in Nat /\ o.max \in Nat /\ o.max > 0 /\ o.overlap \in Nat
  BY <1>1
<1> QED
  BY <1>2 DEF o

(* A window's passages join; nothing is lost between it and the next.      *)
LEMMA WindowStep ==
  ASSUME ChunkInv, EmitWindow
  PROVE  ChunkInv'
<1> DEFINE top == Topmost(regions)
           opts == Effective(given.opts)
           end == WindowEnd(given.lines, from, top.end, opts.target)
           w == WindowChunks(given.lines, from, end, top.sym, opts, given.strip)
           next == NextStart(given.lines, from, end, opts.overlap)
           n == Len(given.lines)
<1>0. /\ cutting = "windows" /\ given' = given /\ passages' = passages \cup w
      /\ IF end >= top.end THEN NextRegion
         ELSE from' = next /\ regions' = regions /\ cutting' = cutting
  BY DEF EmitWindow
<1>1. /\ IsLines(given.lines) /\ IsSymbols(given.syms) /\ n \in Nat /\ n > 0
      /\ opts.target \in Nat /\ opts.max \in Nat /\ opts.max > 0 /\ opts.overlap \in Nat
  BY <1>0, GivenIs, SizesAre DEF ChunkInv
<1>2. \A r \in FileRegions : r.start \in 1 .. n /\ r.end \in r.start .. n
  BY <1>1, RegionsAre DEF Partitioned, FileRegions
<1>3. /\ regions # {} /\ regions \subseteq FileRegions /\ from \in top.start .. top.end
      /\ \A r \in FileRegions \ regions : r.sym.kind # "diagram" => AllHeld(r.start, r.end)
      /\ AllHeld(top.start, from - 1)
  BY <1>0 DEF ChunkInv
<1>4. top \in regions
  <2>1. \A r \in regions : r.start \in Nat
    BY <1>2, <1>3
  <2> QED
    BY <1>3, <2>1, TopmostIs
<1> HIDE DEF top, opts, n
<1>5. /\ top.start \in 1 .. n /\ top.end \in top.start .. n
      /\ from \in 1 .. n /\ top.end \in from .. n /\ from >= top.start
  BY <1>1, <1>2, <1>3, <1>4
<1>6. end \in from .. top.end
  BY <1>1, <1>5, WindowEndIs DEF n
<1> HIDE DEF end
<1>7. end \in from .. n /\ end \in Nat /\ from \in Nat
  BY <1>1, <1>5, <1>6
<1>8. /\ \A c \in w : c.start = from /\ c.end = end /\ c.symbol = top.sym.name /\ Fits(c, opts.max)
      /\ \A l \in from .. end : Owed(given.lines, given.strip, l) => HeldBy(w, l)
  BY <1>1, <1>5, <1>7, WindowIs DEF n
<1> HIDE DEF w
<1>9. \A c \in passages' : Sound(c)
  <2> SUFFICES ASSUME NEW c \in w
               PROVE  Sound(c)
    BY <1>0 DEF ChunkInv
  <2>1. top.start <= c.start /\ c.end <= top.end /\ c.symbol = top.sym.name /\ c.start \in Nat /\ c.end \in Nat
    BY <1>1, <1>5, <1>6, <1>7, <1>8
  <2>2. top \in FileRegions
    BY <1>3, <1>4
  <2> QED
    BY <1>8, <2>1, <2>2 DEF Sound, opts
<1>10. \A l : HeldBy(passages, l) \/ HeldBy(w, l) => HeldBy(passages', l)
  BY <1>0 DEF HeldBy
<1>11. \A l \in top.start .. end : Owed(given.lines, given.strip, l) => HeldBy(passages', l)
  <2> SUFFICES ASSUME NEW l \in top.start .. end, Owed(given.lines, given.strip, l)
               PROVE  HeldBy(passages', l)
    OBVIOUS
  <2>1. l \in top.start .. from - 1 \/ l \in from .. end
    BY <1>1, <1>5, <1>7
  <2> QED
    BY <1>3, <1>8, <1>10, <2>1 DEF AllHeld
<1>12. CASE end >= top.end
  <2>1. NextRegion /\ passages \subseteq passages'
    BY <1>0, <1>12
  <2>2. end = top.end
    BY <1>1, <1>5, <1>6, <1>12
  <2> QED
    BY <1>0, <1>9, <1>11, <2>1, <2>2, RegionDone DEF top
<1>13. CASE ~(end >= top.end)
  <2>1. from' = next /\ regions' = regions /\ cutting' = cutting
    BY <1>0, <1>13
  <2>2. next \in from + 1 .. end + 1
    BY <1>1, <1>5, <1>7, NextStartIs DEF n
  <2> HIDE DEF next
  <2>3. from' \in top.start .. top.end /\ from' - 1 \in Nat /\ from' - 1 <= end
    BY <1>1, <1>5, <1>6, <1>7, <1>13, <2>1, <2>2
  <2>4. /\ FileRegions' = FileRegions /\ Topmost(regions') = top
        /\ \A c : Sound(c)' <=> Sound(c)
    BY <1>0, <2>1 DEF FileRegions, Sound, top
  <2>5. \A r \in FileRegions' \ regions' : r.sym.kind # "diagram" => AllHeld(r.start, r.end)'
    BY <1>0, <1>3, <1>10, <2>1, <2>4 DEF AllHeld
  <2>6. AllHeld(Topmost(regions).start, from - 1)'
    <3>1. \A a, b, k \in Int : k <= b => \A l \in a .. k : l \in a .. b
      OBVIOUS
    <3>2. top.start \in Int /\ end \in Int /\ from' - 1 \in Int /\ from' - 1 <= end
      <4>1. top.start \in Int
        <5>1. n \in Nat /\ top.start \in 1 .. n
          BY <1>1, <1>5
        <5> QED
          BY <5>1
      <4>2. end \in Int
        BY <1>7
      <4>3. from' - 1 \in Int /\ from' - 1 <= end
        BY <2>3
      <4> QED
        BY <4>1, <4>2, <4>3
    <3>3. \A l \in top.start .. from' - 1 : l \in top.start .. end
      BY <3>1, <3>2
    <3> QED
      BY <1>0, <1>11, <2>4, <3>3 DEF AllHeld
  <2>7. Len(given.lines)' > 0 /\ given' \in ChunkCases
    BY <1>0, <1>1 DEF ChunkInv, n
  <2>8. /\ regions' # {} /\ regions' \subseteq FileRegions'
        /\ from' \in Topmost(regions').start .. Topmost(regions').end
    BY <1>3, <2>1, <2>3, <2>4
  <2> QED
    BY <1>0, <1>9, <2>1, <2>4, <2>5, <2>6, <2>7, <2>8 DEF ChunkInv
<1> QED
  BY <1>12, <1>13

(* The regions of a file that is not blank are there to window, and none   *)
(* is windowed yet.                                                        *)
LEMMA FileStep ==
  ASSUME ChunkInv, ChunkFile
  PROVE  ChunkInv'
<1>0. /\ given' = given /\ passages' = passages /\ cutting = "given" /\ given \in ChunkCases
      /\ passages = {} /\ FileRegions' = FileRegions
  BY DEF ChunkFile, ChunkInv, FileRegions
<1>1. CASE \A i \in 1 .. Len(given.lines) : given.lines[i].kind = "blank"
  <2>1. cutting' = "done"
    BY <1>1 DEF ChunkFile
  <2> QED
    BY <1>0, <1>1, <2>1 DEF ChunkInv
<1>2. CASE ~ \A i \in 1 .. Len(given.lines) : given.lines[i].kind = "blank"
  <2>1. cutting' = "windows" /\ regions' = FileRegions /\ from' = Topmost(regions').start
    BY <1>2 DEF ChunkFile, FileRegions
  <2>2. IsSymbols(given.syms) /\ Len(given.lines) \in Nat /\ Len(given.lines) > 0
    BY <1>0, <1>2, GivenIs
  <2>3. /\ \A r \in FileRegions : r.start \in 1 .. Len(given.lines) /\ r.end \in r.start .. Len(given.lines)
        /\ FileRegions # {}
    <3>1. 1 \in 1 .. Len(given.lines)
      BY <2>2
    <3> QED
      BY <2>2, <3>1, RegionsAre DEF Partitioned, FileRegions
  <2>4. Topmost(regions') \in FileRegions
    BY <2>1, <2>3, TopmostIs
  <2>5. from' \in Topmost(regions').start .. Topmost(regions').end /\ from' \in Nat
    BY <2>1, <2>2, <2>3, <2>4
  <2>6. AllHeld(Topmost(regions).start, from - 1)'
    <3>1. \A x \in Nat : x .. x - 1 = {}
      OBVIOUS
    <3>2. Topmost(regions').start .. from' - 1 = {}
      BY <2>1, <2>5, <3>1
    <3> QED
      BY <3>2 DEF AllHeld
  <2> QED
    BY <1>0, <2>1, <2>2, <2>3, <2>5, <2>6 DEF ChunkInv
<1> QED
  BY <1>1, <1>2

LEMMA ChunkStep ==
  ASSUME ChunkInv, [ChunkNext]_chunkVars
  PROVE  ChunkInv'
<1>1. CASE ChunkFile
  BY <1>1, FileStep
<1>2. CASE SkipDiagram
  <2>1. cutting = "windows" /\ NextRegion /\ given' = given /\ passages' = passages
        /\ Topmost(regions).sym.kind = "diagram"
    BY <1>2 DEF SkipDiagram
  <2>2. \A c \in passages' : Sound(c)
    BY <2>1 DEF ChunkInv
  <2> QED
    BY <2>1, <2>2, RegionDone
<1>3. CASE EmitWindow
  BY <1>3, WindowStep
<1>4. CASE UNCHANGED chunkVars
  BY <1>4 DEF chunkVars, ChunkInv, FileRegions, AllHeld, Sound, HeldBy
<1> QED
  BY <1>1, <1>2, <1>3, <1>4 DEF ChunkNext

LEMMA ChunkStart == ChunkInit => ChunkInv
BY DEF ChunkInit, ChunkInv

(* A line outside a diagram is in a region that was windowed.              *)
LEMMA KeptLines ==
  ASSUME ChunkInv
  PROVE  LinesKept
<1> SUFFICES ASSUME cutting = "done",
                    NEW l \in (1 .. Len(given.lines)) \ Undrawn,
                    Owed(given.lines, given.strip, l)
             PROVE  HeldBy(passages, l)
  BY DEF LinesKept, Owed, HeldBy
<1>1. IsSymbols(given.syms) /\ Len(given.lines) \in Nat /\ Len(given.lines) > 0
  BY GivenIs DEF ChunkInv
<1>2. PICK r \in FileRegions : l \in r.start .. r.end
  BY <1>1, RegionsAre DEF Partitioned, FileRegions
<1>3. r.sym.kind # "diagram"
  BY <1>2 DEF Undrawn, FileRegions
<1>4. AllHeld(r.start, r.end)
  BY <1>3 DEF ChunkInv, Owed
<1> QED
  BY <1>2, <1>4 DEF AllHeld

(* The comment lines above an anchor are in its region, and a passage that *)
(* holds one of them is of that region.                                    *)
LEMMA DocsTravel ==
  ASSUME ChunkInv
  PROVE  DocTravels
<1> DEFINE n == Len(given.lines)
<1> SUFFICES ASSUME NEW a \in FileAnchors, NEW l \in 1 .. a.line - 1,
                    \A m \in l .. a.line - 1 : given.lines[m].kind = "comment",
                    \A b \in FileAnchors : b.line < a.line => b.line < l,
                    NEW c \in passages, l \in c.start .. c.end
             PROVE  c.symbol = a.name
  BY DEF DocTravels, FileAnchors
<1>1. IsSymbols(given.syms) /\ n \in Nat /\ n > 0
  BY GivenIs DEF ChunkInv
<1>2. AreAnchors(given.lines, FileAnchors)
  BY <1>1, AnchorsAre DEF AreAnchors, FileAnchors
<1>3. /\ \A r \in FileRegions : r.start \in 1 .. n /\ r.end \in r.start .. n
      /\ \A r, q \in FileRegions : r # q => r.end < q.start \/ q.end < r.start
  BY <1>1, RegionsAre DEF Partitioned, FileRegions
<1>4. PICK r \in FileRegions :
        r.sym = a /\ r.start = AnchorStart(given.lines, FileAnchors, a) /\ a.line <= r.end
  BY <1>1, RegionsAre DEF Partitioned, FileRegions, FileAnchors
<1>5. a.line \in 1 .. n
  BY <1>2 DEF AreAnchors
<1>6. r.start <= l
  <2>1. l \in 1 .. a.line
    BY <1>1, <1>5
  <2>2. \A m \in l .. a.line - 1 : LooksComment(given.lines[m])
    BY DEF LooksComment
  <2> QED
    BY <1>2, <1>4, <2>1, <2>2, StartIs
<1>7. l \in r.start .. r.end
  BY <1>1, <1>3, <1>4, <1>5, <1>6
<1>8. PICK q \in FileRegions : q.start <= c.start /\ c.end <= q.end /\ c.symbol = q.sym.name
  BY DEF ChunkInv, Sound
<1>9. l \in q.start .. q.end
  <2>1. c.start \in Nat /\ c.end \in Nat
    BY DEF ChunkInv, Sound
  <2> QED
    BY <1>1, <1>3, <1>8, <2>1
<1>10. q = r
  BY <1>1, <1>3, <1>7, <1>9
<1> QED
  BY <1>4, <1>8, <1>10

(* A file is in the index as it is, whatever its lines, its symbols and    *)
(* the options: PassagesWhole.                                             *)
THEOREM NothingIsLost == ChunkSpec => []PassagesWhole
<1>1. ChunkInv => PassagesWhole
  <2>1. ChunkInv => PiecesBounded
    BY DEF ChunkInv, Sound, Fits, PiecesBounded
  <2> QED
    BY <2>1, KeptLines, DocsTravel DEF PassagesWhole
<1> QED
  BY <1>1, ChunkStart, ChunkStep, PTL DEF ChunkSpec

-----------------------------------------------------------------------------
(* The card of a routed turn.                                              *)

(* What BestFirst makes of a finite set whose members were met apart: a    *)
(* list of all of them, each once, that begins with a best one.            *)
LEMMA BestFirstIs ==
  ASSUME NEW cs, IsFiniteSet(cs), \A c \in cs : c.score \in Nat /\ c.met \in Nat,
         \A c, d \in cs : c.met = d.met => c = d
  PROVE  /\ BestFirst(cs) \in Seq(cs)
         /\ Len(BestFirst(cs)) = Cardinality(cs)
         /\ Range(BestFirst(cs)) = cs
         /\ \A m, n \in DOMAIN BestFirst(cs) : BestFirst(cs)[m] = BestFirst(cs)[n] => m = n
         /\ cs # {} => \A c \in cs : c.score <= BestFirst(cs)[1].score
<1> DEFINE Before(c) == {d \in cs : \/ d.score > c.score
                                    \/ d.score = c.score /\ d.met < c.met}
           N == Cardinality(cs)
           place(c) == Cardinality(Before(c)) + 1
           rank == [c \in cs |-> place(c)]
           s == [n \in 1 .. N |-> CHOOSE c \in cs : place(c) = n]
<1>0. BestFirst(cs) = s
  BY DEF BestFirst
<1>1. N \in Nat
  BY FS_CardinalityType
<1>2. ASSUME NEW c \in cs
      PROVE  /\ IsFiniteSet(Before(c)) /\ Cardinality(Before(c)) \in Nat
             /\ Cardinality(Before(c)) < N
  <2>1. Before(c) \in SUBSET cs /\ c \notin Before(c)
    OBVIOUS
  <2>2. IsFiniteSet(Before(c)) /\ Cardinality(Before(c)) <= N /\ Cardinality(Before(c)) # N
    BY <2>1, FS_Subset
  <2> QED
    BY <2>2, <1>1, FS_CardinalityType
<1> HIDE DEF Before
<1>3. ASSUME NEW c \in cs, NEW d \in cs, c # d
      PROVE  Cardinality(Before(c)) # Cardinality(Before(d))
  <2>1. ASSUME NEW x \in cs, NEW y \in cs, y \in Before(x)
        PROVE  Cardinality(Before(y)) < Cardinality(Before(x))
    <3>1. Before(y) \subseteq Before(x)
      BY <2>1 DEF Before
    <3>2. y \notin Before(y)
      BY DEF Before
    <3>3. Before(y) \in SUBSET Before(x) /\ Before(y) # Before(x)
      BY <3>1, <3>2, <2>1
    <3>4. Cardinality(Before(y)) <= Cardinality(Before(x)) /\ Cardinality(Before(y)) # Cardinality(Before(x))
      BY <3>3, <1>2, FS_Subset
    <3> QED
      BY <3>4, <1>2
  <2>2. d \in Before(c) \/ c \in Before(d)
    BY <1>3 DEF Before
  <2> QED
    BY <2>1, <2>2, <1>2
<1>4. rank \in [cs -> 1 .. N]
  BY <1>1, <1>2
<1>5. \A c, d \in cs : rank[c] = rank[d] => c = d
  BY <1>2, <1>3
<1> HIDE DEF rank
<1>6. rank \in Injection(cs, 1 .. N)
  BY <1>4, <1>5, Fun_IsInj
<1>7. IsFiniteSet(1 .. N) /\ Cardinality(1 .. N) = N
  BY <1>1, FS_Interval
<1>8. rank \in Surjection(cs, 1 .. N)
  BY <1>6, <1>7, FS_Injection
<1>9. \A n \in 1 .. N : \E c \in cs : rank[c] = n
  BY <1>8, Fun_SurjectionProperties
<1>11. \A c \in cs : rank[c] = place(c)
  BY DEF rank
<1>10. \A n \in 1 .. N : s[n] \in cs /\ rank[s[n]] = n
  <2> HIDE DEF place
  <2> QED
    BY <1>9, <1>11
<1> HIDE DEF s
<1>12. s \in [1 .. N -> cs]
  BY <1>10 DEF s
<1>13. s \in Seq(cs) /\ Len(s) = N /\ DOMAIN s = 1 .. N
  BY <1>12, <1>1
<1>14. \A c \in cs : rank[c] \in 1 .. N /\ s[rank[c]] = c
  BY <1>4, <1>10, <1>5
<1>15. Range(s) = cs
  BY <1>12, <1>14 DEF Range
<1>16. ASSUME cs # {}
       PROVE  \A c \in cs : c.score <= s[1].score
  <2>1. 1 \in 1 .. N
    BY <1>16, <1>14, <1>1
  <2>2. s[1] \in cs /\ rank[s[1]] = 1
    BY <2>1, <1>10
  <2>3. Cardinality(Before(s[1])) = 0
    BY <2>2, <1>2 DEF rank
  <2>4. Before(s[1]) = {}
    BY <2>3, <2>2, <1>2, FS_EmptySet
  <2> QED
    BY <2>4, <2>2 DEF Before
<1> QED
  BY <1>0, <1>13, <1>15, <1>10, <1>16

\* The hits of a turn, as retrieval returns them.
TurnHits(hs) == hs \in Seq(Range(hs)) /\ \A h \in Range(hs) : h.score \in Nat

(* The candidates of a turn: finitely many, each with hits of its own and  *)
(* the score of its best one, and every hit in one.                        *)
LEMMA CandidatesAre ==
  ASSUME NEW hs, TurnHits(hs), NEW by
  PROVE  LET cs == Candidates(hs, by) IN
         /\ IsFiniteSet(cs)
         /\ \A c \in cs : /\ c.score \in Nat /\ c.met \in Nat
                          /\ c.repos = {c.name}
                          /\ c.of \subseteq DOMAIN hs
         /\ \A c, d \in cs : c.met = d.met => c = d
         /\ \A i \in DOMAIN hs : \E c \in cs : i \in c.of /\ hs[i].score <= c.score
<1> DEFINE of(k) == {i \in DOMAIN hs : Place(hs[i], by) = k}
           made(k) == [repos |-> {k[1]}, key |-> k[2], name |-> k[1],
                       of |-> of(k), score |-> TopScore(hs, of(k)), met |-> Min(of(k))]
           cs == Candidates(hs, by)
           g == [i \in DOMAIN hs |-> made(Place(hs[i], by))]
<1>1. DOMAIN hs = 1 .. Len(hs) /\ Len(hs) \in Nat /\ \A i \in DOMAIN hs : hs[i].score \in Nat
  BY DEF TurnHits, Range
<1>2. IsFiniteSet(DOMAIN hs)
  BY <1>1, PlacesFinite
<1>3. cs = {made(k) : k \in {Place(hs[i], by) : i \in DOMAIN hs}}
  BY DEF Candidates
<1>4. ASSUME NEW i \in DOMAIN hs
      PROVE  LET k == Place(hs[i], by) IN
             /\ i \in of(k) /\ of(k) \subseteq DOMAIN hs
             /\ Min(of(k)) \in of(k)
             /\ TopScore(hs, of(k)) \in Nat /\ hs[i].score <= TopScore(hs, of(k))
  <2> DEFINE k == Place(hs[i], by)
             vals == {hs[j].score : j \in of(k)}
             f == [j \in of(k) |-> hs[j].score]
  <2>1. i \in of(k) /\ of(k) \subseteq DOMAIN hs
    OBVIOUS
  <2>2. of(k) \subseteq Nat /\ of(k) # {} /\ of(k) \in SUBSET (DOMAIN hs)
    BY <2>1, <1>1
  <2>3. IsFiniteSet(of(k))
    BY <2>2, <1>2, FS_Subset
  <2>4. f \in Surjection(of(k), vals)
    BY Fun_IsSurj
  <2>5. IsFiniteSet(vals)
    BY <2>3, <2>4, FS_Surjection
  <2>6. vals \subseteq Nat /\ hs[i].score \in vals
    BY <2>1, <1>1
  <2> HIDE DEF vals
  <2>7. Max(vals) \in vals /\ hs[i].score <= Max(vals)
    BY <2>5, <2>6, GreatestOf
  <2>8. TopScore(hs, of(k)) = Max(vals)
    BY DEF TopScore, vals
  <2> HIDE DEF of
  <2>9. Min(of(k)) \in of(k)
    BY <2>2, LeastOf
  <2> QED
    BY <2>1, <2>6, <2>7, <2>8, <2>9
<1>5. g \in Surjection(DOMAIN hs, cs)
  <2> HIDE DEF made
  <2>1. g \in [DOMAIN hs -> cs] /\ \A c \in cs : \E i \in DOMAIN hs : g[i] = c
    BY <1>3
  <2> HIDE DEF g
  <2> QED
    BY <2>1, Fun_IsSurj
<1>6. IsFiniteSet(cs)
  BY <1>5, <1>2, FS_Surjection
<1>7. ASSUME NEW c \in cs
      PROVE  /\ c.score \in Nat /\ c.met \in Nat /\ c.repos = {c.name} /\ c.of \subseteq DOMAIN hs
             /\ c.met \in DOMAIN hs /\ c = made(Place(hs[c.met], by))
  <2>1. PICK i \in DOMAIN hs : c = made(Place(hs[i], by))
    BY <1>3
  <2>2. Min(of(Place(hs[i], by))) \in of(Place(hs[i], by))
    BY <1>4
  <2>3. c.met \in of(Place(hs[i], by)) /\ c.score \in Nat
    BY <2>1, <2>2, <1>4
  <2>4. c.met \in DOMAIN hs /\ Place(hs[c.met], by) = Place(hs[i], by)
    BY <2>3
  <2> QED
    BY <2>1, <2>3, <2>4, <1>1
<1>8. ASSUME NEW c \in cs, NEW d \in cs, c.met = d.met
      PROVE  c = d
  <2> HIDE DEF made, cs
  <2>1. c = made(Place(hs[c.met], by)) /\ d = made(Place(hs[d.met], by))
    BY <1>7
  <2> QED
    BY <2>1, <1>8
<1>9. ASSUME NEW i \in DOMAIN hs
      PROVE  \E c \in cs : i \in c.of /\ hs[i].score <= c.score
  <2>1. made(Place(hs[i], by)) \in cs
    BY <1>3
  <2> QED
    BY <2>1, <1>4
<1> QED
  BY <1>6, <1>7, <1>8, <1>9

(* What is worth offering: candidates, the leader among them where none    *)
(* near it has code, and then nothing farther off that has any counts.     *)
LEMMA OfferedAre ==
  ASSUME NEW hs, NEW cs, IsFiniteSet(cs), \A c \in cs : c.score \in Nat
  PROVE  LET ws == WorthOffering(hs, cs) IN
         /\ ws \in SUBSET cs
         /\ \A c \in ws : OnlySupporting(hs, c) =>
              \E l \in ws : /\ \A k \in cs : k.score <= l.score
                            /\ \A k \in cs : \/ OnlySupporting(hs, k)
                                             \/ k.score * FloorDen < l.score * FloorNum
<1> DEFINE ws == WorthOffering(hs, cs)
           vals == {c.score : c \in cs}
           lead == Max(vals)
           worth == {c \in cs : lead > 0 => c.score * FloorDen >= lead * FloorNum}
           code == {c \in worth : ~OnlySupporting(hs, c)}
           f == [c \in cs |-> c.score]
<1>1. ws = IF code = {} THEN worth ELSE code
  BY DEF WorthOffering
<1>2. ws \in SUBSET cs
  BY <1>1
<1>3. ASSUME NEW c \in ws, OnlySupporting(hs, c)
      PROVE  \E l \in ws : /\ \A k \in cs : k.score <= l.score
                           /\ \A k \in cs : \/ OnlySupporting(hs, k)
                                            \/ k.score * FloorDen < l.score * FloorNum
  <2>1. code = {} /\ ws = worth
    BY <1>1, <1>3
  <2>2. f \in Surjection(cs, vals)
    BY Fun_IsSurj
  <2>3. IsFiniteSet(vals)
    BY <2>2, FS_Surjection
  <2>4. vals \subseteq Nat /\ vals # {}
    BY <1>2, <1>3
  <2>5. \A k \in cs : k.score \in vals
    OBVIOUS
  <2>6. \A v \in vals : \E l \in cs : l.score = v
    OBVIOUS
  <2> HIDE DEF vals
  <2>7. lead \in vals /\ \A v \in vals : v <= lead
    BY <2>3, <2>4, GreatestOf
  <2>8. PICK l \in cs : l.score = lead
    BY <2>7, <2>6
  <2>9. lead \in Nat
    BY <2>7, <2>4
  <2> HIDE DEF lead
  <2>10. lead * FloorDen >= lead * FloorNum /\ lead * FloorDen \in Nat /\ lead * FloorNum \in Nat
    BY <2>9, RoutedTurns
  <2>11. l \in worth
    BY <2>8, <2>10
  <2>12. \A k \in cs : k.score <= l.score
    BY <2>5, <2>7, <2>8
  <2>13. ASSUME NEW k \in cs, ~OnlySupporting(hs, k)
         PROVE  k.score * FloorDen < lead * FloorNum
    <3>1. k \notin worth
      BY <2>1, <2>13
    <3>2. ~(k.score * FloorDen >= lead * FloorNum)
      BY <3>1
    <3>3. k.score * FloorDen \in Nat
      BY RoutedTurns
    <3> QED
      BY <3>2, <3>3, <2>10
  <2> QED
    BY <2>1, <2>8, <2>11, <2>12, <2>13
<1> QED
  BY <1>2, <1>3

\* A list of entries, each once, with a score each.
Listed(s) ==
  /\ s \in Seq(Range(s))
  /\ \A m, n \in DOMAIN s : s[m] = s[n] => m = n
  /\ \A n \in DOMAIN s : s[n].score \in Nat

\* What the ladder reads of a ranking: single repositories, and no candidate
\* without code where a hit near the leader has some.
RankedSound(hs, r) ==
  /\ Listed(r)
  /\ \A n \in DOMAIN r : r[n].repos = {r[n].name}
  /\ \A c \in Range(r) : OnlySupporting(hs, c) =>
       \A h \in Range(hs) : h.supporting \/ h.score * FloorDen < r[1].score * FloorNum

LEMMA RankedIs ==
  ASSUME NEW hs, TurnHits(hs), NEW by
  PROVE  RankedSound(hs, Ranked(hs, by))
<1> DEFINE cs == Candidates(hs, by)
           ws == WorthOffering(hs, cs)
           r == Ranked(hs, by)
<1>1. /\ IsFiniteSet(cs)
      /\ \A c \in cs : /\ c.score \in Nat /\ c.met \in Nat
                       /\ c.repos = {c.name}
                       /\ c.of \subseteq DOMAIN hs
      /\ \A c, d \in cs : c.met = d.met => c = d
      /\ \A i \in DOMAIN hs : \E c \in cs : i \in c.of /\ hs[i].score <= c.score
  BY CandidatesAre
<1>2. r = BestFirst(ws)
  BY DEF Ranked
<1> HIDE DEF cs
<1>3. /\ ws \in SUBSET cs
      /\ \A c \in ws : OnlySupporting(hs, c) =>
           \E l \in ws : /\ \A k \in cs : k.score <= l.score
                         /\ \A k \in cs : \/ OnlySupporting(hs, k)
                                          \/ k.score * FloorDen < l.score * FloorNum
  BY <1>1, OfferedAre
<1> HIDE DEF ws
<1>4. IsFiniteSet(ws)
  BY <1>1, <1>3, FS_Subset
<1>5. \A c \in ws : c.score \in Nat /\ c.met \in Nat
  BY <1>1, <1>3
<1>6. \A c, d \in ws : c.met = d.met => c = d
  BY <1>1, <1>3
<1>7. /\ r \in Seq(ws)
      /\ Range(r) = ws
      /\ \A m, n \in DOMAIN r : r[m] = r[n] => m = n
      /\ ws # {} => \A c \in ws : c.score <= r[1].score
  BY <1>2, <1>4, <1>5, <1>6, BestFirstIs
<1> HIDE DEF r
<1>8. \A n \in DOMAIN r : r[n] \in ws
  BY <1>7
<1>9. Listed(r) /\ \A n \in DOMAIN r : r[n].repos = {r[n].name}
  BY <1>7, <1>8, <1>5, <1>3, <1>1 DEF Listed
<1>10. ASSUME NEW c \in Range(r), OnlySupporting(hs, c), NEW h \in Range(hs), ~h.supporting
       PROVE  h.score * FloorDen < r[1].score * FloorNum
  <2>1. PICK l \in ws : /\ \A k \in cs : k.score <= l.score
                        /\ \A k \in cs : \/ OnlySupporting(hs, k)
                                         \/ k.score * FloorDen < l.score * FloorNum
    BY <1>3, <1>7, <1>10
  <2>2. PICK i \in DOMAIN hs : hs[i] = h
    BY DEF Range
  <2>3. PICK k \in cs : i \in k.of /\ hs[i].score <= k.score
    BY <1>1
  <2>4. ~OnlySupporting(hs, k)
    BY <2>2, <2>3, <1>10 DEF OnlySupporting
  <2>5. k.score * FloorDen < l.score * FloorNum
    BY <2>1, <2>4
  <2>6. l.score \in Nat /\ r[1].score \in Nat /\ l.score = r[1].score
    <3>1. PICK n \in DOMAIN r : r[n] = l
      BY <1>7 DEF Range
    <3>2. DOMAIN r = 1 .. Len(r) /\ Len(r) \in Nat
      BY <1>7
    <3>3. 1 \in DOMAIN r
      BY <3>1, <3>2
    <3>4. r[1] \in ws
      BY <3>3, <1>8
    <3>5. l.score \in Nat /\ r[1].score \in Nat
      BY <3>4, <1>5
    <3>6. l.score <= r[1].score
      BY <1>7, <2>1
    <3>7. r[1].score <= l.score
      BY <3>4, <2>1, <1>3
    <3> QED
      BY <3>5, <3>6, <3>7
  <2>7. h.score \in Nat /\ k.score \in Nat /\ h.score <= k.score
    BY <2>2, <2>3, <1>1 DEF TurnHits
  <2>8. h.score * FloorDen <= k.score * FloorDen
    BY <2>7, RoutedTurns
  <2>9. /\ h.score * FloorDen \in Nat /\ k.score * FloorDen \in Nat
    BY <2>7, RoutedTurns
  <2>10. l.score * FloorNum \in Nat /\ l.score * FloorNum = r[1].score * FloorNum
    BY <2>6, RoutedTurns
  <2> QED
    BY <2>5, <2>8, <2>9, <2>10
<1> QED
  BY <1>9, <1>10 DEF RankedSound, r

(* What is cut off the end of a list leaves the rest as it was.            *)
LEMMA CutIs ==
  ASSUME NEW s, Listed(s), NEW n \in Nat
  PROVE  /\ Listed(Cut(s, n))
         /\ Len(Cut(s, n)) = IF Len(s) < n THEN Len(s) ELSE n
         /\ \A i \in DOMAIN Cut(s, n) : i \in DOMAIN s /\ Cut(s, n)[i] = s[i]
<1> DEFINE k == IF Len(s) < n THEN Len(s) ELSE n
           c == Cut(s, n)
<1>1. Len(s) \in Nat /\ DOMAIN s = 1 .. Len(s) /\ k \in Nat /\ k <= Len(s)
  BY DEF Listed
<1>2. c = SubSeq(s, 1, k)
  BY DEF Cut
<1>3. Len(c) = k /\ DOMAIN c = 1 .. k /\ \A i \in 1 .. k : c[i] = s[i]
  BY <1>1, <1>2 DEF Listed
<1>4. \A i \in DOMAIN c : i \in DOMAIN s /\ c[i] = s[i]
  BY <1>1, <1>3
<1>5. c \in Seq(Range(s))
  BY <1>1, <1>2 DEF Listed
<1>6. c \in Seq(Range(c))
  BY <1>3, <1>5 DEF Range
<1> HIDE DEF c
<1> QED
  BY <1>3, <1>4, <1>6 DEF Listed, c

(* A list without repetition has as many members as places.                *)
LEMMA ListedCount ==
  ASSUME NEW s, Listed(s)
  PROVE  Cardinality(Range(s)) = Len(s)
<1>1. s \in [1 .. Len(s) -> Range(s)] /\ Len(s) \in Nat
  BY DEF Listed
<1>2. \A y \in Range(s) : \E n \in 1 .. Len(s) : s[n] = y
  BY <1>1 DEF Range
<1>3. s \in Bijection(1 .. Len(s), Range(s))
  BY <1>1, <1>2, Fun_IsBij DEF Listed
<1>4. ExistsBijection(1 .. Len(s), Range(s))
  BY <1>3 DEF ExistsBijection
<1> QED
  BY <1>1, <1>4, FS_CountingElements

-----------------------------------------------------------------------------
(* An entry that gathers places of a list has a score.                     *)
LEMMA EntryScored ==
  ASSUME NEW cs, Listed(cs), NEW at, at \subseteq DOMAIN cs, at # {},
         NEW repos, NEW name, NEW met
  PROVE  Entry(cs, repos, name, at, met).score \in Nat
<1> DEFINE vals == {cs[n].score : n \in at}
           f == [n \in at |-> cs[n].score]
<1>1. DOMAIN cs = 1 .. Len(cs) /\ Len(cs) \in Nat
  BY DEF Listed
<1>2. IsFiniteSet(DOMAIN cs)
  BY <1>1, PlacesFinite
<1>3. IsFiniteSet(at)
  BY <1>2, FS_Subset
<1>4. f \in Surjection(at, vals)
  BY Fun_IsSurj
<1>5. IsFiniteSet(vals)
  BY <1>3, <1>4, FS_Surjection
<1>6. vals \subseteq Nat /\ vals # {}
  BY DEF Listed
<1> HIDE DEF vals
<1>7. Max(vals) \in Nat
  BY <1>5, <1>6, GreatestOf
<1> QED
  BY <1>7 DEF Entry, vals

(* The positions of a list are numbers: a set of them has a least one.     *)
LEMMA FirstPlace ==
  ASSUME NEW cs, Listed(cs), NEW at, at \subseteq DOMAIN cs, at # {}
  PROVE  Min(at) \in at /\ Min(at) \in Nat /\ 1 <= Min(at) /\ Min(at) <= Len(cs)
<1>1. DOMAIN cs = 1 .. Len(cs) /\ Len(cs) \in Nat
  BY DEF Listed
<1>2. at \subseteq Nat
  BY <1>1
<1>3. Min(at) \in at
  BY <1>2, LeastOf
<1> QED
  BY <1>1, <1>3

\* The entries e makes of the members of D.
EachOf(e, D) == {e[p] : p \in D}

(* Many entries, made one for each member of a finite set and met apart,   *)
(* come best first as a list as long as the set.                           *)
LEMMA BestOfEach ==
  ASSUME NEW D, IsFiniteSet(D), NEW e,
         \A p \in D : e[p].score \in Nat /\ e[p].met \in Nat,
         \A p, q \in D : e[p].met = e[q].met => p = q
  PROVE  LET b == BestFirst(EachOf(e, D)) IN
         /\ Listed(b) /\ Len(b) = Cardinality(D)
         /\ \A n \in DOMAIN b : \E p \in D : b[n] = e[p]
         /\ \A p \in D : \E n \in DOMAIN b : b[n] = e[p]
<1> DEFINE f == [p \in D |-> e[p]]
           T == EachOf(e, D)
           b == BestFirst(T)
<1>1. f \in Bijection(D, T)
  <2>1. f \in [D -> T] /\ (\A p, q \in D : f[p] = f[q] => p = q) /\ \A t \in T : \E p \in D : f[p] = t
    BY DEF EachOf
  <2> HIDE DEF f
  <2> QED
    BY <2>1, Fun_IsBij
<1>2. ExistsBijection(D, T)
  BY <1>1 DEF ExistsBijection
<1>3. IsFiniteSet(T) /\ Cardinality(T) = Cardinality(D)
  BY <1>2, FS_Bijection
<1>4. \A c \in T : c.score \in Nat /\ c.met \in Nat
  BY DEF EachOf
<1>5. \A c, d \in T : c.met = d.met => c = d
  BY DEF EachOf
<1>6. \A c \in T : \E p \in D : c = e[p]
  BY DEF EachOf
<1>7. \A p \in D : e[p] \in T
  BY DEF EachOf
<1> HIDE DEF T
<1>8. /\ b \in Seq(T)
      /\ Len(b) = Cardinality(T)
      /\ Range(b) = T
      /\ \A m, n \in DOMAIN b : b[m] = b[n] => m = n
  BY <1>3, <1>4, <1>5, BestFirstIs
<1> HIDE DEF b
<1>9. \A n \in DOMAIN b : b[n] \in T
  BY <1>8
<1>10. Listed(b)
  BY <1>4, <1>8, <1>9 DEF Listed
<1>11. \A p \in D : \E n \in DOMAIN b : b[n] = e[p]
  BY <1>7, <1>8 DEF Range
<1>12. \A n \in DOMAIN b : \E p \in D : b[n] = e[p]
  BY <1>9, <1>6
<1> QED
  BY <1>3, <1>8, <1>10, <1>11, <1>12 DEF b, T

\* One entry a repository, the repositories those of cs.
RepoList(rc, cs) ==
  /\ Listed(rc)
  /\ \A n \in DOMAIN rc : rc[n].repos = {rc[n].name} /\ rc[n].key = ""
  /\ \A m, n \in DOMAIN rc : rc[m].name = rc[n].name => m = n
  /\ ReposOf(rc) = ReposOf(cs)

LEMMA RepoCandidatesAre ==
  ASSUME NEW cs, Listed(cs), \A n \in DOMAIN cs : cs[n].repos = {cs[n].name}
  PROVE  RepoList(RepoCandidates(cs), cs)
<1> DEFINE D == {cs[n].name : n \in DOMAIN cs}
           at(r) == {n \in DOMAIN cs : cs[n].name = r}
           e == [r \in D |-> Entry(cs, {r}, r, at(r), Min(at(r)))]
           f == [n \in DOMAIN cs |-> cs[n].name]
           T == EachOf(e, D)
           b == RepoCandidates(cs)
<1>1. IsFiniteSet(D)
  <2>1. DOMAIN cs = 1 .. Len(cs) /\ Len(cs) \in Nat
    BY DEF Listed
  <2>2. IsFiniteSet(DOMAIN cs)
    BY <2>1, PlacesFinite
  <2>3. f \in Surjection(DOMAIN cs, D)
    BY Fun_IsSurj
  <2> QED
    BY <2>2, <2>3, FS_Surjection
<1>2. \A r \in D : at(r) \subseteq DOMAIN cs /\ at(r) # {}
  OBVIOUS
<1>3. b = BestFirst(T)
  <2>1. T = {Entry(cs, {r}, r, at(r), Min(at(r))) : r \in D}
    BY DEF EachOf
  <2> QED
    BY <2>1 DEF RepoCandidates
<1> HIDE DEF b
<1>4. \A r \in D : e[r].repos = {r} /\ e[r].key = "" /\ e[r].name = r /\ e[r].met = Min(at(r))
  BY DEF Entry
<1>5. \A r \in D : e[r].score = Entry(cs, {r}, r, at(r), Min(at(r))).score
  OBVIOUS
<1>6. ASSUME NEW r \in D
      PROVE  e[r].score \in Nat /\ e[r].met \in Nat /\ e[r].met \in DOMAIN cs /\ cs[e[r].met].name = r
  <2>1. at(r) \subseteq DOMAIN cs /\ at(r) # {} /\ \A n \in at(r) : cs[n].name = r
    BY <1>2
  <2> HIDE DEF at, e
  <2>2. Min(at(r)) \in at(r) /\ Min(at(r)) \in Nat
    BY <2>1, FirstPlace
  <2>3. Entry(cs, {r}, r, at(r), Min(at(r))).score \in Nat
    BY <2>1, EntryScored
  <2> QED
    BY <2>1, <2>2, <2>3, <1>4, <1>5
<1>7. \A n \in DOMAIN cs : cs[n].name \in D
  OBVIOUS
<1>8. \A r \in D : \E n \in DOMAIN cs : cs[n].name = r
  OBVIOUS
<1>9. \A r \in D : e[r].repos = {r} /\ e[r].key = "" /\ e[r].name = r
  BY <1>4
<1> HIDE DEF e, D, at
<1>10. \A p, q \in D : e[p].met = e[q].met => p = q
  BY <1>6
<1>11. /\ Listed(b) /\ Len(b) = Cardinality(D)
       /\ \A n \in DOMAIN b : \E p \in D : b[n] = e[p]
       /\ \A p \in D : \E n \in DOMAIN b : b[n] = e[p]
  BY <1>1, <1>3, <1>6, <1>10, BestOfEach
<1>12. ASSUME NEW n \in DOMAIN b
       PROVE  b[n].repos = {b[n].name} /\ b[n].key = "" /\ b[n].name \in D /\ b[n] = e[b[n].name]
  <2>1. PICK p \in D : b[n] = e[p]
    BY <1>11
  <2> QED
    BY <2>1, <1>9
<1>13. ASSUME NEW m \in DOMAIN b, NEW n \in DOMAIN b, b[m].name = b[n].name
       PROVE  m = n
  <2>1. b[m] = b[n]
    BY <1>12, <1>13
  <2> QED
    BY <2>1, <1>11 DEF Listed
<1>14. \A x : x \in ReposOf(b) <=> \E n \in DOMAIN b : x \in b[n].repos
  BY DEF ReposOf, Range
<1>15. ASSUME NEW x
       PROVE  x \in ReposOf(b) <=> x \in D
  <2>1. ASSUME x \in D PROVE x \in ReposOf(b)
    <3>1. PICK n \in DOMAIN b : b[n] = e[x]
      BY <1>11, <2>1
    <3> QED
      BY <3>1, <1>9, <1>14, <2>1
  <2>2. ASSUME x \in ReposOf(b) PROVE x \in D
    <3>1. PICK n \in DOMAIN b : x \in b[n].repos
      BY <1>14, <2>2
    <3> QED
      BY <3>1, <1>12
  <2> QED
    BY <2>1, <2>2
<1>16. \A x : x \in ReposOf(cs) <=> x \in D
  BY <1>7, <1>8 DEF ReposOf, Range
<1>17. ReposOf(b) = ReposOf(cs)
  BY <1>15, <1>16
<1> QED
  BY <1>11, <1>12, <1>13, <1>17 DEF RepoList, b

(* What Fold makes of finitely many repositories: finitely many entries,   *)
(* none empty; what is no library lies in one of them, and an entry that   *)
(* is libraries only is the one that stands alone.                         *)
LEMMA FoldIs ==
  ASSUME NEW g, NEW rs, IsFiniteSet(rs)
  PROVE  LET fold == Fold(g, rs)
             kept(p) == fold[p] \ Libraries(g)
         IN  /\ IsFiniteSet(DOMAIN fold)
             /\ \A p \in DOMAIN fold : fold[p] \subseteq rs
             /\ \A p, q \in DOMAIN fold : kept(p) \cap kept(q) # {} => p = q
             /\ \A p \in DOMAIN fold : kept(p) = {} => fold[p] = {p}
<1> DEFINE libs == rs \cap Libraries(g)
           fold == Fold(g, rs)
           kept(p) == fold[p] \ Libraries(g)
           alone == {l \in libs : UsedBy(g, l) \cap Present(g, rs) = {}}
           products == Present(g, rs)
           f == [r \in rs \ Libraries(g) |-> Of(g, r)]
<1>1. /\ DOMAIN fold = products \cup alone
      /\ \A p \in DOMAIN fold :
           fold[p] = {r \in rs \ libs : Of(g, r) = p} \cup {l \in libs : p \in UsedBy(g, l) \/ p = l}
  BY DEF Fold
<1>2. IsFiniteSet(products)
  <2>1. rs \ Libraries(g) \in SUBSET rs /\ IsFiniteSet(rs \ Libraries(g))
    BY FS_Subset
  <2>2. f \in [rs \ Libraries(g) -> products] /\ \A p \in products : \E r \in rs \ Libraries(g) : f[r] = p
    BY DEF Present
  <2> HIDE DEF f
  <2>3. f \in Surjection(rs \ Libraries(g), products)
    BY <2>2, Fun_IsSurj
  <2> QED
    BY <2>1, <2>3, FS_Surjection
<1>3. alone \in SUBSET rs /\ IsFiniteSet(alone)
  BY FS_Subset
<1>4. IsFiniteSet(DOMAIN fold)
  <2>1. DOMAIN fold = products \cup alone
    BY <1>1
  <2>2. IsFiniteSet(alone)
    BY <1>3
  <2> HIDE DEF fold, products, alone
  <2>3. IsFiniteSet(products \cup alone)
    BY <1>2, <2>2, FS_Union
  <2> QED
    BY <2>1, <2>3
<1>5. \A p : \A l : p \in UsedBy(g, l) => p \notin Libraries(g)
  BY DEF UsedBy
<1>6. \A p \in products : \E r \in rs \ Libraries(g) : Of(g, r) = p
  BY DEF Present
<1> HIDE DEF fold, products
<1>7. \A p \in DOMAIN fold : fold[p] \subseteq rs
  BY <1>1
<1>8. \A p \in DOMAIN fold : \A r \in kept(p) : Of(g, r) = p
  BY <1>1
<1>9. ASSUME NEW p \in DOMAIN fold, kept(p) = {}
      PROVE  fold[p] = {p}
  <2>1. p \notin products
    BY <1>1, <1>6, <1>9
  <2>2. p \in libs /\ p \in Libraries(g)
    BY <2>1, <1>1
  <2>3. \A l : p \notin UsedBy(g, l)
    BY <2>2, <1>5
  <2>4. p \in fold[p]
    BY <1>1, <2>2
  <2>5. \A r \in fold[p] : r \in Libraries(g)
    BY <1>9
  <2>6. \A r \in fold[p] : r = p
    BY <1>1, <2>3, <2>5
  <2> QED
    BY <2>4, <2>6
<1>10. \A p, q \in DOMAIN fold : kept(p) \cap kept(q) # {} => p = q
  BY <1>8
<1> QED
  BY <1>4, <1>7, <1>9, <1>10 DEF fold

(* The entries of a card of products: one a project, each of repositories  *)
(* the ranking holds.                                                      *)
LEMMA ProductCandidatesAre ==
  ASSUME NEW rc, NEW cs, RepoList(rc, cs)
  PROVE  LET b == ProductCandidates(rc) IN
         /\ Listed(b)
         /\ Len(b) = DistinctProjects(cs) /\ DistinctProjects(cs) \in Nat
         /\ \A n \in DOMAIN b : b[n].key = "" /\ b[n].repos \subseteq ReposOf(rc)
<1> DEFINE g == asked.corpus.grouping
           rs == ReposOf(rc)
           fold == Fold(g, rs)
           D == DOMAIN fold
           libs == Libraries(g)
           at(p) == {n \in DOMAIN rc : rc[n].name \in fold[p]}
           kept(p) == {n \in at(p) : rc[n].name \notin libs}
           met(p) == IF kept(p) # {} THEN Min(kept(p)) ELSE Len(rc) + Min(at(p))
           e == [p \in D |-> Entry(rc, fold[p], p, at(p), met(p))]
           f == [n \in DOMAIN rc |-> rc[n].name]
           b == ProductCandidates(rc)
<1>1. /\ Listed(rc) /\ DOMAIN rc = 1 .. Len(rc) /\ Len(rc) \in Nat
      /\ \A n \in DOMAIN rc : rc[n].repos = {rc[n].name}
      /\ \A m, n \in DOMAIN rc : rc[m].name = rc[n].name => m = n
      /\ rs = ReposOf(cs)
  <2>1. Listed(rc) /\ rc \in Seq(Range(rc))
    BY DEF RepoList, Listed
  <2>2. DOMAIN rc = 1 .. Len(rc) /\ Len(rc) \in Nat
    BY <2>1
  <2> QED
    BY <2>1, <2>2 DEF RepoList
<1>2. f \in [DOMAIN rc -> rs] /\ \A r \in rs : \E n \in DOMAIN rc : f[n] = r
  BY <1>1 DEF ReposOf, Range
<1>3. \A r \in rs : \E n \in DOMAIN rc : rc[n].name = r
  BY <1>2
<1>4. IsFiniteSet(rs)
  <2> HIDE DEF f, rs
  <2>1. IsFiniteSet(DOMAIN rc)
    BY <1>1, PlacesFinite
  <2>2. f \in Surjection(DOMAIN rc, rs)
    BY <1>2, Fun_IsSurj
  <2> QED
    BY <2>1, <2>2, FS_Surjection
<1> HIDE DEF rs
<1>5. /\ IsFiniteSet(D)
      /\ \A p \in D : fold[p] \subseteq rs
      /\ \A p, q \in D : (fold[p] \ libs) \cap (fold[q] \ libs) # {} => p = q
      /\ \A p \in D : fold[p] \ libs = {} => fold[p] = {p}
  BY <1>4, FoldIs
<1>6. b = BestFirst(EachOf(e, D))
  <2>1. EachOf(e, D) = {Entry(rc, fold[p], p, at(p), met(p)) : p \in D}
    BY DEF EachOf
  <2> QED
    BY <2>1 DEF ProductCandidates, rs
<1>7. Cardinality(D) = DistinctProjects(cs) /\ Cardinality(D) \in Nat
  BY <1>1, <1>5, FS_CardinalityType DEF DistinctProjects, Distinct
<1>8. \A p \in D : e[p].repos = fold[p] /\ e[p].key = "" /\ e[p].met = met(p)
  BY DEF Entry
<1>9. \A p \in D : e[p].score = Entry(rc, fold[p], p, at(p), met(p)).score
  OBVIOUS
<1> HIDE DEF fold, e, b
<1>10. ASSUME NEW p \in D
       PROVE  /\ at(p) \subseteq DOMAIN rc /\ at(p) # {}
              /\ kept(p) \subseteq at(p)
              /\ kept(p) = {} => \A n \in at(p) : rc[n].name = p
  <2>1. fold[p] # {}
    BY <1>5
  <2>2. PICK r \in fold[p] : r \in rs
    BY <2>1, <1>5
  <2>3. PICK n \in DOMAIN rc : rc[n].name = r
    BY <2>2, <1>3
  <2>4. ASSUME kept(p) = {}
        PROVE  fold[p] \ libs = {}
    <3>1. ASSUME NEW x \in fold[p], x \notin libs
          PROVE  FALSE
      <4>1. PICK m \in DOMAIN rc : rc[m].name = x
        BY <1>3, <1>5, <3>1
      <4> QED
        BY <4>1, <3>1, <2>4
    <3> QED
      BY <3>1
  <2>5. kept(p) = {} => \A m \in at(p) : rc[m].name = p
    BY <2>4, <1>5
  <2> QED
    BY <2>3, <2>5
<1>11. ASSUME NEW p \in D, NEW q \in D, NEW n \in kept(p), n \in kept(q)
       PROVE  p = q
  BY <1>5, <1>11
<1> HIDE DEF at, kept, libs
<1>12. ASSUME NEW p \in D
       PROVE  /\ e[p].score \in Nat /\ e[p].met \in Nat
              /\ kept(p) # {} => e[p].met \in kept(p) /\ e[p].met <= Len(rc)
              /\ kept(p) = {} => /\ e[p].met > Len(rc)
                                /\ e[p].met - Len(rc) \in DOMAIN rc
                                /\ rc[e[p].met - Len(rc)].name = p
  <2>1. at(p) \subseteq DOMAIN rc /\ at(p) # {} /\ kept(p) \subseteq at(p)
    BY <1>10
  <2>2. e[p].score \in Nat
    BY <2>1, <1>1, <1>9, EntryScored
  <2>3. Min(at(p)) \in at(p) /\ Min(at(p)) \in Nat /\ 1 <= Min(at(p))
    BY <2>1, <1>1, FirstPlace
  <2>4. CASE kept(p) # {}
    <3>1. kept(p) \subseteq DOMAIN rc
      BY <2>1
    <3>2. Min(kept(p)) \in kept(p) /\ Min(kept(p)) \in Nat /\ Min(kept(p)) <= Len(rc)
      BY <3>1, <2>4, <1>1, FirstPlace
    <3>3. e[p].met = Min(kept(p))
      BY <2>4, <1>8
    <3> QED
      BY <2>2, <2>4, <3>2, <3>3
  <2>5. CASE kept(p) = {}
    <3> DEFINE k == Min(at(p))
    <3>1. e[p].met = Len(rc) + k
      BY <2>5, <1>8
    <3>2. k \in DOMAIN rc /\ rc[k].name = p
      BY <2>1, <2>3, <2>5, <1>10
    <3>3. k \in Nat /\ 1 <= k
      BY <2>3
    <3> HIDE DEF k
    <3>4. e[p].met - Len(rc) = k /\ e[p].met > Len(rc) /\ e[p].met \in Nat
      BY <3>1, <3>3, <1>1
    <3> QED
      BY <2>2, <2>5, <3>2, <3>4
  <2> QED
    BY <2>4, <2>5
<1>13. ASSUME NEW p \in D, NEW q \in D, e[p].met = e[q].met
       PROVE  p = q
  <2>1. CASE kept(p) # {} /\ kept(q) # {}
    BY <2>1, <1>12, <1>11, <1>13
  <2>2. CASE kept(p) = {} /\ kept(q) = {}
    BY <2>2, <1>12, <1>13
  <2>3. CASE kept(p) # {} /\ kept(q) = {}
    BY <2>3, <1>12, <1>13, <1>1
  <2>4. CASE kept(p) = {} /\ kept(q) # {}
    BY <2>4, <1>12, <1>13, <1>1
  <2> QED
    BY <2>1, <2>2, <2>3, <2>4
<1> HIDE DEF D
<1>14. /\ Listed(b) /\ Len(b) = Cardinality(D)
       /\ \A n \in DOMAIN b : \E p \in D : b[n] = e[p]
  BY <1>5, <1>6, <1>12, <1>13, BestOfEach
<1>15. ASSUME NEW n \in DOMAIN b
       PROVE  b[n].key = "" /\ b[n].repos \subseteq rs
  <2>1. PICK p \in D : b[n] = e[p]
    BY <1>14
  <2> QED
    BY <2>1, <1>8, <1>5
<1> QED
  BY <1>7, <1>14, <1>15 DEF b, rs

(* How many projects a ranking spans is a number.                          *)
LEMMA SpanIsNumber ==
  ASSUME NEW hs, NEW r, RankedSound(hs, r)
  PROVE  /\ RepoList(RepoCandidates(r), r)
         /\ DistinctProjects(r) \in Nat
<1>1. Listed(r) /\ \A n \in DOMAIN r : r[n].repos = {r[n].name}
  BY DEF RankedSound
<1>2. RepoList(RepoCandidates(r), r)
  BY <1>1, RepoCandidatesAre
<1> QED
  BY <1>2, ProductCandidatesAre

\* No two entries of a card are joined by a manifest or a module link.
Unjoined(shown) ==
  \A a, b \in shown : a # b =>
    /\ \A r \in a.repos, s \in b.repos : ~AnyDependency({r, s})
    /\ (a.key # "" /\ b.key # "" /\ a.name = b.name) => ~AnyLinked(a.name, {a.key, b.key})

(* What the manifest rung found unrelated stays so for every card made of  *)
(* it, entry by entry.                                                     *)
LEMMA UnrelatedIsUnjoined ==
  ASSUME NEW seen, ~Related(seen), NEW shown,
         \A c \in shown : c.repos \subseteq ReposOf(seen),
         \A c \in shown : c.key # "" => c \in Range(seen) /\ c.repos = {c.name}
  PROVE  Unjoined(shown)
<1> SUFFICES ASSUME NEW a \in shown, NEW b \in shown, a # b
             PROVE  /\ \A r \in a.repos, s \in b.repos : ~AnyDependency({r, s})
                    /\ (a.key # "" /\ b.key # "" /\ a.name = b.name) => ~AnyLinked(a.name, {a.key, b.key})
  BY DEF Unjoined
<1>1. ASSUME NEW r \in a.repos, NEW s \in b.repos, AnyDependency({r, s})
      PROVE  FALSE
  <2>1. {r, s} \subseteq ReposOf(seen)
    OBVIOUS
  <2>2. AnyDependency(ReposOf(seen))
    BY <2>1, <1>1 DEF AnyDependency
  <2> QED
    BY <2>2 DEF Related
<1>2. ASSUME a.key # "", b.key # "", a.name = b.name, AnyLinked(a.name, {a.key, b.key})
      PROVE  FALSE
  <2> DEFINE keys == {c.key : c \in {c \in Range(seen) : c.name = a.name /\ c.key # ""}}
  <2>1. {a.key, b.key} \subseteq keys
    BY <1>2
  <2>2. AnyLinked(a.name, keys)
    BY <2>1, <1>2 DEF AnyLinked
  <2>3. a.name \in ReposOf(seen)
    BY <1>2
  <2> QED
    BY <2>2, <2>3 DEF Related
<1> QED
  BY <1>1, <1>2

\* What a card has to be before it is named.
CardOf(cs, buttons) ==
  /\ Listed(cs) /\ Len(cs) >= 2 /\ buttons <= MaxCandidates
  /\ Cardinality(Range(cs)) = Len(cs)
  /\ Unjoined(Range(cs))

ModuleCard == Cut(ranked, MaxCandidates)
ProductCard == Cut(ProductCandidates(RepoCandidates(ranked)), MaxRepoCandidates)

LEMMA ModuleCardIs ==
  ASSUME RankedSound(asked.hits, ranked), ~Spans(ranked), ~LeaderAlone(ranked), ~Related(ModuleCard)
  PROVE  CardOf(ModuleCard, Len(ModuleCard))
<1> DEFINE c == ModuleCard
<1>1. Listed(ranked) /\ \A n \in DOMAIN ranked : ranked[n].repos = {ranked[n].name}
  BY DEF RankedSound
<1>2. Len(ranked) \in Nat /\ Len(ranked) >= 2
  <2>1. Len(ranked) \in Nat
    BY <1>1 DEF Listed
  <2>2. ~(Len(ranked) < 2)
    BY DEF LeaderAlone, Dominates
  <2> QED
    BY <2>1, <2>2
<1>3. MaxCandidates \in Nat /\ 2 <= MaxCandidates
  BY RoutedTurns
<1>4. /\ Listed(c)
      /\ Len(c) = IF Len(ranked) < MaxCandidates THEN Len(ranked) ELSE MaxCandidates
      /\ \A i \in DOMAIN c : i \in DOMAIN ranked /\ c[i] = ranked[i]
  BY <1>1, <1>3, CutIs DEF ModuleCard
<1>5. Len(c) >= 2 /\ Len(c) <= MaxCandidates
  BY <1>2, <1>3, <1>4
<1>6. Cardinality(Range(c)) = Len(c)
  BY <1>4, ListedCount
<1>7. ~Related(c)
  OBVIOUS
<1> HIDE DEF c
<1>8. \A x \in Range(c) : x.repos = {x.name}
  BY <1>1, <1>4 DEF Range
<1>9. \A x \in Range(c) : x.repos \subseteq ReposOf(c)
  BY DEF ReposOf
<1>10. Unjoined(Range(c))
  BY <1>7, <1>8, <1>9, UnrelatedIsUnjoined
<1> QED
  BY <1>4, <1>5, <1>6, <1>10 DEF CardOf, c

LEMMA ProductCardIs ==
  ASSUME RankedSound(asked.hits, ranked), Spans(ranked),
         DistinctProjects(ranked) <= MaxRepoCandidates, ~Related(RepoCandidates(ranked))
  PROVE  CardOf(ProductCard, Len(ProductCard) + 1)
<1> DEFINE rc == RepoCandidates(ranked)
           p == ProductCandidates(rc)
           c == ProductCard
           d == DistinctProjects(ranked)
<1>1. RepoList(rc, ranked) /\ d \in Nat
  BY SpanIsNumber
<1>2. d >= 2 /\ d <= MaxRepoCandidates
  BY DEF Spans
<1>3. MaxCandidates \in Nat /\ MaxRepoCandidates \in Nat /\ MaxRepoCandidates < MaxCandidates
  BY RoutedTurns
<1>4. ~Related(rc)
  OBVIOUS
<1> HIDE DEF rc
<1>5. /\ Listed(p) /\ Len(p) = d
      /\ \A n \in DOMAIN p : p[n].key = "" /\ p[n].repos \subseteq ReposOf(rc)
  BY <1>1, ProductCandidatesAre
<1>6. c = Cut(p, MaxRepoCandidates)
  BY DEF ProductCard, rc
<1> HIDE DEF p, c, d
<1>7. /\ Listed(c)
      /\ Len(c) = IF Len(p) < MaxRepoCandidates THEN Len(p) ELSE MaxRepoCandidates
      /\ \A i \in DOMAIN c : i \in DOMAIN p /\ c[i] = p[i]
  BY <1>3, <1>5, <1>6, CutIs
<1>8. Len(c) >= 2 /\ Len(c) + 1 <= MaxCandidates
  <2>1. Len(c) = IF d < MaxRepoCandidates THEN d ELSE MaxRepoCandidates
    BY <1>5, <1>7
  <2>2. d \in Nat
    BY <1>1
  <2>3. Len(c) = d
    BY <2>1, <2>2, <1>2, <1>3
  <2> QED
    BY <2>2, <2>3, <1>2, <1>3
<1>9. Cardinality(Range(c)) = Len(c)
  BY <1>7, ListedCount
<1>10. \A x \in Range(c) : x.key = "" /\ x.repos \subseteq ReposOf(rc)
  BY <1>5, <1>7 DEF Range
<1>11. Unjoined(Range(c))
  BY <1>4, <1>10, UnrelatedIsUnjoined
<1> QED
  BY <1>7, <1>8, <1>9, <1>11 DEF CardOf, c

-----------------------------------------------------------------------------
\* The entries being named are those of cs.
Naming(cs) ==
  /\ DOMAIN entries = DOMAIN cs
  /\ \A n \in DOMAIN cs : entries[n] = [entry |-> cs[n], title |-> entries[n].title]

\* A turn the ranking has not settled.
Undecided ==
  /\ asked.named = {} /\ ~asked.allRepos
  /\ RankedSound(asked.hits, ranked)
  /\ ~LeaderAlone(ranked)
  /\ Spans(ranked) => DistinctProjects(ranked) <= MaxRepoCandidates

\* What the rungs before a step have left behind them.
RouterInv ==
  /\ TurnHits(asked.hits)
  /\ related \in SUBSET BOOLEAN /\ judged \in SUBSET BOOLEAN /\ choosable \in SUBSET BOOLEAN
  /\ routing \in {"related", "judge", "name"} => Undecided
  /\ routing \in {"judge", "name"} => related = {FALSE}
  /\ routing = "judge" => ~Spans(ranked) /\ ~Related(ModuleCard)
  /\ routing = "name" =>
       IF Spans(ranked) THEN ~Related(RepoCandidates(ranked)) /\ Naming(ProductCard)
       ELSE judged = {TRUE} /\ ~Related(ModuleCard) /\ Naming(ModuleCard)
  /\ CardSound

(* A step that settles on an answer is sound when the policy answers.      *)
LEMMA AnswerIsSound ==
  ASSUME decision'.ask = FALSE, routing' = "done", TurnHits(asked.hits)', 
         related' \in SUBSET BOOLEAN, judged' \in SUBSET BOOLEAN, choosable' \in SUBSET BOOLEAN,
         (\A r \in related, j \in judged, c \in (IF asked.dev THEN {TRUE} ELSE choosable) :
            DecideWhy(ranked, r, j, c).ask = FALSE)'
  PROVE  RouterInv'
BY DEF RouterInv, CardSound, ShortcutsKeepPolicy, CardWorthAsking

LEMMA RouterStarts == RouterInit => RouterInv
<1> SUFFICES ASSUME RouterInit
             PROVE  RouterInv
  OBVIOUS
<1>1. PICK a \in Asking, c \in Corpus :
        asked = [hits |-> a.hits, named |-> a.named, allRepos |-> a.allRepos, dev |-> a.dev, corpus |-> c]
  BY DEF RouterInit
<1>2. TurnHits(asked.hits)
  BY <1>1, RoutedTurns DEF TurnHits
<1> QED
  BY <1>2 DEF RouterInit, RouterInv, CardSound, ShortcutsKeepPolicy, CardWorthAsking

LEMMA RankByPathKeeps ==
  ASSUME RouterInv, RankByPath
  PROVE  RouterInv'
<1>1. decision'.ask = FALSE /\ routing' = "done" /\ asked' = asked
  BY DEF RankByPath, Settle
<1>2. TurnHits(asked.hits)' /\ related' \in SUBSET BOOLEAN /\ judged' \in SUBSET BOOLEAN /\ choosable' \in SUBSET BOOLEAN
  BY DEF RankByPath, RouterInv, TurnHits
<1>3. asked'.named # {} \/ asked'.allRepos
  BY <1>1 DEF RankByPath
<1>4. (\A r \in related, j \in judged, c \in (IF asked.dev THEN {TRUE} ELSE choosable) :
         DecideWhy(ranked, r, j, c).ask = FALSE)'
  BY <1>3 DEF DecideWhy
<1> QED
  BY <1>1, <1>2, <1>4, AnswerIsSound

LEMMA RankKeeps ==
  ASSUME RouterInv, Rank
  PROVE  RouterInv'
<1>1. /\ asked' = asked /\ related' = related /\ judged' = judged /\ choosable' = choosable
      /\ entries' = entries /\ asked.named = {} /\ ~asked.allRepos
      /\ ranked' = Ranked(asked.hits, "module")
  BY DEF Rank
<1>2. TurnHits(asked.hits)' /\ related' \in SUBSET BOOLEAN /\ judged' \in SUBSET BOOLEAN /\ choosable' \in SUBSET BOOLEAN
  BY <1>1 DEF RouterInv, TurnHits
<1>3. RankedSound(asked.hits, ranked')
  BY <1>1, RankedIs DEF RouterInv
<1>4. DistinctProjects(ranked') \in Nat
  BY <1>3, SpanIsNumber
<1>5. MaxRepoCandidates \in Nat /\ 2 <= MaxRepoCandidates
  BY RoutedTurns
<1>6. CASE LeaderAlone(ranked')
  <2>1. decision'.ask = FALSE /\ routing' = "done"
    BY <1>6 DEF Rank, Settle
  <2>2. ~(DistinctProjects(ranked') > MaxRepoCandidates) /\ ~Spans(ranked') /\ Dominates(ranked')
    BY <1>1, <1>4, <1>5, <1>6 DEF LeaderAlone, Spans
  <2>3. (\A r \in related, j \in judged, c \in (IF asked.dev THEN {TRUE} ELSE choosable) :
           DecideWhy(ranked, r, j, c).ask = FALSE)'
    BY <1>1, <2>2 DEF DecideWhy, DistinctProjects, Spans
  <2> QED
    BY <2>1, <1>2, <2>3, AnswerIsSound
<1>7. CASE ~LeaderAlone(ranked') /\ Spans(ranked') /\ DistinctProjects(ranked') > MaxRepoCandidates
  <2>1. decision'.ask = TRUE /\ decision'.broad = TRUE /\ routing' = "done"
    BY <1>7 DEF Rank, Settle
  <2>2. DistinctProjects(ranked)' > MaxRepoCandidates
    BY <1>1, <1>7 DEF DistinctProjects
  <2>3. (\A r \in related, j \in judged, c \in (IF asked.dev THEN {TRUE} ELSE choosable) :
           DecideWhy(ranked, r, j, c).ask = TRUE)'
    BY <1>1, <2>2 DEF DecideWhy
  <2> QED
    BY <2>1, <1>2, <2>3 DEF RouterInv, CardSound, ShortcutsKeepPolicy, CardWorthAsking
<1>8. CASE ~LeaderAlone(ranked') /\ ~(Spans(ranked') /\ DistinctProjects(ranked') > MaxRepoCandidates)
  <2>1. routing' = "related"
    BY <1>8 DEF Rank
  <2>2. Spans(ranked') => DistinctProjects(ranked') <= MaxRepoCandidates
    BY <1>4, <1>5, <1>8
  <2>3. Undecided'
    BY <1>1, <1>3, <1>8, <2>2 DEF Undecided, LeaderAlone, Spans, DistinctProjects
  <2> QED
    BY <2>1, <1>2, <2>3 DEF RouterInv, CardSound, ShortcutsKeepPolicy, CardWorthAsking
<1> QED
  BY <1>6, <1>7, <1>8

(* What the steps after the ranking keep of it.                            *)
LEMMA LadderStands ==
  ASSUME RouterInv, Undecided, asked' = asked, ranked' = ranked
  PROVE  /\ TurnHits(asked.hits)'
         /\ Undecided'
         /\ Spans(ranked)' = Spans(ranked) /\ DistinctProjects(ranked)' = DistinctProjects(ranked)
         /\ LeaderAlone(ranked)' = LeaderAlone(ranked)
         /\ ModuleCard' = ModuleCard /\ ProductCard' = ProductCard
         /\ Related(ModuleCard)' = Related(ModuleCard)
         /\ Related(RepoCandidates(ranked))' = Related(RepoCandidates(ranked))
         /\ ~(DistinctProjects(ranked) > MaxRepoCandidates)
<1>1. DistinctProjects(ranked) \in Nat
  BY SpanIsNumber DEF Undecided
<1>2. MaxRepoCandidates \in Nat /\ 2 <= MaxRepoCandidates
  BY RoutedTurns
<1>3. ~(DistinctProjects(ranked) > MaxRepoCandidates)
  BY <1>1, <1>2 DEF Undecided, Spans
<1>4. DistinctProjects(ranked)' = DistinctProjects(ranked)
  BY DEF DistinctProjects
<1>5. Spans(ranked)' = Spans(ranked)
  BY <1>4 DEF Spans
<1>6. LeaderAlone(ranked)' = LeaderAlone(ranked)
  BY <1>5 DEF LeaderAlone
<1>7. Undecided'
  BY <1>4, <1>5, <1>6 DEF Undecided
<1>8. ModuleCard' = ModuleCard /\ ProductCard' = ProductCard
  BY DEF ModuleCard, ProductCard, ProductCandidates
<1>9. /\ Related(ModuleCard)' = Related(ModuleCard)
      /\ Related(RepoCandidates(ranked))' = Related(RepoCandidates(ranked))
  BY <1>8 DEF Related, AnyDependency, AnyLinked
<1>10. TurnHits(asked.hits)'
  BY DEF RouterInv, TurnHits
<1> QED
  BY <1>3, <1>4, <1>5, <1>6, <1>7, <1>8, <1>9, <1>10

LEMMA AskManifestsKeeps ==
  ASSUME RouterInv, AskManifests
  PROVE  RouterInv'
<1> DEFINE seen == IF Spans(ranked) THEN RepoCandidates(ranked) ELSE ModuleCard
<1>1. /\ asked' = asked /\ judged' = judged /\ choosable' = choosable /\ ranked' = ranked
      /\ Undecided
  BY DEF AskManifests, RouterInv
<1>2. /\ related' = {Related(seen)}
      /\ Related(seen) => Settle(FALSE, FALSE, ModuleCard)
      /\ ~Related(seen) /\ Spans(ranked) => entries' = Nameable(ProductCard) /\ routing' = "name"
      /\ ~Related(seen) /\ ~Spans(ranked) => routing' = "judge"
  BY DEF AskManifests, ModuleCard, ProductCard
<1>3. Related(seen) \in BOOLEAN
  BY DEF Related
<1>4. TurnHits(asked.hits)' /\ related' \in SUBSET BOOLEAN /\ judged' \in SUBSET BOOLEAN /\ choosable' \in SUBSET BOOLEAN
  BY <1>1, <1>2, <1>3 DEF RouterInv, TurnHits
<1>5. /\ Undecided'
      /\ Spans(ranked)' = Spans(ranked) /\ DistinctProjects(ranked)' = DistinctProjects(ranked)
      /\ ModuleCard' = ModuleCard /\ ProductCard' = ProductCard
      /\ Related(ModuleCard)' = Related(ModuleCard)
      /\ Related(RepoCandidates(ranked))' = Related(RepoCandidates(ranked))
      /\ ~(DistinctProjects(ranked) > MaxRepoCandidates)
  BY <1>1, LadderStands
<1>6. asked.named = {} /\ ~asked.allRepos
  BY <1>1 DEF Undecided
<1>7. /\ Related(seen) => related' = {TRUE}
      /\ ~Related(seen) => related' = {FALSE}
  BY <1>2, <1>3, Zenon
<1>8. CASE Related(seen)
  <2>1. decision'.ask = FALSE /\ routing' = "done"
    BY <1>2, <1>8 DEF Settle
  <2>2. \A r \in related' : r = TRUE
    BY <1>7, <1>8
  <2>3. (\A r \in related, j \in judged, c \in (IF asked.dev THEN {TRUE} ELSE choosable) :
           DecideWhy(ranked, r, j, c).ask = FALSE)'
    BY <1>1, <1>5, <1>6, <2>2 DEF DecideWhy
  <2> QED
    BY <2>1, <1>4, <2>3, AnswerIsSound
<1>9. CASE ~Related(seen) /\ Spans(ranked)
  <2>1. routing' = "name" /\ related' = {FALSE} /\ entries' = Nameable(ProductCard)
    BY <1>2, <1>7, <1>9
  <2>2. Naming(ProductCard)'
    BY <2>1, <1>5 DEF Naming, Nameable
  <2>3. ~Related(RepoCandidates(ranked))' /\ Spans(ranked)'
    <3>1. seen = RepoCandidates(ranked)
      BY <1>9
    <3> HIDE DEF seen
    <3>2. ~Related(RepoCandidates(ranked))
      BY <3>1, <1>9
    <3> QED
      BY <3>2, <1>5, <1>9
  <2> QED
    BY <1>4, <1>5, <2>1, <2>2, <2>3 DEF RouterInv, CardSound, ShortcutsKeepPolicy, CardWorthAsking
<1>10. CASE ~Related(seen) /\ ~Spans(ranked)
  <2>1. routing' = "judge" /\ related' = {FALSE}
    BY <1>2, <1>7, <1>10
  <2>2. ~Related(ModuleCard)' /\ ~Spans(ranked)'
    <3>1. seen = ModuleCard
      BY <1>10
    <3> HIDE DEF seen
    <3>2. ~Related(ModuleCard)
      BY <3>1, <1>10
    <3> QED
      BY <3>2, <1>5, <1>10
  <2> QED
    BY <1>4, <1>5, <2>1, <2>2 DEF RouterInv, CardSound, ShortcutsKeepPolicy, CardWorthAsking
<1> QED
  BY <1>8, <1>9, <1>10

LEMMA JudgeKeeps ==
  ASSUME RouterInv, JudgeRung
  PROVE  RouterInv'
<1>1. /\ asked' = asked /\ ranked' = ranked /\ related' = related /\ choosable' = choosable
      /\ Undecided /\ related = {FALSE} /\ ~Spans(ranked) /\ ~Related(ModuleCard)
  BY DEF JudgeRung, RouterInv
<1>2. /\ TurnHits(asked.hits)'
      /\ Undecided'
      /\ Spans(ranked)' = Spans(ranked) /\ DistinctProjects(ranked)' = DistinctProjects(ranked)
      /\ ModuleCard' = ModuleCard
      /\ Related(ModuleCard)' = Related(ModuleCard)
      /\ ~(DistinctProjects(ranked) > MaxRepoCandidates)
  BY <1>1, LadderStands
<1>3. related' \in SUBSET BOOLEAN /\ choosable' \in SUBSET BOOLEAN /\ judged' \in SUBSET BOOLEAN
  BY DEF JudgeRung, RouterInv
<1>4. CASE judged' = {FALSE} /\ decision'.ask = FALSE /\ routing' = "done"
  <2>1. (\A r \in related, j \in judged, c \in (IF asked.dev THEN {TRUE} ELSE choosable) :
           DecideWhy(ranked, r, j, c).ask = FALSE)'
    BY <1>1, <1>2, <1>4 DEF DecideWhy
  <2> QED
    BY <1>2, <1>3, <1>4, <2>1, AnswerIsSound
<1>5. CASE judged' = {TRUE} /\ entries' = Nameable(ModuleCard) /\ routing' = "name"
  <2>1. Naming(ModuleCard)'
    BY <1>2, <1>5 DEF Naming, Nameable
  <2> QED
    BY <1>1, <1>2, <1>3, <1>5, <2>1 DEF RouterInv, CardSound, ShortcutsKeepPolicy, CardWorthAsking
<1>6. PICK reply \in {"ask", "compose", "unreadable"} :
        /\ judged' = {reply # "compose"}
        /\ IF reply = "compose"
           THEN Settle(FALSE, FALSE, Cut(ranked, MaxCandidates)) /\ UNCHANGED entries
           ELSE /\ entries' = Nameable(Cut(ranked, MaxCandidates))
                /\ routing' = "name"
                /\ UNCHANGED decision
  BY DEF JudgeRung
<1>7. CASE reply = "compose"
  <2>1. judged' = {FALSE}
    BY <1>6, <1>7
  <2>2. Settle(FALSE, FALSE, Cut(ranked, MaxCandidates))
    BY <1>6, <1>7
  <2>3. decision'.ask = FALSE /\ routing' = "done"
    BY <2>2 DEF Settle
  <2> QED
    BY <2>1, <2>3, <1>4
<1>8. CASE reply # "compose"
  <2>1. judged' = {TRUE}
    BY <1>6, <1>8
  <2> QED
    BY <2>1, <1>5, <1>6, <1>8 DEF ModuleCard
<1> QED
  BY <1>7, <1>8

LEMMA NameEntryKeeps ==
  ASSUME RouterInv, NEW n \in DOMAIN entries, NameEntry(n)
  PROVE  RouterInv'
<1>1. /\ asked' = asked /\ ranked' = ranked /\ related' = related /\ choosable' = choosable
      /\ judged' = judged /\ routing = "name" /\ routing' = "name"
      /\ Undecided /\ related = {FALSE}
  BY DEF NameEntry, RouterInv
<1>2. /\ TurnHits(asked.hits)'
      /\ Undecided'
      /\ Spans(ranked)' = Spans(ranked)
      /\ ModuleCard' = ModuleCard /\ ProductCard' = ProductCard
      /\ Related(ModuleCard)' = Related(ModuleCard)
      /\ Related(RepoCandidates(ranked))' = Related(RepoCandidates(ranked))
  BY <1>1, LadderStands
<1>3. related' \in SUBSET BOOLEAN /\ choosable' \in SUBSET BOOLEAN /\ judged' \in SUBSET BOOLEAN
  BY <1>1 DEF RouterInv
<1>4. PICK title \in {"named", "bare"} : entries' = [entries EXCEPT ![n].title = title]
  BY DEF NameEntry
<1>5. ASSUME NEW cs, Naming(cs)
      PROVE  /\ DOMAIN entries' = DOMAIN cs
             /\ \A m \in DOMAIN cs : entries'[m] = [entry |-> cs[m], title |-> entries'[m].title]
  <2>1. DOMAIN entries' = DOMAIN cs
    BY <1>4, <1>5 DEF Naming
  <2>2. ASSUME NEW m \in DOMAIN cs, m # n
        PROVE  entries'[m] = entries[m]
    BY <1>4, <1>5, <2>2 DEF Naming
  <2>3. entries'[n] = [entry |-> cs[n], title |-> title]
    <3>1. entries'[n] = [entries[n] EXCEPT !.title = title]
      BY <1>4
    <3>2. entries[n] = [entry |-> cs[n], title |-> entries[n].title]
      BY <1>5 DEF Naming
    <3> QED
      BY <3>1, <3>2
  <2>4. \A m \in DOMAIN cs : entries'[m] = [entry |-> cs[m], title |-> entries'[m].title]
    BY <2>2, <2>3, <1>5 DEF Naming
  <2> QED
    BY <2>1, <2>4
<1>6. CASE Spans(ranked)
  <2>1. ~Related(RepoCandidates(ranked)) /\ Naming(ProductCard)
    BY <1>1, <1>6 DEF RouterInv
  <2>2. Naming(ProductCard)'
    BY <1>2, <1>5, <2>1 DEF Naming
  <2> QED
    BY <1>1, <1>2, <1>3, <1>6, <2>1, <2>2 DEF RouterInv, CardSound, ShortcutsKeepPolicy, CardWorthAsking
<1>7. CASE ~Spans(ranked)
  <2>1. judged = {TRUE} /\ ~Related(ModuleCard) /\ Naming(ModuleCard)
    BY <1>1, <1>7 DEF RouterInv
  <2>2. Naming(ModuleCard)'
    BY <1>2, <1>5, <2>1 DEF Naming
  <2> QED
    BY <1>1, <1>2, <1>3, <1>7, <2>1, <2>2 DEF RouterInv, CardSound, ShortcutsKeepPolicy, CardWorthAsking
<1> QED
  BY <1>6, <1>7

(* What joins two entries is the corpus of the turn.                       *)
LEMMA JoinsStand ==
  ASSUME asked' = asked, NEW a, NEW b,
         \A r \in a.repos, s \in b.repos : ~AnyDependency({r, s}),
         (a.key # "" /\ b.key # "" /\ a.name = b.name) => ~AnyLinked(a.name, {a.key, b.key})
  PROVE  /\ \A r \in a.repos, s \in b.repos : ~AnyDependency({r, s})'
         /\ (a.key # "" /\ b.key # "" /\ a.name = b.name) => ~AnyLinked(a.name, {a.key, b.key})'
<1>1. ASSUME NEW r \in a.repos, NEW s \in b.repos
      PROVE  ~AnyDependency({r, s})'
  <2>1. ~AnyDependency({r, s})
    OBVIOUS
  <2> SUFFICES ASSUME AnyDependency({r, s})'
               PROVE  FALSE
    OBVIOUS
  <2>2. PICK a1, b1 \in {r, s} : a1 # b1 /\ \E x \in asked'.corpus.requires[a1] :
          \E y \in asked'.corpus.publishes[b1] : x = y \/ <<x, y>> \in asked'.corpus.below
    BY DEF AnyDependency
  <2>3. \E x \in asked.corpus.requires[a1] : \E y \in asked.corpus.publishes[b1] :
          x = y \/ <<x, y>> \in asked.corpus.below
    BY <2>2
  <2>4. a1 \in {r, s} /\ b1 \in {r, s} /\ a1 # b1
    BY <2>2
  <2>5. AnyDependency({r, s})
    BY <2>3, <2>4, Zenon DEF AnyDependency
  <2> QED
    BY <2>1, <2>5
<1>2. ASSUME a.key # "", b.key # "", a.name = b.name
      PROVE  ~AnyLinked(a.name, {a.key, b.key})'
  <2>1. ~AnyLinked(a.name, {a.key, b.key})
    BY <1>2
  <2> QED
    BY <2>1 DEF AnyLinked
<1> QED
  BY <1>1, <1>2

(* The entries named are the card, and the card is worth asking.           *)
LEMMA NamedCardIs ==
  ASSUME RouterInv, routing = "name", asked' = asked, ranked' = ranked, entries' = entries,
         decision' = [ask |-> TRUE, broad |-> FALSE, shown |-> [n \in DOMAIN entries |-> entries[n].entry]],
         Spans(ranked) \/ asked.dev \/ \A n \in DOMAIN entries : entries[n].title = "named"
  PROVE  CardWorthAsking'
<1> DEFINE card == IF Spans(ranked) THEN ProductCard ELSE ModuleCard
           shown == [n \in DOMAIN entries |-> entries[n].entry]
           more == IF Spans(ranked) THEN 1 ELSE 0
<1>1. Undecided /\ RankedSound(asked.hits, ranked)
  BY DEF RouterInv, Undecided
<1>2. CardOf(card, Len(card) + more)
  <2>1. CASE Spans(ranked)
    <3>1. ~Related(RepoCandidates(ranked)) /\ DistinctProjects(ranked) <= MaxRepoCandidates
      BY <1>1, <2>1 DEF RouterInv, Undecided
    <3> QED
      BY <1>1, <2>1, <3>1, ProductCardIs
  <2>2. CASE ~Spans(ranked)
    <3>1. ~Related(ModuleCard) /\ ~LeaderAlone(ranked)
      BY <1>1, <2>2 DEF RouterInv, Undecided
    <3>2. CardOf(ModuleCard, Len(ModuleCard))
      BY <1>1, <2>2, <3>1, ModuleCardIs
    <3>3. Len(ModuleCard) \in Nat
      BY <3>2 DEF CardOf, Listed
    <3>4. Len(ModuleCard) + 0 = Len(ModuleCard)
      BY <3>3
    <3> QED
      BY <2>2, <3>2, <3>4
  <2> QED
    BY <2>1, <2>2
<1>3. Naming(card)
  BY DEF RouterInv
<1> HIDE DEF card
<1>4. shown = card
  <2>1. card \in Seq(Range(card))
    BY <1>2 DEF CardOf, Listed
  <2>2. card = [n \in DOMAIN card |-> card[n]]
    BY <2>1
  <2>3. \A n \in DOMAIN card : entries[n].entry = card[n]
    BY <1>3 DEF Naming
  <2>4. shown = [n \in DOMAIN card |-> card[n]]
    BY <1>3, <2>3 DEF Naming
  <2> QED
    BY <2>2, <2>4
<1>5. decision'.shown = card
  BY <1>4
<1>6. Spans(ranked)' = Spans(ranked)
  BY <1>1, LadderStands
<1>7. /\ Len(card) >= 2 /\ Len(card) + more <= MaxCandidates
      /\ Cardinality(Range(card)) = Len(card)
      /\ Unjoined(Range(card))
  BY <1>2 DEF CardOf
<1>8. /\ Len(decision'.shown) >= 2
      /\ Len(decision'.shown) + (IF Spans(ranked)' THEN 1 ELSE 0) <= MaxCandidates
      /\ Cardinality(Range(decision'.shown)) = Len(decision'.shown)
  BY <1>5, <1>6, <1>7
<1>9. ASSUME NEW a \in Range(decision'.shown), NEW b \in Range(decision'.shown), a # b
      PROVE  /\ \A r \in a.repos, s \in b.repos : ~AnyDependency({r, s})'
             /\ (a.key # "" /\ b.key # "" /\ a.name = b.name) => ~AnyLinked(a.name, {a.key, b.key})'
  <2>1. /\ \A r \in a.repos, s \in b.repos : ~AnyDependency({r, s})
        /\ (a.key # "" /\ b.key # "" /\ a.name = b.name) => ~AnyLinked(a.name, {a.key, b.key})
    BY <1>5, <1>7, <1>9 DEF Unjoined
  <2> QED
    BY <2>1, JoinsStand
<1>10. (~Spans(ranked)' /\ ~asked'.dev) => \A n \in DOMAIN entries' : entries'[n].title = "named"
  BY <1>6
<1>11. \A c \in Range(ranked') : OnlySupporting(asked'.hits, c) =>
         \A h \in Range(asked'.hits) : h.supporting \/ h.score * FloorDen < ranked'[1].score * FloorNum
  BY <1>1 DEF RankedSound
<1> QED
  BY <1>8, <1>9, <1>10, <1>11 DEF CardWorthAsking

LEMMA ShowCardKeeps ==
  ASSUME RouterInv, ShowCard
  PROVE  RouterInv'
<1>1. /\ asked' = asked /\ ranked' = ranked /\ related' = related /\ judged' = judged
      /\ choosable' = choosable /\ entries' = entries /\ routing = "name" /\ routing' = "done"
      /\ decision' = [ask |-> TRUE, broad |-> FALSE, shown |-> [n \in DOMAIN entries |-> entries[n].entry]]
      /\ Spans(ranked) \/ asked.dev
  BY DEF ShowCard, AllIn, Settle
<1>2. Undecided /\ related = {FALSE} /\ (~Spans(ranked) => judged = {TRUE})
  BY <1>1 DEF RouterInv
<1>3. /\ TurnHits(asked.hits)'
      /\ Spans(ranked)' = Spans(ranked) /\ DistinctProjects(ranked)' = DistinctProjects(ranked)
      /\ LeaderAlone(ranked)' = LeaderAlone(ranked)
      /\ ~(DistinctProjects(ranked) > MaxRepoCandidates)
  BY <1>1, <1>2, LadderStands
<1>4. CardWorthAsking'
  BY <1>1, NamedCardIs
<1>5. asked'.named = {} /\ ~asked'.allRepos /\ (~Spans(ranked)' => ~Dominates(ranked'))
  BY <1>1, <1>2, <1>3 DEF Undecided, LeaderAlone
<1>6. (\A r \in related, j \in judged, c \in (IF asked.dev THEN {TRUE} ELSE choosable) :
         DecideWhy(ranked, r, j, c).ask = TRUE)'
  <2>1. CASE Spans(ranked)
    BY <1>1, <1>2, <1>3, <1>5, <2>1 DEF DecideWhy
  <2>2. CASE ~Spans(ranked)
    BY <1>1, <1>2, <1>3, <1>5, <2>2 DEF DecideWhy
  <2> QED
    BY <2>1, <2>2
<1>7. related' \in SUBSET BOOLEAN /\ judged' \in SUBSET BOOLEAN /\ choosable' \in SUBSET BOOLEAN
  BY <1>1 DEF RouterInv
<1>8. decision'.ask = TRUE /\ routing' = "done"
  BY <1>1
<1> QED
  BY <1>3, <1>4, <1>6, <1>7, <1>8 DEF RouterInv, CardSound, ShortcutsKeepPolicy

LEMMA RefuseBareCardKeeps ==
  ASSUME RouterInv, RefuseBareCard
  PROVE  RouterInv'
<1>1. /\ asked' = asked /\ ranked' = ranked /\ related' = related /\ judged' = judged
      /\ choosable' = {FALSE} /\ routing = "name" /\ routing' = "done"
      /\ decision'.ask = FALSE /\ ~Spans(ranked) /\ ~asked.dev
  BY DEF RefuseBareCard, AllIn, Settle
<1>2. Undecided
  BY <1>1 DEF RouterInv
<1>3. /\ TurnHits(asked.hits)'
      /\ Spans(ranked)' = Spans(ranked) /\ DistinctProjects(ranked)' = DistinctProjects(ranked)
      /\ ~(DistinctProjects(ranked) > MaxRepoCandidates)
  BY <1>1, <1>2, LadderStands
<1>4. (\A r \in related, j \in judged, c \in (IF asked.dev THEN {TRUE} ELSE choosable) :
         DecideWhy(ranked, r, j, c).ask = FALSE)'
  BY <1>1, <1>2, <1>3 DEF DecideWhy, Undecided
<1>5. related' \in SUBSET BOOLEAN /\ judged' \in SUBSET BOOLEAN /\ choosable' \in SUBSET BOOLEAN
  BY <1>1 DEF RouterInv
<1> QED
  BY <1>1, <1>3, <1>4, <1>5, AnswerIsSound

LEMMA ChoosableKeeps ==
  ASSUME RouterInv, Choosable
  PROVE  RouterInv'
<1>1. PICK reply \in {"choose", "cannot", "unreadable"} :
        /\ choosable' = {reply = "choose"}
        /\ Settle(reply = "choose", FALSE, [n \in DOMAIN entries |-> entries[n].entry])
  BY DEF Choosable
<1>2. /\ asked' = asked /\ ranked' = ranked /\ related' = related /\ judged' = judged
      /\ entries' = entries /\ routing = "name" /\ ~Spans(ranked) /\ ~asked.dev
      /\ \A n \in DOMAIN entries : entries[n].title = "named"
  BY DEF Choosable, AllIn
<1>3. Undecided /\ related = {FALSE} /\ judged = {TRUE}
  BY <1>2 DEF RouterInv
<1>4. /\ TurnHits(asked.hits)'
      /\ Spans(ranked)' = Spans(ranked) /\ DistinctProjects(ranked)' = DistinctProjects(ranked)
      /\ LeaderAlone(ranked)' = LeaderAlone(ranked)
      /\ ~(DistinctProjects(ranked) > MaxRepoCandidates)
  BY <1>2, <1>3, LadderStands
<1>5. CASE reply = "choose"
  <2>1. (reply = "choose") = TRUE
    BY <1>5, Zenon
  <2>2. choosable' = {TRUE} /\ Settle(TRUE, FALSE, [n \in DOMAIN entries |-> entries[n].entry])
    BY <1>1, <2>1
  <2>3. /\ routing' = "done"
        /\ decision' = [ask |-> TRUE, broad |-> FALSE, shown |-> [n \in DOMAIN entries |-> entries[n].entry]]
    BY <2>2 DEF Settle
  <2>4. CardWorthAsking'
    BY <1>2, <2>3, NamedCardIs
  <2>5. asked'.named = {} /\ ~asked'.allRepos /\ ~Spans(ranked)' /\ ~Dominates(ranked')
    BY <1>2, <1>3, <1>4 DEF Undecided, LeaderAlone
  <2>6. (\A r \in related, j \in judged, c \in (IF asked.dev THEN {TRUE} ELSE choosable) :
           DecideWhy(ranked, r, j, c).ask = TRUE)'
    BY <1>2, <1>3, <1>4, <2>2, <2>5 DEF DecideWhy
  <2>7. related' \in SUBSET BOOLEAN /\ judged' \in SUBSET BOOLEAN /\ choosable' \in SUBSET BOOLEAN
    BY <1>2, <2>2 DEF RouterInv
  <2> QED
    BY <1>4, <2>3, <2>4, <2>6, <2>7 DEF RouterInv, CardSound, ShortcutsKeepPolicy
<1>6. CASE reply # "choose"
  <2>1. (reply = "choose") = FALSE
    BY <1>6, Zenon
  <2>2. choosable' = {FALSE} /\ Settle(FALSE, FALSE, [n \in DOMAIN entries |-> entries[n].entry])
    BY <1>1, <2>1
  <2>3. routing' = "done" /\ decision'.ask = FALSE
    BY <2>2 DEF Settle
  <2>4. (\A r \in related, j \in judged, c \in (IF asked.dev THEN {TRUE} ELSE choosable) :
           DecideWhy(ranked, r, j, c).ask = FALSE)'
    BY <1>2, <1>3, <1>4, <2>2 DEF DecideWhy, Undecided
  <2>5. related' \in SUBSET BOOLEAN /\ judged' \in SUBSET BOOLEAN /\ choosable' \in SUBSET BOOLEAN
    BY <1>2, <2>2 DEF RouterInv
  <2> QED
    BY <1>4, <2>3, <2>4, <2>5, AnswerIsSound
<1> QED
  BY <1>5, <1>6

LEMMA RouterSteps == RouterInv /\ [RouterNext]_routerVars => RouterInv'
<1> SUFFICES ASSUME RouterInv, [RouterNext]_routerVars
             PROVE  RouterInv'
  OBVIOUS
<1>1. CASE RouteFails
  <2>1. TurnHits(asked.hits)' /\ routing' = "failed"
    BY <1>1 DEF RouteFails, RouterInv, TurnHits
  <2>2. related' \in SUBSET BOOLEAN /\ judged' \in SUBSET BOOLEAN /\ choosable' \in SUBSET BOOLEAN
    BY <1>1 DEF RouteFails, RouterInv
  <2> QED
    BY <2>1, <2>2 DEF RouterInv, CardSound, ShortcutsKeepPolicy, CardWorthAsking
<1>2. CASE UNCHANGED routerVars
  <2>1. /\ asked' = asked /\ ranked' = ranked /\ related' = related /\ judged' = judged
        /\ choosable' = choosable /\ entries' = entries /\ decision' = decision /\ routing' = routing
    BY <1>2 DEF routerVars
  <2>2. CardSound'
    <3>1. ShortcutsKeepPolicy /\ CardWorthAsking
      BY DEF RouterInv, CardSound
    <3>2. Spans(ranked)' = Spans(ranked)
      BY <2>1 DEF Spans, DistinctProjects
    <3>3. ShortcutsKeepPolicy'
      <4> SUFFICES ASSUME routing' = "done",
                          NEW r \in related', NEW j \in judged',
                          NEW c \in (IF asked'.dev THEN {TRUE} ELSE choosable')
                   PROVE  DecideWhy(ranked, r, j, c)'.ask = decision'.ask
        BY DEF ShortcutsKeepPolicy
      <4>1. DecideWhy(ranked, r, j, c).ask = decision.ask
        BY <2>1, <3>1 DEF ShortcutsKeepPolicy
      <4>2. DistinctProjects(ranked)' = DistinctProjects(ranked)
        BY <2>1 DEF DistinctProjects
      <4>3. DecideWhy(ranked, r, j, c)' = DecideWhy(ranked, r, j, c)
        BY <2>1, <3>2, <4>2 DEF DecideWhy
      <4> QED
        BY <2>1, <4>1, <4>3
    <3>4. CardWorthAsking'
      <4> SUFFICES ASSUME routing = "done", decision.ask, ~decision.broad
                   PROVE  CardWorthAsking'
        BY <2>1 DEF CardWorthAsking
      <4>1. ASSUME NEW a \in Range(decision'.shown), NEW b \in Range(decision'.shown), a # b
            PROVE  /\ \A r \in a.repos, s \in b.repos : ~AnyDependency({r, s})'
                   /\ (a.key # "" /\ b.key # "" /\ a.name = b.name) => ~AnyLinked(a.name, {a.key, b.key})'
        <5>1. /\ \A r \in a.repos, s \in b.repos : ~AnyDependency({r, s})
              /\ (a.key # "" /\ b.key # "" /\ a.name = b.name) => ~AnyLinked(a.name, {a.key, b.key})
          BY <2>1, <3>1, <4>1 DEF CardWorthAsking
        <5> QED
          BY <2>1, <5>1, JoinsStand
      <4>2. /\ Len(decision'.shown) >= 2
            /\ Len(decision'.shown) + (IF Spans(ranked)' THEN 1 ELSE 0) <= MaxCandidates
            /\ Cardinality(Range(decision'.shown)) = Len(decision'.shown)
            /\ (~Spans(ranked)' /\ ~asked'.dev) => \A n \in DOMAIN entries' : entries'[n].title = "named"
            /\ \A c \in Range(ranked') : OnlySupporting(asked'.hits, c) =>
                 \A h \in Range(asked'.hits) : h.supporting \/ h.score * FloorDen < ranked'[1].score * FloorNum
        BY <2>1, <3>1, <3>2 DEF CardWorthAsking
      <4> QED
        BY <4>1, <4>2 DEF CardWorthAsking
    <3> QED
      BY <3>3, <3>4 DEF CardSound
  <2>3. Undecided => Undecided'
    BY <2>1 DEF Undecided, LeaderAlone, Spans, DistinctProjects
  <2>4. TurnHits(asked.hits)'
    BY <2>1 DEF RouterInv, TurnHits
  <2>5. /\ Spans(ranked)' = Spans(ranked)
        /\ ModuleCard' = ModuleCard /\ ProductCard' = ProductCard
        /\ Related(ModuleCard)' = Related(ModuleCard)
        /\ Related(RepoCandidates(ranked))' = Related(RepoCandidates(ranked))
        /\ Naming(ModuleCard)' = Naming(ModuleCard) /\ Naming(ProductCard)' = Naming(ProductCard)
    <3>1. Spans(ranked)' = Spans(ranked)
      BY <2>1 DEF Spans, DistinctProjects
    <3>2. ModuleCard' = ModuleCard /\ ProductCard' = ProductCard
      BY <2>1 DEF ModuleCard, ProductCard, ProductCandidates
    <3>3. /\ Related(ModuleCard)' = Related(ModuleCard)
          /\ Related(RepoCandidates(ranked))' = Related(RepoCandidates(ranked))
      BY <2>1, <3>2 DEF Related, AnyDependency, AnyLinked
    <3>4. Naming(ModuleCard)' = Naming(ModuleCard) /\ Naming(ProductCard)' = Naming(ProductCard)
      BY <2>1, <3>2 DEF Naming
    <3> QED
      BY <3>1, <3>2, <3>3, <3>4
  <2> QED
    BY <2>1, <2>2, <2>3, <2>4, <2>5 DEF RouterInv
<1> QED
  BY <1>1, <1>2, RankByPathKeeps, RankKeeps, AskManifestsKeeps, JudgeKeeps, NameEntryKeeps,
     ShowCardKeeps, RefuseBareCardKeeps, ChoosableKeeps DEF RouterNext

(* A card is asked exactly when the policy over every rung asks, however   *)
(* many rungs were skipped, and then it is worth its click: two entries at *)
(* least, no more than a card holds, none of them joined to another, none  *)
(* untitled for an analyst (ask/route.go Router.route).                    *)
THEOREM CardsAreSound == RouterSpec => []CardSound
<1>1. RouterInv => CardSound
  BY DEF RouterInv
<1> QED
  BY RouterStarts, RouterSteps, <1>1, PTL DEF RouterSpec
=============================================================================
