------------------------------- MODULE Poller -------------------------------
(***************************************************************************)
(* indexer.Poller: one goroutine that visits every enabled repository in   *)
(* turn, and the rows and the checkout it keeps for each.  The remotes     *)
(* move while it works, administrators ask for full re-indexes, a visit    *)
(* can fail at every call, and the process can die between any two         *)
(* commits and come back with another repos.yaml.                          *)
(*                                                                         *)
(* An index run is not one transaction: every file is its own, so a run    *)
(* that fails leaves some files at the new commit (module IndexStore has   *)
(* the tables).  A commit is its first-parent chain of trees.  An entry    *)
(* with no clone_url is a snapshot: an archive the operator extracts into  *)
(* the repository's directory by hand, which a visit commits as it finds   *)
(* it.                                                                     *)
(***************************************************************************)
EXTENDS Integers, Sequences, FiniteSets

CONSTANTS
  Repos,      \* names of repos.yaml entries
  Urls,       \* clone URLs
  Drop,       \* the empty clone_url of a snapshot entry
  Branches,   \* branch names
  Default,    \* Default[u]: the branch remote u calls its default
  Paths,      \* paths of a tree
  Blobs,      \* contents of a regular file
  Link,       \* the tree entry of a symlink or a submodule pointer
  Trees,      \* the trees commits may have
  Archives,   \* the trees an operator may extract
  Stage,      \* the paths under the one declared stage; {} declares none
  Lists,      \* the repos.yaml files a boot may find
  MaxDepth,   \* bound: commits on a branch
  MaxEvents,  \* bound: disturbances (pushes, failures, crashes, requests)
  None        \* no file, no row, no commit, no checkout, no branch

NoFile == None
Tree0  == [Paths -> Blobs \cup {Link, NoFile}]
Entry  == [url : Urls \cup {Drop}, branch : Branches \cup {None}, enabled : BOOLEAN]
\* time tells the commits of a snapshot apart that was extracted twice.
Commit == [url : Urls \cup {Drop}, trees : Seq(Tree0), time : Nat]
Row    == [sha : Commit, blob : Blobs]
Clone  == [origin : Urls \cup {Drop, "tokened"}, objects : SUBSET Commit, head : Commit \cup {None}]

ASSUME TreesAssumption == Trees \subseteq Tree0 /\ Archives \subseteq Tree0
ASSUME ListsAssumption == Lists \subseteq [Repos -> Entry \cup {None}]
ASSUME ConstAssumption ==
  /\ Default \in [Urls -> Branches]
  /\ Stage \subseteq Paths
  /\ MaxDepth \in Nat /\ MaxEvents \in Nat
  /\ None \notin Entry \cup Commit \cup Row \cup Clone \cup Blobs \cup Repos \cup Branches
  /\ Link \notin Blobs /\ Link # None
  /\ "tokened" \notin Urls /\ Drop \notin Urls \cup {"tokened"}
  /\ "history" \notin Paths

VARIABLES
  heads,              \* heads[u][b]: what branch b of remote u points at
  listed,             \* listed[r]: the repos.yaml entry the last boot recorded
  branch,             \* the branch column: configured, or resolved and recorded
  last_sha, last_error, reindex_requested,
  rows,               \* rows[r][p]: commit and content the index holds of p
  lane,               \* lane[r]: the commit whose history the commits table holds
  checkout,           \* the git repository on disk, a clone's or a snapshot's
  files,              \* files[r]: what the operator extracted into its directory
  wake,               \* the poller's one-slot wake channel
  nudges,             \* re-index requests written whose Nudge is still to come
  seen,               \* requests read with the list at the cycle's start; -1: not ahead
  pc,                 \* where main and the poller's goroutine are
  st,                 \* the visit: the poller's copy of the row and the run's plan
  events,             \* disturbances so far
  ahead,              \* ghost: what unfinished runs wrote and no later run covered
  owed,               \* ghost: a request no full run begun after it has landed
  deferred            \* ghost: the last attempt failed, so the timer retries

remote == <<heads>>
columns == <<listed, branch, last_sha, last_error, reindex_requested>>
index == <<rows, lane, ahead>>
disk == <<checkout, files>>
signals == <<wake, nudges, owed, deferred>>
vars == <<remote, columns, index, disk, signals, seen, pc, st, events>>

Idle == [repo |-> None, last |-> None, gen |-> 0, head |-> None, full |-> FALSE,
         retire |-> {}, todo |-> {}, clean |-> FALSE]

Visiting == {"origin", "remove", "clone", "setUrl", "add", "branch", "fetch", "decide",
             "index", "record", "mark", "clear"}
Phases == {"down", "idle", "wait", "list", "cycle", "warn"} \cup Visiting

Tree(c) == c.trees[Len(c.trees)]

\* Everything a fetch brings: each branch's commit and its ancestors.
Reach(u) ==
  UNION {{[url |-> u, trees |-> SubSeq(heads[u][b].trees, 1, n), time |-> 0] :
            n \in 1..Len(heads[u][b].trees)} : b \in {x \in Branches : heads[u][x] # None}}

Disturb == events < MaxEvents /\ events' = events + 1

\* Enabled rows are the ones the poller serves.
Active(r) == listed[r] # None /\ listed[r].enabled

EmptyRows == [p \in Paths |-> None]

\* A directory that is missing or holds no file.
NoSource == [p \in Paths |-> NoFile]

\* What directory r holds: an extracted archive, or a clone.
Extracted(r) == files[r] # NoSource
Snapshotted(r) == checkout[r] # None /\ checkout[r].origin = Drop
Cloned(r) == checkout[r] # None /\ checkout[r].origin # Drop

-----------------------------------------------------------------------------
Init ==
  /\ \E t \in Trees :
       heads = [u \in Urls |-> [b \in Branches |->
                  IF b = Default[u] THEN [url |-> u, trees |-> <<t>>, time |-> 0] ELSE None]]
  /\ listed = [r \in Repos |-> None]
  /\ branch = [r \in Repos |-> None]
  /\ last_sha = [r \in Repos |-> None]
  /\ last_error = [r \in Repos |-> ""]
  /\ reindex_requested = [r \in Repos |-> 0]
  /\ rows = [r \in Repos |-> EmptyRows]
  /\ lane = [r \in Repos |-> None]
  /\ checkout = [r \in Repos |-> None] /\ files = [r \in Repos |-> NoSource]
  /\ wake = FALSE /\ nudges = 0
  /\ seen = [r \in Repos |-> -1]
  /\ pc = "down" /\ st = Idle /\ events = 0
  /\ ahead = [r \in Repos |-> {}]
  /\ owed = [r \in Repos |-> FALSE]
  /\ deferred = [r \in Repos |-> FALSE]

-----------------------------------------------------------------------------
(* The remotes.  n below the length of the branch is a force-push.         *)

Push(u, b, n, t) ==
  /\ Disturb
  /\ LET trees == IF heads[u][b] = None THEN <<>> ELSE heads[u][b].trees
     IN  /\ n <= Len(trees) /\ n < MaxDepth
         /\ heads' = [heads EXCEPT ![u][b] =
                        [url |-> u, trees |-> Append(SubSeq(trees, 1, n), t), time |-> 0]]
  /\ UNCHANGED <<columns, index, disk, signals, seen, pc, st>>

Rewind(u, b, n) ==
  /\ Disturb
  /\ heads[u][b] # None /\ n \in 1..Len(heads[u][b].trees)
  /\ heads' = [heads EXCEPT ![u][b].trees = SubSeq(@, 1, n)]
  /\ UNCHANGED <<columns, index, disk, signals, seen, pc, st>>

DeleteBranch(u, b) ==
  /\ Disturb
  /\ heads' = [heads EXCEPT ![u][b] = None]
  /\ UNCHANGED <<columns, index, disk, signals, seen, pc, st>>

\* The directory of a repository is removed by hand or with its volume.
LoseCheckout(r) ==
  /\ Disturb
  /\ pc \notin Visiting \/ st.repo # r
  /\ checkout[r] # None \/ Extracted(r)
  /\ checkout' = [checkout EXCEPT ![r] = None]
  /\ files' = [files EXCEPT ![r] = NoSource]
  /\ UNCHANGED <<remote, columns, index, signals, seen, pc, st>>

\* The operator extracts an archive over what is there, where a repos.yaml
\* makes the directory a snapshot's; a file the archive lacks stays.
Extract(r, t) ==
  /\ Disturb
  /\ \E list \in Lists : list[r] # None /\ list[r].url = Drop
  /\ ~Cloned(r)
  /\ files' = [files EXCEPT ![r] = [p \in Paths |-> IF t[p] = NoFile THEN @[p] ELSE t[p]]]
  /\ UNCHANGED <<remote, columns, index, checkout, signals, seen, pc, st>>

\* "rm -rf dir/*": the glob leaves .git behind.
EmptyDrop(r) ==
  /\ Disturb
  /\ Extracted(r)
  /\ files' = [files EXCEPT ![r] = NoSource]
  /\ UNCHANGED <<remote, columns, index, checkout, signals, seen, pc, st>>

-----------------------------------------------------------------------------
(* Boot, crash and the requests of the HTTP side.                          *)

\* Drop the indexed content of every repository of rs (purgeContent).
DropIndex(rs) ==
  /\ rows' = [r \in Repos |-> IF r \in rs THEN EmptyRows ELSE rows[r]]
  /\ lane' = [r \in Repos |-> IF r \in rs THEN None ELSE lane[r]]
  /\ ahead' = [r \in Repos |-> IF r \in rs THEN {} ELSE ahead[r]]

Purged(list) == {r \in Repos : listed[r] # None /\ list[r] = None}
PurgedClones(list) == {r \in Purged(list) : listed[r].url # Drop}
UrlChanged(list) ==
  {r \in Repos : listed[r] # None /\ list[r] # None /\ listed[r].url # list[r].url}

\* Mutant: an entry that names another remote keeps what was indexed.
KeepOnUrlChange(list) == {}

\* The entries whose index goes with their clone_url.
Reset(list) == UrlChanged(list)

\* The branch column after the upsert: the file wins, a changed clone_url
\* drops the resolved value, and an omitted branch keeps it.
SyncedBranch(list, r) ==
  IF list[r] = None THEN None
  ELSE IF list[r].branch # None THEN list[r].branch
  ELSE IF r \in UrlChanged(list) THEN None
  ELSE branch[r]

\* SyncSpecs in one transaction, then the checkouts of purged clones; a crash
\* or a failed removal leaves some of those behind.  What the operator
\* extracted is never removed.
BootSync(list, left) ==
  LET gone == Purged(list) \cup Reset(list)
  IN  /\ pc = "down"
      /\ left \subseteq PurgedClones(list)
      /\ listed' = list
      /\ branch' = [r \in Repos |-> SyncedBranch(list, r)]
      /\ last_sha' = [r \in Repos |-> IF r \in gone THEN None ELSE last_sha[r]]
      /\ last_error' = [r \in Repos |-> IF r \in gone THEN "" ELSE last_error[r]]
      /\ reindex_requested' =
           [r \in Repos |-> IF r \in Purged(list) THEN 0 ELSE reindex_requested[r]]
      /\ DropIndex(gone)
      /\ checkout' = [r \in Repos |-> IF r \in PurgedClones(list) \ left THEN None ELSE checkout[r]]
      /\ owed' = [r \in Repos |-> owed[r] /\ r \notin Purged(list)]
      /\ deferred' = [r \in Repos |-> TRUE]
      /\ pc' = "wait"
      /\ UNCHANGED <<files, remote, wake, nudges, seen, st, events>>

\* No repos.yaml, or indexing switched off: nothing is polled.
BootIdle ==
  /\ pc = "down"
  /\ pc' = "idle"
  /\ UNCHANGED <<remote, columns, index, disk, signals, seen, st, events>>

\* Killed or shut down between two commits: a visit cut short is not recorded.
Crash ==
  /\ Disturb
  /\ pc # "down"
  /\ pc' = "down"
  /\ st' = Idle
  /\ seen' = [r \in Repos |-> -1]
  /\ wake' = FALSE /\ nudges' = 0
  /\ UNCHANGED <<remote, columns, index, disk, owed, deferred>>

Polling == pc \notin {"down", "idle"}

\* RequestReindex and RequestReindexAll: the row first, the nudge after it.
RequestReindex(rs) ==
  /\ Disturb
  /\ Polling
  /\ rs # {} /\ \A r \in rs : Active(r)
  /\ reindex_requested' =
       [r \in Repos |-> IF r \in rs THEN reindex_requested[r] + 1 ELSE reindex_requested[r]]
  /\ nudges' = nudges + 1
  /\ owed' = [r \in Repos |-> owed[r] \/ r \in rs]
  /\ deferred' = [r \in Repos |-> deferred[r] /\ r \notin rs]
  /\ st' = [st EXCEPT !.clean = @ /\ st.repo \notin rs]
  /\ UNCHANGED <<remote, listed, branch, last_sha, last_error, index, disk,
                 wake, seen, pc>>

\* Mutant: an unbuffered channel takes the nudge only from a waiting poller.
NudgeUnbuffered ==
  /\ nudges > 0
  /\ nudges' = nudges - 1
  /\ wake' = (wake \/ pc = "wait")
  /\ UNCHANGED <<remote, columns, index, disk, owed, deferred, seen, pc, st, events>>

Nudge ==
  /\ nudges > 0
  /\ nudges' = nudges - 1
  /\ wake' = TRUE
  /\ UNCHANGED <<remote, columns, index, disk, owed, deferred, seen, pc, st, events>>

-----------------------------------------------------------------------------
(* One cycle: wait, read the list, visit each active repository.           *)

Wait ==
  /\ pc = "wait"
  /\ pc' = "list"
  /\ \/ wake /\ wake' = FALSE    \* the nudge
     \/ wake' = wake             \* the timer
  /\ UNCHANGED <<remote, columns, index, disk, nudges, owed, deferred, seen, st, events>>

ReadActive ==
  /\ pc = "list"
  /\ seen' = [r \in Repos |-> IF Active(r) THEN reindex_requested[r] ELSE -1]
  /\ pc' = "cycle"
  /\ UNCHANGED <<remote, columns, index, disk, signals, st, events>>

ListFails ==
  /\ Disturb
  /\ pc = "list"
  /\ pc' = "wait"
  /\ deferred' = [r \in Repos |-> TRUE]
  /\ UNCHANGED <<remote, columns, index, disk, wake, nudges, owed, seen, st>>

Visit(r) ==
  /\ pc = "cycle" /\ seen[r] # -1
  /\ seen' = [seen EXCEPT ![r] = -1]
  /\ st' = [Idle EXCEPT !.repo = r, !.last = last_sha[r], !.gen = seen[r]]
  /\ pc' = "origin"
  /\ UNCHANGED <<remote, columns, index, disk, signals, events>>

EndCycle ==
  /\ pc = "cycle" /\ \A r \in Repos : seen[r] = -1
  /\ pc' = "wait"
  /\ UNCHANGED <<remote, columns, index, disk, signals, seen, st, events>>

-----------------------------------------------------------------------------
(* pollRepo, call by call.  PollFails may take the place of any of them.   *)

Step(from, to) == pc = from /\ pc' = to

\* ResetRepo: the content goes and the row forgets its commit and its error.
ResetRepo(r) ==
  /\ DropIndex({r})
  /\ last_sha' = [last_sha EXCEPT ![r] = None]
  /\ last_error' = [last_error EXCEPT ![r] = ""]
  /\ UNCHANGED <<listed, branch, reindex_requested>>

Url == listed[st.repo].url

\* The remote the checkout was made from; None without a checkout.
OriginURL == IF checkout[st.repo] = None THEN None ELSE checkout[st.repo].origin

\* The directory does not hold what the entry says, and rongo deletes nothing
\* it did not create: no archive or a clone where EnsureSnapshot looks for one
\* (assertSnapshotCheckout), an extracted archive where OriginURL or git clone
\* find the place taken.
Misplaced ==
  \/ pc = "origin" /\ Url = Drop /\ (Cloned(st.repo) \/ ~Extracted(st.repo))
  \/ pc = "origin" /\ Url # Drop /\ Snapshotted(st.repo)
  \/ pc = "clone" /\ checkout[st.repo] = None /\ Extracted(st.repo)
  \/ pc = "add" /\ ~Extracted(st.repo) /\ checkout[st.repo].head = None

Refused ==
  /\ Misplaced /\ pc' = "cycle"
  /\ last_error' = [last_error EXCEPT ![st.repo] = "failed"]
  /\ deferred' = [deferred EXCEPT ![st.repo] = TRUE]
  /\ st' = Idle
  /\ UNCHANGED <<remote, listed, branch, last_sha, reindex_requested, index, disk,
                 wake, nudges, owed, seen, events>>

\* EnsureSnapshot looks at the directory, and inits it where no visit has yet.
CheckDrop ==
  /\ Step("origin", "add")
  /\ Url = Drop /\ ~Misplaced
  /\ checkout' = IF checkout[st.repo] # None THEN checkout
                 ELSE [checkout EXCEPT ![st.repo] = [origin |-> Drop, objects |-> {}, head |-> None]]
  /\ UNCHANGED <<files, remote, columns, index, signals, seen, st, events>>

\* add -A takes what is there by now; committed where it differs from HEAD.
CommitDrop ==
  /\ Step("add", "branch")
  /\ ~Misplaced
  /\ LET r == st.repo
         differs == checkout[r].head = None \/ Tree(checkout[r].head) # files[r]
         commit  == [url |-> Drop, trees |-> <<files[r]>>, time |-> events]
     IN  /\ checkout' = IF ~differs THEN checkout
                        ELSE [checkout EXCEPT ![r].head = commit, ![r].objects = @ \cup {commit}]
         /\ st' = [st EXCEPT !.head = checkout'[r].head]
  /\ UNCHANGED <<files, remote, columns, index, signals, seen, events>>

\* SetBranch to the constant a snapshot's citations carry.
NameDropBranch ==
  /\ Step("branch", "decide")
  /\ Url = Drop
  /\ branch' = [branch EXCEPT ![st.repo] = "snapshot"]
  /\ UNCHANGED <<remote, listed, last_sha, last_error, reindex_requested, index,
                 disk, signals, seen, st, events>>

OriginMatches ==
  /\ Step("origin", "clone")
  /\ Url # Drop /\ OriginURL \in {None, Url}
  /\ UNCHANGED <<remote, columns, index, disk, signals, seen, st, events>>

OriginDiffers ==
  /\ Step("origin", "remove")
  /\ Url # Drop /\ OriginURL \notin {None, Url, Drop}
  /\ ResetRepo(st.repo)
  /\ st' = [st EXCEPT !.last = None]
  /\ UNCHANGED <<remote, disk, signals, seen, events>>

RemoveCheckout ==
  /\ Step("remove", "clone")
  /\ checkout' = [checkout EXCEPT ![st.repo] = None]
  /\ UNCHANGED <<files, remote, columns, index, signals, seen, st, events>>

\* git clone stores the URL it was given, credentials and all; set-url puts
\* the bare one in its place (without a token the two are one step).
CloneRemote ==
  /\ Step("clone", "setUrl")
  /\ checkout[st.repo] = None /\ ~Misplaced
  /\ checkout' = [checkout EXCEPT ![st.repo] =
                    [origin |-> "tokened", objects |-> Reach(Url), head |-> None]]
  /\ UNCHANGED <<files, remote, columns, index, signals, seen, st, events>>

SetOriginUrl ==
  /\ Step("setUrl", "branch")
  /\ checkout' = [checkout EXCEPT ![st.repo].origin = Url]
  /\ UNCHANGED <<files, remote, columns, index, signals, seen, st, events>>

AlreadyCloned ==
  /\ Step("clone", "branch")
  /\ checkout[st.repo] # None
  /\ UNCHANGED <<remote, columns, index, disk, signals, seen, st, events>>

\* DefaultBranch and SetBranch for an entry without a branch.
ResolveBranch ==
  /\ Step("branch", "fetch")
  /\ Url # Drop
  /\ branch' = IF branch[st.repo] = None
               THEN [branch EXCEPT ![st.repo] = Default[Url]] ELSE branch
  /\ UNCHANGED <<remote, listed, last_sha, last_error, reindex_requested, index,
                 disk, signals, seen, st, events>>

RemoteHead == heads[Url][branch[st.repo]]

\* Fetch adds objects and HeadSHA reads the branch it brought.
FetchHead ==
  /\ Step("fetch", "decide")
  /\ RemoteHead # None
  /\ checkout' = [checkout EXCEPT ![st.repo].objects = @ \cup Reach(Url)]
  /\ st' = [st EXCEPT !.head = RemoteHead]
  /\ UNCHANGED <<files, remote, columns, index, signals, seen, events>>

\* Mutant: the error of one repository ends the whole cycle.
BranchGoneStops ==
  /\ Step("fetch", "wait")
  /\ RemoteHead = None
  /\ checkout' = [checkout EXCEPT ![st.repo].objects = @ \cup Reach(Url)]
  /\ last_error' = [last_error EXCEPT ![st.repo] = "failed"]
  /\ deferred' = [deferred EXCEPT ![st.repo] = TRUE]
  /\ seen' = [r \in Repos |-> -1]
  /\ st' = Idle
  /\ UNCHANGED <<files, remote, listed, branch, last_sha, reindex_requested, index,
                 wake, nudges, owed, events>>

\* ErrBranchGone: recorded on the row, and the cycle goes on.
BranchGone ==
  /\ Step("fetch", "cycle")
  /\ RemoteHead = None
  /\ checkout' = [checkout EXCEPT ![st.repo].objects = @ \cup Reach(Url)]
  /\ last_error' = [last_error EXCEPT ![st.repo] = "failed"]
  /\ deferred' = [deferred EXCEPT ![st.repo] = TRUE]
  /\ st' = Idle
  /\ UNCHANGED <<files, remote, listed, branch, last_sha, reindex_requested, index,
                 wake, nudges, owed, seen, events>>

\* Mutant: a pending request does not make the poller forget the commit.
IgnoreReindex == st.last

\* honourReindex: with a request pending the copy of last_sha is dropped.
KnownSha == IF st.gen > 0 THEN None ELSE st.last

\* MarkChecked: nothing new, and an old error goes.
Unchanged ==
  /\ Step("decide", "warn")
  /\ st.head = KnownSha
  /\ last_error' = [last_error EXCEPT ![st.repo] = ""]
  /\ UNCHANGED <<remote, listed, branch, last_sha, reindex_requested, index,
                 disk, signals, seen, st, events>>

Lost == KnownSha # None /\ KnownSha \notin checkout[st.repo].objects

\* resetIfLost: the indexed commit is not in this checkout.
ResetIfLost ==
  /\ Step("decide", "decide")
  /\ st.head # KnownSha /\ Lost
  /\ ResetRepo(st.repo)
  /\ st' = [st EXCEPT !.last = None]
  /\ UNCHANGED <<remote, disk, signals, seen, events>>

\* Mutant: rename detection names a moved file by its new path only.
DiffRenamed(from, to) ==
  {p \in Paths : Tree(from)[p] # Tree(to)[p] /\ Tree(to)[p] # NoFile}

\* ChangedPaths, --no-renames: every path the two trees differ in.
Diff(from, to) == {p \in Paths : Tree(from)[p] # Tree(to)[p]}

\* targets, and what DeleteFilesNotIn will retire before them.
StartIndex ==
  /\ Step("decide", "index")
  /\ st.head # KnownSha /\ ~Lost
  /\ LET full == KnownSha = None
     IN  st' = [st EXCEPT
                  !.full = full,
                  !.retire = {p \in Paths : full /\ rows[st.repo][p] # None
                                                 /\ Tree(st.head)[p] = NoFile},
                  !.todo = IF full THEN {p \in Paths : Tree(st.head)[p] # NoFile}
                           ELSE Diff(KnownSha, st.head),
                  !.last = KnownSha,
                  !.clean = full]
  /\ UNCHANGED <<remote, columns, index, disk, signals, seen, events>>

\* A regular file is read at the run's commit; a deleted path, a symlink and
\* a submodule pointer leave no row.
RowOf(p) ==
  IF Tree(st.head)[p] \in Blobs
  THEN [sha |-> st.head, blob |-> Tree(st.head)[p]] ELSE None

\* DeleteFile, RecordSkipped or ReplaceFile: one transaction per file, the
\* retired ones first.
IndexFile(p) ==
  /\ Step("index", "index")
  /\ p \in IF st.retire # {} THEN st.retire ELSE st.todo
  /\ rows' = [rows EXCEPT ![st.repo][p] = RowOf(p)]
  /\ ahead' = [ahead EXCEPT ![st.repo] = @ \cup {p}]
  /\ st' = [st EXCEPT !.retire = @ \ {p}, !.todo = IF st.retire # {} THEN @ ELSE @ \ {p}]
  /\ UNCHANGED <<remote, columns, lane, disk, signals, seen, events>>

\* A snapshot has no history worth recording.
IndexDone ==
  /\ Step("index", IF Url = Drop THEN "mark" ELSE "record")
  /\ st.retire = {} /\ st.todo = {}
  /\ UNCHANGED <<remote, columns, index, disk, signals, seen, st, events>>

\* recordHistory: the lane becomes the first-parent list from head.
RecordHistory ==
  /\ Step("record", "mark")
  /\ lane' = [lane EXCEPT ![st.repo] = st.head]
  /\ ahead' = [ahead EXCEPT ![st.repo] = @ \cup {"history"}]
  /\ UNCHANGED <<remote, columns, rows, disk, signals, seen, st, events>>

\* What the landed run covers: everything, or the diff and the lane.
Covered == IF st.full THEN Paths \cup {"history"}
           ELSE Diff(st.last, st.head) \cup {"history"}

MarkIndexed ==
  /\ pc = "mark" /\ pc' = IF st.gen > 0 THEN "clear" ELSE "warn"
  /\ last_sha' = [last_sha EXCEPT ![st.repo] = st.head]
  /\ last_error' = [last_error EXCEPT ![st.repo] = ""]
  /\ ahead' = [ahead EXCEPT ![st.repo] = @ \ Covered]
  /\ owed' = [owed EXCEPT ![st.repo] = @ /\ ~(st.full /\ st.clean)]
  /\ UNCHANGED <<remote, listed, branch, reindex_requested, rows, lane, disk,
                 wake, nudges, deferred, seen, st, events>>

\* reindex_requested after ClearReindex of the generation the run read.
Served(asked) == IF asked = st.gen THEN 0 ELSE asked

ClearReindex ==
  /\ Step("clear", "warn")
  /\ reindex_requested' = [reindex_requested EXCEPT ![st.repo] = Served(@)]
  /\ UNCHANGED <<remote, listed, branch, last_sha, last_error, index, disk,
                 signals, seen, st, events>>

StageEmpty(r) == Stage # {} /\ \A p \in Stage : rows[r][p] = None

\* warnEmptyStages, after an index and after an unchanged poll alike.
WarnEmptyStages ==
  /\ Step("warn", "cycle")
  /\ last_error' = IF StageEmpty(st.repo) THEN [last_error EXCEPT ![st.repo] = "stage"]
                   ELSE last_error
  /\ st' = Idle
  /\ UNCHANGED <<remote, listed, branch, last_sha, reindex_requested, index,
                 disk, signals, seen, events>>

WarnFails ==
  /\ Disturb
  /\ Step("warn", "cycle")
  /\ st' = Idle
  /\ UNCHANGED <<remote, columns, index, disk, signals, seen>>

\* A call of the visit failed: MarkError, which can fail too, and the next
\* repository.
PollFails ==
  /\ Disturb
  /\ pc \in Visiting
  /\ pc' = "cycle"
  /\ \/ last_error' = [last_error EXCEPT ![st.repo] = "failed"]
     \/ UNCHANGED last_error
  /\ deferred' = [deferred EXCEPT ![st.repo] = TRUE]
  /\ st' = Idle
  /\ UNCHANGED <<remote, listed, branch, last_sha, reindex_requested, index,
                 disk, wake, nudges, owed, seen>>

-----------------------------------------------------------------------------
Boot == (\E list \in Lists, left \in SUBSET Repos : BootSync(list, left)) \/ BootIdle

\* What the poller's goroutine does when nothing fails.
PollerStep ==
  \/ Wait \/ ReadActive \/ (\E r \in Repos : Visit(r)) \/ EndCycle
  \/ OriginMatches \/ OriginDiffers \/ RemoveCheckout
  \/ Refused \/ CheckDrop \/ CommitDrop \/ NameDropBranch
  \/ CloneRemote \/ SetOriginUrl \/ AlreadyCloned
  \/ ResolveBranch \/ FetchHead \/ BranchGone
  \/ Unchanged \/ ResetIfLost \/ StartIndex
  \/ (\E p \in Paths : IndexFile(p)) \/ IndexDone
  \/ RecordHistory \/ MarkIndexed \/ ClearReindex \/ WarnEmptyStages

Failure == PollFails \/ WarnFails \/ ListFails \/ Crash

Environment ==
  \/ \E u \in Urls, b \in Branches, n \in 0..MaxDepth, t \in Trees : Push(u, b, n, t)
  \/ \E u \in Urls, b \in Branches, n \in 1..MaxDepth : Rewind(u, b, n)
  \/ \E u \in Urls, b \in Branches : DeleteBranch(u, b)
  \/ \E r \in Repos : LoseCheckout(r) \/ EmptyDrop(r) \/ \E t \in Archives : Extract(r, t)
  \/ \E rs \in SUBSET Repos : RequestReindex(rs)

Next == Boot \/ PollerStep \/ Failure \/ Environment \/ Nudge

Spec == Init /\ [][Next]_vars

\* The supervisor restarts the process, the goroutine is scheduled and its
\* timer fires, and a handler that wrote a request goes on to nudge.
Fairness == WF_vars(Boot) /\ WF_vars(PollerStep) /\ WF_vars(Nudge)

FairSpec == Spec /\ Fairness

-----------------------------------------------------------------------------
Visits ==
  [repo : Repos \cup {None}, last : Commit \cup {None}, gen : Nat, head : Commit \cup {None},
   full : BOOLEAN, retire : SUBSET Paths, todo : SUBSET Paths, clean : BOOLEAN]

(* Every column, row and signal has its type.                              *)
TypeOK ==
  /\ heads \in [Urls -> [Branches -> Commit \cup {None}]]
  /\ listed \in [Repos -> Entry \cup {None}]
  /\ branch \in [Repos -> Branches \cup {None, "snapshot"}]
  /\ last_sha \in [Repos -> Commit \cup {None}]
  /\ last_error \in [Repos -> {"", "failed", "stage"}]
  /\ reindex_requested \in [Repos -> Nat]
  /\ rows \in [Repos -> [Paths -> Row \cup {None}]]
  /\ lane \in [Repos -> Commit \cup {None}]
  /\ checkout \in [Repos -> Clone \cup {None}] /\ files \in [Repos -> Tree0]
  /\ wake \in BOOLEAN /\ nudges \in Nat
  /\ seen \in [Repos -> Nat \cup {-1}]
  /\ pc \in Phases /\ st \in Visits /\ events \in Nat
  /\ ahead \in [Repos -> SUBSET (Paths \cup {"history"})]
  /\ owed \in [Repos -> BOOLEAN] /\ deferred \in [Repos -> BOOLEAN]

(* Every file row is attributable: its content is what the tree of its own *)
(* commit has at that path, whatever was pushed while the run was reading  *)
(* and wherever an earlier run stopped.                                    *)
Attributed ==
  \A r \in Repos, p \in Paths :
    rows[r][p] # None => rows[r][p].blob = Tree(rows[r][p].sha)[p]

(* One name never answers with another remote's code: every row, the       *)
(* commit lane and last_sha come from the clone_url the entry has, through *)
(* edited entries, purged and re-added names and checkouts left behind.    *)
OneRemote ==
  \A r \in Repos :
    /\ \A p \in Paths : rows[r][p] # None =>
         listed[r] # None /\ rows[r][p].sha.url = listed[r].url
    /\ lane[r] # None => listed[r] # None /\ lane[r].url = listed[r].url
    /\ last_sha[r] # None => listed[r] # None /\ last_sha[r].url = listed[r].url

Held(r, p) == IF rows[r][p] = None THEN None ELSE rows[r][p].blob
Expected(c, p) == IF Tree(c)[p] \in Blobs THEN Tree(c)[p] ELSE None

(* The index is the tree of last_sha, and the lane its history, except     *)
(* where a run that never landed wrote ahead of it: a diff names every     *)
(* path that has to move, a full run retires every path that has to go,    *)
(* and no landed run leaves a gap.                                         *)
IndexAgrees ==
  \A r \in Repos : last_sha[r] # None =>
    /\ \A p \in Paths \ ahead[r] : Held(r, p) = Expected(last_sha[r], p)
    /\ "history" \notin ahead[r] =>
         lane[r] = IF last_sha[r].url = Drop THEN None ELSE last_sha[r]

(* The index is what it says it is: TypeOK, every row's own commit and the *)
(* agreement with last_sha.                                                *)
RowsSound == TypeOK /\ Attributed /\ IndexAgrees

(* A re-index request stays on the row until a full run that began after   *)
(* it has landed: a run under way when it arrives, a failed run and a      *)
(* restart all leave it there.                                             *)
RequestKept == \A r \in Repos : owed[r] => reindex_requested[r] > 0

(* A request never sits through the poll interval unless its attempt       *)
(* failed: a nudge is on its way, the channel holds one, or the cycle that *)
(* read the request has yet to serve it.                                   *)
NoLostWake ==
  \A r \in Repos : owed[r] /\ Active(r) /\ Polling /\ ~deferred[r] =>
    \/ nudges > 0 \/ wake
    \/ pc = "list"
    \/ seen[r] = reindex_requested[r]
    \/ st.repo = r /\ st.gen = reindex_requested[r] /\ pc \in Visiting

(* A request is neither lost nor left waiting: RequestKept and NoLostWake. *)
NoLostRequest == RequestKept /\ NoLostWake

\* The branch an entry is about: the one it names, or the remote's default.
Wanted(r) ==
  heads[listed[r].url][IF listed[r].branch # None THEN listed[r].branch
                       ELSE Default[listed[r].url]]

\* No visit can get through: the branch is gone, or the directory is not what
\* the entry says.
Blocked(r) ==
  IF listed[r].url = Drop THEN ~Extracted(r) \/ Cloned(r)
  ELSE Wanted(r) = None \/ Snapshotted(r) \/ (checkout[r] = None /\ Extracted(r))

Current(r) ==
  /\ last_sha[r] # None
  /\ IF listed[r].url = Drop THEN Tree(last_sha[r]) = files[r] ELSE last_sha[r] = Wanted(r)

Settled(r) ==
  Active(r) =>
    IF Blocked(r) THEN last_error[r] = "failed"
    ELSE /\ Current(r)
         /\ st.repo # r => last_error[r] = IF StageEmpty(r) THEN "stage" ELSE ""

(* Once the disturbances stop, every active repository ends up recorded at *)
(* the commit its branch points at, or with the archive that is extracted, *)
(* and no stale error; or says on its row that the branch is gone, its     *)
(* directory holds something else, or a declared stage is empty.           *)
CatchesUp == <>[](pc = "idle" \/ \A r \in Repos : Settled(r))

(* Every accepted request is served in the end, unless its entry is parked *)
(* or removed, it is blocked, or nothing polls any more.                   *)
RequestServed ==
  \A r \in Repos : owed[r] ~> (~owed[r] \/ ~Active(r) \/ pc = "idle" \/ Blocked(r))

(* indexOne: a failed run does not advance last_sha, so "the next poll     *)
(* retries" and no file keeps another commit's content for good: a poll    *)
(* that ends well leaves the files of the commit it records.               *)
PollLandsTree ==
  pc = "warn" => \A p \in Paths : Held(st.repo, p) = Expected(last_sha[st.repo], p)
=============================================================================
