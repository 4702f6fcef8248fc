---------------------------- MODULE PollerProofs ----------------------------
(***************************************************************************)
(* What holds of the poller and its rows for any remotes, repos.yaml files,*)
(* depth of history and number of disturbances: an index is of one remote  *)
(* (RemoteIsOne), it is what it says it is (IndexIsSound), and a re-index  *)
(* request is neither lost nor left waiting (RequestIsServed).             *)
(*                                                                         *)
(* All rest on one inductive invariant, PollerInv.  The properties speak   *)
(* of rows; between two commits the poller works from copies, so the parts *)
(* below say what its copies are still good for: the visit's entry is      *)
(* listed, its commit is of the entry's own remote, its last_sha is the    *)
(* row's, and what its lists no longer name is already at its commit.      *)
(***************************************************************************)
EXTENDS Poller, TLAPS

\* The type invariant by the groups of variables a step changes or leaves alone.
RemoteTyped == heads \in [Urls -> [Branches -> Commit \cup {None}]]
ColumnsTyped ==
  /\ listed \in [Repos -> Entry \cup {None}]
  /\ branch \in [Repos -> Branches \cup {None, "snapshot"}]
  /\ last_sha \in [Repos -> Commit \cup {None}]
  /\ last_error \in [Repos -> {"", "failed", "stage"}]
  /\ reindex_requested \in [Repos -> Nat]
IndexTyped ==
  /\ rows \in [Repos -> [Paths -> Row \cup {None}]]
  /\ lane \in [Repos -> Commit \cup {None}]
  /\ ahead \in [Repos -> SUBSET (Paths \cup {"history"})]
DiskTyped == checkout \in [Repos -> Clone \cup {None}] /\ files \in [Repos -> Tree0]
SignalsTyped ==
  /\ wake \in BOOLEAN /\ nudges \in Nat
  /\ owed \in [Repos -> BOOLEAN] /\ deferred \in [Repos -> BOOLEAN]
VisitTyped == seen \in [Repos -> Nat \cup {-1}] /\ pc \in Phases /\ st \in Visits

\* A visit is about one repository of the list, and nothing is visited between
\* two cycles.
VisitShaped ==
  /\ pc \notin Visiting \cup {"warn"} => st = Idle
  /\ pc \in Visiting \cup {"warn"} =>
       st.repo \in Repos /\ listed[st.repo] # None /\ seen[st.repo] = -1
  /\ pc \in {"remove", "clone", "setUrl", "fetch", "record"} => Url # Drop
  /\ pc \in {"setUrl", "add", "branch", "fetch"} => checkout[st.repo] # None
  /\ pc = "add" => Url = Drop

\* The cycle's list is of rows that are listed, with requests the rows still
\* have or have outgrown.
SeenShaped ==
  /\ pc \notin Visiting \cup {"cycle", "warn"} => \A r \in Repos : seen[r] = -1
  /\ \A r \in Repos : seen[r] # -1 => listed[r] # None /\ seen[r] <= reindex_requested[r]

\* A commit comes from the remote it is read from.
RemotesOwn ==
  /\ \A u \in Urls, b \in Branches : heads[u][b] # None => heads[u][b].url = u
  /\ \A r \in Repos : checkout[r] # None /\ checkout[r].head # None => checkout[r].head.url = Drop
  /\ \A r \in Repos : lane[r] # None => lane[r].url # Drop

\* Only a snapshot's branch column holds the constant.
BranchesOwn ==
  \A r \in Repos : branch[r] \in Branches \cup {None} \/ (listed[r] # None /\ listed[r].url = Drop)

\* The commit of the visit is the entry's own, and the copy of last_sha is what
\* the row has.
HeadKnown ==
  /\ pc = "branch" /\ Url = Drop => st.head # None
  /\ pc = "fetch" => branch[st.repo] \in Branches
  /\ pc \in {"decide", "index", "record", "mark", "clear"} => st.head # None
  /\ pc \in Visiting /\ st.head # None => st.head.url = Url
  /\ pc \in Visiting \ {"clear"} /\ st.last # None => last_sha[st.repo] = st.last

\* The phases of a run that has yet to land.
Running == {"index", "record", "mark"}

\* What the run has still to write is on its lists: every other path it covers
\* is at its commit.
RunCovers ==
  /\ pc \in Running =>
       /\ st.full <=> st.last = None
       /\ st.gen > 0 => st.full
       /\ \A p \in (IF st.full THEN Paths ELSE Diff(st.last, st.head)) \ (st.retire \cup st.todo) :
            Held(st.repo, p) = Expected(st.head, p)
  /\ pc \in {"record", "mark"} => st.retire = {} /\ st.todo = {}
  /\ pc = "mark" => lane[st.repo] = IF Url = Drop THEN None ELSE st.head

\* A request that came after the run began is a later one than it read.
RequestAhead ==
  /\ pc \in Visiting => st.gen <= reindex_requested[st.repo]
  /\ pc \in Running /\ st.full /\ ~st.clean => st.gen < reindex_requested[st.repo]
  /\ pc = "clear" /\ owed[st.repo] => st.gen < reindex_requested[st.repo]

\* The invariant every step keeps.
PollerInv ==
  /\ TypeOK /\ Attributed /\ OneRemote /\ IndexAgrees
  /\ RequestKept /\ NoLostWake
  /\ VisitShaped /\ SeenShaped /\ RemotesOwn /\ BranchesOwn /\ HeadKnown /\ RunCovers /\ RequestAhead
-----------------------------------------------------------------------------
(* The groups are the type invariant.                                      *)
LEMMA Grouped ==
  TypeOK <=> /\ RemoteTyped /\ ColumnsTyped /\ IndexTyped /\ DiskTyped /\ SignalsTyped /\ VisitTyped
             /\ events \in Nat
BY DEF TypeOK, RemoteTyped, ColumnsTyped, IndexTyped, DiskTyped, SignalsTyped, VisitTyped

(* A group no variable of which changes keeps its types.                   *)
LEMMA Unmoved ==
  /\ RemoteTyped /\ UNCHANGED remote => RemoteTyped'
  /\ ColumnsTyped /\ UNCHANGED columns => ColumnsTyped'
  /\ IndexTyped /\ UNCHANGED index => IndexTyped'
  /\ DiskTyped /\ UNCHANGED disk => DiskTyped'
  /\ SignalsTyped /\ UNCHANGED signals => SignalsTyped'
BY DEF RemoteTyped, ColumnsTyped, IndexTyped, DiskTyped, SignalsTyped, remote, columns, index, disk,
   signals

(* The next state's type invariant, group by group.                        *)
LEMMA GroupedNext ==
  ASSUME RemoteTyped', ColumnsTyped', IndexTyped', DiskTyped', SignalsTyped', VisitTyped',
         events' \in Nat
  PROVE  TypeOK'
BY DEF TypeOK, RemoteTyped, ColumnsTyped, IndexTyped, DiskTyped, SignalsTyped, VisitTyped

(* A visit that is over, an empty directory and an empty index are typed.  *)
LEMMA IdleTyped ==
  /\ Idle \in Visits /\ NoSource \in Tree0
  /\ EmptyRows \in [Paths -> Row \cup {None}]
BY DEF Idle, Visits, NoSource, Tree0, NoFile, EmptyRows

(* The commits of a branch, down to its first, are commits of its remote.  *)
LEMMA Branched ==
  ASSUME RemoteTyped, NEW u \in Urls, NEW b \in Branches, heads[u][b] # None
  PROVE  /\ heads[u][b] \in Commit /\ heads[u][b].trees \in Seq(Tree0)
         /\ \A n \in 1..Len(heads[u][b].trees) :
              [url |-> u, trees |-> SubSeq(heads[u][b].trees, 1, n), time |-> 0] \in Commit
<1>1. heads[u][b] \in Commit
  BY DEF RemoteTyped
<1>2. heads[u][b].trees \in Seq(Tree0)
  BY <1>1 DEF Commit
<1>3. \A n \in 1..Len(heads[u][b].trees) : SubSeq(heads[u][b].trees, 1, n) \in Seq(Tree0)
  BY <1>2
<1> QED
  BY <1>1, <1>2, <1>3 DEF Commit

(* What a clone or a fetch brings is commits.                              *)
LEMMA ReachTyped ==
  ASSUME RemoteTyped, NEW u \in Urls
  PROVE  Reach(u) \subseteq Commit
BY Branched DEF Reach

(* What each variable holds for a repository.                              *)
LEMMA Elements ==
  ASSUME TypeOK, NEW r \in Repos
  PROVE  /\ listed[r] \in Entry \cup {None}
         /\ branch[r] \in Branches \cup {None, "snapshot"}
         /\ last_sha[r] \in Commit \cup {None} /\ reindex_requested[r] \in Nat
         /\ rows[r] \in [Paths -> Row \cup {None}] /\ lane[r] \in Commit \cup {None}
         /\ ahead[r] \in SUBSET (Paths \cup {"history"})
         /\ checkout[r] \in Clone \cup {None} /\ files[r] \in Tree0
         /\ seen[r] \in Nat \cup {-1} /\ owed[r] \in BOOLEAN /\ deferred[r] \in BOOLEAN
<1>1. /\ listed \in [Repos -> Entry \cup {None}]
      /\ branch \in [Repos -> Branches \cup {None, "snapshot"}]
      /\ last_sha \in [Repos -> Commit \cup {None}]
      /\ reindex_requested \in [Repos -> Nat]
      /\ rows \in [Repos -> [Paths -> Row \cup {None}]]
      /\ lane \in [Repos -> Commit \cup {None}]
      /\ checkout \in [Repos -> Clone \cup {None}] /\ files \in [Repos -> Tree0]
      /\ seen \in [Repos -> Nat \cup {-1}]
      /\ ahead \in [Repos -> SUBSET (Paths \cup {"history"})]
      /\ owed \in [Repos -> BOOLEAN] /\ deferred \in [Repos -> BOOLEAN]
  BY DEF TypeOK
<1>2. listed[r] \in Entry \cup {None}
  BY <1>1
<1>3. branch[r] \in Branches \cup {None, "snapshot"}
  BY <1>1
<1>4. last_sha[r] \in Commit \cup {None} /\ lane[r] \in Commit \cup {None}
  BY <1>1
<1>5. reindex_requested[r] \in Nat /\ seen[r] \in Nat \cup {-1}
  BY <1>1
<1>6. rows[r] \in [Paths -> Row \cup {None}] /\ ahead[r] \in SUBSET (Paths \cup {"history"})
  BY <1>1
<1>7. checkout[r] \in Clone \cup {None} /\ files[r] \in Tree0
  BY <1>1
<1>8. owed[r] \in BOOLEAN /\ deferred[r] \in BOOLEAN
  BY <1>1
<1> QED
  BY <1>2, <1>3, <1>4, <1>5, <1>6, <1>7, <1>8

(* What happens outside the poller leaves every variable typed.            *)
LEMMA WorldTyped ==
  ASSUME TypeOK
  PROVE  /\ \A u \in Urls, b \in Branches, n \in 0..MaxDepth, t \in Trees : Push(u, b, n, t) => TypeOK'
         /\ \A u \in Urls, b \in Branches, n \in 1..MaxDepth : Rewind(u, b, n) => TypeOK'
         /\ \A u \in Urls, b \in Branches : DeleteBranch(u, b) => TypeOK'
         /\ \A r \in Repos : LoseCheckout(r) \/ EmptyDrop(r) => TypeOK'
         /\ \A r \in Repos, t \in Archives : Extract(r, t) => TypeOK'
         /\ \A rs \in SUBSET Repos : RequestReindex(rs) => TypeOK'
<1>a. /\ RemoteTyped /\ ColumnsTyped /\ IndexTyped /\ DiskTyped /\ SignalsTyped /\ VisitTyped
      /\ events \in Nat
  BY Grouped
<1>b. VisitTyped /\ UNCHANGED <<seen, pc, st>> => VisitTyped'
  BY DEF VisitTyped
<1>c. Disturb => events' \in Nat
  BY <1>a DEF Disturb
<1>1. ASSUME NEW u \in Urls, NEW b \in Branches, NEW n \in 0..MaxDepth, NEW t \in Trees, Push(u, b, n, t)
      PROVE  TypeOK'
  <2> DEFINE trees == IF heads[u][b] = None THEN <<>> ELSE heads[u][b].trees
  <2>1. trees \in Seq(Tree0)
    BY <1>a, Branched
  <2>2. n \in 0..Len(trees)
    BY <1>1, <2>1 DEF Push
  <2>3. t \in Tree0
    BY TreesAssumption
  <2>4. heads' = [heads EXCEPT ![u][b] = [url |-> u, trees |-> Append(SubSeq(trees, 1, n), t), time |-> 0]]
    BY <1>1 DEF Push
  <2> HIDE DEF trees
  <2>5. Append(SubSeq(trees, 1, n), t) \in Seq(Tree0)
    BY <2>1, <2>2, <2>3
  <2>6. [url |-> u, trees |-> Append(SubSeq(trees, 1, n), t), time |-> 0] \in Commit
    BY <2>5 DEF Commit
  <2>7. RemoteTyped'
    BY <1>a, <2>4, <2>6 DEF RemoteTyped
  <2> QED
    BY <1>1, <1>a, <1>b, <1>c, <2>7, Unmoved, GroupedNext DEF Push
<1>2. ASSUME NEW u \in Urls, NEW b \in Branches, NEW n \in 1..MaxDepth, Rewind(u, b, n)
      PROVE  TypeOK'
  <2> DEFINE c == [heads[u][b] EXCEPT !.trees = SubSeq(@, 1, n)]
  <2>1. heads[u][b] \in Commit /\ heads[u][b].trees \in Seq(Tree0) /\ n \in 1..Len(heads[u][b].trees)
    BY <1>2, <1>a, Branched DEF Rewind
  <2>2. SubSeq(heads[u][b].trees, 1, n) \in Seq(Tree0)
    BY <2>1
  <2>3. c \in Commit
    BY <2>1, <2>2 DEF Commit
  <2>4. heads' = [heads EXCEPT ![u][b] = c]
    BY <1>2, <1>a DEF Rewind, RemoteTyped
  <2> HIDE DEF c
  <2>5. RemoteTyped'
    BY <1>a, <2>3, <2>4 DEF RemoteTyped
  <2> QED
    BY <1>2, <1>a, <1>b, <1>c, <2>5, Unmoved, GroupedNext DEF Rewind
<1>3. ASSUME NEW u \in Urls, NEW b \in Branches, DeleteBranch(u, b)
      PROVE  TypeOK'
  <2>1. RemoteTyped'
    BY <1>3, <1>a DEF DeleteBranch, RemoteTyped
  <2> QED
    BY <1>3, <1>a, <1>b, <1>c, <2>1, Unmoved, GroupedNext DEF DeleteBranch
<1>4. ASSUME NEW r \in Repos, LoseCheckout(r) \/ EmptyDrop(r)
      PROVE  TypeOK'
  <2>1. DiskTyped'
    BY <1>4, <1>a, IdleTyped DEF LoseCheckout, EmptyDrop, DiskTyped
  <2> QED
    BY <1>4, <1>a, <1>b, <1>c, <2>1, Unmoved, GroupedNext DEF LoseCheckout, EmptyDrop
<1>5. ASSUME NEW r \in Repos, NEW t \in Archives, Extract(r, t)
      PROVE  TypeOK'
  <2> DEFINE f == [p \in Paths |-> IF t[p] = NoFile THEN files[r][p] ELSE t[p]]
  <2>1. f \in Tree0
    BY <1>a, TreesAssumption DEF DiskTyped, Tree0
  <2>2. checkout' = checkout /\ files' = [files EXCEPT ![r] = f]
    BY <1>5 DEF Extract
  <2> HIDE DEF f
  <2>3. DiskTyped'
    BY <1>a, <2>1, <2>2 DEF DiskTyped
  <2> QED
    BY <1>5, <1>a, <1>b, <1>c, <2>3, Unmoved, GroupedNext DEF Extract
<1>6. ASSUME NEW rs \in SUBSET Repos, RequestReindex(rs)
      PROVE  TypeOK'
  <2>1. ColumnsTyped'
    <3>1. reindex_requested' =
            [r \in Repos |-> IF r \in rs THEN reindex_requested[r] + 1 ELSE reindex_requested[r]]
      BY <1>6 DEF RequestReindex
    <3>2. UNCHANGED <<listed, branch, last_sha, last_error>>
      BY <1>6 DEF RequestReindex
    <3>3. \A r \in Repos : reindex_requested[r] \in Nat /\ reindex_requested[r] + 1 \in Nat
      BY Elements
    <3> QED
      BY <1>a, <3>1, <3>2, <3>3 DEF ColumnsTyped
  <2>2. SignalsTyped'
    BY <1>6, <1>a DEF RequestReindex, SignalsTyped
  <2>3. VisitTyped'
    BY <1>6, <1>a DEF RequestReindex, VisitTyped, Visits
  <2> QED
    BY <1>6, <1>a, <1>c, <2>1, <2>2, <2>3, Unmoved, GroupedNext DEF RequestReindex
<1> QED
  BY <1>1, <1>2, <1>3, <1>4, <1>5, <1>6

(* The repository a visit is about, its entry and its plan.                *)
LEMMA Visited ==
  ASSUME TypeOK, VisitShaped, pc \in Visiting \cup {"warn"}
  PROVE  /\ st.repo \in Repos /\ listed[st.repo] \in Entry /\ Url \in Urls \cup {Drop}
         /\ st \in Visits /\ st.gen \in Nat /\ st.retire \subseteq Paths /\ st.todo \subseteq Paths
         /\ st.head \in Commit \cup {None} /\ st.last \in Commit \cup {None}
         /\ st.full \in BOOLEAN /\ st.clean \in BOOLEAN
<1>1. st.repo \in Repos /\ listed[st.repo] # None
  BY DEF VisitShaped
<1>2. listed[st.repo] \in Entry
  BY <1>1, Elements
<1>3. st \in Visits
  BY DEF TypeOK
<1> QED
  BY <1>1, <1>2, <1>3 DEF Url, Entry, Visits

(* Dropping content leaves an empty index, and resetting a row a row.      *)
LEMMA DropTyped ==
  ASSUME TypeOK
  PROVE  /\ \A rs \in SUBSET Repos : DropIndex(rs) => IndexTyped'
         /\ \A r \in Repos : ResetRepo(r) => IndexTyped' /\ ColumnsTyped'
<1>1. ASSUME NEW rs \in SUBSET Repos, DropIndex(rs)
      PROVE  IndexTyped'
  <2>1. \A r \in Repos : /\ rows[r] \in [Paths -> Row \cup {None}] /\ lane[r] \in Commit \cup {None}
                         /\ ahead[r] \in SUBSET (Paths \cup {"history"})
    BY Elements
  <2>2. rows' \in [Repos -> [Paths -> Row \cup {None}]]
    BY <1>1, <2>1, IdleTyped DEF DropIndex
  <2>3. lane' \in [Repos -> Commit \cup {None}]
    BY <1>1, <2>1 DEF DropIndex
  <2>4. ahead' \in [Repos -> SUBSET (Paths \cup {"history"})]
    BY <1>1, <2>1 DEF DropIndex
  <2> QED
    BY <2>2, <2>3, <2>4 DEF IndexTyped
<1>2. ASSUME NEW r \in Repos, ResetRepo(r)
      PROVE  ColumnsTyped'
  <2>1. ColumnsTyped
    BY Grouped
  <2>2. /\ last_sha' = [last_sha EXCEPT ![r] = None]
        /\ last_error' = [last_error EXCEPT ![r] = ""]
        /\ UNCHANGED <<listed, branch, reindex_requested>>
    BY <1>2 DEF ResetRepo
  <2> QED
    BY <2>1, <2>2 DEF ColumnsTyped
<1> QED
  BY <1>1, <1>2 DEF ResetRepo

(* An error, or its absence, on one row.                                   *)
LEMMA ErrorTyped ==
  ASSUME TypeOK, NEW r \in Repos, NEW error \in {"", "failed", "stage"},
         last_error' \in {last_error, [last_error EXCEPT ![r] = error]},
         UNCHANGED <<listed, branch, last_sha, reindex_requested>>
  PROVE  ColumnsTyped'
BY Grouped DEF ColumnsTyped

(* Boots, crashes and nudges leave every variable typed.                   *)
LEMMA ProcessTyped ==
  ASSUME TypeOK
  PROVE  /\ \A list \in Lists, left \in SUBSET Repos : BootSync(list, left) => TypeOK'
         /\ BootIdle \/ Crash \/ Nudge => TypeOK'
<1>a. /\ RemoteTyped /\ ColumnsTyped /\ IndexTyped /\ DiskTyped /\ SignalsTyped /\ VisitTyped
      /\ events \in Nat
  BY Grouped
<1>1. ASSUME NEW list \in Lists, NEW left \in SUBSET Repos, BootSync(list, left)
      PROVE  TypeOK'
  <2> DEFINE gone == Purged(list) \cup Reset(list)
  <2>1. list \in [Repos -> Entry \cup {None}]
    BY ListsAssumption
  <2>2. gone \in SUBSET Repos
    BY DEF Purged, Reset, UrlChanged
  <2>3. IndexTyped'
    BY <1>1, <2>2, DropTyped DEF BootSync
  <2>4. \A r \in Repos : list[r] # None => list[r].branch \in Branches \cup {None}
    BY <2>1 DEF Entry
  <2>5. \A r \in Repos : SyncedBranch(list, r) \in Branches \cup {None, "snapshot"}
    BY <2>4, Elements DEF SyncedBranch
  <2>6. branch' \in [Repos -> Branches \cup {None, "snapshot"}]
    BY <1>1, <2>5 DEF BootSync
  <2> HIDE DEF gone
  <2>7. last_sha' \in [Repos -> Commit \cup {None}]
    BY <1>1, Elements DEF BootSync
  <2>8. last_error' \in [Repos -> {"", "failed", "stage"}]
    BY <1>1, <1>a DEF BootSync, ColumnsTyped
  <2>9. reindex_requested' \in [Repos -> Nat]
    BY <1>1, Elements DEF BootSync
  <2>10. ColumnsTyped'
    BY <1>1, <2>1, <2>6, <2>7, <2>8, <2>9 DEF BootSync, ColumnsTyped
  <2>11. DiskTyped'
    BY <1>1, <1>a, Elements DEF BootSync, DiskTyped
  <2>12. SignalsTyped'
    BY <1>1, <1>a, Elements DEF BootSync, SignalsTyped
  <2>13. VisitTyped'
    BY <1>1, <1>a DEF BootSync, VisitTyped, Phases
  <2> QED
    BY <1>1, <1>a, <2>3, <2>10, <2>11, <2>12, <2>13, Unmoved, GroupedNext DEF BootSync
<1>2. ASSUME BootIdle
      PROVE  TypeOK'
  <2>1. VisitTyped'
    BY <1>2, <1>a DEF BootIdle, VisitTyped, Phases
  <2> QED
    BY <1>2, <1>a, <2>1, Unmoved, GroupedNext DEF BootIdle
<1>3. ASSUME Crash
      PROVE  TypeOK'
  <2>1. VisitTyped'
    BY <1>3, IdleTyped DEF Crash, VisitTyped, Phases
  <2>2. SignalsTyped'
    BY <1>3, <1>a DEF Crash, SignalsTyped
  <2>3. events' \in Nat
    BY <1>3, <1>a DEF Crash, Disturb
  <2> QED
    BY <1>3, <1>a, <2>1, <2>2, <2>3, Unmoved, GroupedNext DEF Crash
<1>4. ASSUME Nudge
      PROVE  TypeOK'
  <2>1. SignalsTyped' /\ VisitTyped'
    BY <1>4, <1>a DEF Nudge, SignalsTyped, VisitTyped
  <2> QED
    BY <1>4, <1>a, <2>1, Unmoved, GroupedNext DEF Nudge
<1> QED
  BY <1>1, <1>2, <1>3, <1>4

(* The cycle leaves every variable typed.                                  *)
LEMMA CycleTyped ==
  ASSUME TypeOK
  PROVE  /\ Wait \/ ReadActive \/ ListFails \/ EndCycle => TypeOK'
         /\ \A r \in Repos : Visit(r) => TypeOK'
<1>a. /\ RemoteTyped /\ ColumnsTyped /\ IndexTyped /\ DiskTyped /\ SignalsTyped /\ VisitTyped
      /\ events \in Nat
  BY Grouped
<1>1. ASSUME Wait \/ ListFails
      PROVE  TypeOK'
  <2>1. SignalsTyped'
    BY <1>1, <1>a DEF Wait, ListFails, SignalsTyped
  <2>2. VisitTyped'
    BY <1>1, <1>a DEF Wait, ListFails, VisitTyped, Phases
  <2>3. events' \in Nat
    BY <1>1, <1>a DEF Wait, ListFails, Disturb
  <2> QED
    BY <1>1, <1>a, <2>1, <2>2, <2>3, Unmoved, GroupedNext DEF Wait, ListFails
<1>2. ASSUME ReadActive
      PROVE  TypeOK'
  <2>1. VisitTyped'
    BY <1>2, <1>a, Elements DEF ReadActive, VisitTyped, Phases
  <2> QED
    BY <1>2, <1>a, <2>1, Unmoved, GroupedNext DEF ReadActive
<1>3. ASSUME EndCycle
      PROVE  TypeOK'
  <2>1. VisitTyped'
    BY <1>3, <1>a DEF EndCycle, VisitTyped, Phases
  <2> QED
    BY <1>3, <1>a, <2>1, Unmoved, GroupedNext DEF EndCycle
<1>4. ASSUME NEW r \in Repos, Visit(r)
      PROVE  TypeOK'
  <2>1. last_sha[r] \in Commit \cup {None} /\ seen[r] \in Nat
    BY <1>4, Elements DEF Visit
  <2>2. [Idle EXCEPT !.repo = r, !.last = last_sha[r], !.gen = seen[r]] \in Visits
    BY <2>1 DEF Idle, Visits
  <2>3. VisitTyped'
    BY <1>4, <1>a, <2>2 DEF Visit, VisitTyped, Phases, Visiting
  <2> QED
    BY <1>4, <1>a, <2>3, Unmoved, GroupedNext DEF Visit
<1> QED
  BY <1>1, <1>2, <1>3, <1>4

(* What EnsureSnapshot's commit, the set-url and a fetch make of the        *)
(* checkout: a commit of the extracted files, if any, and no other head.    *)
LEMMA CheckoutMoves ==
  ASSUME TypeOK, VisitShaped, HeadKnown, CommitDrop \/ SetOriginUrl \/ FetchHead \/ BranchGone
  PROVE  \E c \in Clone :
           /\ checkout' = [checkout EXCEPT ![st.repo] = c]
           /\ \/ c.head = checkout[st.repo].head
              \/ c.head # None /\ c.head.url = Drop
           /\ CommitDrop => c.head # None /\ st' = [st EXCEPT !.head = c.head]
<1>a. pc \in Visiting /\ RemoteTyped
  BY Grouped DEF CommitDrop, SetOriginUrl, FetchHead, BranchGone, Step, Visiting
<1>b. /\ st.repo \in Repos /\ Url \in Urls \cup {Drop} /\ checkout \in [Repos -> Clone \cup {None}]
      /\ checkout[st.repo] \in Clone \cup {None} /\ files[st.repo] \in Tree0 /\ events \in Nat
  BY <1>a, Visited, Elements DEF TypeOK
<1>c. checkout[st.repo] \in Clone
  BY <1>b DEF CommitDrop, SetOriginUrl, FetchHead, BranchGone, Step, VisitShaped
<1>1. CASE CommitDrop
  <2> DEFINE commit == [url |-> Drop, trees |-> <<files[st.repo]>>, time |-> events]
             made == [checkout[st.repo] EXCEPT !.head = commit, !.objects = @ \cup {commit}]
  <2>1. <<files[st.repo]>> \in Seq(Tree0)
    BY <1>b
  <2>2. commit \in Commit /\ commit.url = Drop
    BY <1>b, <2>1 DEF Commit
  <2>3. made \in Clone /\ made.head = commit
    BY <1>c, <2>2 DEF Clone
  <2>4. commit # None
    BY <2>2, ConstAssumption
  <2>5. st' = [st EXCEPT !.head = checkout'[st.repo].head]
    BY <1>1 DEF CommitDrop
  <2>6. CASE checkout' = checkout /\ checkout[st.repo].head # None
    <3>1. checkout' = [checkout EXCEPT ![st.repo] = checkout[st.repo]]
      BY <1>b, <2>6
    <3> QED
      BY <1>c, <2>5, <2>6, <3>1
  <2>7. CASE checkout' = [checkout EXCEPT ![st.repo].head = commit, ![st.repo].objects = @ \cup {commit}]
    <3>1. checkout' = [checkout EXCEPT ![st.repo] = made]
      BY <1>b, <2>7
    <3>2. checkout'[st.repo] = made
      BY <1>b, <3>1
    <3> HIDE DEF commit, made
    <3> QED
      BY <2>2, <2>3, <2>4, <2>5, <3>1, <3>2
  <2> QED
    BY <1>1, <2>6, <2>7 DEF CommitDrop
<1>2. CASE SetOriginUrl
  <2> DEFINE c == [checkout[st.repo] EXCEPT !.origin = Url]
  <2>1. c \in Clone /\ c.head = checkout[st.repo].head
    BY <1>b, <1>c DEF Clone
  <2>2. checkout' = [checkout EXCEPT ![st.repo] = c]
    BY <1>2, <1>b DEF SetOriginUrl
  <2>3. ~CommitDrop
    BY <1>2 DEF SetOriginUrl, CommitDrop, Step
  <2> HIDE DEF c
  <2> QED
    BY <2>1, <2>2, <2>3
<1>3. CASE FetchHead \/ BranchGone
  <2> DEFINE c == [checkout[st.repo] EXCEPT !.objects = @ \cup Reach(Url)]
  <2>1. Url \in Urls
    BY <1>3, <1>b DEF FetchHead, BranchGone, Step, VisitShaped
  <2>2. c \in Clone /\ c.head = checkout[st.repo].head
    BY <1>a, <1>c, <2>1, ReachTyped DEF Clone
  <2>3. checkout' = [checkout EXCEPT ![st.repo] = c]
    BY <1>3, <1>b DEF FetchHead, BranchGone
  <2>4. ~CommitDrop
    BY <1>3 DEF FetchHead, BranchGone, CommitDrop, Step
  <2> HIDE DEF c
  <2> QED
    BY <2>2, <2>3, <2>4
<1> QED
  BY <1>1, <1>2, <1>3

(* The calls of pollRepo leave every variable typed: the checkout's ...    *)
LEMMA CheckoutTyped ==
  ASSUME TypeOK, VisitShaped, HeadKnown,
         \/ CheckDrop \/ CommitDrop \/ RemoveCheckout \/ CloneRemote \/ SetOriginUrl
         \/ FetchHead \/ BranchGone
  PROVE  TypeOK'
<1>a. /\ RemoteTyped /\ ColumnsTyped /\ IndexTyped /\ DiskTyped /\ SignalsTyped /\ VisitTyped
      /\ events \in Nat
  BY Grouped
<1>b. pc \in Visiting
  BY DEF CheckDrop, CommitDrop, RemoveCheckout, CloneRemote, SetOriginUrl, FetchHead, BranchGone, Step,
     Visiting
<1>c. /\ st.repo \in Repos /\ Url \in Urls \cup {Drop} /\ st \in Visits
      /\ checkout[st.repo] \in Clone \cup {None} /\ files[st.repo] \in Tree0
  BY <1>b, Visited, Elements
<1>d. ASSUME NEW c \in Clone \cup {None}, checkout' = [checkout EXCEPT ![st.repo] = c], files' = files
      PROVE  DiskTyped'
  BY <1>a, <1>c, <1>d DEF DiskTyped
<1>e. ASSUME NEW at \in Phases, pc' = at, st' \in Visits, seen' = seen
      PROVE  VisitTyped'
  BY <1>a, <1>e DEF VisitTyped
<1>f. {"add", "branch", "clone", "setUrl", "decide", "cycle"} \subseteq Phases
  BY DEF Phases, Visiting
<1>1. CASE CheckDrop
  <2>1. [origin |-> Drop, objects |-> {}, head |-> None] \in Clone
    BY DEF Clone
  <2>2. DiskTyped'
    BY <1>1, <1>a, <1>d, <2>1 DEF CheckDrop, DiskTyped
  <2>3. VisitTyped'
    BY <1>1, <1>c, <1>e, <1>f DEF CheckDrop, Step
  <2> QED
    BY <1>1, <1>a, <2>2, <2>3, Unmoved, GroupedNext DEF CheckDrop
<1>2. CASE CommitDrop
  <2>1. PICK c \in Clone : checkout' = [checkout EXCEPT ![st.repo] = c] /\ st' = [st EXCEPT !.head = c.head]
    BY <1>2, CheckoutMoves
  <2>2. files' = files /\ seen' = seen /\ pc' = "branch"
    BY <1>2 DEF CommitDrop, Step
  <2>3. DiskTyped'
    BY <1>d, <2>1, <2>2
  <2>4. c.head \in Commit \cup {None}
    BY DEF Clone
  <2>5. st' \in Visits
    BY <1>c, <2>1, <2>4 DEF Visits
  <2> QED
    BY <1>2, <1>a, <1>e, <1>f, <2>2, <2>3, <2>5, Unmoved, GroupedNext DEF CommitDrop
<1>3. CASE RemoveCheckout \/ CloneRemote
  <2>1. CloneRemote => [origin |-> "tokened", objects |-> Reach(Url), head |-> None] \in Clone
    BY <1>a, <1>c, ReachTyped DEF CloneRemote, Step, VisitShaped, Clone
  <2>2. DiskTyped'
    BY <1>3, <1>d, <2>1 DEF RemoveCheckout, CloneRemote
  <2>3. VisitTyped'
    BY <1>3, <1>c, <1>e, <1>f DEF RemoveCheckout, CloneRemote, Step
  <2> QED
    BY <1>3, <1>a, <2>2, <2>3, Unmoved, GroupedNext DEF RemoveCheckout, CloneRemote
<1>4. CASE SetOriginUrl
  <2>1. PICK c \in Clone : checkout' = [checkout EXCEPT ![st.repo] = c]
    BY <1>4, CheckoutMoves
  <2>2. DiskTyped'
    BY <1>4, <1>d, <2>1 DEF SetOriginUrl
  <2>3. VisitTyped'
    BY <1>4, <1>c, <1>e, <1>f DEF SetOriginUrl, Step
  <2> QED
    BY <1>4, <1>a, <2>2, <2>3, Unmoved, GroupedNext DEF SetOriginUrl
<1>5. CASE FetchHead \/ BranchGone
  <2>1. PICK c \in Clone : checkout' = [checkout EXCEPT ![st.repo] = c]
    BY <1>5, CheckoutMoves
  <2>2. Url \in Urls /\ branch[st.repo] \in Branches
    BY <1>5, <1>c DEF FetchHead, BranchGone, Step, VisitShaped, HeadKnown
  <2>3. DiskTyped'
    BY <1>5, <1>d, <2>1 DEF FetchHead, BranchGone
  <2>4. RemoteHead # None => RemoteHead \in Commit
    BY <1>a, <2>2, Branched DEF RemoteHead
  <2>5. CASE FetchHead
    <3>1. st' \in Visits
      BY <1>c, <2>4, <2>5 DEF FetchHead, Visits
    <3>2. VisitTyped'
      BY <1>e, <1>f, <2>5, <3>1 DEF FetchHead, Step
    <3> QED
      BY <1>a, <2>3, <2>5, <3>2, Unmoved, GroupedNext DEF FetchHead
  <2>6. CASE BranchGone
    <3>1. ColumnsTyped'
      BY <1>c, <2>6, ErrorTyped DEF BranchGone
    <3>2. SignalsTyped'
      BY <1>a, <1>c, <2>6 DEF BranchGone, SignalsTyped
    <3>3. VisitTyped'
      BY <1>e, <1>f, <2>6, IdleTyped DEF BranchGone, Step
    <3> QED
      BY <1>a, <2>3, <2>6, <3>1, <3>2, <3>3, Unmoved, GroupedNext DEF BranchGone
  <2> QED
    BY <1>5, <2>5, <2>6
<1> QED
  BY <1>1, <1>2, <1>3, <1>4, <1>5

(* ... those that write the row ...                                        *)
LEMMA RowTyped ==
  ASSUME TypeOK, VisitShaped,
         \/ Refused \/ NameDropBranch \/ OriginMatches \/ OriginDiffers \/ AlreadyCloned
         \/ ResolveBranch \/ Unchanged \/ ResetIfLost \/ IndexDone \/ MarkIndexed \/ ClearReindex
         \/ WarnEmptyStages \/ WarnFails \/ PollFails
  PROVE  TypeOK'
<1>a. /\ RemoteTyped /\ ColumnsTyped /\ IndexTyped /\ DiskTyped /\ SignalsTyped /\ VisitTyped
      /\ events \in Nat
  BY Grouped
<1>b. pc \in Visiting \cup {"warn"}
  BY DEF Refused, Misplaced, NameDropBranch, OriginMatches, OriginDiffers, AlreadyCloned, ResolveBranch,
     Unchanged, ResetIfLost, IndexDone, MarkIndexed, ClearReindex, WarnEmptyStages, WarnFails, PollFails,
     Step, Visiting
<1>c. /\ st.repo \in Repos /\ Url \in Urls \cup {Drop} /\ st \in Visits /\ st.head \in Commit \cup {None}
  BY <1>b, Visited
<1>e. ASSUME pc' \in Phases, st' \in Visits, seen' = seen
      PROVE  VisitTyped'
  BY <1>a, <1>e DEF VisitTyped
<1>f. {"clone", "remove", "branch", "fetch", "decide", "mark", "record", "clear", "warn", "cycle"}
        \subseteq Phases
  BY DEF Phases, Visiting
<1>g. Disturb => events' \in Nat
  BY <1>a DEF Disturb
<1>1. CASE OriginMatches \/ AlreadyCloned \/ IndexDone
  <2>1. VisitTyped'
    BY <1>1, <1>c, <1>e, <1>f DEF OriginMatches, AlreadyCloned, IndexDone, Step
  <2> QED
    BY <1>1, <1>a, <2>1, Unmoved, GroupedNext DEF OriginMatches, AlreadyCloned, IndexDone
<1>2. CASE NameDropBranch \/ ResolveBranch
  <2>1. ResolveBranch => Url \in Urls /\ Default[Url] \in Branches
    BY <1>c, ConstAssumption DEF ResolveBranch
  <2>2. \/ branch' = branch
        \/ \E b \in Branches \cup {"snapshot"} : branch' = [branch EXCEPT ![st.repo] = b]
    BY <1>2, <2>1 DEF NameDropBranch, ResolveBranch
  <2>3. ColumnsTyped'
    BY <1>2, <1>a, <1>c, <2>2 DEF NameDropBranch, ResolveBranch, ColumnsTyped
  <2>4. VisitTyped'
    BY <1>2, <1>c, <1>e, <1>f DEF NameDropBranch, ResolveBranch, Step
  <2> QED
    BY <1>2, <1>a, <2>3, <2>4, Unmoved, GroupedNext DEF NameDropBranch, ResolveBranch
<1>3. CASE OriginDiffers \/ ResetIfLost
  <2>1. IndexTyped' /\ ColumnsTyped'
    BY <1>3, <1>c, DropTyped DEF OriginDiffers, ResetIfLost
  <2>2. [st EXCEPT !.last = None] \in Visits
    BY <1>c DEF Visits
  <2>3. VisitTyped'
    BY <1>3, <1>e, <1>f, <2>2 DEF OriginDiffers, ResetIfLost, Step
  <2> QED
    BY <1>3, <1>a, <2>1, <2>3, Unmoved, GroupedNext DEF OriginDiffers, ResetIfLost
<1>4. CASE Refused \/ PollFails
  <2>1. ColumnsTyped'
    BY <1>4, <1>c, ErrorTyped DEF Refused, PollFails
  <2>2. SignalsTyped'
    BY <1>4, <1>a, <1>c DEF Refused, PollFails, SignalsTyped
  <2>3. VisitTyped'
    BY <1>4, <1>e, <1>f, IdleTyped DEF Refused, PollFails
  <2>4. events' \in Nat
    BY <1>4, <1>a, <1>g DEF Refused, PollFails
  <2> QED
    BY <1>4, <1>a, <2>1, <2>2, <2>3, <2>4, Unmoved, GroupedNext DEF Refused, PollFails
<1>5. CASE Unchanged \/ WarnEmptyStages
  <2>1. ColumnsTyped'
    BY <1>5, <1>c, ErrorTyped DEF Unchanged, WarnEmptyStages
  <2>2. VisitTyped'
    BY <1>5, <1>c, <1>e, <1>f, IdleTyped DEF Unchanged, WarnEmptyStages, Step
  <2> QED
    BY <1>5, <1>a, <2>1, <2>2, Unmoved, GroupedNext DEF Unchanged, WarnEmptyStages
<1>6. CASE WarnFails
  <2>1. VisitTyped'
    BY <1>6, <1>e, <1>f, IdleTyped DEF WarnFails, Step
  <2> QED
    BY <1>6, <1>a, <1>g, <2>1, Unmoved, GroupedNext DEF WarnFails
<1>7. CASE MarkIndexed
  <2>1. last_sha' \in [Repos -> Commit \cup {None}]
    BY <1>7, <1>a, <1>c DEF MarkIndexed, ColumnsTyped
  <2>2. last_error' \in [Repos -> {"", "failed", "stage"}]
    BY <1>7, <1>a, <1>c DEF MarkIndexed, ColumnsTyped
  <2>3. ColumnsTyped'
    BY <1>7, <1>a, <2>1, <2>2 DEF MarkIndexed, ColumnsTyped
  <2>4. IndexTyped'
    BY <1>7, <1>a, <1>c DEF MarkIndexed, IndexTyped
  <2>5. SignalsTyped'
    BY <1>7, <1>a, <1>c DEF MarkIndexed, SignalsTyped
  <2>6. VisitTyped'
    BY <1>7, <1>c, <1>e, <1>f DEF MarkIndexed
  <2> QED
    BY <1>7, <1>a, <2>3, <2>4, <2>5, <2>6, Unmoved, GroupedNext DEF MarkIndexed
<1>8. CASE ClearReindex
  <2>1. Served(reindex_requested[st.repo]) \in Nat
    BY <1>c, Elements DEF Served
  <2>2. reindex_requested' = [reindex_requested EXCEPT ![st.repo] = Served(reindex_requested[st.repo])]
    BY <1>8 DEF ClearReindex
  <2>3. ColumnsTyped'
    BY <1>8, <1>a, <1>c, <2>1, <2>2 DEF ClearReindex, ColumnsTyped
  <2>4. VisitTyped'
    BY <1>8, <1>c, <1>e, <1>f DEF ClearReindex, Step
  <2> QED
    BY <1>8, <1>a, <2>3, <2>4, Unmoved, GroupedNext DEF ClearReindex
<1> QED
  BY <1>1, <1>2, <1>3, <1>4, <1>5, <1>6, <1>7, <1>8

(* ... and those that index.                                               *)
LEMMA RunTyped ==
  ASSUME TypeOK, VisitShaped, HeadKnown,
         StartIndex \/ (\E p \in Paths : IndexFile(p)) \/ RecordHistory
  PROVE  TypeOK'
<1>a. /\ RemoteTyped /\ ColumnsTyped /\ IndexTyped /\ DiskTyped /\ SignalsTyped /\ VisitTyped
      /\ events \in Nat
  BY Grouped
<1>b. pc \in {"decide", "index", "record"} /\ pc \in Visiting
  BY DEF StartIndex, IndexFile, RecordHistory, Step, Visiting
<1>c. /\ st.repo \in Repos /\ st \in Visits /\ st.head \in Commit /\ st.last \in Commit \cup {None}
      /\ st.retire \subseteq Paths /\ st.todo \subseteq Paths
  BY <1>b, Visited DEF HeadKnown
<1>e. ASSUME pc' \in Phases, st' \in Visits, seen' = seen
      PROVE  VisitTyped'
  BY <1>a, <1>e DEF VisitTyped
<1>f. {"index", "mark"} \subseteq Phases
  BY DEF Phases, Visiting
<1>1. CASE StartIndex
  <2> DEFINE full == KnownSha = None
             retire == {p \in Paths : full /\ rows[st.repo][p] # None /\ Tree(st.head)[p] = NoFile}
             todo == IF full THEN {p \in Paths : Tree(st.head)[p] # NoFile} ELSE Diff(KnownSha, st.head)
  <2>1. st' = [st EXCEPT !.full = full, !.retire = retire, !.todo = todo, !.last = KnownSha, !.clean = full]
    BY <1>1 DEF StartIndex
  <2>2. full \in BOOLEAN /\ retire \subseteq Paths /\ todo \subseteq Paths
    BY DEF Diff
  <2>3. KnownSha \in Commit \cup {None}
    BY <1>c DEF KnownSha
  <2> HIDE DEF full, retire, todo
  <2>4. st' \in Visits
    BY <1>c, <2>1, <2>2, <2>3 DEF Visits
  <2>5. VisitTyped'
    BY <1>1, <1>e, <1>f, <2>4 DEF StartIndex, Step
  <2> QED
    BY <1>1, <1>a, <2>5, Unmoved, GroupedNext DEF StartIndex
<1>2. ASSUME NEW p \in Paths, IndexFile(p)
      PROVE  TypeOK'
  <2>1. RowOf(p) \in Row \cup {None}
    BY <1>c DEF RowOf, Row
  <2>2. rows' = [rows EXCEPT ![st.repo][p] = RowOf(p)]
    BY <1>2 DEF IndexFile
  <2>3. rows' \in [Repos -> [Paths -> Row \cup {None}]]
    BY <1>a, <1>c, <2>1, <2>2 DEF IndexTyped
  <2>4. ahead' \in [Repos -> SUBSET (Paths \cup {"history"})] /\ lane' = lane
    BY <1>2, <1>a, <1>c DEF IndexFile, IndexTyped
  <2>5. IndexTyped'
    BY <1>a, <2>3, <2>4 DEF IndexTyped
  <2>6. st' \in Visits
    BY <1>2, <1>c DEF IndexFile, Visits
  <2>7. VisitTyped'
    BY <1>2, <1>e, <1>f, <2>6 DEF IndexFile, Step
  <2> QED
    BY <1>2, <1>a, <2>5, <2>7, Unmoved, GroupedNext DEF IndexFile
<1>3. CASE RecordHistory
  <2>1. IndexTyped'
    BY <1>3, <1>a, <1>c DEF RecordHistory, IndexTyped
  <2>2. VisitTyped'
    BY <1>3, <1>c, <1>e, <1>f DEF RecordHistory, Step
  <2> QED
    BY <1>3, <1>a, <2>1, <2>2, Unmoved, GroupedNext DEF RecordHistory
<1> QED
  BY <1>1, <1>2, <1>3

(* Every step keeps the type invariant.                                    *)
LEMMA TypeStep ==
  ASSUME TypeOK, VisitShaped, HeadKnown, [Next]_vars
  PROVE  TypeOK'
<1>1. CASE UNCHANGED vars
  <2>1. UNCHANGED <<remote, columns, index, disk, signals>> /\ UNCHANGED <<seen, pc, st, events>>
    BY <1>1 DEF vars
  <2>2. VisitTyped' /\ events' \in Nat
    BY <2>1, Grouped DEF VisitTyped
  <2> QED
    BY <2>1, <2>2, Grouped, Unmoved, GroupedNext
<1>2. CASE Boot \/ Crash \/ Nudge
  BY <1>2, ProcessTyped DEF Boot
<1>3. CASE Environment
  BY <1>3, WorldTyped DEF Environment
<1>4. CASE PollerStep \/ PollFails \/ WarnFails \/ ListFails
  BY <1>4, CycleTyped, CheckoutTyped, RowTyped, RunTyped DEF PollerStep
<1> QED
  BY <1>1, <1>2, <1>3, <1>4 DEF Next, Failure

-----------------------------------------------------------------------------
(* Whatever happens outside the poller, the visit goes on as it was: only  *)
(* a request for its repository unsets clean, and nobody touches the       *)
(* directory a visit works in but to change what was extracted there.      *)
LEMMA Aside ==
  ASSUME PollerInv, Environment \/ Nudge
  PROVE  /\ UNCHANGED <<listed, branch, last_sha, rows, lane, ahead, seen, pc>>
         /\ st'.repo = st.repo /\ st'.last = st.last /\ st'.gen = st.gen /\ st'.head = st.head
         /\ st'.full = st.full /\ st'.retire = st.retire /\ st'.todo = st.todo
         /\ st = Idle => st' = Idle
         /\ pc \in Visiting => checkout'[st.repo] = checkout[st.repo]
         /\ \A r \in Repos : checkout'[r] \in {checkout[r], None}
<1>a. st \in Visits /\ checkout \in [Repos -> Clone \cup {None}]
  BY DEF PollerInv, TypeOK
<1>1. ASSUME NEW rs \in SUBSET Repos, RequestReindex(rs)
      PROVE  /\ st'.repo = st.repo /\ st'.last = st.last /\ st'.gen = st.gen /\ st'.head = st.head
             /\ st'.full = st.full /\ st'.retire = st.retire /\ st'.todo = st.todo
             /\ st = Idle => st' = Idle
  <2> DEFINE clean == st.clean /\ st.repo \notin rs
  <2>1. st' = [st EXCEPT !.clean = clean]
    BY <1>1 DEF RequestReindex
  <2>2. /\ st'.repo = st.repo /\ st'.last = st.last /\ st'.gen = st.gen /\ st'.head = st.head
        /\ st'.full = st.full /\ st'.retire = st.retire /\ st'.todo = st.todo
    BY <1>a, <2>1 DEF Visits
  <2>3. st = Idle => clean = FALSE
    BY DEF Idle
  <2>4. [Idle EXCEPT !.clean = FALSE] = Idle
    <3>1. \A v \in Visits : [v EXCEPT !.clean = v.clean] = v
      BY DEF Visits
    <3>2. Idle.clean = FALSE
      BY DEF Idle
    <3> QED
      BY <3>1, <3>2, IdleTyped
  <2> HIDE DEF clean
  <2> QED
    BY <2>1, <2>2, <2>3, <2>4
<1>2. CASE \E rs \in SUBSET Repos : RequestReindex(rs)
  BY <1>1, <1>2, <1>a DEF RequestReindex, index, disk
<1>3. ASSUME NEW r \in Repos, LoseCheckout(r) \/ EmptyDrop(r) \/ \E t \in Archives : Extract(r, t)
      PROVE  /\ UNCHANGED <<columns, index, seen, pc, st>>
             /\ pc \in Visiting => checkout'[st.repo] = checkout[st.repo]
             /\ \A q \in Repos : checkout'[q] \in {checkout[q], None}
  <2>1. CASE LoseCheckout(r)
    <3>1. pc \in Visiting => st.repo \in Repos
      BY DEF PollerInv, VisitShaped
    <3>2. checkout' = [checkout EXCEPT ![r] = None] /\ (pc \in Visiting => st.repo # r)
      BY <2>1 DEF LoseCheckout
    <3>3. \A q \in Repos : checkout'[q] = IF q = r THEN None ELSE checkout[q]
      BY <1>a, <3>2
    <3>4. UNCHANGED <<columns, index, seen, pc, st>>
      BY <2>1 DEF LoseCheckout
    <3> QED
      BY <3>1, <3>2, <3>3, <3>4
  <2>2. CASE EmptyDrop(r) \/ \E t \in Archives : Extract(r, t)
    BY <2>2 DEF EmptyDrop, Extract
  <2> QED
    BY <1>3, <2>1, <2>2
<1>4. CASE \E r \in Repos : LoseCheckout(r) \/ EmptyDrop(r) \/ \E t \in Archives : Extract(r, t)
  BY <1>3, <1>4 DEF columns, index
<1>5. CASE \/ \E u \in Urls, b \in Branches, n \in 0..MaxDepth, t \in Trees : Push(u, b, n, t)
           \/ \E u \in Urls, b \in Branches, n \in 1..MaxDepth : Rewind(u, b, n)
           \/ \E u \in Urls, b \in Branches : DeleteBranch(u, b)
           \/ Nudge
  BY <1>5 DEF Push, Rewind, DeleteBranch, Nudge, columns, index, disk
<1> QED
  BY <1>2, <1>4, <1>5 DEF Environment

(* A visit's next call, as far as the visit's own shape is concerned.      *)
LEMMA GoesOn ==
  ASSUME PollerInv, pc \in Visiting, pc' \in Visiting \cup {"warn"}, st'.repo = st.repo,
         UNCHANGED <<listed, seen>>,
         \A r \in Repos \ {st.repo} : reindex_requested'[r] = reindex_requested[r],
         pc' \in {"remove", "clone", "setUrl", "fetch", "record"} => Url # Drop,
         pc' \in {"setUrl", "add", "branch", "fetch"} => checkout'[st.repo] # None,
         pc' = "add" => Url = Drop
  PROVE  VisitShaped' /\ SeenShaped'
<1>1. st.repo \in Repos /\ listed[st.repo] # None /\ seen[st.repo] = -1
  BY DEF PollerInv, VisitShaped
<1>2. VisitShaped'
  BY <1>1 DEF VisitShaped, Url
<1>3. SeenShaped'
  BY <1>1 DEF PollerInv, SeenShaped
<1> QED
  BY <1>2, <1>3

(* The end of a visit, however it ends.                                    *)
LEMMA Over ==
  ASSUME PollerInv, pc' = "cycle", st' = Idle, UNCHANGED <<listed, reindex_requested, seen>>
  PROVE  VisitShaped' /\ SeenShaped'
BY DEF PollerInv, VisitShaped, SeenShaped, Visiting

(* Each visit is of one listed repository, and what the cycle read of the  *)
(* list stays true of the rows until the visit: only boots, which need the *)
(* process down, change the list, and only visits lower a request.         *)
LEMMA VisitStep ==
  ASSUME PollerInv, [Next]_vars, TypeOK'
  PROVE  VisitShaped' /\ SeenShaped'
<1>a. VisitShaped /\ SeenShaped /\ TypeOK
  BY DEF PollerInv
<1>b. pc \in Visiting => /\ st.repo \in Repos /\ st \in Visits
                         /\ checkout \in [Repos -> Clone \cup {None}]
  BY <1>a DEF VisitShaped, TypeOK
<1>1. CASE UNCHANGED vars
  BY <1>1, <1>a DEF vars, columns, disk, VisitShaped, SeenShaped, Url
<1>2. CASE Environment \/ Nudge
  <2>1. \A r \in Repos : /\ reindex_requested[r] \in Nat /\ reindex_requested'[r] \in Nat
                         /\ seen[r] \in Nat \cup {-1}
                         /\ reindex_requested[r] <= reindex_requested'[r]
    <3>1. \A r \in Repos : reindex_requested[r] \in Nat /\ seen[r] \in Nat \cup {-1}
      BY <1>a, Elements
    <3>2. CASE \E rs \in SUBSET Repos : RequestReindex(rs)
      BY <3>1, <3>2 DEF RequestReindex
    <3>3. CASE UNCHANGED reindex_requested
      BY <3>1, <3>3
    <3> QED
      BY <1>2, <3>2, <3>3 DEF Environment, Push, Rewind, DeleteBranch, LoseCheckout, EmptyDrop, Extract,
         Nudge, columns
  <2>2. SeenShaped'
    BY <1>2, <1>a, <2>1, Aside DEF SeenShaped
  <2>3. VisitShaped'
    BY <1>2, <1>a, Aside DEF VisitShaped, Url, Visiting
  <2> QED
    BY <2>2, <2>3
<1>3. ASSUME NEW list \in Lists, NEW left \in SUBSET Repos, BootSync(list, left)
      PROVE  VisitShaped' /\ SeenShaped'
  <2>1. pc = "down" /\ pc' = "wait" /\ st' = st /\ seen' = seen
    BY <1>3 DEF BootSync
  <2> QED
    BY <1>a, <2>1 DEF VisitShaped, SeenShaped, Visiting
<1>4. CASE BootIdle \/ Wait \/ ListFails \/ EndCycle \/ Crash
  <2>1. /\ UNCHANGED <<listed, reindex_requested>>
        /\ pc' \in {"idle", "wait", "list", "down"} /\ st' = Idle /\ \A r \in Repos : seen'[r] = -1
    BY <1>4, <1>a DEF BootIdle, Wait, ListFails, EndCycle, Crash, columns, VisitShaped, SeenShaped, Visiting
  <2> QED
    BY <2>1 DEF VisitShaped, SeenShaped, Visiting
<1>5. CASE ReadActive
  <2>1. \A r \in Repos : reindex_requested[r] \in Nat
    BY <1>a, Elements
  <2>2. /\ UNCHANGED <<listed, reindex_requested>> /\ st' = Idle /\ pc' = "cycle"
        /\ seen' = [r \in Repos |-> IF Active(r) THEN reindex_requested[r] ELSE -1]
    BY <1>5, <1>a DEF ReadActive, columns, VisitShaped, Visiting
  <2> QED
    BY <2>1, <2>2 DEF VisitShaped, SeenShaped, Visiting, Active
<1>6. ASSUME NEW r \in Repos, Visit(r)
      PROVE  VisitShaped' /\ SeenShaped'
  <2>1. seen \in [Repos -> Nat \cup {-1}]
    BY <1>a DEF TypeOK
  <2>2. /\ UNCHANGED <<listed, reindex_requested>> /\ pc' = "origin" /\ st'.repo = r
        /\ seen' = [seen EXCEPT ![r] = -1] /\ seen[r] # -1
    BY <1>6 DEF Visit, columns, Idle
  <2> QED
    BY <1>a, <2>1, <2>2 DEF VisitShaped, SeenShaped, Visiting
<1>7. CASE Refused \/ BranchGone \/ WarnEmptyStages \/ WarnFails \/ PollFails
  BY <1>7, Over DEF Refused, BranchGone, WarnEmptyStages, WarnFails, PollFails, Step, columns
<1>8. CASE \/ CheckDrop \/ CommitDrop \/ RemoveCheckout \/ CloneRemote \/ SetOriginUrl \/ FetchHead
  <2>1. /\ pc \in Visiting /\ pc' \in Visiting /\ UNCHANGED <<listed, seen, reindex_requested>>
        /\ st'.repo = st.repo
    BY <1>8, <1>b DEF CheckDrop, CommitDrop, RemoveCheckout, CloneRemote, SetOriginUrl, FetchHead, Step,
       Visiting, columns, Visits
  <2>2. /\ pc' \in {"remove", "clone", "setUrl", "fetch", "record"} => Url # Drop
        /\ pc' = "add" => Url = Drop
    BY <1>8, <1>a DEF CheckDrop, CommitDrop, RemoveCheckout, CloneRemote, SetOriginUrl, FetchHead, Step,
       VisitShaped
  <2>3. None \notin Clone
    BY ConstAssumption
  <2>4. checkout' \in [Repos -> Clone \cup {None}] /\ checkout \in [Repos -> Clone \cup {None}]
    BY <1>a DEF TypeOK
  <2>5. CASE CheckDrop
    <3>1. [origin |-> Drop, objects |-> {}, head |-> None] \in Clone
      BY DEF Clone
    <3>2. checkout'[st.repo] # None
      BY <1>b, <2>1, <2>3, <2>4, <2>5, <3>1 DEF CheckDrop
    <3> QED
      BY <2>1, <2>2, <3>2, GoesOn
  <2>6. CASE CloneRemote
    <3>1. [origin |-> "tokened", objects |-> Reach(Url), head |-> None] # None
      <4>1. Url \in Urls
        BY <1>a, <2>1, <2>6, Visited DEF CloneRemote, Step, VisitShaped
      <4>2. [origin |-> "tokened", objects |-> Reach(Url), head |-> None] \in Clone
        BY <1>a, <4>1, ReachTyped, Grouped DEF Clone
      <4> QED
        BY <2>3, <4>2
    <3>2. checkout'[st.repo] # None
      BY <1>b, <2>1, <2>4, <2>6, <3>1 DEF CloneRemote
    <3> QED
      BY <2>1, <2>2, <3>2, GoesOn
  <2>7. CASE CommitDrop \/ SetOriginUrl
    <3>1. PICK c \in Clone : checkout' = [checkout EXCEPT ![st.repo] = c]
      BY <1>a, <2>7, CheckoutMoves DEF PollerInv
    <3>2. checkout'[st.repo] # None
      BY <1>b, <2>1, <2>3, <3>1
    <3> QED
      BY <2>1, <2>2, <3>2, GoesOn
  <2>8. CASE RemoveCheckout \/ FetchHead
    BY <2>1, <2>2, <2>8, GoesOn DEF RemoveCheckout, FetchHead, Step
  <2> QED
    BY <1>8, <2>5, <2>6, <2>7, <2>8
<1>9. CASE \/ OriginMatches \/ OriginDiffers \/ AlreadyCloned \/ NameDropBranch \/ ResolveBranch
           \/ Unchanged \/ ResetIfLost \/ StartIndex \/ (\E p \in Paths : IndexFile(p)) \/ IndexDone
           \/ RecordHistory \/ MarkIndexed \/ ClearReindex
  <2>1. /\ pc \in Visiting /\ pc' \in Visiting \cup {"warn"} /\ UNCHANGED <<listed, seen, checkout>>
        /\ st'.repo = st.repo
    BY <1>9, <1>b DEF OriginMatches, OriginDiffers, AlreadyCloned, NameDropBranch, ResolveBranch,
       Unchanged, ResetIfLost, StartIndex, IndexFile, IndexDone, RecordHistory, MarkIndexed, ClearReindex,
       ResetRepo, Step, Visiting, columns, disk, Visits
  <2>2. /\ pc' \in {"remove", "clone", "setUrl", "fetch", "record"} => Url # Drop
        /\ pc' \in {"setUrl", "add", "branch", "fetch"} => checkout'[st.repo] # None
        /\ pc' # "add"
    BY <1>9, <1>a, <2>1 DEF OriginMatches, OriginDiffers, AlreadyCloned, NameDropBranch, ResolveBranch,
       Unchanged, ResetIfLost, StartIndex, IndexFile, IndexDone, RecordHistory, MarkIndexed, ClearReindex,
       Step, VisitShaped
  <2>3. \A r \in Repos \ {st.repo} : reindex_requested'[r] = reindex_requested[r]
    <3>1. reindex_requested \in [Repos -> Nat]
      BY <1>a DEF TypeOK
    <3> QED
      BY <1>9, <3>1 DEF OriginMatches, OriginDiffers, AlreadyCloned, NameDropBranch, ResolveBranch,
         Unchanged, ResetIfLost, StartIndex, IndexFile, IndexDone, RecordHistory, MarkIndexed,
         ClearReindex, ResetRepo, columns
  <2> QED
    BY <2>1, <2>2, <2>3, GoesOn
<1> QED
  BY <1>1, <1>2, <1>3, <1>4, <1>5, <1>6, <1>7, <1>8, <1>9 DEF Next, Boot, PollerStep, Failure

-----------------------------------------------------------------------------
\* A boot with some file, a request for some rows, some file of the run.
BootSyncs == \E list \in Lists, left \in SUBSET Repos : BootSync(list, left)
Requests == \E rs \in SUBSET Repos : RequestReindex(rs)
IndexesFile == \E p \in Paths : IndexFile(p)

(* Who writes what: the index, the rows' columns and the visit's plan have *)
(* a handful of writers each.                                              *)
LEMMA Writers ==
  ASSUME [Next]_vars
  PROVE  /\ heads' = heads \/ Environment
         /\ listed' = listed \/ BootSyncs
         /\ branch' = branch \/ BootSyncs \/ NameDropBranch \/ ResolveBranch
         /\ last_sha' = last_sha \/ BootSyncs \/ OriginDiffers \/ ResetIfLost \/ MarkIndexed
         /\ rows' = rows \/ BootSyncs \/ OriginDiffers \/ ResetIfLost \/ IndexesFile
         /\ lane' = lane \/ BootSyncs \/ OriginDiffers \/ ResetIfLost \/ RecordHistory
         /\ \/ ahead' = ahead \/ BootSyncs \/ OriginDiffers \/ ResetIfLost \/ IndexesFile
            \/ RecordHistory \/ MarkIndexed
         /\ \/ checkout' = checkout \/ Environment \/ BootSyncs \/ CheckDrop \/ CommitDrop
            \/ RemoveCheckout \/ CloneRemote \/ SetOriginUrl \/ FetchHead \/ BranchGone
         /\ reindex_requested' = reindex_requested \/ BootSyncs \/ Requests \/ ClearReindex
         /\ owed' = owed \/ BootSyncs \/ Requests \/ MarkIndexed
<1> USE DEF remote, columns, index, disk, signals
<1>1. CASE UNCHANGED vars
  BY <1>1 DEF vars
<1>2. CASE Boot
  <2>1. BootSyncs => heads' = heads
    BY DEF BootSyncs, BootSync
  <2> QED
    BY <1>2, <2>1 DEF Boot, BootSyncs, BootIdle
<1>3. CASE PollFails \/ WarnFails \/ ListFails \/ Crash \/ Nudge
  BY <1>3 DEF PollFails, WarnFails, ListFails, Crash, Nudge
<1>4. CASE Environment
  BY <1>4 DEF Environment, Requests, Push, Rewind, DeleteBranch, LoseCheckout, EmptyDrop, Extract,
     RequestReindex
<1>5. CASE \/ Wait \/ ReadActive \/ (\E r \in Repos : Visit(r)) \/ EndCycle \/ Refused \/ IndexDone
           \/ Unchanged \/ WarnEmptyStages \/ OriginMatches \/ AlreadyCloned \/ StartIndex
  BY <1>5 DEF Wait, ReadActive, Visit, EndCycle, Refused, IndexDone, Unchanged, WarnEmptyStages,
     OriginMatches, AlreadyCloned, StartIndex
<1>6. CASE \/ CheckDrop \/ CommitDrop \/ RemoveCheckout \/ CloneRemote \/ SetOriginUrl \/ FetchHead
           \/ BranchGone
  BY <1>6 DEF CheckDrop, CommitDrop, RemoveCheckout, CloneRemote, SetOriginUrl, FetchHead, BranchGone
<1>7. CASE \/ OriginDiffers \/ NameDropBranch \/ ResolveBranch \/ ResetIfLost \/ IndexesFile
           \/ RecordHistory \/ MarkIndexed \/ ClearReindex
  BY <1>7 DEF OriginDiffers, NameDropBranch, ResolveBranch, ResetIfLost, IndexesFile, IndexFile,
     RecordHistory, MarkIndexed, ClearReindex, ResetRepo
<1> QED
  BY <1>1, <1>2, <1>3, <1>4, <1>5, <1>6, <1>7 DEF Next, Failure, PollerStep, IndexesFile

(* Remotes serve their own commits, a snapshot's head is a commit of what  *)
(* was extracted, and only clones have a history.                          *)
LEMMA RemotesStep ==
  ASSUME PollerInv, [Next]_vars, TypeOK'
  PROVE  RemotesOwn'
<1>a. TypeOK /\ RemotesOwn
  BY DEF PollerInv
<1>b. /\ heads \in [Urls -> [Branches -> Commit \cup {None}]]
      /\ checkout \in [Repos -> Clone \cup {None}] /\ lane \in [Repos -> Commit \cup {None}]
  BY <1>a DEF TypeOK
<1>1. \A u \in Urls, b \in Branches : heads'[u][b] # None => heads'[u][b].url = u
  <2>1. ASSUME NEW u \in Urls, NEW b \in Branches, NEW n \in 0..MaxDepth, NEW t \in Trees, Push(u, b, n, t)
        PROVE  \A v \in Urls, d \in Branches : heads'[v][d] # None => heads'[v][d].url = v
    <3>1. PICK trees : heads' = [heads EXCEPT ![u][b] = [url |-> u, trees |-> trees, time |-> 0]]
      BY <2>1 DEF Push
    <3> QED
      BY <1>a, <1>b, <3>1 DEF RemotesOwn
  <2>2. ASSUME NEW u \in Urls, NEW b \in Branches, NEW n \in 1..MaxDepth, Rewind(u, b, n)
        PROVE  \A v \in Urls, d \in Branches : heads'[v][d] # None => heads'[v][d].url = v
    <3>1. PICK trees : heads' = [heads EXCEPT ![u][b] = [heads[u][b] EXCEPT !.trees = trees]]
      BY <2>2, <1>b DEF Rewind
    <3>2. heads[u][b] \in Commit /\ heads[u][b].url = u
      BY <2>2, <1>a, <1>b DEF Rewind, RemotesOwn
    <3>3. [heads[u][b] EXCEPT !.trees = trees].url = u
      BY <3>2 DEF Commit
    <3> QED
      BY <1>a, <1>b, <3>1, <3>3 DEF RemotesOwn
  <2>3. ASSUME NEW u \in Urls, NEW b \in Branches, DeleteBranch(u, b)
        PROVE  \A v \in Urls, d \in Branches : heads'[v][d] # None => heads'[v][d].url = v
    BY <2>3, <1>a, <1>b DEF DeleteBranch, RemotesOwn
  <2>4. CASE heads' = heads
    BY <2>4, <1>a DEF RemotesOwn
  <2>5. CASE Environment
    BY <2>1, <2>2, <2>3, <2>4, <2>5 DEF Environment, LoseCheckout, EmptyDrop, Extract, RequestReindex,
       remote
  <2> QED
    BY <2>4, <2>5, Writers
<1>2. \A r \in Repos : checkout'[r] # None /\ checkout'[r].head # None => checkout'[r].head.url = Drop
  <2>1. CASE \A r \in Repos : checkout'[r] \in {checkout[r], None}
    BY <2>1, <1>a DEF RemotesOwn
  <2>2. CASE CommitDrop \/ SetOriginUrl \/ FetchHead \/ BranchGone
    <3>1. pc \in Visiting /\ st.repo \in Repos
      BY <2>2 DEF PollerInv, VisitShaped, CommitDrop, SetOriginUrl, FetchHead, BranchGone, Step, Visiting
    <3>2. checkout[st.repo] # None
      BY <2>2 DEF PollerInv, VisitShaped, CommitDrop, SetOriginUrl, FetchHead, BranchGone, Step
    <3>3. PICK c \in Clone : /\ checkout' = [checkout EXCEPT ![st.repo] = c]
                             /\ c.head = checkout[st.repo].head \/ c.head.url = Drop
      BY <2>2, CheckoutMoves DEF PollerInv
    <3> QED
      BY <1>a, <1>b, <3>1, <3>2, <3>3 DEF RemotesOwn
  <2>3. CASE CheckDrop \/ RemoveCheckout \/ CloneRemote
    <3>1. \A r \in Repos : \/ checkout'[r] = checkout[r]
                           \/ checkout'[r] = None
                           \/ checkout'[r].head = None
      BY <2>3, <1>b DEF CheckDrop, RemoveCheckout, CloneRemote
    <3> QED
      BY <1>a, <3>1 DEF RemotesOwn
  <2>4. CASE BootSyncs
    <3>1. \A r \in Repos : checkout'[r] \in {checkout[r], None}
      BY <2>4 DEF BootSyncs, BootSync
    <3> QED
      BY <2>1, <3>1
  <2>5. CASE Environment
    BY <2>1, <2>5, Aside
  <2> QED
    BY <2>1, <2>2, <2>3, <2>4, <2>5, Writers
<1>3. \A r \in Repos : lane'[r] # None => lane'[r].url # Drop
  <2>1. CASE \A r \in Repos : lane'[r] \in {lane[r], None}
    BY <2>1, <1>a DEF RemotesOwn
  <2>2. CASE BootSyncs \/ OriginDiffers \/ ResetIfLost
    <3>1. \A r \in Repos : lane'[r] \in {lane[r], None}
      <4>1. ASSUME NEW rs, DropIndex(rs)
            PROVE  \A r \in Repos : lane'[r] \in {lane[r], None}
        BY <4>1 DEF DropIndex
      <4>2. \E rs : DropIndex(rs)
        BY <2>2 DEF BootSyncs, BootSync, OriginDiffers, ResetIfLost, ResetRepo
      <4> QED
        BY <4>1, <4>2
    <3> QED
      BY <2>1, <3>1
  <2>3. CASE RecordHistory
    <3>1. pc = "record" /\ pc \in Visiting /\ Url # Drop /\ st.head # None
      BY <2>3 DEF RecordHistory, Step, PollerInv, VisitShaped, HeadKnown, Visiting
    <3>2. st.head.url = Url
      BY <3>1 DEF PollerInv, HeadKnown
    <3> QED
      BY <1>a, <1>b, <2>3, <3>1, <3>2 DEF RecordHistory, RemotesOwn
  <2> QED
    BY <2>1, <2>2, <2>3, Writers
<1> QED
  BY <1>1, <1>2, <1>3 DEF RemotesOwn

(* A branch resolved from a remote, or configured, is a branch; the        *)
(* constant of a snapshot goes with the entry's clone_url.                 *)
LEMMA BranchesStep ==
  ASSUME PollerInv, [Next]_vars
  PROVE  BranchesOwn'
<1>a. TypeOK /\ BranchesOwn /\ branch \in [Repos -> Branches \cup {None, "snapshot"}]
  BY DEF PollerInv, TypeOK
<1>1. CASE UNCHANGED <<branch, listed>>
  BY <1>1, <1>a DEF BranchesOwn
<1>2. ASSUME NEW list \in Lists, NEW left \in SUBSET Repos, BootSync(list, left)
      PROVE  BranchesOwn'
  <2>1. list \in [Repos -> Entry \cup {None}]
    BY ListsAssumption
  <2>2. \A r \in Repos : list[r] # None => list[r].branch \in Branches \cup {None}
    BY <2>1 DEF Entry
  <2>3. \A r \in Repos : branch'[r] = SyncedBranch(list, r) /\ listed'[r] = list[r]
    BY <1>2 DEF BootSync
  <2> QED
    BY <1>a, <2>2, <2>3 DEF BranchesOwn, SyncedBranch, UrlChanged
<1>3. CASE NameDropBranch \/ ResolveBranch
  <2>1. pc \in Visiting /\ listed' = listed
    BY <1>3 DEF NameDropBranch, ResolveBranch, Step, Visiting
  <2>2. st.repo \in Repos /\ listed[st.repo] # None /\ Url \in Urls \cup {Drop}
    BY <2>1, Visited DEF PollerInv, VisitShaped
  <2>3. CASE NameDropBranch
    BY <1>a, <2>1, <2>2, <2>3 DEF NameDropBranch, BranchesOwn, Url
  <2>4. CASE ResolveBranch
    <3>1. Default[Url] \in Branches
      BY <2>2, <2>4, ConstAssumption DEF ResolveBranch
    <3> QED
      BY <1>a, <2>1, <2>2, <2>4, <3>1 DEF ResolveBranch, BranchesOwn
  <2> QED
    BY <1>3, <2>3, <2>4
<1> QED
  <2>1. UNCHANGED <<branch, listed>> \/ BootSyncs \/ NameDropBranch \/ ResolveBranch
    BY Writers
  <2> QED
    BY <1>1, <1>2, <1>3, <2>1 DEF BootSyncs

(* A visit's commit is read from the entry's own remote or directory, and  *)
(* its copy of last_sha is what the row holds until the run lands.         *)
LEMMA HeadStep ==
  ASSUME PollerInv, [Next]_vars, TypeOK'
  PROVE  HeadKnown'
<1>a. TypeOK /\ VisitShaped /\ HeadKnown /\ RemotesOwn /\ BranchesOwn
  BY DEF PollerInv
<1>b. /\ last_sha \in [Repos -> Commit \cup {None}] /\ st \in Visits
      /\ branch \in [Repos -> Branches \cup {None, "snapshot"}]
  BY <1>a DEF TypeOK
<1>c. pc \in Visiting => st.repo \in Repos /\ Url \in Urls \cup {Drop}
  BY <1>a, Visited
<1>1. CASE pc' \notin Visiting
  BY <1>1 DEF HeadKnown, Visiting
<1>2. CASE UNCHANGED vars
  BY <1>2, <1>a DEF vars, columns, HeadKnown, Url
<1>3. CASE Environment \/ Nudge
  BY <1>3, <1>a, Aside DEF HeadKnown, Url
<1>4. ASSUME NEW r \in Repos, Visit(r)
      PROVE  HeadKnown'
  <2>1. pc' = "origin" /\ st'.repo = r /\ st'.last = last_sha[r] /\ st'.head = None /\ last_sha' = last_sha
    BY <1>4 DEF Visit, Idle, columns
  <2> QED
    BY <2>1 DEF HeadKnown
<1>5. CASE \/ CheckDrop \/ OriginMatches \/ AlreadyCloned \/ RemoveCheckout \/ CloneRemote
           \/ SetOriginUrl \/ IndexDone \/ RecordHistory
  <2>1. pc \in Visiting /\ UNCHANGED <<listed, branch, last_sha, st>>
    BY <1>5 DEF CheckDrop, OriginMatches, AlreadyCloned, RemoveCheckout, CloneRemote, SetOriginUrl,
       IndexDone, RecordHistory, Step, Visiting, columns
  <2>2. /\ pc' \notin {"fetch", "decide", "clear"}
        /\ pc' = "branch" => Url # Drop
        /\ pc' \in {"index", "record", "mark"} => pc \in {"index", "record", "mark"}
        /\ pc # "clear"
    BY <1>5, <1>a DEF CheckDrop, OriginMatches, AlreadyCloned, RemoveCheckout, CloneRemote, SetOriginUrl,
       IndexDone, RecordHistory, Step, VisitShaped
  <2> QED
    BY <1>a, <2>1, <2>2 DEF HeadKnown, Url
<1>6. CASE CommitDrop
  <2>1. PICK c \in Clone : /\ c.head = checkout[st.repo].head \/ c.head.url = Drop
                           /\ c.head # None /\ st' = [st EXCEPT !.head = c.head]
    BY <1>6, <1>a, CheckoutMoves
  <2>2. pc = "add" /\ pc \in Visiting /\ pc' = "branch" /\ UNCHANGED <<listed, branch, last_sha>>
    BY <1>6 DEF CommitDrop, Step, Visiting, columns
  <2>3. st'.head = c.head /\ st'.repo = st.repo /\ st'.last = st.last
    BY <1>b, <2>1 DEF Visits
  <2>4. c.head.url = Drop /\ Url = Drop
    BY <1>a, <1>c, <2>1, <2>2 DEF VisitShaped, RemotesOwn
  <2> QED
    BY <1>a, <2>1, <2>2, <2>3, <2>4 DEF HeadKnown, Url
<1>7. CASE NameDropBranch \/ ResolveBranch
  <2>1. pc = "branch" /\ pc \in Visiting /\ UNCHANGED <<listed, last_sha, st>>
    BY <1>7 DEF NameDropBranch, ResolveBranch, Step, Visiting
  <2>2. CASE NameDropBranch
    <3>1. pc' = "decide" /\ Url = Drop
      BY <2>2 DEF NameDropBranch, Step
    <3> QED
      BY <1>a, <2>1, <3>1 DEF HeadKnown, Url
  <2>3. CASE ResolveBranch
    <3>1. pc' = "fetch" /\ Url \in Urls /\ Default[Url] \in Branches
      BY <1>c, <2>1, <2>3, ConstAssumption DEF ResolveBranch, Step
    <3>2. branch[st.repo] \in Branches \cup {None}
      BY <1>a, <1>c, <2>1, <3>1, ConstAssumption DEF BranchesOwn, Url
    <3>3. branch'[st.repo] \in Branches
      BY <1>b, <1>c, <2>1, <2>3, <3>1, <3>2 DEF ResolveBranch
    <3> QED
      BY <1>a, <2>1, <3>1, <3>3 DEF HeadKnown, Url
  <2> QED
    BY <1>7, <2>2, <2>3
<1>8. CASE FetchHead
  <2>1. /\ pc = "fetch" /\ pc \in Visiting /\ pc' = "decide" /\ UNCHANGED <<listed, branch, last_sha>>
        /\ RemoteHead # None /\ st' = [st EXCEPT !.head = RemoteHead]
    BY <1>8 DEF FetchHead, Step, Visiting, columns
  <2>2. st'.head = RemoteHead /\ st'.repo = st.repo /\ st'.last = st.last
    BY <1>b, <2>1 DEF Visits
  <2>3. Url \in Urls /\ branch[st.repo] \in Branches
    BY <1>a, <1>c, <2>1 DEF VisitShaped, HeadKnown
  <2>4. RemoteHead.url = Url
    BY <1>a, <2>1, <2>3 DEF RemotesOwn, RemoteHead
  <2> QED
    BY <1>a, <2>1, <2>2, <2>4 DEF HeadKnown, Url
<1>9. CASE OriginDiffers \/ ResetIfLost
  <2>1. /\ pc \in {"origin", "decide"} /\ pc' \in {"remove", "decide"}
        /\ pc' = "decide" => pc = "decide"
        /\ listed' = listed /\ st' = [st EXCEPT !.last = None]
    BY <1>9 DEF OriginDiffers, ResetIfLost, ResetRepo, Step
  <2>2. st'.head = st.head /\ st'.repo = st.repo /\ st'.last = None
    BY <1>b, <2>1 DEF Visits
  <2>3. pc \in Visiting /\ pc' \in Visiting
    BY <2>1 DEF Visiting
  <2> QED
    BY <1>a, <2>1, <2>2, <2>3 DEF HeadKnown, Url
<1>10. CASE StartIndex
  <2>1. pc = "decide" /\ pc \in Visiting /\ pc' = "index" /\ UNCHANGED <<listed, last_sha>>
    BY <1>10 DEF StartIndex, Step, Visiting, columns
  <2>2. st'.head = st.head /\ st'.repo = st.repo /\ st'.last = KnownSha
    BY <1>10, <1>b DEF StartIndex, Visits
  <2>3. KnownSha # None => KnownSha = st.last
    BY DEF KnownSha
  <2> QED
    BY <1>a, <2>1, <2>2, <2>3 DEF HeadKnown, Url
<1>11. ASSUME NEW p \in Paths, IndexFile(p)
       PROVE  HeadKnown'
  <2>1. pc = "index" /\ pc \in Visiting /\ pc' = "index" /\ UNCHANGED <<listed, last_sha>>
    BY <1>11 DEF IndexFile, Step, Visiting, columns
  <2>2. st'.head = st.head /\ st'.repo = st.repo /\ st'.last = st.last
    BY <1>11, <1>b DEF IndexFile, Visits
  <2> QED
    BY <1>a, <2>1, <2>2 DEF HeadKnown, Url
<1>12. CASE MarkIndexed
  <2>1. pc = "mark" /\ pc \in Visiting /\ pc' \in {"clear", "warn"} /\ UNCHANGED <<listed, st>>
    BY <1>12 DEF MarkIndexed, Visiting
  <2> QED
    BY <1>a, <2>1 DEF HeadKnown, Url, Visiting
<1>13. CASE \/ Boot \/ PollFails \/ WarnFails \/ ListFails \/ Crash \/ Wait \/ ReadActive \/ EndCycle
            \/ Refused \/ BranchGone \/ Unchanged \/ ClearReindex \/ WarnEmptyStages
  <2>1. pc' \in {"down", "wait", "idle", "list", "cycle", "warn"}
    BY <1>13 DEF Boot, BootSync, BootIdle, PollFails, WarnFails, ListFails, Crash, Wait, ReadActive,
       EndCycle, Refused, BranchGone, Unchanged, ClearReindex, WarnEmptyStages, Step
  <2> QED
    BY <1>1, <2>1 DEF Visiting
<1> QED
  BY <1>2, <1>3, <1>4, <1>5, <1>6, <1>7, <1>8, <1>9, <1>10, <1>11, <1>12, <1>13 DEF Next, Failure,
     PollerStep

-----------------------------------------------------------------------------
(* A boot and the two resets drop the whole content of a repository with   *)
(* its last_sha, or leave it under the clone_url it came from.             *)
LEMMA Dropped ==
  ASSUME PollerInv, BootSyncs \/ OriginDiffers \/ ResetIfLost, NEW r \in Repos
  PROVE  \/ /\ \A p \in Paths : rows'[r][p] = None
            /\ lane'[r] = None /\ last_sha'[r] = None
         \/ /\ rows'[r] = rows[r] /\ lane'[r] = lane[r] /\ ahead'[r] = ahead[r]
            /\ last_sha'[r] = last_sha[r]
            /\ listed[r] # None => listed'[r] # None /\ listed'[r].url = listed[r].url
<1>a. last_sha \in [Repos -> Commit \cup {None}]
  BY DEF PollerInv, TypeOK
<1>1. ASSUME NEW list \in Lists, NEW left \in SUBSET Repos, BootSync(list, left)
      PROVE  \/ /\ \A p \in Paths : rows'[r][p] = None
                /\ lane'[r] = None /\ last_sha'[r] = None
             \/ /\ rows'[r] = rows[r] /\ lane'[r] = lane[r] /\ ahead'[r] = ahead[r]
                /\ last_sha'[r] = last_sha[r]
                /\ listed[r] # None => listed'[r] # None /\ listed'[r].url = listed[r].url
  BY <1>1 DEF BootSync, DropIndex, EmptyRows, Purged, Reset, UrlChanged
<1>2. CASE OriginDiffers \/ ResetIfLost
  <2>1. ResetRepo(st.repo)
    BY <1>2 DEF OriginDiffers, ResetIfLost
  <2> QED
    BY <1>a, <2>1 DEF ResetRepo, DropIndex, EmptyRows
<1> QED
  BY <1>1, <1>2 DEF BootSyncs

(* No row, lane or last_sha of another remote, and no row whose content is *)
(* not its own commit's.                                                   *)
LEMMA SourceStep ==
  ASSUME PollerInv, [Next]_vars, TypeOK'
  PROVE  OneRemote' /\ Attributed'
<1>a. TypeOK /\ OneRemote /\ Attributed
  BY DEF PollerInv
<1>b. /\ rows \in [Repos -> [Paths -> Row \cup {None}]]
      /\ lane \in [Repos -> Commit \cup {None}] /\ last_sha \in [Repos -> Commit \cup {None}]
  BY <1>a DEF TypeOK
<1>1. CASE UNCHANGED <<rows, lane, last_sha, listed>>
  BY <1>1, <1>a DEF OneRemote, Attributed
<1>2. CASE BootSyncs \/ OriginDiffers \/ ResetIfLost
  BY <1>2, <1>a, Dropped DEF OneRemote, Attributed
<1>3. CASE IndexesFile \/ RecordHistory \/ MarkIndexed
  <2>1. /\ pc \in Visiting /\ pc \in {"index", "record", "mark"} /\ listed' = listed
    BY <1>3 DEF IndexesFile, IndexFile, RecordHistory, MarkIndexed, Step, Visiting, columns
  <2>2. /\ st.repo \in Repos /\ listed[st.repo] # None
        /\ st.head # None /\ st.head.url = listed[st.repo].url
    BY <2>1 DEF PollerInv, VisitShaped, HeadKnown, Url
  <2>3. ASSUME NEW p \in Paths, IndexFile(p)
        PROVE  OneRemote' /\ Attributed'
    <3>1. UNCHANGED <<lane, last_sha>> /\ rows' = [rows EXCEPT ![st.repo][p] = RowOf(p)]
      BY <2>3 DEF IndexFile, columns
    <3>2. RowOf(p) # None => RowOf(p).sha = st.head /\ RowOf(p).blob = Tree(st.head)[p]
      BY DEF RowOf
    <3>3. \A r \in Repos, q \in Paths :
            rows'[r][q] = IF r = st.repo /\ q = p THEN RowOf(p) ELSE rows[r][q]
      BY <1>b, <3>1
    <3>4. Attributed'
      BY <1>a, <3>2, <3>3 DEF Attributed
    <3>5. OneRemote'
      BY <1>a, <2>1, <2>2, <3>1, <3>2, <3>3 DEF OneRemote
    <3> QED
      BY <3>4, <3>5
  <2>4. CASE RecordHistory
    <3>1. UNCHANGED <<rows, last_sha>> /\ lane' = [lane EXCEPT ![st.repo] = st.head]
      BY <2>4 DEF RecordHistory, columns
    <3> QED
      BY <1>a, <1>b, <2>1, <2>2, <3>1 DEF OneRemote, Attributed
  <2>5. CASE MarkIndexed
    <3>1. UNCHANGED <<rows, lane>> /\ last_sha' = [last_sha EXCEPT ![st.repo] = st.head]
      BY <2>5 DEF MarkIndexed
    <3> QED
      BY <1>a, <1>b, <2>1, <2>2, <3>1 DEF OneRemote, Attributed
  <2> QED
    BY <1>3, <2>3, <2>4, <2>5 DEF IndexesFile
<1> QED
  BY <1>1, <1>2, <1>3, Writers

(* A path whose entry is the same in two commits needs no row of its own.  *)
LEMMA SameEntry ==
  ASSUME NEW c, NEW d, NEW p \in Paths, p \notin Diff(c, d)
  PROVE  Expected(c, p) = Expected(d, p)
BY DEF Diff, Expected

(* The row IndexFile writes holds what is expected of its path.            *)
LEMMA RowServes ==
  ASSUME st.head \in Commit, NEW p \in Paths
  PROVE  (IF RowOf(p) = None THEN None ELSE RowOf(p).blob) = Expected(st.head, p)
<1>1. CASE Tree(st.head)[p] \in Blobs
  <2>1. RowOf(p) = [sha |-> st.head, blob |-> Tree(st.head)[p]]
    BY <1>1 DEF RowOf
  <2>2. RowOf(p) # None /\ RowOf(p).blob = Tree(st.head)[p]
    BY <1>1, <2>1, ConstAssumption DEF Row
  <2> QED
    BY <1>1, <2>2 DEF Expected
<1>2. CASE Tree(st.head)[p] \notin Blobs
  BY <1>2 DEF RowOf, Expected
<1> QED
  BY <1>1, <1>2

(* A run works its lists off: each path it covers is either still on one   *)
(* of them or at the run's commit.                                         *)
LEMMA RunStep ==
  ASSUME PollerInv, [Next]_vars, TypeOK'
  PROVE  RunCovers'
<1>a. TypeOK /\ RunCovers /\ VisitShaped
  BY DEF PollerInv
<1>b. /\ rows \in [Repos -> [Paths -> Row \cup {None}]]
      /\ lane \in [Repos -> Commit \cup {None}] /\ st \in Visits
  BY <1>a DEF TypeOK
<1>1. CASE pc' \notin Running
  BY <1>1 DEF RunCovers, Running
<1>2. CASE UNCHANGED <<rows, lane, listed, pc>> /\ st'.repo = st.repo /\ st'.last = st.last
           /\ st'.gen = st.gen /\ st'.head = st.head /\ st'.full = st.full /\ st'.retire = st.retire
           /\ st'.todo = st.todo
  BY <1>2, <1>a DEF RunCovers, Held, Url
<1>3. CASE Environment \/ Nudge \/ UNCHANGED vars
  BY <1>2, <1>3, Aside DEF vars, index, columns
<1>4. CASE StartIndex
  <2>1. /\ pc' = "index" /\ UNCHANGED <<rows, lane, listed>>
        /\ st'.repo = st.repo /\ st'.head = st.head /\ st'.gen = st.gen /\ st'.last = KnownSha
        /\ st'.full = (KnownSha = None)
        /\ st'.retire = {p \in Paths : KnownSha = None /\ rows[st.repo][p] # None
                                                       /\ Tree(st.head)[p] = NoFile}
        /\ st'.todo = IF KnownSha = None THEN {p \in Paths : Tree(st.head)[p] # NoFile}
                      ELSE Diff(KnownSha, st.head)
    BY <1>4, <1>b DEF StartIndex, Step, index, columns, Visits
  <2>2. st.gen > 0 => KnownSha = None
    BY DEF KnownSha
  <2>3. CASE KnownSha = None
    <3>1. \A p \in Paths \ (st'.retire \cup st'.todo) : Held(st.repo, p) = Expected(st.head, p)
      BY <2>1, <2>3, ConstAssumption DEF Held, Expected, NoFile
    <3> QED
      BY <2>1, <2>2, <2>3, <3>1 DEF RunCovers, Held, Running
  <2>4. CASE KnownSha # None
    BY <2>1, <2>2, <2>4 DEF RunCovers, Running
  <2> QED
    BY <2>3, <2>4
<1>5. ASSUME NEW p \in Paths, IndexFile(p)
      PROVE  RunCovers'
  <2>1. /\ pc = "index" /\ pc' = "index" /\ UNCHANGED listed
        /\ rows' = [rows EXCEPT ![st.repo][p] = RowOf(p)]
    BY <1>5 DEF IndexFile, Step, columns
  <2>2. /\ st'.repo = st.repo /\ st'.head = st.head /\ st'.gen = st.gen /\ st'.last = st.last
        /\ st'.full = st.full /\ st'.retire = st.retire \ {p}
        /\ st.todo \subseteq st'.todo \cup {p}
    BY <1>5, <1>b DEF IndexFile, Visits
  <2>3. st.repo \in Repos /\ st.head \in Commit
    BY <1>a, <2>1, Visited DEF VisitShaped, Visiting, PollerInv, HeadKnown
  <2>4. \A q \in Paths : rows'[st.repo][q] = IF q = p THEN RowOf(p) ELSE rows[st.repo][q]
    BY <1>b, <2>1, <2>3
  <2>5. \A q \in Paths : Held(st.repo, q)' = IF q = p THEN Expected(st.head, p) ELSE Held(st.repo, q)
    BY <2>2, <2>3, <2>4, RowServes DEF Held
  <2>6. \A q \in (IF st'.full THEN Paths ELSE Diff(st'.last, st'.head)) \ (st'.retire \cup st'.todo) :
          /\ q \in Paths
          /\ q = p \/ q \in (IF st.full THEN Paths ELSE Diff(st.last, st.head))
                               \ (st.retire \cup st.todo)
    BY <2>2 DEF Diff
  <2>7. \A q \in (IF st'.full THEN Paths ELSE Diff(st'.last, st'.head)) \ (st'.retire \cup st'.todo) :
          Held(st.repo, q)' = Expected(st.head, q)
    BY <1>a, <2>1, <2>5, <2>6 DEF RunCovers, Running
  <2>8. (st'.full <=> st'.last = None) /\ (st'.gen > 0 => st'.full)
    BY <1>a, <2>1, <2>2 DEF RunCovers, Running
  <2> QED
    BY <2>1, <2>2, <2>7, <2>8 DEF RunCovers, Running, Held
<1>6. CASE IndexDone
  <2>1. /\ pc = "index" /\ pc' = IF Url = Drop THEN "mark" ELSE "record"
        /\ UNCHANGED <<rows, lane, listed, st>> /\ st.retire = {} /\ st.todo = {}
    BY <1>6 DEF IndexDone, Step, index, columns
  <2>2. st.repo \in Repos
    BY <1>a, <2>1 DEF VisitShaped, Visiting
  <2>3. Url = Drop => lane[st.repo] = None
    BY <2>2 DEF PollerInv, OneRemote, RemotesOwn, Url
  <2> QED
    BY <1>a, <2>1, <2>3 DEF RunCovers, Running, Held, Url
<1>7. CASE RecordHistory
  <2>1. /\ pc = "record" /\ pc' = "mark" /\ UNCHANGED <<rows, listed, st>>
        /\ lane' = [lane EXCEPT ![st.repo] = st.head]
    BY <1>7 DEF RecordHistory, Step, columns
  <2>2. st.repo \in Repos /\ Url # Drop
    BY <1>a, <2>1 DEF VisitShaped, Visiting
  <2> QED
    BY <1>a, <1>b, <2>1, <2>2 DEF RunCovers, Running, Held, Url
<1>8. CASE \/ Boot \/ PollFails \/ WarnFails \/ ListFails \/ Crash \/ Wait \/ ReadActive \/ EndCycle
           \/ (\E r \in Repos : Visit(r)) \/ Refused \/ BranchGone \/ Unchanged \/ ClearReindex
           \/ WarnEmptyStages \/ CheckDrop \/ CommitDrop \/ NameDropBranch \/ OriginMatches
           \/ OriginDiffers \/ RemoveCheckout \/ CloneRemote \/ SetOriginUrl \/ AlreadyCloned
           \/ ResolveBranch \/ FetchHead \/ ResetIfLost \/ MarkIndexed
  <2>1. pc' \notin Running
    BY <1>8 DEF Running, Boot, BootSync, BootIdle, PollFails, WarnFails, ListFails, Crash, Wait,
       ReadActive, EndCycle, Visit, Refused, BranchGone, Unchanged, ClearReindex, WarnEmptyStages,
       CheckDrop, CommitDrop, NameDropBranch, OriginMatches, OriginDiffers, RemoveCheckout, CloneRemote,
       SetOriginUrl, AlreadyCloned, ResolveBranch, FetchHead, ResetIfLost, MarkIndexed, Step
  <2> QED
    BY <1>1, <2>1
<1> QED
  BY <1>3, <1>4, <1>5, <1>6, <1>7, <1>8 DEF Next, Failure, PollerStep

(* Where no unfinished run wrote ahead, the index is the tree of last_sha: *)
(* a file written is ahead until a run that covers it lands, and a run     *)
(* lands only with its lists worked off.                                   *)
LEMMA AgreeStep ==
  ASSUME PollerInv, [Next]_vars, TypeOK'
  PROVE  IndexAgrees'
<1>a. TypeOK /\ IndexAgrees
  BY DEF PollerInv
<1>b. /\ rows \in [Repos -> [Paths -> Row \cup {None}]] /\ last_sha \in [Repos -> Commit \cup {None}]
      /\ lane \in [Repos -> Commit \cup {None}]
      /\ ahead \in [Repos -> SUBSET (Paths \cup {"history"})]
  BY <1>a DEF TypeOK
<1>1. CASE UNCHANGED <<rows, lane, ahead, last_sha>>
  BY <1>1, <1>a DEF IndexAgrees, Held
<1>2. CASE BootSyncs \/ OriginDiffers \/ ResetIfLost
  BY <1>2, <1>a, Dropped DEF IndexAgrees, Held
<1>3. ASSUME NEW p \in Paths, IndexFile(p)
      PROVE  IndexAgrees'
  <2>1. /\ UNCHANGED <<lane, last_sha>> /\ rows' = [rows EXCEPT ![st.repo][p] = RowOf(p)]
        /\ ahead' = [ahead EXCEPT ![st.repo] = @ \cup {p}]
    BY <1>3 DEF IndexFile, columns
  <2>2. \A r \in Repos, q \in Paths : rows'[r][q] = IF r = st.repo /\ q = p THEN RowOf(p) ELSE rows[r][q]
    BY <1>b, <2>1
  <2>3. /\ \A r \in Repos : ahead[r] \subseteq ahead'[r]
        /\ st.repo \in Repos => p \in ahead'[st.repo]
    BY <1>b, <2>1
  <2>4. \A r \in Repos : \A q \in Paths \ ahead'[r] : Held(r, q)' = Held(r, q)
    BY <2>2, <2>3 DEF Held
  <2> QED
    BY <1>a, <2>1, <2>3, <2>4 DEF IndexAgrees
<1>4. CASE RecordHistory
  <2>1. /\ UNCHANGED <<rows, last_sha>> /\ lane' = [lane EXCEPT ![st.repo] = st.head]
        /\ ahead' = [ahead EXCEPT ![st.repo] = @ \cup {"history"}]
    BY <1>4 DEF RecordHistory, columns
  <2>2. \A r \in Repos : /\ ahead[r] \subseteq ahead'[r]
                         /\ lane'[r] = lane[r] \/ "history" \in ahead'[r]
    BY <1>b, <2>1
  <2> QED
    BY <1>a, <2>1, <2>2 DEF IndexAgrees, Held
<1>5. CASE MarkIndexed
  <2>1. /\ pc = "mark" /\ UNCHANGED <<rows, lane>>
        /\ last_sha' = [last_sha EXCEPT ![st.repo] = st.head]
        /\ ahead' = [ahead EXCEPT ![st.repo] = @ \ Covered]
    BY <1>5 DEF MarkIndexed
  <2>2. /\ st.repo \in Repos /\ st.head # None /\ st.head.url = Url
        /\ st.last # None => last_sha[st.repo] = st.last
        /\ st.retire = {} /\ st.todo = {} /\ (st.full <=> st.last = None)
        /\ \A p \in (IF st.full THEN Paths ELSE Diff(st.last, st.head)) :
             Held(st.repo, p) = Expected(st.head, p)
        /\ lane[st.repo] = IF Url = Drop THEN None ELSE st.head
    BY <2>1 DEF PollerInv, VisitShaped, HeadKnown, RunCovers, Running, Visiting
  <2>3. \A p \in Paths \ ahead'[st.repo] : Held(st.repo, p) = Expected(st.head, p)
    <3>1. CASE st.full
      BY <2>2, <3>1
    <3>2. CASE ~st.full
      <4>1. \A p \in Paths \ ahead'[st.repo] : p \in Diff(st.last, st.head) \/ p \notin ahead[st.repo]
        BY <1>b, <2>1, <2>2, <3>2, ConstAssumption DEF Covered
      <4>2. \A p \in Paths \ ahead[st.repo] : Held(st.repo, p) = Expected(st.last, p)
        BY <1>a, <2>2, <3>2 DEF IndexAgrees
      <4> QED
        BY <2>2, <3>2, <4>1, <4>2, SameEntry
    <3> QED
      BY <3>1, <3>2
  <2>4. /\ last_sha'[st.repo] = st.head
        /\ \A r \in Repos \ {st.repo} : last_sha'[r] = last_sha[r] /\ ahead'[r] = ahead[r]
    BY <1>b, <2>1, <2>2
  <2>5. \A r \in Repos, p \in Paths : Held(r, p)' = Held(r, p)
    BY <2>1 DEF Held
  <2> QED
    BY <1>a, <2>1, <2>2, <2>3, <2>4, <2>5 DEF IndexAgrees
<1> QED
  <2>1. \/ UNCHANGED <<rows, lane, ahead, last_sha>> \/ BootSyncs \/ OriginDiffers \/ ResetIfLost
        \/ IndexesFile \/ RecordHistory \/ MarkIndexed
    BY Writers
  <2> QED
    BY <1>1, <1>2, <1>3, <1>4, <1>5, <2>1 DEF IndexesFile

-----------------------------------------------------------------------------
(* Most steps of a visit leave its generation, the requests and the        *)
(* signals alone.                                                          *)
LEMMA Carries ==
  ASSUME PollerInv, pc \in Visiting, pc' \in Visiting \ {"clear"},
         UNCHANGED <<listed, reindex_requested, wake, nudges, owed, deferred, seen>>,
         st'.repo = st.repo, st'.gen = st.gen,
         pc' \in Running => \/ pc \in Running /\ st'.full = st.full /\ st'.clean = st.clean
                            \/ st'.clean = st'.full
  PROVE  RequestKept' /\ NoLostWake' /\ RequestAhead'
<1>1. RequestKept'
  BY DEF PollerInv, RequestKept
<1>2. RequestAhead'
  BY DEF PollerInv, RequestAhead
<1>3. NoLostWake'
  BY DEF PollerInv, NoLostWake, Active, Polling, Visiting
<1> QED
  BY <1>1, <1>2, <1>3

(* A visit that gives up defers its repository to the timer.               *)
LEMMA GivesUp ==
  ASSUME PollerInv, pc \in Visiting, pc' = "cycle",
         UNCHANGED <<listed, reindex_requested, wake, nudges, owed, seen>>,
         deferred' = [deferred EXCEPT ![st.repo] = TRUE]
  PROVE  RequestKept' /\ NoLostWake' /\ RequestAhead'
<1>a. deferred \in [Repos -> BOOLEAN]
  BY DEF PollerInv, TypeOK
<1>1. \A r \in Repos : ~deferred'[r] => ~deferred[r] /\ r # st.repo
  BY <1>a
<1>2. RequestKept' /\ RequestAhead'
  BY DEF PollerInv, RequestKept, RequestAhead, Visiting, Running
<1>3. NoLostWake'
  BY <1>1 DEF PollerInv, NoLostWake, Active, Polling, Visiting
<1> QED
  BY <1>2, <1>3

(* A request goes to the rows before its nudge, and spoils the run it      *)
(* comes in on.                                                            *)
LEMMA RequestComes ==
  ASSUME PollerInv, NEW rs \in SUBSET Repos, RequestReindex(rs)
  PROVE  RequestKept' /\ NoLostWake' /\ RequestAhead'
<1>a. /\ reindex_requested \in [Repos -> Nat] /\ nudges \in Nat /\ st \in Visits
      /\ owed \in [Repos -> BOOLEAN]
  BY DEF PollerInv, TypeOK
<1>1. /\ \A r \in Repos : reindex_requested'[r] =
                            IF r \in rs THEN reindex_requested[r] + 1 ELSE reindex_requested[r]
      /\ \A r \in Repos : owed'[r] <=> owed[r] \/ r \in rs
      /\ nudges' = nudges + 1 /\ pc' = pc
  BY DEF RequestReindex
<1>2. \A r \in Repos : reindex_requested[r] \in Nat
  BY <1>a
<1>3. RequestKept'
  BY <1>1, <1>2 DEF PollerInv, RequestKept
<1>4. NoLostWake'
  BY <1>a, <1>1 DEF NoLostWake
<1>5. RequestAhead'
  <2> DEFINE clean == st.clean /\ st.repo \notin rs
  <2>1. st' = [st EXCEPT !.clean = clean]
    BY DEF RequestReindex
  <2>2. clean \in BOOLEAN
    OBVIOUS
  <2>3. (~st.clean \/ st.repo \in rs) <=> ~clean
    OBVIOUS
  <2> HIDE DEF clean
  <2>4. /\ st'.repo = st.repo /\ st'.gen = st.gen /\ st'.full = st.full /\ st.gen \in Nat
        /\ st'.clean = clean
    BY <1>a, <2>1, <2>2 DEF Visits
  <2>5. pc \in Visiting => st.repo \in Repos
    BY DEF PollerInv, VisitShaped
  <2>6. Running \subseteq Visiting /\ "clear" \in Visiting
    BY DEF Running, Visiting
  <2>7. pc' \in Visiting => st'.gen <= reindex_requested'[st'.repo]
    BY <1>1, <1>2, <2>4, <2>5 DEF PollerInv, RequestAhead
  <2>8. ASSUME pc' \in Running, st'.full, ~st'.clean
        PROVE  st'.gen < reindex_requested'[st'.repo]
    <3>1. st.gen <= reindex_requested[st.repo] /\ (~st.clean => st.gen < reindex_requested[st.repo])
      BY <1>1, <2>4, <2>6, <2>8 DEF PollerInv, RequestAhead
    <3> QED
      BY <1>1, <1>2, <2>3, <2>4, <2>5, <2>6, <2>8, <3>1
  <2>9. ASSUME pc' = "clear", owed'[st'.repo]
        PROVE  st'.gen < reindex_requested'[st'.repo]
    <3>1. /\ st.gen <= reindex_requested[st.repo]
          /\ owed[st.repo] => st.gen < reindex_requested[st.repo]
      BY <1>1, <2>4, <2>6, <2>9 DEF PollerInv, RequestAhead
    <3> QED
      BY <1>1, <1>2, <2>4, <2>5, <2>6, <2>9, <3>1
  <2> QED
    BY <2>7, <2>8, <2>9 DEF RequestAhead
<1> QED
  BY <1>3, <1>4, <1>5

(* A full run serves the requests it read, and only those: it leaves a     *)
(* later one on the row, and its wake-up with it.                          *)
LEMMA RunLands ==
  ASSUME PollerInv, MarkIndexed \/ ClearReindex
  PROVE  RequestKept' /\ NoLostWake' /\ RequestAhead'
<1>a. /\ st.repo \in Repos /\ listed[st.repo] # None /\ seen[st.repo] = -1
      /\ pc \in {"mark", "clear"} /\ pc \in Visiting
  BY DEF PollerInv, VisitShaped, MarkIndexed, ClearReindex, Step, Visiting
<1>b. /\ owed \in [Repos -> BOOLEAN] /\ reindex_requested \in [Repos -> Nat] /\ st \in Visits
      /\ seen \in [Repos -> Nat \cup {-1}]
  BY DEF PollerInv, TypeOK
<1>c. /\ UNCHANGED <<listed, wake, nudges, deferred, seen, st>>
      /\ st.gen \in Nat /\ st.gen <= reindex_requested[st.repo]
  BY <1>a, <1>b DEF MarkIndexed, ClearReindex, signals, PollerInv, RequestAhead, Visits
<1>1. CASE MarkIndexed
  <2>1. /\ pc = "mark" /\ pc' = IF st.gen > 0 THEN "clear" ELSE "warn"
        /\ reindex_requested' = reindex_requested
    BY <1>1 DEF MarkIndexed
  <2>2. \A r \in Repos : owed'[r] => owed[r] /\ (r = st.repo => ~(st.full /\ st.clean))
    BY <1>b, <1>1 DEF MarkIndexed
  <2>3. owed'[st.repo] => st.gen < reindex_requested[st.repo]
    <3>1. owed'[st.repo] => reindex_requested[st.repo] > 0
      BY <1>a, <2>2 DEF PollerInv, RequestKept
    <3>2. st.gen > 0 => st.full
      BY <2>1 DEF PollerInv, RunCovers, Running
    <3>3. st.full /\ ~st.clean => st.gen < reindex_requested[st.repo]
      BY <2>1 DEF PollerInv, RequestAhead, Running
    <3>4. reindex_requested[st.repo] \in Nat
      BY <1>a, <1>b
    <3> QED
      BY <1>a, <1>c, <2>2, <3>1, <3>2, <3>3, <3>4
  <2>4. RequestKept'
    BY <2>1, <2>2 DEF PollerInv, RequestKept
  <2>5. RequestAhead'
    BY <1>c, <2>1, <2>3 DEF RequestAhead, Visiting, Running
  <2>6. NoLostWake'
    <3>1. \A r \in Repos : owed'[r] => owed[r] /\ (r = st.repo => st.gen # reindex_requested[r])
      BY <1>a, <1>b, <1>c, <2>2, <2>3
    <3> QED
      BY <1>a, <1>c, <2>1, <3>1 DEF PollerInv, NoLostWake, Active, Polling
  <2> QED
    BY <2>4, <2>5, <2>6
<1>2. CASE ClearReindex
  <2>1. /\ pc = "clear" /\ pc' = "warn" /\ owed' = owed
        /\ reindex_requested' = [reindex_requested EXCEPT ![st.repo] = Served(@)]
    BY <1>2 DEF ClearReindex, Step, signals
  <2>2. owed[st.repo] => st.gen < reindex_requested[st.repo]
    BY <2>1 DEF PollerInv, RequestAhead
  <2>3. \A r \in Repos : owed'[r] => owed[r] /\ reindex_requested'[r] = reindex_requested[r]
    BY <1>a, <1>b, <1>c, <2>1, <2>2 DEF Served
  <2>4. RequestKept'
    BY <2>3 DEF PollerInv, RequestKept
  <2>5. RequestAhead'
    BY <2>1 DEF RequestAhead, Visiting, Running
  <2>6. NoLostWake'
    <3>1. \A r \in Repos : owed[r] => ~(st.repo = r /\ st.gen = reindex_requested[r])
      BY <1>a, <1>b, <1>c, <2>2
    <3> QED
      BY <1>a, <1>c, <2>1, <2>3, <3>1 DEF PollerInv, NoLostWake, Active, Polling
  <2> QED
    BY <2>4, <2>5, <2>6
<1> QED
  BY <1>1, <1>2

(* No request is lost and none is left without a wake-up.                  *)
LEMMA RequestStep ==
  ASSUME PollerInv, [Next]_vars, TypeOK'
  PROVE  RequestKept' /\ NoLostWake' /\ RequestAhead'
<1>a. st \in Visits /\ seen \in [Repos -> Nat \cup {-1}] /\ reindex_requested \in [Repos -> Nat]
  BY DEF PollerInv, TypeOK
<1>b. RequestKept /\ NoLostWake /\ RequestAhead /\ SeenShaped /\ VisitShaped
  BY DEF PollerInv
<1>1. CASE UNCHANGED vars
  BY <1>1, <1>b DEF vars, columns, signals, RequestKept, NoLostWake, RequestAhead, Active, Polling
<1>2. CASE Requests
  BY <1>2, RequestComes DEF Requests
<1>3. CASE (Environment /\ ~Requests) \/ Nudge
  <2>1. /\ UNCHANGED <<listed, reindex_requested, owed, deferred, seen, pc, st>>
        /\ UNCHANGED <<wake, nudges>> \/ wake' = TRUE
    BY <1>3 DEF Environment, Requests, Push, Rewind, DeleteBranch, LoseCheckout, EmptyDrop, Extract, Nudge,
       columns, signals
  <2> QED
    BY <1>b, <2>1 DEF RequestKept, NoLostWake, RequestAhead, Active, Polling
<1>4. ASSUME NEW list \in Lists, NEW left \in SUBSET Repos, BootSync(list, left)
      PROVE  RequestKept' /\ NoLostWake' /\ RequestAhead'
  <2>1. /\ pc' = "wait" /\ \A r \in Repos : deferred'[r] = TRUE
        /\ \A r \in Repos : owed'[r] => owed[r] /\ reindex_requested'[r] = reindex_requested[r]
    BY <1>4 DEF BootSync
  <2> QED
    BY <1>b, <2>1 DEF RequestKept, NoLostWake, RequestAhead, Visiting, Running
<1>5. CASE BootIdle \/ Crash
  <2>1. pc' \in {"idle", "down"} /\ UNCHANGED <<reindex_requested, owed>>
    BY <1>5 DEF BootIdle, Crash, columns, signals
  <2> QED
    BY <1>b, <2>1 DEF RequestKept, NoLostWake, RequestAhead, Polling, Visiting, Running
<1>6. CASE Wait \/ ListFails
  <2>1. /\ UNCHANGED <<reindex_requested, owed>>
        /\ pc' = "list" \/ (pc' = "wait" /\ \A r \in Repos : deferred'[r] = TRUE)
    BY <1>6 DEF Wait, ListFails, columns, signals
  <2> QED
    BY <1>b, <2>1 DEF RequestKept, NoLostWake, RequestAhead, Visiting, Running
<1>7. CASE ReadActive
  <2>1. /\ UNCHANGED <<listed, reindex_requested, owed>> /\ pc' = "cycle"
        /\ \A r \in Repos : Active(r) => seen'[r] = reindex_requested[r]
    BY <1>7 DEF ReadActive, columns, signals
  <2> QED
    BY <1>b, <2>1 DEF RequestKept, NoLostWake, RequestAhead, Active, Visiting, Running
<1>8. CASE EndCycle
  <2>1. /\ UNCHANGED <<listed, reindex_requested, wake, nudges, owed, deferred, seen>>
        /\ pc = "cycle" /\ pc' = "wait" /\ \A r \in Repos : seen[r] # reindex_requested[r]
    BY <1>8, <1>a DEF EndCycle, columns, signals
  <2> QED
    BY <1>b, <2>1 DEF RequestKept, NoLostWake, RequestAhead, Active, Polling, Visiting, Running
<1>9. ASSUME NEW r \in Repos, Visit(r)
      PROVE  RequestKept' /\ NoLostWake' /\ RequestAhead'
  <2>1. /\ UNCHANGED <<listed, reindex_requested, wake, nudges, owed, deferred>>
        /\ pc = "cycle" /\ pc' = "origin" /\ st'.repo = r /\ st'.gen = seen[r]
        /\ seen[r] <= reindex_requested[r]
    BY <1>9, <1>b DEF Visit, Idle, columns, signals, SeenShaped
  <2>2. \A x \in Repos \ {r} : seen'[x] = seen[x]
    BY <1>9, <1>a DEF Visit
  <2>3. RequestKept' /\ RequestAhead'
    BY <1>b, <2>1 DEF RequestKept, RequestAhead, Visiting, Running
  <2>4. NoLostWake'
    BY <1>b, <2>1, <2>2 DEF NoLostWake, Active, Polling, Visiting
  <2> QED
    BY <2>3, <2>4
<1>10. CASE Refused \/ BranchGone \/ PollFails
  <2>1. /\ pc \in Visiting /\ pc' = "cycle" /\ deferred' = [deferred EXCEPT ![st.repo] = TRUE]
        /\ UNCHANGED <<listed, reindex_requested, wake, nudges, owed, seen>>
    BY <1>10 DEF Refused, Misplaced, BranchGone, PollFails, Step, Visiting
  <2> QED
    BY <2>1, GivesUp
<1>11. CASE WarnEmptyStages \/ WarnFails
  <2>1. /\ pc = "warn" /\ pc' = "cycle"
        /\ UNCHANGED <<listed, reindex_requested, wake, nudges, owed, deferred, seen>>
    BY <1>11 DEF WarnEmptyStages, WarnFails, Step, columns, signals
  <2> QED
    BY <1>b, <2>1 DEF RequestKept, NoLostWake, RequestAhead, Active, Polling, Visiting, Running
<1>12. CASE Unchanged
  <2>1. /\ pc = "decide" /\ pc \in Visiting /\ pc' = "warn" /\ st.head = KnownSha
        /\ UNCHANGED <<listed, reindex_requested, wake, nudges, owed, deferred, seen>>
    BY <1>12 DEF Unchanged, Step, Visiting, signals
  <2>2. st.gen = 0
    BY <1>a, <2>1 DEF PollerInv, HeadKnown, KnownSha, Visits
  <2>3. \A r \in Repos : owed[r] => st.gen # reindex_requested[r]
    BY <1>b, <2>2 DEF RequestKept
  <2> QED
    BY <1>b, <2>1, <2>3 DEF RequestKept, NoLostWake, RequestAhead, Active, Polling, Visiting, Running
<1>13. CASE MarkIndexed \/ ClearReindex
  BY <1>13, RunLands
<1>14. CASE \/ CheckDrop \/ OriginMatches \/ AlreadyCloned \/ RemoveCheckout \/ CloneRemote
            \/ SetOriginUrl \/ NameDropBranch \/ ResolveBranch \/ IndexDone \/ RecordHistory
  <2>1. /\ pc \in Visiting /\ pc' \in Visiting \ {"clear"}
        /\ pc' \in Running => pc \in Running
        /\ UNCHANGED <<listed, reindex_requested, wake, nudges, owed, deferred, seen, st>>
    BY <1>14 DEF CheckDrop, OriginMatches, AlreadyCloned, RemoveCheckout, CloneRemote, SetOriginUrl,
       NameDropBranch, ResolveBranch, IndexDone, RecordHistory, Step, Visiting, Running, columns, signals
  <2> QED
    BY <2>1, Carries
<1>15. CASE OriginDiffers \/ ResetIfLost \/ FetchHead \/ CommitDrop
  <2>1. PICK v \in Visits : /\ v.repo = st.repo /\ v.gen = st.gen /\ st' = v
    <3>1. PICK h : st' = [st EXCEPT !.last = h] \/ st' = [st EXCEPT !.head = h]
      BY <1>15 DEF OriginDiffers, ResetIfLost, FetchHead, CommitDrop
    <3>2. st' \in Visits
      BY DEF TypeOK
    <3> QED
      BY <1>a, <3>1, <3>2 DEF Visits
  <2>2. /\ pc \in Visiting /\ pc' \in Visiting \ {"clear"} /\ pc' \notin Running
        /\ UNCHANGED <<listed, reindex_requested, wake, nudges, owed, deferred, seen>>
    BY <1>15 DEF OriginDiffers, ResetIfLost, FetchHead, CommitDrop, ResetRepo, Step, Visiting, Running,
       columns, signals
  <2> QED
    BY <2>1, <2>2, Carries
<1>16. CASE StartIndex
  <2>1. /\ pc \in Visiting /\ pc' \in Visiting \ {"clear"}
        /\ UNCHANGED <<listed, reindex_requested, wake, nudges, owed, deferred, seen>>
    BY <1>16 DEF StartIndex, Step, Visiting, columns, signals
  <2>2. st'.repo = st.repo /\ st'.gen = st.gen /\ st'.clean = st'.full
    BY <1>16, <1>a DEF StartIndex, Visits
  <2> QED
    BY <2>1, <2>2, Carries
<1>17. ASSUME NEW p \in Paths, IndexFile(p)
       PROVE  RequestKept' /\ NoLostWake' /\ RequestAhead'
  <2>1. /\ pc \in Visiting /\ pc \in Running /\ pc' \in Visiting \ {"clear"}
        /\ UNCHANGED <<listed, reindex_requested, wake, nudges, owed, deferred, seen>>
    BY <1>17 DEF IndexFile, Step, Visiting, Running, columns, signals
  <2>2. /\ st'.repo = st.repo /\ st'.gen = st.gen /\ st'.full = st.full /\ st'.clean = st.clean
    BY <1>17, <1>a DEF IndexFile, Visits
  <2> QED
    BY <2>1, <2>2, Carries
<1> QED
  BY <1>1, <1>2, <1>3, <1>4, <1>5, <1>6, <1>7, <1>8, <1>9, <1>10, <1>11, <1>12, <1>13, <1>14, <1>15,
     <1>16, <1>17 DEF Next, Boot, PollerStep, Failure, Requests

-----------------------------------------------------------------------------
(* Before the first boot there is nothing to be wrong about.               *)
LEMMA PollerInit ==
  ASSUME Init
  PROVE  PollerInv
<1>0. PICK t \in Trees :
        heads = [u \in Urls |-> [b \in Branches |->
                   IF b = Default[u] THEN [url |-> u, trees |-> <<t>>, time |-> 0] ELSE None]]
  BY DEF Init
<1>1. TypeOK
  <2>1. \A u \in Urls : [url |-> u, trees |-> <<t>>, time |-> 0] \in Commit
    <3>1. t \in Tree0
      BY TreesAssumption
    <3> QED
      BY <3>1 DEF Commit
  <2>2. heads \in [Urls -> [Branches -> Commit \cup {None}]]
    BY <1>0, <2>1
  <2>3. EmptyRows \in [Paths -> Row \cup {None}] /\ NoSource \in Tree0
    BY DEF EmptyRows, NoSource, Tree0
  <2>4. Idle \in Visits
    BY IdleTyped
  <2> QED
    BY <2>2, <2>3, <2>4 DEF Init, TypeOK, Phases
<1>2. /\ \A r \in Repos, p \in Paths : rows[r][p] = None
      /\ \A r \in Repos : /\ lane[r] = None /\ last_sha[r] = None /\ checkout[r] = None
                          /\ branch[r] = None /\ seen[r] = -1 /\ owed[r] = FALSE
      /\ pc = "down" /\ st = Idle
  BY DEF Init, EmptyRows
<1>3. Attributed /\ OneRemote /\ IndexAgrees /\ RequestKept /\ NoLostWake
  BY <1>2 DEF Attributed, OneRemote, IndexAgrees, RequestKept, NoLostWake
<1>4. VisitShaped /\ SeenShaped /\ BranchesOwn /\ HeadKnown /\ RunCovers /\ RequestAhead
  BY <1>2 DEF VisitShaped, SeenShaped, BranchesOwn, HeadKnown, RunCovers, RequestAhead, Running, Visiting
<1>5. RemotesOwn
  BY <1>0, <1>2 DEF RemotesOwn
<1> QED
  BY <1>1, <1>3, <1>4, <1>5 DEF PollerInv

(* Every step keeps the invariant.                                         *)
LEMMA PollerInvStep ==
  ASSUME PollerInv, [Next]_vars
  PROVE  PollerInv'
<1>1. TypeOK'
  BY TypeStep DEF PollerInv
<1>2. VisitShaped' /\ SeenShaped'
  BY <1>1, VisitStep
<1>3. RemotesOwn' /\ BranchesOwn'
  BY <1>1, RemotesStep, BranchesStep
<1>4. HeadKnown' /\ RunCovers'
  BY <1>1, HeadStep, RunStep
<1>5. OneRemote' /\ Attributed' /\ IndexAgrees'
  BY <1>1, SourceStep, AgreeStep
<1>6. RequestKept' /\ NoLostWake' /\ RequestAhead'
  BY <1>1, RequestStep
<1> QED
  BY <1>1, <1>2, <1>3, <1>4, <1>5, <1>6 DEF PollerInv

(* The inductive invariant holds of every behaviour.                       *)
THEOREM PollerHolds == Spec => []PollerInv
<1>1. Init => PollerInv
  BY PollerInit
<1>2. PollerInv /\ [Next]_vars => PollerInv'
  BY PollerInvStep
<1> QED
  BY <1>1, <1>2, PTL DEF Spec

(* One name never answers with another remote's code: whatever repos.yaml  *)
(* the boots find, whichever directories are lost or left behind and       *)
(* wherever a visit or the process stops, rows, commit lane and last_sha   *)
(* are of the clone_url the entry has.                                     *)
THEOREM RemoteIsOne == Spec => []OneRemote
<1>1. PollerInv => OneRemote
  BY DEF PollerInv
<1> QED
  BY <1>1, PollerHolds, PTL

(* The index is what it says it is: every row has the content of its own   *)
(* commit, and where no unfinished run wrote ahead the rows and the lane   *)
(* are those of last_sha, whatever is pushed, reverted or force-pushed     *)
(* while runs are cut short.                                               *)
THEOREM IndexIsSound == Spec => []RowsSound
<1>1. PollerInv => RowsSound
  BY DEF PollerInv, RowsSound
<1> QED
  BY <1>1, PollerHolds, PTL

(* A re-index request stays on its row until a full run begun after it has *)
(* landed, and until then the poller has a reason to come for it without   *)
(* waiting for its timer.                                                  *)
THEOREM RequestIsServed == Spec => []NoLostRequest
<1>1. PollerInv => NoLostRequest
  BY DEF PollerInv, NoLostRequest
<1> QED
  BY <1>1, PollerHolds, PTL

=============================================================================
