------------------------------ MODULE MCPoller ------------------------------
(* Instances of Poller: the trees, remotes and repos.yaml files to explore.*)
EXTENDS Poller, TLC

CONSTANTS r1, r2, u1, u2, main, master, p1, p2, b1, b2

OneRepo    == {r1}
TwoRepos   == {r1, r2}
OneUrl     == {u1}
TwoUrls    == {u1, u2}
OneBranch  == {main}
BothBranches == {main, master}
OnMain     == [u \in OneUrl |-> main]
Mixed      == [u \in TwoUrls |-> IF u = u1 THEN main ELSE master]
MCPaths    == {p1, p2}
MCBlobs    == {b1, b2}

TreeOf(x, y) == [p \in MCPaths |-> IF p = p1 THEN x ELSE y]

\* Two versions of p1; p2 kept, gone, or turned into a symlink.
SmallTrees == {TreeOf(b1, b1), TreeOf(b2, b1), TreeOf(b2, None)}
OneTree    == {TreeOf(b1, b1)}
RichTrees  == {TreeOf(b1, b1), TreeOf(b2, None), TreeOf(b1, Link)}

StageOfP2 == {p2}
NoStage   == {}

Entry1(u) == [url |-> u, branch |-> None, enabled |-> TRUE]
Named(u) == [url |-> u, branch |-> main, enabled |-> TRUE]
Parked(u) == [url |-> u, branch |-> None, enabled |-> FALSE]

Dropped == [url |-> Drop, branch |-> None, enabled |-> TRUE]

\* The archives: two versions of p1, and one that has p2 as a symlink.
MCArchives == {TreeOf(b1, b1), TreeOf(b2, Link)}
OneArchive == {TreeOf(b1, b1)}
NoArchive  == {}

SteadyList == {[r \in OneRepo |-> Entry1(u1)]}
\* The entry is a clone, or becomes a snapshot and a clone again.
CloneOrDrop == {[r \in OneRepo |-> e] : e \in {Entry1(u1), Dropped}}
\* The entry is corrected, given a branch, made a snapshot, parked or removed
\* and put back.
\* A second repository stays as it is, on the other remote.
EditedLists == {[r \in TwoRepos |-> IF r = r1 THEN s ELSE Entry1(u2)] :
                  s \in {Entry1(u1), Entry1(u2), Named(u1), Dropped, Parked(u1), None}}
=============================================================================
