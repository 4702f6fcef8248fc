----------------------------- MODULE Compaction -----------------------------
(***************************************************************************)
(* The rebuild of the vector table at boot (indexer/compact.go).  vec0     *)
(* keeps vectors in storage chunks: an insert takes the next slot of the   *)
(* newest one, a delete leaves its slot behind, and a search reads every   *)
(* chunk whole, so re-indexing alone makes searches slower.  A boot copies *)
(* the table out and back in batches inside one transaction, which may     *)
(* fail or die with the process at every statement.                        *)
(***************************************************************************)
EXTENDS Integers, Sequences, FiniteSets, FiniteSetsExt

CONSTANTS
  VecValues,      \* what a row holds
  SlotsPerChunk,
  CompactBatch, \* compactBatch, rows one copy statement moves
  MaxRowid,     \* bound: rowids ever handed out, never one twice
  MaxBoots      \* bound: boots after the first

\* A storage chunk holds a row at least, and a statement copies one.
ASSUME CompactSizes == {SlotsPerChunk, CompactBatch} \subseteq Nat \ {0} /\ MaxRowid \in Nat

VARIABLES
  vec,          \* the committed table: [rows : rowid -> vector, at : chunks, fill]
  copy,         \* the open transaction: the table it sees, keep, after; <<>> for none
  truth,        \* what the writer wrote: rowid -> vector
  rowid,        \* the highest rowid handed out
  boots,
  compacting    \* "idle", the statement due, "vacuum", "healthy", "failed" or "serve"

compactVars == <<vec, copy, truth, rowid, boots, compacting>>

-----------------------------------------------------------------------------
EmptyTable == [rows |-> <<>>, at |-> <<>>, fill |-> 0]
Plus(f, k, v) == [x \in DOMAIN f \cup {k} |-> IF x = k THEN v ELSE f[x]]
Only(f, S) == [x \in DOMAIN f \cap S |-> f[x]]

\* vec0's insert: the next slot of the newest chunk, or the first of a new one.
\* at[i] is the set of live rows of chunk i, fill the slots used in the last.
Inserted(t, id, v) ==
  IF t.at = <<>> \/ t.fill = SlotsPerChunk
  THEN [rows |-> Plus(t.rows, id, v), at |-> Append(t.at, {id}), fill |-> 1]
  ELSE [rows |-> Plus(t.rows, id, v), at |-> [t.at EXCEPT ![Len(t.at)] = @ \cup {id}],
        fill |-> t.fill + 1]

\* vec0's delete: a validity bit, and the chunk stays.
Deleted(t, id) ==
  [t EXCEPT !.rows = Only(t.rows, DOMAIN t.rows \ {id}),
            !.at = [i \in DOMAIN t.at |-> t.at[i] \ {id}]]

\* measureVectors: the chunks the rows need, one at least in a table that has any.
Needed(t) ==
  LET due == (Cardinality(DOMAIN t.rows) + SlotsPerChunk - 1) \div SlotsPerChunk
  IN  IF t.at = <<>> THEN 0 ELSE IF due > 1 THEN due ELSE 1

Bloated(t) == Len(t.at) > 2 * Needed(t)

\* copyBatches: the lowest CompactBatch ids above the last one copied.
Batch(ids, after) ==
  {x \in ids : x > after /\ Cardinality({y \in ids : after < y /\ y < x}) < CompactBatch}

\* The batch inserted in rowid order, one row after the other.
InsertAll(t, ids, from) ==
  LET made[k \in 0 .. Cardinality(ids)] ==
        IF k = 0 THEN [table |-> t, left |-> ids]
        ELSE LET before == made[k - 1]
                 id == Min(before.left)
             IN  [table |-> Inserted(before.table, id, from[id]), left |-> before.left \ {id}]
  IN  made[Cardinality(ids)].table

-----------------------------------------------------------------------------
CompactIdle ==
  /\ vec = EmptyTable /\ copy = <<>> /\ truth = <<>> /\ rowid = 0 /\ boots = 0
  /\ compacting = "idle"

CompactInit ==
  /\ vec = EmptyTable /\ copy = <<>> /\ truth = <<>> /\ rowid = 0 /\ boots = 0
  /\ compacting = "serve"

\* Writer.ReplaceFile and DeleteFile, one row at a time.
WriteVector ==
  /\ compacting = "serve" /\ rowid < MaxRowid
  /\ rowid' = rowid + 1
  /\ \E v \in VecValues : vec' = Inserted(vec, rowid', v) /\ truth' = Plus(truth, rowid', v)
  /\ UNCHANGED <<copy, boots, compacting>>

DeleteVector ==
  /\ compacting = "serve"
  /\ \E id \in DOMAIN vec.rows :
       vec' = Deleted(vec, id) /\ truth' = Only(truth, DOMAIN truth \ {id})
  /\ UNCHANGED <<copy, rowid, boots, compacting>>

\* The process ends or dies, a transaction of the rebuild with it.
Reboot ==
  /\ compacting # "idle" /\ boots < MaxBoots
  /\ boots' = boots + 1
  /\ copy' = <<>> /\ compacting' = "measure"
  /\ UNCHANGED <<vec, truth, rowid>>

\* measureVectors, and the rebuild only where twice the need is passed.
Measure ==
  /\ compacting = "measure"
  /\ IF Bloated(vec)
     THEN /\ copy' = [table |-> vec, keep |-> <<>>, after |-> 0, rows |-> Cardinality(DOMAIN vec.rows)]
          /\ compacting' = "out"
     ELSE copy' = copy /\ compacting' = "healthy"
  /\ UNCHANGED <<vec, truth, rowid, boots>>

\* One batch out; the first that copies none drops the table and makes it new.
CopyOut ==
  /\ compacting = "out"
  /\ LET ids == Batch(DOMAIN copy.table.rows, copy.after)
     IN  IF ids = {}
         THEN /\ copy' = [copy EXCEPT !.table = EmptyTable, !.after = 0]
              /\ compacting' = "back"
         ELSE /\ copy' = [copy EXCEPT !.after = Max(ids),
                            !.keep = [x \in DOMAIN @ \cup ids |->
                                        IF x \in ids THEN copy.table.rows[x] ELSE @[x]]]
              /\ UNCHANGED compacting
  /\ UNCHANGED <<vec, truth, rowid, boots>>

\* One batch back under its own rowids; then the count decides.
CopyBack ==
  /\ compacting = "back"
  /\ LET ids == Batch(DOMAIN copy.keep, copy.after)
     IN  IF ids = {}
         THEN compacting' = "count" /\ copy' = copy
         ELSE /\ copy' = [copy EXCEPT !.table = InsertAll(@, ids, copy.keep), !.after = Max(ids)]
              /\ UNCHANGED compacting
  /\ UNCHANGED <<vec, truth, rowid, boots>>

\* As many rows as before, and the transaction commits; otherwise it fails.
CountAndCommit ==
  /\ compacting = "count"
  /\ IF Cardinality(DOMAIN copy.table.rows) = copy.rows
     THEN vec' = copy.table /\ compacting' = "vacuum"
     ELSE vec' = vec /\ compacting' = "failed"
  /\ copy' = <<>>
  /\ UNCHANGED <<truth, rowid, boots>>

\* Mutant: the statements are transactions of their own.
CompactFailsHalfway ==
  /\ compacting \in {"measure", "out", "back", "count"}
  /\ vec' = IF copy = <<>> THEN vec ELSE copy.table
  /\ copy' = <<>> /\ compacting' = "failed"
  /\ UNCHANGED <<truth, rowid, boots>>

\* Any statement may fail: rolled back, logged, and never the boot's failure.
CompactFails ==
  /\ compacting \in {"measure", "out", "back", "count"}
  /\ copy' = <<>> /\ compacting' = "failed"
  /\ UNCHANGED <<vec, truth, rowid, boots>>

\* VacuumAndLog rewrites the file after a rebuild and no row; the boot goes on.
BootGoesOn ==
  /\ compacting \in {"vacuum", "healthy", "failed"}
  /\ compacting' = "serve"
  /\ UNCHANGED <<vec, copy, truth, rowid, boots>>

CompactNext ==
  \/ WriteVector \/ DeleteVector \/ Reboot \/ Measure \/ CopyOut \/ CopyBack
  \/ CountAndCommit \/ CompactFails \/ BootGoesOn

\* The vector table's life, boot after boot.
CompactSpec == CompactInit /\ [][CompactNext]_compactVars

-----------------------------------------------------------------------------
\* The rebuild pays and costs nothing: whatever statement of it failed or died,
\* the table a search reads holds every row the writer left, under its rowid
\* and with its own vector, each in one chunk; and a boot that rebuilt it, or
\* found it healthy, leaves at most twice the chunks the rows need.
RebuildKeeps ==
  /\ vec.rows = truth
  /\ \A id \in DOMAIN vec.rows : Cardinality({i \in DOMAIN vec.at : id \in vec.at[i]}) = 1
  /\ compacting = "vacuum" => Len(vec.at) <= Needed(vec)
  /\ compacting = "healthy" => Len(vec.at) <= 2 * Needed(vec)
=============================================================================
