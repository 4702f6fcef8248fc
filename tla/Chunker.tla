------------------------------ MODULE Chunker ------------------------------
(***************************************************************************)
(* How a file becomes passages (indexer/chunk.go).  A file is a sequence   *)
(* of lines, each of a kind and a length in runes; ctags hands a sequence  *)
(* of symbols.  The file is partitioned into regions at the symbols a      *)
(* passage may start on, and each region is cut into overlapping windows   *)
(* bounded in tokens.  One step computes the regions, each later one skips *)
(* the topmost region left or emits a window of it.  Regions are disjoint  *)
(* and windows move down, so sets of them lose no order: it is in their    *)
(* lines.                                                                  *)
(*                                                                         *)
(* Kinds of line: "code"; "comment", a comment to docStart and to          *)
(* stripComments alike; "star", which opens like a comment and is code     *)
(* ("*p = v", "--n;", "#include"); "blank".                                *)
(***************************************************************************)
EXTENDS Integers, Sequences, FiniteSets, SequencesExt

CONSTANTS
  ChunkCases   \* the files to cut: [lines, syms, opts] records

VARIABLES
  given,       \* the file being cut
  regions,     \* the regions still to window
  from,        \* the line the next window of the topmost region starts on
  passages,    \* the passages emitted so far
  cutting      \* "idle", "given", "windows" or "done"

\* A line with something on it has a rune, and a number is a number.
ASSUME ChunkTables ==
  \A c \in ChunkCases :
    /\ c.lines \in Seq([kind : {"code", "comment", "star", "blank"}, runes : Nat])
    /\ \A i \in 1 .. Len(c.lines) : c.lines[i].kind # "blank" => c.lines[i].runes > 0
    /\ c.syms \in Seq(Range(c.syms)) /\ \A s \in Range(c.syms) : s.line \in Int
    /\ {c.opts.target, c.opts.max, c.opts.overlap} \subseteq Int

chunkVars == <<given, regions, from, passages, cutting>>

-----------------------------------------------------------------------------
(* Sizes.                                                                  *)

\* estimateTokens: about four runes to a token, rounded up.
Tokens(runes) == (runes + 3) \div 4

\* What one line costs a window: its tokens and the newline's.
LineCost(line) == Tokens(line.runes) + 1

\* ChunkFile's normalisation of its options, and the sizes it falls back to.
DefaultChunkOptions == [target |-> 600, max |-> 800, overlap |-> 75]
Effective(opts) ==
  LET o == IF opts.target <= 0 THEN DefaultChunkOptions
           ELSE [target |-> opts.target, max |-> opts.max, overlap |-> opts.overlap]
  IN  [target  |-> o.target,
       max     |-> IF o.max < o.target THEN o.target ELSE o.max,
       overlap |-> IF o.overlap \in 0 .. o.target - 1 THEN o.overlap ELSE o.target \div 8]

-----------------------------------------------------------------------------
(* Regions.                                                                *)

\* The structural symbols, as places in what ctags handed over.
Structural(syms, count) == {i \in DOMAIN syms : syms[i].line \in 1 .. count /\ syms[i].kind # "field"}

\* contains: one encloses another structural symbol, by its range where ctags
\* gave an end line (0 is none), by the end of the scope only where it did
\* not; a name and a scope are the parts dots join.
Encloses(syms, i, all) ==
  \E j \in all :
    /\ ~(syms[j].line = syms[i].line /\ syms[j].name = syms[i].name)
    /\ IF syms[i].end > 0 THEN syms[j].line \in syms[i].line + 1 .. syms[i].end
                          ELSE syms[j].scope # <<>> /\ IsSuffix(syms[i].name, syms[j].scope)

\* anchorSymbols: the innermost structural symbols, or none at all when they
\* do not arrive in file order.
Anchors(syms, count) ==
  LET all   == Structural(syms, count)
      inner == {i \in all : ~Encloses(syms, i, all)}
  IN  IF \A i, j \in inner : i < j => syms[i].line < syms[j].line
      THEN {syms[i] : i \in inner} ELSE {}

LooksComment(line) == line.kind \in {"comment", "star"}

\* docStart: up over the contiguous comment block above a symbol, to floor.
DocStart(lines, line, floor) ==
  CHOOSE l \in floor .. line :
    /\ \A m \in l .. line - 1 : LooksComment(lines[m])
    /\ l = floor \/ ~LooksComment(lines[l - 1])

NoSymbol == [name |-> <<>>, line |-> 0, end |-> 0, scope |-> <<>>, kind |-> ""]

\* An anchor's first line: its doc comment's, below the anchor before it.
AnchorStart(lines, anchors, a) ==
  LET above == {b.line : b \in {b \in anchors : b.line < a.line}}
  IN  DocStart(lines, a.line, IF above = {} THEN 1 ELSE Max(above) + 1)

\* Its last: the one before the next anchor's first, or the file's.
AnchorEnd(lines, anchors, a) ==
  LET below == {AnchorStart(lines, anchors, b) : b \in {b \in anchors : b.line > a.line}}
  IN  IF below = {} THEN Len(lines) ELSE Min(below) - 1

\* symbolRegions: one region per anchor and one before the first, where there
\* is a line for it; the whole file without an anchor.
SymbolRegions(lines, syms) ==
  LET anchors == Anchors(syms, Len(lines))
      owned   == {[start |-> AnchorStart(lines, anchors, a), end |-> AnchorEnd(lines, anchors, a),
                   sym |-> a] : a \in anchors}
      head    == [start |-> 1, end |-> Min({r.start : r \in owned}) - 1, sym |-> NoSymbol]
  IN  IF anchors = {} THEN {[start |-> 1, end |-> Len(lines), sym |-> NoSymbol]}
      ELSE {r \in {head} \cup owned : r.start <= r.end}

\* The one windowed next.
Topmost(rs) == CHOOSE r \in rs : \A q \in rs : r.start <= q.start

-----------------------------------------------------------------------------
(* Windows.                                                                *)

\* What lines a to b cost together.
Cost(lines, a, b) == MapThenSumSet(LAMBDA i : LineCost(lines[i]), a .. b)

\* windows: as many lines as the target pays for, and one at least.
WindowEnd(lines, start, to, target) ==
  CHOOSE e \in start .. to :
    /\ e = start \/ Cost(lines, start, e) <= target
    /\ e = to \/ Cost(lines, start, e + 1) > target

\* The step back over about overlap tokens, and one line of progress.
NextStart(lines, start, end, overlap) ==
  LET back == CHOOSE b \in start .. end :
                /\ b = start \/ Cost(lines, b + 1, end) >= overlap
                /\ \A c \in b + 1 .. end : Cost(lines, c + 1, end) < overlap
  IN  IF back + 1 <= start THEN start + 1 ELSE back + 1

\* The runes of a window: its lines joined by newlines.
Runes(lines, a, b) == MapThenSumSet(LAMBDA i : lines[i].runes, a .. b) + (b - a)

\* Mutant: the runes left over after the last full piece go with it.
PiecesFull(lines, a, b, max) ==
  IF Tokens(Runes(lines, a, b)) <= max THEN 1 ELSE Runes(lines, a, b) \div (4 * max)

\* splitOverlongLine: how many pieces a window is sent in.
Pieces(lines, a, b, max) ==
  IF Tokens(Runes(lines, a, b)) <= max THEN 1
  ELSE (Runes(lines, a, b) + 4 * max - 1) \div (4 * max)

\* stripComments over one piece: the lines the search lanes see.  Only a
\* line's first piece still opens with its comment sign.
Searched(lines, a, b, piece, strip) ==
  {l \in a .. b : /\ lines[l].kind # "blank"
                  /\ ~(strip /\ piece = 1 /\ lines[l].kind = "comment")}

\* The passages one window gives: none when it is blank, none for a piece that
\* stripping leaves blank.
WindowChunks(lines, a, b, sym, opts, strip) ==
  LET n    == Pieces(lines, a, b, opts.max)
      part(p) == [start |-> a, end |-> b, symbol |-> sym.name, piece |-> p, pieces |-> n,
                  runes |-> IF n = 1 THEN Runes(lines, a, b)
                            ELSE IF p < n THEN 4 * opts.max
                            ELSE Runes(lines, a, b) - 4 * opts.max * (n - 1),
                  searched |-> Searched(lines, a, b, p, strip)]
  IN  IF \A l \in a .. b : lines[l].kind = "blank" THEN {}
      ELSE {c \in {part(p) : p \in 1 .. n} : c.searched # {}}

-----------------------------------------------------------------------------
(* Steps.                                                                  *)

NoFile == [lines |-> <<>>, syms |-> <<>>, opts |-> DefaultChunkOptions, strip |-> FALSE]

ChunkIdle == given = NoFile /\ regions = {} /\ from = 0 /\ passages = {} /\ cutting = "idle"

ChunkInit ==
  /\ given \in ChunkCases
  /\ regions = {} /\ from = 0 /\ passages = {}
  /\ cutting = "given"

\* ChunkFile up to its loop: a blank file has no passage.
ChunkFile ==
  /\ cutting = "given"
  /\ IF \A i \in 1 .. Len(given.lines) : given.lines[i].kind = "blank"
     THEN /\ cutting' = "done"
          /\ UNCHANGED <<regions, from>>
     ELSE /\ cutting' = "windows"
          /\ regions' = SymbolRegions(given.lines, given.syms)
          /\ from' = Topmost(regions').start
  /\ UNCHANGED <<given, passages>>

\* The region below the topmost, or the end of the file.
NextRegion ==
  /\ regions' = regions \ {Topmost(regions)}
  /\ IF regions' = {} THEN cutting' = "done" /\ from' = 0
                        ELSE cutting' = cutting /\ from' = Topmost(regions').start

\* A BPMN model's diagram block is left out of the index.
SkipDiagram ==
  /\ cutting = "windows" /\ Topmost(regions).sym.kind = "diagram"
  /\ NextRegion
  /\ UNCHANGED <<given, passages>>

EmitWindow ==
  /\ cutting = "windows" /\ Topmost(regions).sym.kind # "diagram"
  /\ LET r    == Topmost(regions)
         opts == Effective(given.opts)
         end  == WindowEnd(given.lines, from, r.end, opts.target)
     IN  /\ passages' = passages \cup WindowChunks(given.lines, from, end, r.sym, opts, given.strip)
         /\ IF end >= r.end THEN NextRegion
            ELSE /\ from' = NextStart(given.lines, from, end, opts.overlap)
                 /\ UNCHANGED <<regions, cutting>>
  /\ UNCHANGED given

ChunkNext == ChunkFile \/ SkipDiagram \/ EmitWindow

\* One file at a time.
ChunkSpec == ChunkInit /\ [][ChunkNext]_chunkVars

-----------------------------------------------------------------------------
(* Properties.                                                             *)

\* The lines a region of its own keeps out of the index: a diagram's, from its
\* doc comment to the next anchor.
Undrawn ==
  UNION {r.start .. r.end : r \in {r \in SymbolRegions(given.lines, given.syms) :
                                     r.sym.kind = "diagram"}}

\* Every line of code outside a diagram block can be found: some passage's
\* search text holds it, in all the pieces it was cut into, whatever the
\* symbols, the overlap and the comment setting; a comment line too unless
\* stripping was asked for.  A gap would drop code out of an index that still
\* counts the file as indexed.
LinesKept ==
  cutting = "done" =>
    \A l \in (1 .. Len(given.lines)) \ Undrawn :
      \/ given.lines[l].kind = "blank"
      \/ given.strip /\ given.lines[l].kind = "comment"
      \/ \E c \in passages :
           \A p \in 1 .. c.pieces :
             \E d \in passages : /\ d.start = c.start /\ d.end = c.end /\ d.piece = p
                                      /\ l \in d.searched

\* No passage is larger than the embedding endpoint takes, one endless line
\* included, and none is empty: one refused request would lose the whole file.
PiecesBounded ==
  \A c \in passages : c.runes >= 1 /\ Tokens(c.runes) <= Effective(given.opts).max

\* A symbol's doc comment is found under the symbol: the comment lines right
\* above an anchor are in passages that carry its name and no other's.
DocTravels ==
  cutting = "done" =>
    LET anchors == Anchors(given.syms, Len(given.lines))
    IN  \A a \in anchors : \A l \in 1 .. a.line - 1 :
          (/\ \A m \in l .. a.line - 1 : given.lines[m].kind = "comment"
           /\ \A b \in anchors : b.line < a.line => b.line < l)
            => \A c \in passages : l \in c.start .. c.end => c.symbol = a.name

\* A file is in the index as it is: LinesKept, PiecesBounded and DocTravels.
PassagesWhole == LinesKept /\ PiecesBounded /\ DocTravels
=============================================================================
