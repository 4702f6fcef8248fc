------------------------------ MODULE Renumber ------------------------------
(***************************************************************************)
(* The answer as it streams (ask/renumber.go, Answerer.stream, swiss.go):  *)
(* tokens of any length pass the renumberer, which emits what it can       *)
(* decide, holds back the rest, gives the citation markers of the prompt   *)
(* the reader's numbers, and respells German prose; the end of the stream  *)
(* decides what is still held.                                             *)
(*                                                                         *)
(* A text is a sequence of symbols: "t" a backtick, "n" a newline, "_" a   *)
(* blank, the brackets, the comma, digits, and letters, of which "u" and   *)
(* "e" together may stand for an umlaut, written "U".                      *)
(***************************************************************************)
EXTENDS Ranking, SequencesExt

CONSTANTS
  Answers,      \* what the model writes: sequences of symbols
  MaxToken      \* the longest token, in symbols

VARIABLES
  written,      \* what the model writes, [text, sources, german]
  fed,          \* how much of it has arrived
  undecided,      \* what cannot be decided yet
  open,         \* inside a fence
  order,        \* the reader's number -> the prompt's
  emitted,      \* what the reader has got
  streaming     \* "idle", "open", "stored" or "failed"

streamVars == <<written, fed, undecided, open, order, emitted, streaming>>

-----------------------------------------------------------------------------
(* Alphabet.                                                                *)

DigitOf == <<"0", "1", "2", "3", "4", "5", "6", "7", "8", "9">>
Digits == {DigitOf[v + 1] : v \in 0 .. 9}
Value(c) == CHOOSE v \in 0 .. 9 : DigitOf[v + 1] = c
Spaces == {"_", "n"}
Letters == {"u", "e", "x", "U"}
Alphabet == Digits \cup Spaces \cup Letters \cup {"t", "[", "]", ","}
Fence == <<"t", "t", "t">>

ASSUME AnswersAssumption ==
  Answers \subseteq [text : Seq(Alphabet), sources : Nat, german : BOOLEAN] /\ MaxToken \in Nat

From(s, i) == SubSeq(s, i, Len(s))

\* The first place where one of these stands, 0 for none.
FirstOf(s, symbols) ==
  LET at == {j \in DOMAIN s : s[j] \in symbols} IN IF at = {} THEN 0 ELSE Min(at)
FirstFence(s) ==
  LET at == {j \in 1 .. Len(s) - 2 : SubSeq(s, j, j + 2) = Fence} IN IF at = {} THEN 0 ELSE Min(at)

-----------------------------------------------------------------------------
(* Markers.                                                                *)

Inside == Digits \cup Spaces \cup {","}

\* A marker group: numbers of up to three digits, one comma between two of them,
\* blanks around the comma only.
IsGroup(g) ==
  LET places == {p \in DOMAIN g : g[p] \in Digits}
      next(p, q) == p < q /\ \A r \in places : ~(p < r /\ r < q)
  IN  /\ Len(g) > 2 /\ g[1] = "[" /\ g[Len(g)] = "]"
      /\ \A p \in 2 .. Len(g) - 1 : g[p] \in Inside
      /\ {2, Len(g) - 1} \subseteq places
      /\ \A p, q \in places : (next(p, q) /\ q > p + 1) =>
           Cardinality({r \in p .. q : g[r] = ","}) = 1
      /\ \A p \in places : ~(p .. p + 3 \subseteq places)

\* Blanks up to an opening bracket, never a newline.
Joins(s, i) == \E k \in i .. Len(s) : s[k] = "[" /\ \A j \in i .. k - 1 : s[j] = "_"

\* A run of groups standing together: each bracket opens one, each but the last
\* joins the next.
IsChain(c) ==
  /\ c # <<>> /\ c[1] = "[" /\ c[Len(c)] = "]"
  /\ \A p \in DOMAIN c : c[p] = "[" => \E q \in p .. Len(c) : IsGroup(SubSeq(c, p, q))
  /\ \A p \in 1 .. Len(c) - 1 : c[p] = "]" => Joins(c, p + 1)

\* chainAtStart: the end of the longest chain the text starts with, 0 for none.
ChainEnd(s) == Max({0} \cup {e \in DOMAIN s : IsChain(SubSeq(s, 1, e))})

HalfMarker(s) == s[1] = "[" /\ \A j \in 2 .. Len(s) : s[j] \in Inside

\* Mutant: only the end of what has arrived may grow.
MayGrowAtEnd(s) == s = <<>>

\* chainMoreRe: what follows may still grow into another group.
MayGrow(s) ==
  \E k \in 1 .. Len(s) + 1 : /\ \A j \in 1 .. k - 1 : s[j] = "_"
                             /\ k = Len(s) + 1 \/ HalfMarker(From(s, k))

\* The runs of digits of a chain: where they start, and the numbers they are.
RunStarts(c) == {p \in DOMAIN c : c[p] \in Digits /\ (p = 1 \/ c[p - 1] \notin Digits)}
RunAt(c, p) == SubSeq(c, p, Max({q \in p .. Len(c) : \A r \in p .. q : c[r] \in Digits}))
NumberAt(c, p) ==
  LET run == RunAt(c, p)
      upTo[n \in 0 .. Len(run)] == IF n = 0 THEN 0 ELSE 10 * upTo[n - 1] + Value(run[n])
  IN  upTo[Len(run)]
Ascending(S) == InOrder([x \in S |-> {y \in S : y < x}])
Numbers(c) ==
  LET starts == Ascending(RunStarts(c)) IN [n \in DOMAIN starts |-> NumberAt(c, starts[n])]

\* Mutant: a number met before is minted again by the chain that repeats it.
MintAgain(known, nums, n) == known \o Picked(nums, {i \in DOMAIN nums : nums[i] \in 1 .. n})

\* denseOf, minted on first use of a number that is one of n sources.
Mint(known, nums, n) ==
  known \o Picked(nums, {i \in DOMAIN nums : /\ nums[i] \in 1 .. n /\ ~Contains(known, nums[i])
                                             /\ \A j \in 1 .. i - 1 : nums[j] # nums[i]})
Dense(known, v) == CHOOSE d \in DOMAIN known : known[d] = v

\* strconv.Itoa, of the at most 999 numbers three digits can cite.
Numeral(d) ==
  LET digit(n) == <<DigitOf[(n % 10) + 1]>>
  IN  (IF d > 99 THEN digit(d \div 100) ELSE <<>>) \o (IF d > 9 THEN digit(d \div 10) ELSE <<>>) \o digit(d)

\* rewrite, group by group where it stands: a number no source has is left.
InPlace(c, n, known) ==
  FlattenSeq([p \in DOMAIN c |->
    IF c[p] \notin Digits THEN <<c[p]>>
    ELSE IF p \notin RunStarts(c) THEN <<>>
    ELSE IF NumberAt(c, p) \in 1 .. n THEN Numeral(Dense(known, NumberAt(c, p)))
    ELSE RunAt(c, p)])

\* rewriteChain: sorted, one number a bracket, none twice.
RewriteChain(chain, n, known) ==
  LET nums  == Numbers(chain)
      k     == Mint(known, nums, n)
      dense == Ascending({Dense(k, v) : v \in Range(nums)})
  IN  [order |-> k,
       out |-> IF Range(nums) \subseteq 1 .. n
               THEN FlattenSeq([i \in DOMAIN dense |-> <<"[">> \o Numeral(dense[i]) \o <<"]">>])
               ELSE InPlace(chain, n, k)]

-----------------------------------------------------------------------------
(* German.                                                                 *)

\* swissWord: "ue" is an umlaut unless it closes the word or follows a vowel; the
\* e of an umlaut is none.
IsUe(s, i) == i + 1 \in DOMAIN s /\ s[i] = "u" /\ s[i + 1] = "e"
Umlaut(s, i) ==
  /\ IsUe(s, i) /\ i + 2 \in DOMAIN s /\ s[i + 2] \in Letters
  /\ \E b \in 1 .. i :
       /\ (i - b) % 2 = 0 /\ \A c \in b .. i : (c - b) % 2 = 0 => IsUe(s, c)
       /\ b = 1 \/ s[b - 1] # "e"

\* speller.run: the unit at i, between two blanks, is an identifier.
Identifier(s, i) ==
  \E j \in DOMAIN s : s[j] \in Digits /\ \A k \in i .. j \cup j .. i : s[k] \notin Spaces

\* speller.prose.
Respelt(s, i) == i \in DOMAIN s /\ Umlaut(s, i) /\ ~Identifier(s, i)
Spell(s) ==
  FlattenSeq([i \in DOMAIN s |-> IF Respelt(s, i) THEN <<"U">>
                                 ELSE IF Respelt(s, i - 1) THEN <<>> ELSE <<s[i]>>])

Prose(s, german) == IF german THEN Spell(s) ELSE s

\* trailingWord: how much there is before the word the text ends in.
BeforeLastWord(s) == Max({0} \cup {k \in DOMAIN s : s[k] \in Spaces})

\* trailingBackticks, up to two.
Ticks(s) == Max({k \in 0 .. 2 : k <= Len(s) /\ \A m \in Len(s) - k + 1 .. Len(s) : s[m] = "t"})

-----------------------------------------------------------------------------
(* decide.  Its loop carries the rest of the text, what has come out, if a  *)
(* fence is open, the order so far, and if the rest waits for more text.   *)

Begin(s, in, known) == [rest |-> s, out |-> <<>>, open |-> in, order |-> known, held |-> FALSE]

\* The first n symbols come out as said, as they came, or as prose.
Tell(g, n, said) == [g EXCEPT !.out = @ \o said, !.rest = From(@, n + 1)]
Said(g, n) == Tell(g, n, SubSeq(g.rest, 1, n))
Told(g, n, german) == Tell(g, n, Prose(SubSeq(g.rest, 1, n), german))
Hold(g) == [g EXCEPT !.held = g.rest # <<>>]

InFence(g, atEnd) ==
  LET s     == g.rest
      close == FirstFence(s)
  IN  IF close > 0 THEN [Said(g, close + 2) EXCEPT !.open = FALSE]
      ELSE Hold(Said(g, IF atEnd THEN Len(s) ELSE Len(s) - Ticks(s)))

\* At a backtick: a fence if three stand there and its header line is whole, the
\* span to the next on the line, or text.
AtTick(g, atEnd) ==
  LET s    == g.rest
      nl   == FirstOf(s, {"n"})
      line == IF nl = 0 THEN s ELSE SubSeq(s, 1, nl - 1)
      head == IF nl = 0 THEN Len(s) ELSE nl
      span == FirstOf(From(s, 2), {"t", "n"}) + 1
  IN  IF ~atEnd /\ s \in {<<"t">>, <<"t", "t">>} THEN Hold(g)
      ELSE IF IsPrefix(Fence, s) THEN
        IF FirstFence(From(line, 4)) > 0 THEN [Said(g, 3) EXCEPT !.open = TRUE]
        ELSE IF nl = 0 /\ ~atEnd THEN Hold(g) ELSE [Said(g, head) EXCEPT !.open = TRUE]
      ELSE IF span > 1 /\ s[span] = "t" THEN Said(g, span)
      ELSE IF span > 1 \/ atEnd THEN Said(g, 1) ELSE Hold(g)

AtBracket(g, w, atEnd) ==
  LET s   == g.rest
      e   == ChainEnd(s)
      new == RewriteChain(SubSeq(s, 1, e), w.sources, g.order)
  IN  IF e > 0 THEN IF ~atEnd /\ MayGrow(From(s, e + 1)) THEN Hold(g)
                    ELSE [Tell(g, e, new.out) EXCEPT !.order = new.order]
      ELSE IF ~atEnd /\ HalfMarker(s) THEN Hold(g) ELSE Tell(g, 1, <<"[">>)

\* One turn of the loop; w is the text's [sources, german].
Pass(g, w, atEnd) ==
  LET s    == g.rest
      j    == FirstOf(s, {"t", "["})
      n    == IF w.german /\ ~atEnd THEN BeforeLastWord(s) ELSE Len(s)
  IN  IF g.held \/ s = <<>> THEN g
      ELSE IF g.open THEN InFence(g, atEnd)
      ELSE IF j = 0 THEN Hold(Told(g, n, w.german))
      ELSE IF s[j] = "t" THEN AtTick(Told(g, j - 1, w.german), atEnd)
      ELSE AtBracket(Told(g, j - 1, w.german), w, atEnd)

Walk(g, w, atEnd) ==
  LET after[n \in 0 .. Len(g.rest)] == IF n = 0 THEN g ELSE Pass(after[n - 1], w, atEnd)
  IN  after[Len(g.rest)]

-----------------------------------------------------------------------------
(* Steps.                                                                  *)

StreamIdle ==
  /\ written = <<>> /\ fed = 0 /\ undecided = <<>> /\ open = FALSE /\ order = <<>>
  /\ emitted = <<>> /\ streaming = "idle"

StreamInit ==
  /\ written \in Answers
  /\ fed = 0 /\ undecided = <<>> /\ open = FALSE /\ order = <<>> /\ emitted = <<>>
  /\ streaming = "open"

Take(got) ==
  /\ emitted' = emitted \o got.out
  /\ undecided' = got.rest /\ open' = got.open /\ order' = got.order

\* feed: one token.
FeedToken ==
  /\ streaming = "open" /\ fed < Len(written.text)
  /\ \E n \in 1 .. MaxToken :
       /\ fed + n <= Len(written.text)
       /\ fed' = fed + n
       /\ Take(Walk(Begin(undecided \o SubSeq(written.text, fed + 1, fed + n), open, order), written, FALSE))
  /\ UNCHANGED <<written, streaming>>

\* flush, and stream's verdict: a stream that ended or was cut is an answer
\* unless it is blank; one that failed is none, however much was read.
EndStream ==
  /\ streaming = "open"
  /\ Take(Walk(Begin(undecided, open, order), written, TRUE))
  /\ \E outcome \in {"ended", "cut", "failed"} :
       /\ outcome = "ended" => fed = Len(written.text)
       /\ streaming' = IF outcome = "failed" \/ Range(emitted') \subseteq Spaces THEN "failed" ELSE "stored"
  /\ UNCHANGED <<written, fed>>

StreamNext == FeedToken \/ EndStream

StreamSpec == StreamInit /\ [][StreamNext]_streamVars

-----------------------------------------------------------------------------
(* Properties.                                                             *)

Arrived == SubSeq(written.text, 1, fed)
Whole(s) == Walk(Begin(s, FALSE, <<>>), written, TRUE)

\* Where the tokens were cut is nothing the reader can see: what is stored is
\* what one pass over the whole text gives, and what was shown before the end
\* was never taken back.  A boundary falls inside a marker, a word and a fence.
StreamIsWhole ==
  streaming # "idle" =>
    /\ streaming \in {"stored", "failed"} => emitted = Whole(Arrived).out /\ order = Whole(Arrived).order
    /\ IsPrefix(emitted, Whole(written.text).out)
         \/ streaming \in {"stored", "failed"}

\* A group written over a line break, in a text with backticks: closed up, it can
\* bring two of them on one line, and what stands between them is a span.
SpanCloses(s) ==
  /\ Contains(s, "t")
  /\ \E p, q \in DOMAIN s : IsGroup(SubSeq(s, p, q)) /\ Contains(SubSeq(s, p, q), "n")

\* The reader counts [1], [2], [3]: in the stored text each number is first met
\* in its turn, every citation listed stands in the prose and nothing in code
\* mints one, so renumbering the text again, for as many sources as it cites,
\* changes nothing and lists them in order.
NumbersCount ==
  streaming = "stored" =>
    LET again == Walk(Begin(emitted, FALSE, <<>>), [sources |-> Len(order), german |-> FALSE], TRUE)
    IN  /\ IsInjective(order) /\ Range(order) \subseteq 1 .. written.sources
        /\ ~SpanCloses(Arrived) =>
             again.out = emitted /\ again.order = [d \in DOMAIN order |-> d]

=============================================================================
