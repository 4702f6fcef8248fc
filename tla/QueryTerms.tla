----------------------------- MODULE QueryTerms -----------------------------
(***************************************************************************)
(* What a question is searched by in the keyword lanes: the ladder of FTS  *)
(* expressions (retrieve/query.go) and the identifier-shaped terms of the  *)
(* substring rung (retrieve/substring.go), both derived without a model.   *)
(* A question is the sequence of its folded words; a guessed code term is  *)
(* a sequence of words and the separator "_".                              *)
(***************************************************************************)
EXTENDS Ranking, SequencesExt

CONSTANTS
  Asked,            \* the [words, codes] to search by
  Stopwords,        \* function words
  WordRunes,        \* word -> its length in runes
  MaxTerms,         \* maxTerms of one MATCH expression
  MinPrefixRunes, MinSubstringRunes,
  MaxSubstringTerms, MaxSubstringCodeTerms

Separator == "_"

ASSUME QuestionsAsked ==
  /\ \A q \in Asked : /\ q.words \in Seq(DOMAIN WordRunes)
                      /\ q.codes \in Seq(Seq(DOMAIN WordRunes \cup {Separator}))
  /\ WordRunes \in [DOMAIN WordRunes -> Nat]
  /\ {MinPrefixRunes, MinSubstringRunes} \subseteq Nat
  /\ {MaxTerms, MaxSubstringTerms, MaxSubstringCodeTerms} \subseteq Nat \ {0}
  /\ MaxSubstringCodeTerms < MaxSubstringTerms

VARIABLES question, ladder, terms, asking

queryVars == <<question, ladder, terms, asking>>

FirstTerms(s, n) == SubSeq(s, 1, IF Len(s) < n THEN Len(s) ELSE n)
Content(words) == Picked(words, {i \in DOMAIN words : words[i] \notin Stopwords})

-----------------------------------------------------------------------------
(* The ladder.                                                             *)

\* One term of an expression: a word, perhaps as a prefix.
Exact(w) == [word |-> w, prefix |-> FALSE]
Prefixed(w) == [word |-> w, prefix |-> WordRunes[w] >= MinPrefixRunes]
Expr(words, Term(_), all) == [of |-> [i \in 1 .. Len(words) |-> Term(words[i])], all |-> all]

\* BuildFTSQueries: strictest first, a rung that repeats another left out.
BuildFTSQueries(words) ==
  LET strict  == FirstTerms(words, MaxTerms)
      content == Content(strict)
      exact   == Expr(content, Exact, TRUE)
      wide    == Expr(content, Prefixed, TRUE)
      rungs   == <<[name |-> "strict", expr |-> Expr(strict, Exact, TRUE)],
                   [name |-> "content", expr |-> exact],
                   [name |-> "prefix", expr |-> wide],
                   [name |-> "any", expr |-> [wide EXCEPT !.all = FALSE]]>>
      due     == {n \in 1 .. 4 :
                    \/ n = 1
                    \/ /\ content # <<>>
                       /\ \/ n = 2 /\ content # strict
                          \/ n = 3 /\ wide \notin {exact, Expr(strict, Exact, TRUE)}
                          \/ n = 4 /\ Len(content) > 1}
  IN  IF strict = <<>> THEN <<>> ELSE Picked(rungs, due)

-----------------------------------------------------------------------------
(* The substring terms.                                                    *)

FoldTerm(term) == Picked(term, {i \in DOMAIN term : term[i] # Separator})
LongEnough(term) ==
  MapThenSumSet(LAMBDA i : IF term[i] = Separator THEN 1 ELSE WordRunes[term[i]], DOMAIN term)
    >= MinSubstringRunes

LongOnes(s) == Picked(s, {i \in DOMAIN s : LongEnough(s[i])})

\* Each element at its first place only.
Once(s) == Picked(s, {i \in DOMAIN s : \A j \in 1 .. i - 1 : s[j] # s[i]})

Pairs(words, gap, Glue(_, _)) ==
  [i \in 1 .. (IF Len(words) > gap THEN Len(words) - gap ELSE 0) |-> Glue(words[i], words[i + gap])]
Glued(a, b) == <<a, b>>
Snake(a, b) == <<a, Separator, b>>

\* Each guess is tried as it is spelled, then folded; without separators that
\* is one candidate twice, and Once drops the second.
Guesses(codes) ==
  [n \in 1 .. 2 * Len(codes) |->
     IF n % 2 = 1 THEN codes[(n + 1) \div 2] ELSE FoldTerm(codes[n \div 2])]

\* Adjacent pairs, pairs one word apart, single words, the snake spellings.
ProseTerms(words) ==
  Pairs(words, 1, Glued) \o Pairs(words, 2, Glued) \o [i \in 1 .. Len(words) |-> <<words[i]>>]
    \o Pairs(words, 1, Snake) \o Pairs(words, 2, Snake)

\* Mutant: the guesses take from the shared ceiling only.
TermsUncapped(words, codes) ==
  FirstTerms(Once(LongOnes(Guesses(codes)) \o LongOnes(ProseTerms(Content(words)))), MaxSubstringTerms)

\* BuildSubstringTerms: the guesses under a ceiling of their own, then the
\* question's own candidates up to the shared one.
BuildSubstringTerms(words, codes) ==
  LET guessed == FirstTerms(Once(LongOnes(Guesses(codes))), MaxSubstringCodeTerms)
      prose   == LongOnes(ProseTerms(Content(words)))
  IN  FirstTerms(Once(guessed \o prose), MaxSubstringTerms)

-----------------------------------------------------------------------------
(* Steps.                                                                  *)

QueryIdle == question = <<>> /\ ladder = <<>> /\ terms = <<>> /\ asking = "idle"

QueryInit == question \in Asked /\ ladder = <<>> /\ terms = <<>> /\ asking = "asked"

BuildLadder ==
  /\ asking = "asked" /\ asking' = "laddered"
  /\ ladder' = BuildFTSQueries(question.words)
  /\ UNCHANGED <<question, terms>>

BuildTerms ==
  /\ asking = "laddered" /\ asking' = "built"
  /\ terms' = BuildSubstringTerms(question.words, question.codes)
  /\ UNCHANGED <<question, ladder>>

QueryNext == BuildLadder \/ BuildTerms

QuerySpec == QueryInit /\ [][QueryNext]_queryVars

-----------------------------------------------------------------------------
(* Properties.                                                             *)

\* The tokens a chunk may hold: a word, or an inflection only a prefix reaches.
TokenSets == SUBSET [word : Range(question.words), prefix : BOOLEAN]

\* FTS5 on one expression: a prefix term matches the word and its inflection.
Holds(tokens, term) == Exact(term.word) \in tokens \/ (term.prefix /\ term \in tokens)
MatchedBy(expr, tokens) ==
  IF expr.all THEN \A i \in DOMAIN expr.of : Holds(tokens, expr.of[i])
              ELSE \E i \in DOMAIN expr.of : Holds(tokens, expr.of[i])

\* Any of several terms that are one term: a content word written again and
\* again, for BuildFTSMatch keeps repetitions.
AnyOfOne(expr) == ~expr.all /\ \A i, j \in DOMAIN expr.of : expr.of[i] = expr.of[j]

\* Every rung is wider than the rung above it, whatever words the question
\* repeats: it finds whatever that one finds, and something it does not.  A
\* rung equal to another would put the same rows into the fusion twice, at two
\* weights.  One rung may be: the floor of a question whose one content word is
\* repeated asks for any of a single term.
LadderWidens ==
  asking # "idle" =>
    \A i \in 2 .. Len(ladder) :
      /\ \A tokens \in TokenSets :
           MatchedBy(ladder[i - 1].expr, tokens) => MatchedBy(ladder[i].expr, tokens)
      /\ ~AnyOfOne(ladder[i].expr) =>
           \E tokens \in TokenSets :
             MatchedBy(ladder[i].expr, tokens) /\ ~MatchedBy(ladder[i - 1].expr, tokens)

\* A wrong guess cannot spend the scan: the pairs the question wrote side by
\* side are searched for, up to the room the guesses may not take, and the
\* first guess is searched as it was spelled, separators and all.
GuessNeverStarves ==
  asking = "built" =>
    LET own == Once(LongOnes(Pairs(Content(question.words), 1, Glued)))
    IN  /\ Range(FirstTerms(own, MaxSubstringTerms - MaxSubstringCodeTerms)) \subseteq Range(terms)
        /\ (question.codes # <<>> /\ LongEnough(question.codes[1])) => question.codes[1] \in Range(terms)
        /\ Len(terms) <= MaxSubstringTerms /\ IsInjective(terms)

\* The question is searched for as it was asked: LadderWidens, GuessNeverStarves.
QuestionServed == LadderWidens /\ GuessNeverStarves
=============================================================================
