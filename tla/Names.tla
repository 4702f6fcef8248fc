------------------------------- MODULE Names -------------------------------
(***************************************************************************)
(* Which repositories a question is about (retrieve.go ResolveRepos and    *)
(* what it calls).  A name is the sequence of its hyphenated segments and  *)
(* a question the set of its words, each a sequence of segments, so        *)
(* <<"shop", "ui">> is one word naming shop-ui and containing shop; what   *)
(* is glued on without a hyphen makes another segment.  The understanding  *)
(* step's guesses are names it was shown no list for, in their order.      *)
(***************************************************************************)
EXTENDS Integers, Sequences, FiniteSets, SequencesExt

CONSTANTS
  Indexes,        \* [repos, projects, part]: names in order, members, declared parts
  Readings,       \* [question, want]: the words, and the guesses in order
  Singular,       \* segment -> the segment without its plural or possessive s
  Brief,          \* segments of fewer than four runes
  Common,         \* commonWords and names under minMentionLen, as names
  OneEdit         \* pairs of folded names one edit apart

\* A name has a segment at least, and a product's members are indexed.
ASSUME NameTables ==
  /\ \A index \in Indexes :
       LET repos == Range(index.repos)
       IN  /\ index.repos \in Seq(repos)
           /\ \A n \in repos \cup DOMAIN index.projects : n \in Seq(DOMAIN Singular) \ {<<>>}
           /\ \A p \in DOMAIN index.projects : index.projects[p] \subseteq repos
  /\ \A reading \in Readings : reading.want \in Seq(Seq(DOMAIN Singular) \ {<<>>})

VARIABLES holding, reading, known, unknown, naming

nameVars == <<holding, reading, known, unknown, naming>>

-----------------------------------------------------------------------------
(* Reading a name in a question.                                           *)

Infix(word, name) ==
  \E i \in 1 .. Len(word) : i + Len(name) - 1 <= Len(word) /\ SubSeq(word, i, i + Len(name) - 1) = name

\* mentions: as whole words, where a hyphen is a boundary.
Mentions(question, name) == name \notin Common /\ \E w \in question : Infix(w, name)

\* Mutant: a member's name also mentions its product.
MembersKept(question, project, members) == question

\* withoutMembers: the words that are a member's name, the namesake's apart.
WithoutMembers(question, project, members) == question \ (members \ {project})

\* knownReposIn: guessed or mentioned, a project standing for its members.
KnownReposIn(index, want, question) ==
  {r \in Range(index.repos) :
     \/ r \in Range(want) \/ Mentions(question, r)
     \/ \E p \in DOMAIN index.projects :
          /\ r \in index.projects[p]
          /\ \/ p \in Range(want)
             \/ Mentions(WithoutMembers(question, p, index.projects[p]), p)}

-----------------------------------------------------------------------------
(* What a guess that is no indexed name may still mean.                    *)

\* foldRepo: the trailing plural of the last segment goes.
FoldRepo(name) == [name EXCEPT ![Len(name)] = Singular[@]]

IndexedNames(index) == Range(index.repos) \cup DOMAIN index.projects

\* A repository's name and its declared part, in either order.
GluedNames(index, r) ==
  IF index.part[r] = <<>> THEN {} ELSE {r \o index.part[r], index.part[r] \o r}

\* repoWithPart: the first repository the guess names with its part glued on,
\* unless the guess is an indexed repository as it stands.
RepoWithPart(index, guess) ==
  LET named == {i \in DOMAIN index.repos : guess \in GluedNames(index, index.repos[i])}
  IN  IF named = {} \/ \E r \in Range(index.repos) : FoldRepo(r) = FoldRepo(guess) THEN {}
      ELSE {index.repos[Min(named)]}

WithGluedParts(index, names, want) == names \cup UNION {RepoWithPart(index, w) : w \in Range(want)}

UnderFour(name) == Len(name) = 1 /\ name[1] \in Brief

\* nearAnyRepo: a mishearing of an indexed name.
NearAny(index, folded) ==
  /\ ~UnderFour(folded)
  /\ \E n \in IndexedNames(index) : FoldRepo(n) = folded \/ <<folded, FoldRepo(n)>> \in OneEdit

\* segmentOfAnyRepo: one half of a hyphenated name.
SegmentOfAny(index, folded) ==
  /\ ~UnderFour(folded)
  /\ \E n \in IndexedNames(index) : Len(n) > 1 /\ \E i \in DOMAIN n : <<Singular[FoldRepo(n)[i]]>> = folded

\* namesAsWholeWord: the reader wrote it on its own, in either spelling.
NamesAsWholeWord(question, name) == question \cap {name, FoldRepo(name)} # {}

Resolved(index, names) == {FoldRepo(n) : n \in names \cup DOMAIN index.projects}

\* The guesses ResolveRepos reports as not indexed, each fold once.
Unknown(index, names, want, question) ==
  LET missing(n) ==
        /\ FoldRepo(n) \notin Resolved(index, names)
        /\ RepoWithPart(index, n) = {}
        /\ ~NearAny(index, FoldRepo(n))
        /\ SegmentOfAny(index, FoldRepo(n)) => NamesAsWholeWord(question, n)
      first(i) == \A j \in 1 .. i - 1 : FoldRepo(want[j]) # FoldRepo(want[i])
  IN  {want[i] : i \in {i \in DOMAIN want : first(i) /\ missing(want[i])}}

-----------------------------------------------------------------------------
(* Steps.                                                                  *)

NameIdle == holding = <<>> /\ reading = <<>> /\ known = {} /\ unknown = {} /\ naming = "idle"

NameInit ==
  /\ holding \in Indexes /\ reading \in Readings
  /\ known = {} /\ unknown = {} /\ naming = "asked"

\* ResolveRepos: both halves over one reading of the namespace.
ResolveNames ==
  /\ naming = "asked" /\ naming' = "resolved"
  /\ LET names == KnownReposIn(holding, reading.want, reading.question)
     IN  /\ known' = WithGluedParts(holding, names, reading.want)
         /\ unknown' = Unknown(holding, known', reading.want, reading.question)
  /\ UNCHANGED <<holding, reading>>

NameNext == ResolveNames

\* One question at a time.
NameSpec == NameInit /\ [][NameNext]_nameVars

-----------------------------------------------------------------------------
(* Properties.                                                             *)

NamesSomething(w) == \E n \in IndexedNames(holding) : Infix(w, n)

\* A name the reader wrote is searched whatever the guess missed, and naming
\* one member of a product narrows to it: with no guess and one word that names
\* anything, a member's, a sibling joins only when the word spells it, or
\* spells another product it is in.
ReadersWordsNarrow ==
  naming = "resolved" =>
    /\ \A r \in Range(holding.repos) \ Common : r \in reading.question => r \in known
    /\ \A p \in DOMAIN holding.projects \ Common :
         p \in reading.question => holding.projects[p] \subseteq known
    /\ \A p \in DOMAIN holding.projects : \A m \in holding.projects[p] \ {p} :
         /\ reading.want = <<>>
         /\ m \in reading.question
         /\ \A w \in reading.question : NamesSomething(w) => w = m
         => \A r \in holding.projects[p] \cap known :
              \/ Infix(m, r)
              \/ \E q \in DOMAIN holding.projects \ {p} : r \in holding.projects[q] /\ Infix(m, q)

\* A half of an indexed name.  The last segment loses its s twice, with its
\* name and by itself, so a half that ends in two of them is not recognised.
HalfOf(n, x) ==
  /\ Len(n) = 1 /\ Len(x) > 1 /\ Infix(x, n)
  /\ Singular[Singular[n[1]]] = Singular[n[1]]

\* What is reported as not indexed is not: no report is a spelling of a name
\* the index carries, of a repository with its part, or of half a name the
\* reader never split; and a guess the reader did write, the only spelling of
\* it guessed and resembling nothing indexed, is reported and not swallowed.
MissingNamesHonest ==
  naming = "resolved" =>
    /\ \A n \in unknown : ~UnderFour(FoldRepo(n)) =>
         /\ \A x \in IndexedNames(holding) : FoldRepo(x) # FoldRepo(n)
         /\ \A r \in Range(holding.repos) : n \notin GluedNames(holding, r)
         /\ reading.question \cap {n, FoldRepo(n)} = {} =>
              \A x \in IndexedNames(holding) : ~HalfOf(n, x)
    /\ \A n \in Range(reading.want) \cap reading.question :
         \/ \E u \in unknown : FoldRepo(u) = FoldRepo(n)
         \/ \E g \in Range(reading.want) : g # n /\ FoldRepo(g) = FoldRepo(n)
         \/ \E x \in IndexedNames(holding) :
              FoldRepo(x) = FoldRepo(n) \/ <<FoldRepo(n), FoldRepo(x)>> \in OneEdit
         \/ \E r \in known : n \in GluedNames(holding, r)

\* What the reader named is what is searched: ReadersWordsNarrow and
\* MissingNamesHonest.
NamesRead == ReadersWordsNarrow /\ MissingNamesHonest
=============================================================================
