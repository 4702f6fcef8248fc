------------------------------ MODULE TurnProofs ------------------------------
(***************************************************************************)
(* What the grouping of repos.yaml promises routing, for every list the    *)
(* loader accepts (folding and covering agree, and folding loses nothing), *)
(* and what holds of a thread's turns under it, for any questions and any  *)
(* number of rows.  Which libraries a product reaches is left opaque: the  *)
(* facts hold for any walk that ends in libraries.                         *)
(***************************************************************************)
EXTENDS Turn, FiniteSetTheorems, TLAPS

-----------------------------------------------------------------------------
(* The grouping.                                                           *)

(* The shape repos.Load leaves: a listed library is a project of its own,  *)
(* and a project that carries a library's name holds that library alone.   *)
LEMMA OwnOfLibrary ==
  ASSUME NEW g, WellFormed(g), NEW r \in Enabled(g)
  PROVE  /\ g.of[r] \in Names /\ Of(g, r) = g.of[r] /\ g.of[r] \in All(g)
         /\ g.of[r] \in Libraries(g) => g.of[r] = r
         /\ r \in g.library => r \in Libraries(g) /\ g.of[r] = r
BY NoneIsNoName DEF WellFormed, Grouping, Enabled, Of, All, Libraries

(* No project is both a product among rs and a library.                    *)
LEMMA PresentIsProduct ==
  ASSUME NEW g, WellFormed(g), NEW rs \in SUBSET Enabled(g), NEW p \in Present(g, rs)
  PROVE  p \in All(g) /\ p \notin Libraries(g)
<1>1. PICK r \in rs \ Libraries(g) : p = Of(g, r)
  BY DEF Present
<1>2. r \in Enabled(g)
  BY <1>1
<1>3. p = g.of[r] /\ p \in All(g)
  BY <1>1, <1>2, OwnOfLibrary
<1> QED
  BY <1>1, <1>2, <1>3, OwnOfLibrary

(* shareLibraries: a product is searched with its own repositories and     *)
(* libraries it reaches; a library alone.                                  *)
LEMMA MembersShape ==
  ASSUME NEW g, NEW p \in All(g)
  PROVE  /\ ReachedLibraries(g, p) \subseteq Libraries(g)
         /\ p \in Libraries(g) => Members(g, p) = Own(g, p)
         /\ p \notin Libraries(g) => Members(g, p) = Own(g, p) \cup ReachedLibraries(g, p)
<1>1. ReachedLibraries(g, p) \subseteq Libraries(g)
  BY DEF ReachedLibraries
<1> QED
  BY <1>1 DEF Members

(* A library is used by products only, and nothing uses a product.         *)
LEMMA UsersAreProducts ==
  ASSUME NEW g, NEW l
  PROVE  /\ UsedBy(g, l) \subseteq All(g) \ Libraries(g)
         /\ l \notin Libraries(g) => UsedBy(g, l) = {}
<1>1. \A p : ReachedLibraries(g, p) \subseteq Libraries(g)
  BY DEF ReachedLibraries
<1> QED
  BY <1>1 DEF UsedBy

(* The entries of a fold, without the record of the whole.                 *)
LEMMA FoldEntries ==
  ASSUME NEW g, NEW rs
  PROVE  /\ \A p : p \in DOMAIN Fold(g, rs) <=>
              \/ p \in Present(g, rs)
              \/ p \in rs /\ p \in Libraries(g) /\ UsedBy(g, p) \cap Present(g, rs) = {}
         /\ \A p \in DOMAIN Fold(g, rs) : \A r : r \in Fold(g, rs)[p] <=>
              \/ r \in rs /\ r \notin Libraries(g) /\ Of(g, r) = p
              \/ r \in rs /\ r \in Libraries(g) /\ (p \in UsedBy(g, r) \/ p = r)
<1> DEFINE libs == rs \cap Libraries(g)
           alone == {l \in libs : UsedBy(g, l) \cap Present(g, rs) = {}}
           under(p) == {r \in rs \ libs : Of(g, r) = p} \cup {l \in libs : p \in UsedBy(g, l) \/ p = l}
<1>1. Fold(g, rs) = [p \in Present(g, rs) \cup alone |-> under(p)]
  BY DEF Fold
<1>2. DOMAIN Fold(g, rs) = Present(g, rs) \cup alone
  BY <1>1
<1>3. \A p \in DOMAIN Fold(g, rs) : Fold(g, rs)[p] = under(p)
  BY <1>1
<1> QED
  BY <1>2, <1>3

(* Fold and Covered read one turn alike, for every repos.yaml the loader   *)
(* accepts and every set of enabled repositories.                          *)
THEOREM CoveredIsFolded ==
  ASSUME NEW g, WellFormed(g)
  PROVE  FoldCovers(g)
<1> SUFFICES ASSUME NEW rs \in SUBSET Enabled(g)
             PROVE  Covered(g, rs) = {p \in DOMAIN Fold(g, rs) : Own(g, p) \subseteq rs}
  BY DEF FoldCovers
<1>1. ASSUME NEW p \in Covered(g, rs)
      PROVE  p \in DOMAIN Fold(g, rs) /\ Own(g, p) \subseteq rs
  <2>1. /\ p \in All(g) /\ UsedBy(g, p) \cap Present(g, rs) = {}
        /\ \A r \in Members(g, p) : r \in rs \/ (r \in g.library /\ p \notin Libraries(g))
    BY <1>1 DEF Covered
  <2>2. Own(g, p) \subseteq Members(g, p)
    BY <2>1, MembersShape
  <2>3. ASSUME NEW r \in Own(g, p)
        PROVE  r \in rs
    <3>1. r \in Enabled(g) /\ g.of[r] = p
      BY DEF Own
    <3>2. r \in g.library => p \in Libraries(g)
      BY <3>1, OwnOfLibrary
    <3> QED
      BY <2>1, <2>2, <3>2
  <2>4. PICK r \in Enabled(g) : p = g.of[r]
    BY <2>1 DEF All
  <2>5. r \in rs
    BY <2>3, <2>4 DEF Own
  <2>6. CASE r \notin Libraries(g)
    <3>1. p \in Present(g, rs)
      BY <2>4, <2>5, <2>6, OwnOfLibrary DEF Present
    <3> QED
      BY <2>3, <3>1, FoldEntries
  <2>7. CASE r \in Libraries(g)
    <3>1. p = r
      BY <2>4, <2>7 DEF Libraries
    <3> QED
      BY <2>1, <2>3, <2>5, <2>7, <3>1, FoldEntries
  <2> QED
    BY <2>6, <2>7
<1>2. ASSUME NEW p \in DOMAIN Fold(g, rs), Own(g, p) \subseteq rs
      PROVE  p \in Covered(g, rs)
  <2>1. CASE p \in Present(g, rs)
    <3>1. p \in All(g) /\ p \notin Libraries(g)
      BY <2>1, PresentIsProduct
    <3>2. UsedBy(g, p) = {}
      BY <3>1, UsersAreProducts
    <3>3. \A r \in Members(g, p) : r \in rs \/ r \in g.library
      BY <1>2, <3>1, MembersShape DEF Libraries
    <3> QED
      BY <3>1, <3>2, <3>3 DEF Covered
  <2>2. CASE p \notin Present(g, rs)
    <3>1. p \in rs /\ p \in Libraries(g) /\ UsedBy(g, p) \cap Present(g, rs) = {}
      BY <1>2, <2>2, FoldEntries
    <3>2. p \in All(g)
      BY <3>1 DEF Libraries, All
    <3>3. Members(g, p) \subseteq rs
      BY <1>2, <3>1, <3>2, MembersShape
    <3> QED
      BY <3>1, <3>2, <3>3 DEF Covered
  <2> QED
    BY <2>1, <2>2
<1> QED
  BY <1>1, <1>2

(* Folding loses no repository, makes no empty entry and puts under a      *)
(* product only what the product is searched with.                         *)
THEOREM FoldLosesNothing ==
  ASSUME NEW g, WellFormed(g)
  PROVE  FoldKeeps(g)
<1> SUFFICES ASSUME NEW rs \in SUBSET Enabled(g)
             PROVE  /\ UNION {Fold(g, rs)[p] : p \in DOMAIN Fold(g, rs)} = rs
                    /\ \A p \in DOMAIN Fold(g, rs) :
                         Fold(g, rs)[p] # {} /\ Fold(g, rs)[p] \subseteq Members(g, p)
  BY DEF FoldKeeps
<1>1. ASSUME NEW r \in rs
      PROVE  \E p \in DOMAIN Fold(g, rs) : r \in Fold(g, rs)[p]
  <2>1. CASE r \notin Libraries(g)
    <3>1. Of(g, r) \in Present(g, rs)
      BY <2>1 DEF Present
    <3> QED
      BY <2>1, <3>1, FoldEntries
  <2>2. CASE r \in Libraries(g) /\ UsedBy(g, r) \cap Present(g, rs) = {}
    BY <2>2, FoldEntries
  <2>3. CASE r \in Libraries(g) /\ UsedBy(g, r) \cap Present(g, rs) # {}
    <3>1. PICK p \in Present(g, rs) : p \in UsedBy(g, r)
      BY <2>3
    <3> QED
      BY <2>3, <3>1, FoldEntries
  <2> QED
    BY <2>1, <2>2, <2>3
<1>2. ASSUME NEW p \in DOMAIN Fold(g, rs)
      PROVE  Fold(g, rs)[p] # {} /\ Fold(g, rs)[p] \subseteq Members(g, p) \cap rs
  <2>1. CASE p \in Present(g, rs)
    <3>1. p \in All(g) /\ p \notin Libraries(g)
      BY <2>1, PresentIsProduct
    <3>2. PICK r \in rs \ Libraries(g) : Of(g, r) = p
      BY <2>1 DEF Present
    <3>3. \A x \in rs \ Libraries(g) : Of(g, x) = p => x \in Members(g, p)
      BY <3>1, OwnOfLibrary, MembersShape DEF Own
    <3>4. \A l \in rs \cap Libraries(g) : p \in UsedBy(g, l) \/ p = l => l \in Members(g, p)
      BY <3>1, MembersShape DEF UsedBy
    <3> QED
      BY <3>2, <3>3, <3>4, FoldEntries
  <2>2. CASE p \notin Present(g, rs)
    <3>1. p \in rs /\ p \in Libraries(g)
      BY <1>2, <2>2, FoldEntries
    <3>2. p \in All(g) /\ p \in Own(g, p)
      BY <3>1 DEF Libraries, All, Own
    <3>3. \A x \in rs \ Libraries(g) : Of(g, x) # p
      BY <2>2 DEF Present
    <3>4. \A l \in rs \cap Libraries(g) : p \notin UsedBy(g, l)
      BY <3>1, UsersAreProducts
    <3> QED
      BY <3>1, <3>2, <3>3, <3>4, FoldEntries, MembersShape
  <2> QED
    BY <2>1, <2>2
<1> QED
  <2>1. UNION {Fold(g, rs)[p] : p \in DOMAIN Fold(g, rs)} = rs
    BY <1>1, <1>2
  <2> QED
    BY <2>1, <1>2

-----------------------------------------------------------------------------
(* The turns.                                                              *)

(* repos.yaml is read at boot only: no turn changes the grouping, and      *)
(* every boot takes one the loader accepts.                                *)
LEMMA GroupingLoads == Spec => [](grouping \in Groupings)
<1>1. Init => grouping \in Groupings
  BY DEF Init
<1>2. grouping \in Groupings /\ [Next]_vars => (grouping \in Groupings)'
  <2> SUFFICES ASSUME grouping \in Groupings, [Next]_vars
               PROVE  grouping' \in Groupings
    OBVIOUS
  <2>1. CASE UNCHANGED vars
    BY <2>1 DEF vars
  <2>2. CASE \E g \in Groupings : Restart(g)
    BY <2>2 DEF Restart
  <2>3. CASE Next /\ ~\E g \in Groupings : Restart(g)
    BY <2>3 DEF Next, Type, Retry, Choose, Narrow, ChooseRepos, ChooseModule, Remember, Understand,
         Search, AnswerChanges, AnswerRelease, AnswerRework, ResumeRepo, Resume, Route, Gather,
         Answer, Fail
  <2> QED
    BY <2>1, <2>2, <2>3
<1> QED
  BY <1>1, <1>2, PTL DEF Spec

(* Route.go's own fold of the candidates, for one well-formed grouping.    *)
LEMMA CandidatesAreFolded ==
  ASSUME WellFormed(grouping), NEW rs \in SUBSET Enabled(grouping)
  PROVE  ProjectCandidates(rs) = Fold(grouping, rs)
<1> DEFINE libs == {r \in rs : IsLibrary(grouping, r)}
           products == {Of(grouping, r) : r \in rs \ libs}
           placed(l) == UsedBy(grouping, l) \cap products
           names == products \cup {l \in libs : placed(l) = {}}
           under(p) == {r \in rs \ libs : Of(grouping, r) = p}
                         \cup {l \in libs : p \in placed(l) \/ (placed(l) = {} /\ p = l)}
           alone == {l \in rs \cap Libraries(grouping) : UsedBy(grouping, l) \cap Present(grouping, rs) = {}}
           entry(p) == {r \in rs \ (rs \cap Libraries(grouping)) : Of(grouping, r) = p}
                         \cup {l \in rs \cap Libraries(grouping) : p \in UsedBy(grouping, l) \/ p = l}
<1>1. ProjectCandidates(rs) = [p \in names |-> under(p)]
  BY DEF ProjectCandidates
<1>2. Fold(grouping, rs) = [p \in Present(grouping, rs) \cup alone |-> entry(p)]
  BY DEF Fold
<1>3. libs = rs \cap Libraries(grouping)
  BY DEF IsLibrary
<1>4. products = Present(grouping, rs)
  <2>1. rs \ libs = rs \ Libraries(grouping)
    BY <1>3
  <2> HIDE DEF libs
  <2> QED
    BY <2>1 DEF Present
<1>5. names = Present(grouping, rs) \cup alone
  BY <1>3, <1>4
<1>6. ASSUME NEW p \in names
      PROVE  under(p) = entry(p)
  <2>1. ASSUME NEW l \in libs
        PROVE  (p \in placed(l) \/ (placed(l) = {} /\ p = l)) <=> (p \in UsedBy(grouping, l) \/ p = l)
    <3>1. p \in UsedBy(grouping, l) => p \in Present(grouping, rs)
      BY <1>3, <1>5, UsersAreProducts
    <3>2. p = l => placed(l) = {}
      BY <1>3, <1>4, <1>5, PresentIsProduct
    <3> QED
      BY <1>4, <3>1, <3>2
  <2> HIDE DEF placed, products
  <2> QED
    BY <1>3, <2>1
<1> HIDE DEF names, under, entry, alone
<1> QED
  BY <1>1, <1>2, <1>5, <1>6

(* The buttons of a card, what they cover and the projects package agree,  *)
(* whatever the file the operator started rongo with says: route.go's      *)
(* second copy of the fold is the fold, and the fold loses nothing.        *)
THEOREM CardsFoldLikeProjects == Spec => []FoldsAgree
<1>1. ASSUME grouping \in Groupings
      PROVE  FoldsAgree
  <2>1. WellFormed(grouping)
    BY <1>1, GroupingsLoad
  <2>2. \A rs \in SUBSET Enabled(grouping) : ProjectCandidates(rs) = Fold(grouping, rs)
    BY <2>1, CandidatesAreFolded
  <2>3. FoldCovers(grouping) /\ FoldKeeps(grouping)
    BY <2>1, CoveredIsFolded, FoldLosesNothing
  <2> QED
    BY <2>2, <2>3 DEF FoldsAgree
<1> QED
  BY <1>1, GroupingLoads, PTL

-----------------------------------------------------------------------------
(* What names resolve to, under one well-formed grouping.                  *)

(* Repositories with the libraries they are built on.                      *)
Near(rs) == rs \cup BuiltOn(rs)

LEMMA NearIs ==
  ASSUME NEW rs, NEW x
  PROVE  /\ x \in BuiltOn(rs) <=>
              x \in Libraries(grouping) /\ \E r \in rs : x \in Members(grouping, Of(grouping, r))
         /\ x \in Near(rs) <=> x \in rs \/ x \in BuiltOn(rs)
<1> DEFINE searched == UNION {Members(grouping, Of(grouping, r)) : r \in rs}
<1>1. x \in searched <=> \E r \in rs : x \in Members(grouping, Of(grouping, r))
  OBVIOUS
<1>2. BuiltOn(rs) = searched \cap Libraries(grouping)
  BY DEF BuiltOn
<1> HIDE DEF searched
<1> QED
  BY <1>1, <1>2 DEF Near

LEMMA MembersEnabled ==
  ASSUME WellFormed(grouping)
  PROVE  /\ \A p \in All(grouping) : Members(grouping, p) \subseteq Enabled(grouping)
         /\ \A r \in Enabled(grouping) :
              /\ Of(grouping, r) \in All(grouping)
              /\ r \in Members(grouping, Of(grouping, r))
<1>1. Libraries(grouping) \subseteq Enabled(grouping) /\ \A p : Own(grouping, p) \subseteq Enabled(grouping)
  BY DEF Libraries, Own
<1>2. \A p \in All(grouping) : /\ Members(grouping, p) \subseteq Enabled(grouping)
                               /\ Own(grouping, p) \subseteq Members(grouping, p)
  BY <1>1, MembersShape
<1>3. \A r \in Enabled(grouping) : Of(grouping, r) \in All(grouping) /\ r \in Own(grouping, Of(grouping, r))
  BY OwnOfLibrary DEF Own
<1> QED
  BY <1>2, <1>3

LEMMA ResolveEnabled ==
  ASSUME WellFormed(grouping), NEW want, NEW mentioned
  PROVE  /\ ResolveRepos(want, mentioned) \subseteq Enabled(grouping)
         /\ want \cap Enabled(grouping) \subseteq ResolveRepos(want, mentioned)
BY MembersEnabled DEF ResolveRepos

(* A repository's name may be its project's too: then it stands for the    *)
(* repository and the libraries it is built on, and nothing else.          *)
LEMMA ResolveNear ==
  ASSUME WellFormed(grouping), NEW rs \in SUBSET Enabled(grouping)
  PROVE  ResolveRepos(rs, {}) \subseteq Near(rs)
<1> SUFFICES ASSUME NEW p \in All(grouping), p \in rs, NEW x \in Members(grouping, p)
             PROVE  x \in Near(rs)
  BY DEF ResolveRepos, Near
<1>1. p \in Enabled(grouping)
  OBVIOUS
<1>2. PICK r \in Enabled(grouping) : p = grouping.of[r]
  BY DEF All
<1>3. r = p /\ Of(grouping, p) = p
  <2>1. r \in Names /\ p # None /\ grouping.of[p] # None
    BY <1>1, <1>2 DEF Enabled
  <2>2. grouping.of[r] = r
    BY <1>2, <2>1 DEF WellFormed
  <2> QED
    BY <1>1, <1>2, <2>2 DEF Of
<1>4. CASE x \in Libraries(grouping)
  BY <1>3, <1>4, NearIs
<1>5. CASE x \notin Libraries(grouping)
  <2>1. x \in Own(grouping, p)
    BY <1>5, MembersShape
  <2>2. x \in Enabled(grouping) /\ grouping.of[x] = p /\ grouping.of[p] = p
    BY <1>2, <1>3, <2>1 DEF Own
  <2>3. x = p
    BY <1>1, <2>2, NoneIsNoName DEF WellFormed, Grouping, Enabled
  <2> QED
    BY <2>3 DEF Near
<1> QED
  BY <1>4, <1>5

(* Libraries are built on nothing a product does not name with them.       *)
LEMMA NearOnce ==
  ASSUME WellFormed(grouping), NEW rs \in SUBSET Enabled(grouping), NEW ks \in SUBSET Near(rs)
  PROVE  Near(ks) \subseteq Near(rs) /\ ks \subseteq Enabled(grouping)
<1>1. ASSUME NEW l \in Libraries(grouping), NEW x \in Members(grouping, Of(grouping, l))
      PROVE  x = l
  <2>0. l \in Enabled(grouping) /\ grouping.of[l] = l
    BY DEF Libraries
  <2>1. Of(grouping, l) = l /\ l \in All(grouping)
    BY <2>0, OwnOfLibrary
  <2>2. x \in Own(grouping, l)
    BY <1>1, <2>1, MembersShape
  <2>3. x \in Enabled(grouping) /\ grouping.of[x] = l
    BY <2>2 DEF Own
  <2> QED
    BY <1>1, <2>3, OwnOfLibrary
<1>2. \A k \in ks : k \in rs \/ k \in Libraries(grouping)
  BY NearIs
<1>3. BuiltOn(ks) \subseteq Near(rs)
  <2> SUFFICES ASSUME NEW k \in ks, NEW x \in Members(grouping, Of(grouping, k)), x \in Libraries(grouping)
               PROVE  x \in Near(rs)
    BY NearIs
  <2>1. CASE k \in rs
    BY <2>1, NearIs
  <2>2. CASE k \in Libraries(grouping)
    <3>1. x = k
      BY <1>1, <2>2
    <3> QED
      BY <3>1
  <2> QED
    BY <1>2, <2>1, <2>2
<1>4. Libraries(grouping) \subseteq Enabled(grouping)
  BY DEF Libraries
<1> QED
  BY <1>2, <1>3, <1>4 DEF Near

(* A search finds in the repositories it was restricted to, all of them;   *)
(* under a pin, in those and their libraries.                              *)
LEMMA SearchWithin ==
  ASSUME WellFormed(grouping), NEW known \in SUBSET Enabled(grouping), NEW mentioned, NEW one
  PROVE  /\ SearchScoped(known, mentioned, one) \subseteq Enabled(grouping)
         /\ known \subseteq SearchScoped(known, mentioned, one)
         /\ known # {} => SearchScoped(known, {}, one) \subseteq Near(known)
<1>1. /\ Restriction(known, mentioned) \subseteq Enabled(grouping)
      /\ known \subseteq Restriction(known, mentioned)
  BY ResolveEnabled DEF Restriction
<1>2. \A r \in known : /\ Restriction({r}, {}) \subseteq Enabled(grouping)
                       /\ r \in Restriction({r}, {})
                       /\ Restriction({r}, {}) \subseteq Near({r})
  <2> SUFFICES ASSUME NEW r \in known
               PROVE  /\ Restriction({r}, {}) \subseteq Enabled(grouping)
                      /\ r \in Restriction({r}, {})
                      /\ Restriction({r}, {}) \subseteq Near({r})
    OBVIOUS
  <2>1. r \in ResolveRepos({r}, {}) /\ ResolveRepos({r}, {}) \subseteq Enabled(grouping)
    BY ResolveEnabled
  <2>2. Restriction({r}, {}) = ResolveRepos({r}, {})
    BY <2>1 DEF Restriction
  <2>3. ResolveRepos({r}, {}) \subseteq Near({r})
    BY ResolveNear
  <2> QED
    BY <2>1, <2>2, <2>3
<1>3. \A r \in known : Near({r}) \subseteq Near(known)
  BY NearIs
<1>4. known # {} => Restriction(known, {}) \subseteq Near(known)
  <2> HAVE known # {}
  <2>1. known \subseteq ResolveRepos(known, {})
    BY ResolveEnabled
  <2> QED
    BY <2>1, ResolveNear DEF Restriction
<1> QED
  BY <1>1, <1>2, <1>3, <1>4 DEF SearchScoped

(* The ceiling stays among the enabled repositories, and below the one of  *)
(* the pin a turn narrowed from.                                           *)
LEMMA CeilingWithin ==
  ASSUME WellFormed(grouping), NEW known \in SUBSET Enabled(grouping), NEW hits \in SUBSET Enabled(grouping)
  PROVE  /\ Ceiling(known, hits) \subseteq Enabled(grouping)
         /\ \A ks \in SUBSET Enabled(grouping) :
              known # {} /\ known \subseteq ks => Ceiling(known, hits) \subseteq Ceiling(ks, {})
         /\ known # {} => known \subseteq Ceiling(known, {})
BY MembersEnabled DEF Ceiling

-----------------------------------------------------------------------------
(* The rows of the thread.                                                 *)

RowFields == {"q", "scope", "head", "state", "card"}

(* What a row keeps for the turns that read it: the permission was given   *)
(* for its question, and a card of modules was drawn without a narrowing.  *)
RowKept(r, allow) ==
  /\ DOMAIN r = RowFields
  /\ r.scope.all => r.q \in allow
  /\ r.state = "card" /\ r.card.kind = "modules" => r.scope.known = {}

IsSeq(m) == \E S : m \in Seq(S)

RowsKept == IsSeq(messages) /\ \A i \in 1..Len(messages) : RowKept(messages[i], permitted)

LEMMA AppendRow ==
  ASSUME NEW m, IsSeq(m), NEW r
  PROVE  /\ IsSeq(Append(m, r)) /\ Len(m) \in Nat /\ Len(Append(m, r)) = Len(m) + 1
         /\ \A i \in 1..Len(m) : Append(m, r)[i] = m[i]
         /\ Append(m, r)[Len(m) + 1] = r
<1>1. PICK S : m \in Seq(S)
  BY DEF IsSeq
<1>2. m \in Seq(S \cup {r}) /\ r \in S \cup {r}
  BY <1>1
<1> HIDE DEF IsSeq
<1>3. Append(m, r) \in Seq(S \cup {r})
  BY <1>2
<1>4. IsSeq(Append(m, r))
  BY <1>3 DEF IsSeq
<1> QED
  BY <1>2, <1>4

LEMMA SameRows ==
  ASSUME NEW m, IsSeq(m), NEW n, n = [i \in 1..Len(m) |-> n[i]]
  PROVE  IsSeq(n) /\ Len(n) = Len(m) /\ Len(m) \in Nat
<1>1. Len(m) \in Nat
  BY DEF IsSeq
<1>2. n \in Seq({n[i] : i \in 1..Len(m)}) /\ Len(n) = Len(m)
  BY <1>1
<1>3. IsSeq(n)
  BY <1>2 DEF IsSeq
<1> QED
  BY <1>1, <1>2, <1>3

-----------------------------------------------------------------------------
(* The inductive invariant.                                                *)

TurnFields == {"at", "q", "lane", "pin", "all", "card", "scope", "searched", "hits", "mixed", "read"}

(* The turn in progress is the last row's, and every permission it holds   *)
(* was given for its question.                                             *)
TurnOfRow ==
  turn # None =>
    /\ DOMAIN turn = TurnFields
    /\ Len(messages) \in Nat \ {0} /\ messages[Len(messages)].q = turn.q
    /\ turn.all \/ turn.scope.all => turn.q \in permitted

(* A choice off a card of products is its pin; one off a card of modules   *)
(* has none; anything else is a fresh turn until it is answered.           *)
TurnOfLane ==
  turn # None =>
    /\ turn.lane = "module" => turn.pin = {} /\ turn.scope.known = {}
    /\ turn.lane = "repos" => turn.pin = turn.scope.known
    /\ turn.at \in {"scoped", "route"} => turn.lane = "fresh"
    /\ turn.at = "run" => turn.searched = {}

(* Once a turn is scoped its narrowing is of enabled repositories, at most *)
(* its pin's with their libraries, and so are its hits.                    *)
TurnNarrowed ==
  turn # None /\ turn.at \in {"scoped", "route", "gather"} =>
    /\ turn.scope.known \subseteq Enabled(grouping)
    /\ turn.pin # {} => /\ turn.pin \subseteq Enabled(grouping)
                        /\ turn.scope.known # {}
                        /\ turn.scope.known \subseteq Near(turn.pin)
    /\ turn.at = "scoped" => turn.searched = {}
    /\ turn.at # "scoped" => /\ turn.hits \subseteq Enabled(grouping)
                             /\ turn.pin # {} => turn.hits \subseteq Near(turn.pin)

TurnInv ==
  /\ grouping \in Groupings
  /\ RowsKept /\ TurnOfRow /\ TurnOfLane /\ TurnNarrowed
  /\ Funnel /\ NoParkedSource /\ RecordSearched /\ AskedFirst

LEMMA InvInit == Init => TurnInv
<1>1. IsSeq(<<>>) /\ Len(<<>>) = 0
  <2>1. <<>> \in Seq({})
    OBVIOUS
  <2> QED
    BY <2>1 DEF IsSeq
<1>2. Init => RowsKept
  BY <1>1 DEF Init, RowsKept
<1> QED
  BY <1>2 DEF Init, TurnInv, TurnOfRow, TurnOfLane, TurnNarrowed, Funnel, NoParkedSource, RecordSearched,
       AskedFirst, At

LEMMA RowsStand ==
  ASSUME RowsKept, UNCHANGED messages, permitted \subseteq permitted'
  PROVE  RowsKept'
BY DEF RowsKept, RowKept

(* A turn that ends leaves its rows, and nothing to say of a turn.         *)
LEMMA EndKeeps ==
  ASSUME turn' = None, grouping' \in Groupings, RowsKept'
  PROVE  TurnInv'
BY DEF TurnInv, TurnOfRow, TurnOfLane, TurnNarrowed, Funnel, NoParkedSource, RecordSearched, AskedFirst, At

(* A turn that starts.                                                     *)
LEMMA StartKeeps ==
  ASSUME TurnInv, UNCHANGED grouping, permitted \subseteq permitted',
         NEW q, NEW scope, NEW head, messages' = Append(messages, Row(q, scope, head)),
         DOMAIN turn' = TurnFields, turn'.at = "run", turn'.q = q, turn'.scope = scope,
         turn'.searched = {},
         turn'.all \/ scope.all => q \in permitted',
         turn'.lane = "module" => turn'.pin = {} /\ scope.known = {},
         turn'.lane = "repos" => turn'.pin = scope.known
  PROVE  TurnInv'
<1>1. IsSeq(messages)
  BY DEF TurnInv, RowsKept
<1>2. /\ IsSeq(messages') /\ Len(messages) \in Nat /\ Len(messages') = Len(messages) + 1
      /\ \A i \in 1..Len(messages) : messages'[i] = messages[i]
      /\ messages'[Len(messages) + 1] = Row(q, scope, head)
  BY <1>1, AppendRow
<1>3. RowKept(Row(q, scope, head), permitted')
  BY DEF RowKept, Row, RowFields
<1>4. \A i \in 1..Len(messages) : RowKept(messages[i], permitted')
  BY DEF TurnInv, RowsKept, RowKept
<1>5. RowsKept'
  <2>1. ASSUME NEW i \in 1..Len(messages')
        PROVE  RowKept(messages'[i], permitted')
    <3>1. i \in 1..Len(messages) \/ i = Len(messages) + 1
      BY <1>2
    <3> QED
      BY <1>2, <1>3, <1>4, <3>1
  <2> QED
    BY <1>2, <2>1 DEF RowsKept
<1>6. TurnOfRow'
  BY <1>2 DEF TurnOfRow, Row
<1> QED
  BY <1>5, <1>6 DEF TurnInv, TurnOfLane, TurnNarrowed, Funnel, NoParkedSource, RecordSearched, AskedFirst, At

(* A turn that reaches its answer with sources from read.                  *)
LEMMA GoesToKeeps ==
  ASSUME TurnInv, turn # None, UNCHANGED <<grouping, messages, permitted>>,
         NEW lane, NEW read, GoesTo(lane, read),
         lane \in {"module", "repos"} => lane = turn.lane,
         lane # "rework" => read \subseteq Enabled(grouping),
         turn.pin # {} => read \subseteq Ceiling(Near(turn.pin), {})
  PROVE  TurnInv'
<1>1. DOMAIN turn = TurnFields
  BY DEF TurnInv, TurnOfRow
<1>2. /\ DOMAIN turn' = TurnFields /\ turn'.at = "answer" /\ turn'.lane = lane /\ turn'.read = read
      /\ turn'.searched = {} /\ turn'.q = turn.q /\ turn'.pin = turn.pin /\ turn'.all = turn.all
      /\ turn'.scope = turn.scope
  BY <1>1 DEF GoesTo, TurnFields
<1>3. RowsKept'
  BY RowsStand DEF TurnInv
<1>4. TurnOfRow' /\ TurnOfLane' /\ TurnNarrowed'
  BY <1>2 DEF TurnInv, TurnOfRow, TurnOfLane, TurnNarrowed
<1>5. Funnel'
  BY <1>2 DEF Funnel, Near, At, Ceiling, BuiltOn
<1>6. NoParkedSource' /\ RecordSearched' /\ AskedFirst'
  BY <1>2 DEF NoParkedSource, RecordSearched, AskedFirst, At
<1> QED
  BY <1>3, <1>4, <1>5, <1>6 DEF TurnInv

(* A turn that ends and leaves r for its row.                              *)
LEMMA LastKeeps ==
  ASSUME TurnInv, turn # None, turn' = None, UNCHANGED <<grouping, permitted>>,
         NEW r, messages' = [messages EXCEPT ![Last] = r], RowKept(r, permitted)
  PROVE  TurnInv'
<1>1. Last \in 1..Len(messages) /\ IsSeq(messages)
  <2>1. Len(messages) \in Nat \ {0}
    BY DEF TurnInv, TurnOfRow
  <2> QED
    BY <2>1 DEF TurnInv, RowsKept, Last
<1>2. /\ IsSeq(messages') /\ Len(messages') = Len(messages)
      /\ \A i \in 1..Len(messages) : messages'[i] = IF i = Last THEN r ELSE messages[i]
  <2>1. DOMAIN messages = 1..Len(messages)
    BY <1>1 DEF IsSeq
  <2>2. /\ messages' = [i \in 1..Len(messages) |-> messages'[i]]
        /\ \A i \in 1..Len(messages) : messages'[i] = IF i = Last THEN r ELSE messages[i]
    BY <1>1, <2>1
  <2> QED
    BY <1>1, <2>2, SameRows
<1>3. ASSUME NEW i \in 1..Len(messages)
      PROVE  RowKept(messages'[i], permitted')
  <2>1. RowKept(messages[i], permitted)
    BY DEF TurnInv, RowsKept
  <2> QED
    BY <1>2, <2>1
<1>4. RowsKept'
  BY <1>2, <1>3 DEF RowsKept
<1> QED
  BY <1>4, EndKeeps DEF TurnInv

(* The row of the turn in progress.                                        *)
LEMMA LastRow ==
  ASSUME TurnInv, turn # None
  PROVE  /\ DOMAIN messages[Last] = RowFields /\ messages[Last].q = turn.q
         /\ messages[Last].scope.all => turn.q \in permitted
         /\ turn.scope.all => turn.q \in permitted
BY DEF TurnInv, TurnOfRow, RowsKept, RowKept, Last

-----------------------------------------------------------------------------
(* One lemma for each kind of step.                                        *)

LEMMA TypeKeeps ==
  ASSUME TurnInv, NEW q, Type(q)
  PROVE  TurnInv'
<1>1. /\ DOMAIN turn' = TurnFields /\ turn'.at = "run" /\ turn'.q = q /\ turn'.scope = NoScope
      /\ turn'.searched = {} /\ turn'.all = FALSE /\ turn'.lane = "fresh" /\ NoScope.all = FALSE
  BY DEF Type, Started, TurnFields, NoScope
<1>2. messages' = Append(messages, Row(q, NoScope, Last + 1)) /\ UNCHANGED <<grouping, permitted>>
  BY DEF Type, AddQuestion
<1> QED
  BY <1>1, <1>2, StartKeeps

(* The permission a retry takes over was given for the same question.      *)
LEMMA RetryKeeps ==
  ASSUME TurnInv, NEW i \in 1..MaxRows, NEW q, Retry(i, q)
  PROVE  TurnInv'
<1>1. i \in 1..Len(messages)
  BY DEF Retry, Ready, Last, TurnInv, RowsKept, IsSeq
<1>2. RetryScope(i, q).all => q \in permitted
  BY <1>1 DEF RetryScope, TurnInv, RowsKept, RowKept
<1>3. /\ DOMAIN turn' = TurnFields /\ turn'.at = "run" /\ turn'.q = q /\ turn'.scope = NoScope
      /\ turn'.searched = {} /\ turn'.all = RetryScope(i, q).all /\ turn'.lane = "fresh"
      /\ NoScope.all = FALSE
  BY DEF Retry, Started, TurnFields, NoScope
<1>4. messages' = Append(messages, Row(q, NoScope, messages[i].head)) /\ UNCHANGED <<grouping, permitted>>
  BY DEF Retry, AddQuestion
<1> QED
  BY <1>2, <1>3, <1>4, StartKeeps

LEMMA ChooseReposKeeps ==
  ASSUME TurnInv, NEW i, NEW repos, ChooseRepos(i, repos)
  PROVE  TurnInv'
<1> DEFINE scope == [known |-> repos, all |-> repos = {}]
<1>1. /\ DOMAIN turn' = TurnFields /\ turn'.at = "run" /\ turn'.q = messages[i].q /\ turn'.scope = scope
      /\ turn'.searched = {} /\ turn'.all = FALSE /\ turn'.lane = "repos" /\ turn'.pin = repos
  BY DEF ChooseRepos, Started, TurnFields
<1>2. messages' = Append(messages, Row(messages[i].q, scope, messages[i].head)) /\ UNCHANGED grouping
  BY DEF ChooseRepos, AddQuestion
<1>3. permitted \subseteq permitted' /\ (repos = {} => messages[i].q \in permitted')
  BY DEF ChooseRepos
<1>4. scope.known = repos /\ (scope.all => repos = {})
  OBVIOUS
<1> HIDE DEF scope
<1> QED
  BY <1>1, <1>2, <1>3, <1>4, StartKeeps

(* A card of modules was drawn without a narrowing, so its choice has no   *)
(* pin to leave.                                                           *)
LEMMA ChooseModuleKeeps ==
  ASSUME TurnInv, NEW i \in 1..MaxRows, ChooseModule(i)
  PROVE  TurnInv'
<1>1. i \in 1..Len(messages)
  BY DEF ChooseModule, OpenCard, Last, TurnInv, RowsKept, IsSeq
<1>2. messages[i].scope.known = {} /\ (messages[i].scope.all => messages[i].q \in permitted)
  BY <1>1 DEF ChooseModule, OpenCard, TurnInv, RowsKept, RowKept
<1>3. /\ DOMAIN turn' = TurnFields /\ turn'.at = "run" /\ turn'.q = messages[i].q
      /\ turn'.scope = messages[i].scope /\ turn'.searched = {} /\ turn'.all = FALSE
      /\ turn'.lane = "module" /\ turn'.pin = messages[i].scope.known
  BY DEF ChooseModule, Started, TurnFields
<1>4. /\ messages' = Append(messages, Row(messages[i].q, messages[i].scope, messages[i].head))
      /\ UNCHANGED <<grouping, permitted>>
  BY DEF ChooseModule, AddQuestion
<1> QED
  BY <1>2, <1>3, <1>4, StartKeeps

LEMMA FailKeeps ==
  ASSUME TurnInv, Fail \/ Remember
  PROVE  TurnInv'
<1>1. turn # None /\ turn' = None /\ UNCHANGED <<grouping, permitted>>
  BY DEF Fail, Remember, At
<1>2. PICK state \in {"error", "noted"} : messages' = [messages EXCEPT ![Last].state = state]
  BY DEF Fail, Remember
<1> DEFINE row == [messages[Last] EXCEPT !.state = state]
<1>3. messages' = [messages EXCEPT ![Last] = row]
  BY <1>2
<1>4. RowKept(row, permitted)
  BY <1>1, LastRow DEF RowKept, RowFields
<1> QED
  BY <1>1, <1>3, <1>4, LastKeeps

LEMMA AsksKeeps ==
  ASSUME TurnInv, turn # None, UNCHANGED <<grouping, permitted>>,
         NEW kind, NEW members, Asks(kind, members),
         kind = "modules" => turn.scope.known = {}
  PROVE  TurnInv'
<1> DEFINE row == [messages[Last] EXCEPT !.state = "card", !.scope = turn.scope,
                                        !.card = [kind |-> kind, members |-> members]]
<1>1. messages' = [messages EXCEPT ![Last] = row] /\ turn' = None
  BY DEF Asks
<1>2. /\ DOMAIN row = RowFields /\ row.q = turn.q /\ row.scope = turn.scope
      /\ row.card.kind = kind
  BY LastRow DEF RowFields
<1>3. RowKept(row, permitted)
  BY <1>2, LastRow DEF RowKept
<1> HIDE DEF row
<1> QED
  BY <1>1, <1>3, LastKeeps

LEMMA AnswerKeeps ==
  ASSUME TurnInv, Answer
  PROVE  TurnInv'
<1>1. turn # None /\ turn' = None /\ UNCHANGED <<grouping, permitted>>
  BY DEF Answer, At
<1>2. IsSeq(messages)
  BY DEF TurnInv, RowsKept
<1>3. messages' = [i \in 1..Len(messages) |-> messages'[i]]
  BY DEF Answer, Last
<1>4. IsSeq(messages') /\ Len(messages') = Len(messages)
  BY <1>2, <1>3, SameRows
<1>5. ASSUME NEW i \in 1..Len(messages)
      PROVE  RowKept(messages'[i], permitted)
  <2>0. RowKept(messages[i], permitted)
    BY DEF TurnInv, RowsKept
  <2>1. CASE i = Last
    <3>1. messages'[i] = [messages[i] EXCEPT !.state = "answer", !.scope = turn.scope]
      BY <2>1 DEF Answer, Last
    <3> QED
      BY <1>1, <2>1, <3>1, LastRow DEF RowKept, RowFields
  <2>2. CASE i # Last /\ i = turn.card
    <3>1. messages'[i] = [messages[i] EXCEPT !.state = "answered"]
      BY <2>2 DEF Answer, Last
    <3> QED
      BY <2>0, <3>1 DEF RowKept, RowFields
  <2>3. CASE i # Last /\ i # turn.card
    <3>1. messages'[i] = messages[i]
      BY <2>3 DEF Answer, Last
    <3> QED
      BY <2>0, <3>1
  <2> QED
    BY <2>1, <2>2, <2>3
<1>6. RowsKept'
  BY <1>1, <1>4, <1>5 DEF RowsKept
<1> QED
  BY <1>1, <1>6, EndKeeps DEF TurnInv

LEMMA RestartKeeps ==
  ASSUME TurnInv, NEW g \in Groupings, Restart(g)
  PROVE  TurnInv'
<1>1. RowsKept'
  BY RowsStand DEF Restart, TurnInv
<1> QED
  BY <1>1, EndKeeps DEF Restart

(* A turn is narrowed: within its pin and the pin's libraries, whatever    *)
(* the question and the model name.                                        *)
LEMMA UnderstandKeeps ==
  ASSUME TurnInv, NEW guess, NEW all \in BOOLEAN, Understand(guess, all)
  PROVE  TurnInv'
<1> DEFINE live == ResolveRepos(turn.pin, {})
<1>0. WellFormed(grouping)
  BY GroupingsLoad DEF TurnInv
<1>1. /\ turn # None /\ turn.at = "run" /\ turn.lane = "fresh" /\ DOMAIN turn = TurnFields
      /\ turn.searched = {}
      /\ UNCHANGED <<grouping, messages>>
      /\ permitted \subseteq permitted' /\ (all => turn.q \in permitted')
      /\ turn.all => turn.q \in permitted
  BY DEF Understand, At, TurnInv, TurnOfRow, TurnOfLane
<1>2. \/ /\ turn.pin = {}
         /\ turn' = [turn EXCEPT !.at = "scoped", !.scope = FreeScope(guess, all)]
      \/ /\ turn.pin # {} /\ turn.pin \subseteq live
         /\ turn' = [turn EXCEPT !.at = "scoped", !.scope = PinnedScope(guess, live)]
  BY DEF Understand, PinResolves
<1>3. /\ DOMAIN turn' = TurnFields /\ turn'.at = "scoped" /\ turn'.lane = "fresh" /\ turn'.q = turn.q
      /\ turn'.pin = turn.pin /\ turn'.all = turn.all /\ turn'.searched = {}
  BY <1>1, <1>2 DEF TurnFields
<1>4. turn'.scope.all => turn.q \in permitted'
  <2>1. CASE turn.pin = {}
    <3>1. turn'.scope = FreeScope(guess, all)
      BY <1>1, <1>2, <2>1 DEF TurnFields
    <3> QED
      BY <1>1, <3>1 DEF FreeScope
  <2>2. CASE turn.pin # {}
    <3>1. turn'.scope = PinnedScope(guess, live)
      BY <1>1, <1>2, <2>2 DEF TurnFields
    <3> QED
      BY <3>1 DEF PinnedScope
  <2> QED
    BY <2>1, <2>2
<1>5. live \subseteq Enabled(grouping)
  BY <1>0, ResolveEnabled
<1>6. /\ turn'.scope.known \subseteq Enabled(grouping)
      /\ turn.pin # {} => /\ turn.pin \subseteq Enabled(grouping)
                          /\ turn'.scope.known # {} /\ turn'.scope.known \subseteq Near(turn.pin)
  <2>1. CASE turn.pin = {}
    <3>1. turn'.scope = FreeScope(guess, all)
      BY <1>1, <1>2, <2>1 DEF TurnFields
    <3> QED
      BY <1>0, <2>1, <3>1, ResolveEnabled DEF FreeScope
  <2>2. CASE turn.pin # {}
    <3>1. turn'.scope = PinnedScope(guess, live)
      BY <1>1, <1>2, <2>2 DEF TurnFields
    <3>2. turn'.scope.known # {} /\ turn'.scope.known \subseteq live
      BY <1>2, <2>2, <3>1 DEF PinnedScope
    <3>3. turn.pin \subseteq Enabled(grouping)
      BY <1>2, <1>5, <2>2
    <3>4. live \subseteq Near(turn.pin)
      BY <1>0, <3>3, ResolveNear
    <3> QED
      BY <1>5, <3>2, <3>3, <3>4
  <2> QED
    BY <2>1, <2>2
<1>7. RowsKept'
  BY <1>1, RowsStand DEF TurnInv
<1>8. TurnOfRow' /\ TurnOfLane'
  BY <1>1, <1>3, <1>4 DEF TurnInv, TurnOfRow, TurnOfLane
<1>9. TurnNarrowed'
  BY <1>1, <1>3, <1>6 DEF TurnNarrowed, Near, BuiltOn
<1>10. Funnel' /\ NoParkedSource' /\ RecordSearched' /\ AskedFirst'
  BY <1>3 DEF Funnel, NoParkedSource, RecordSearched, AskedFirst, At
<1> QED
  BY <1>1, <1>7, <1>8, <1>9, <1>10 DEF TurnInv

(* What a search of the narrowing leaves the router or the walk with.      *)
LEMMA SearchedKeeps ==
  ASSUME TurnInv, turn # None, UNCHANGED <<grouping, messages, permitted>>,
         turn.lane \in {"fresh", "repos"},
         NEW restriction, NEW hits \in SUBSET restriction, Searched(restriction, hits),
         restriction \subseteq Enabled(grouping), turn.scope.known \subseteq restriction,
         turn.pin # {} => /\ turn.pin \subseteq Enabled(grouping) /\ turn.scope.known # {}
                          /\ turn.scope.known \subseteq Near(turn.pin)
                          /\ restriction \subseteq Near(turn.pin)
  PROVE  TurnInv'
<1>1. DOMAIN turn = TurnFields
  BY DEF TurnInv, TurnOfRow
<1>2. /\ DOMAIN turn' = TurnFields /\ turn'.q = turn.q /\ turn'.lane = turn.lane
      /\ turn'.at = (IF turn.lane = "fresh" THEN "route" ELSE "gather")
      /\ turn'.pin = turn.pin /\ turn'.all = turn.all /\ turn'.scope = turn.scope
      /\ turn'.searched = restriction /\ turn'.hits = hits
  BY <1>1 DEF Searched, TurnFields
<1>3. RowsKept'
  BY RowsStand DEF TurnInv
<1>4. TurnOfRow' /\ TurnOfLane'
  BY <1>2 DEF TurnInv, TurnOfRow, TurnOfLane
<1>5. TurnNarrowed'
  BY <1>2 DEF TurnNarrowed, Near, BuiltOn
<1>6. Funnel'
  BY <1>2 DEF Funnel, Near, BuiltOn, At
<1>7. NoParkedSource' /\ RecordSearched' /\ AskedFirst'
  BY <1>2 DEF NoParkedSource, RecordSearched, AskedFirst, At
<1> QED
  BY <1>3, <1>4, <1>5, <1>6, <1>7 DEF TurnInv

LEMMA SearchKeeps ==
  ASSUME TurnInv, Search
  PROVE  TurnInv'
<1> DEFINE known == turn.scope.known
           mentioned == IF turn.pin = {} THEN Mentioned[turn.q] ELSE {}
           restriction == SearchScoped(known, mentioned, OnlyOneProduct(known))
<1>0. WellFormed(grouping)
  BY GroupingsLoad DEF TurnInv
<1>1. /\ turn # None /\ turn.at = "scoped" /\ turn.lane = "fresh"
      /\ UNCHANGED <<grouping, messages, permitted>>
  BY DEF Search, At, TurnInv, TurnOfLane
<1>2. PICK hits \in SUBSET restriction : Searched(restriction, hits)
  BY DEF Search
<1>3. /\ known \subseteq Enabled(grouping)
      /\ turn.pin # {} => turn.pin \subseteq Enabled(grouping) /\ known # {} /\ known \subseteq Near(turn.pin)
  BY <1>1 DEF TurnInv, TurnNarrowed
<1> HIDE DEF known
<1>4. restriction \subseteq Enabled(grouping) /\ known \subseteq restriction
  BY <1>0, <1>3, SearchWithin
<1>5. turn.pin # {} => restriction \subseteq Near(turn.pin)
  <2> HAVE turn.pin # {}
  <2>1. restriction = SearchScoped(known, {}, OnlyOneProduct(known))
    OBVIOUS
  <2>2. restriction \subseteq Near(known)
    BY <1>0, <1>3, <2>1, SearchWithin
  <2>3. Near(known) \subseteq Near(turn.pin)
    BY <1>0, <1>3, NearOnce
  <2> QED
    BY <2>2, <2>3
<1>6. turn.scope.known = known
  BY DEF known
<1> HIDE DEF restriction
<1> QED
  BY <1>1, <1>2, <1>3, <1>4, <1>5, <1>6, SearchedKeeps

(* A choice off a card is searched whole or not at all.                    *)
LEMMA ResumeRepoKeeps ==
  ASSUME TurnInv, ResumeRepo
  PROVE  TurnInv'
<1> DEFINE repos == turn.scope.known
           known == ResolveRepos(repos, {})
           restriction == IF repos = {} THEN Restriction({}, Mentioned[turn.q])
                          ELSE SearchScoped(known, {}, OnlyOneProduct(repos))
<1>0. WellFormed(grouping)
  BY GroupingsLoad DEF TurnInv
<1>1. /\ turn # None /\ turn.lane = "repos" /\ turn.pin = repos
      /\ UNCHANGED <<grouping, messages, permitted>>
  BY DEF ResumeRepo, At, TurnInv, TurnOfLane
<1>2. repos \subseteq known
  BY DEF ResumeRepo
<1>3. PICK hits \in SUBSET restriction : Searched(restriction, hits)
  BY DEF ResumeRepo
<1>4. turn.scope.known = repos
  OBVIOUS
<1> HIDE DEF repos
<1>5. known \subseteq Enabled(grouping)
  BY <1>0, ResolveEnabled
<1>6. repos \subseteq Enabled(grouping)
  BY <1>2, <1>5
<1>7. known \subseteq Near(repos)
  BY <1>0, <1>6, ResolveNear
<1>8. CASE repos = {}
  <2>1. restriction = Restriction({}, Mentioned[turn.q])
    BY <1>8
  <2>2. restriction \subseteq Enabled(grouping)
    BY <1>0, <2>1, ResolveEnabled DEF Restriction
  <2> HIDE DEF restriction
  <2> QED
    BY <1>1, <1>3, <1>4, <1>8, <2>2, SearchedKeeps
<1>9. CASE repos # {}
  <2>1. restriction = SearchScoped(known, {}, OnlyOneProduct(repos))
    BY <1>9
  <2>2. known # {}
    BY <1>2, <1>9
  <2> HIDE DEF known
  <2>3. /\ restriction \subseteq Enabled(grouping) /\ known \subseteq restriction
        /\ restriction \subseteq Near(known)
    BY <1>0, <1>5, <2>1, <2>2, SearchWithin
  <2>4. Near(known) \subseteq Near(repos)
    BY <1>0, <1>6, <1>7, NearOnce
  <2>5. repos \subseteq Near(repos)
    BY DEF Near
  <2> HIDE DEF restriction
  <2> QED
    BY <1>1, <1>2, <1>3, <1>4, <1>6, <1>9, <2>3, <2>4, <2>5, SearchedKeeps
<1> QED
  BY <1>8, <1>9

(* A card's stored hits go on only while they still resolve.               *)
LEMMA ResumeKeeps ==
  ASSUME TurnInv, Resume
  PROVE  TurnInv'
<1>0. WellFormed(grouping)
  BY GroupingsLoad DEF TurnInv
<1>1. /\ turn # None /\ turn.lane = "module" /\ turn.at = "run" /\ DOMAIN turn = TurnFields
      /\ UNCHANGED <<grouping, messages, permitted>>
      /\ turn.hits \subseteq ResolveRepos(turn.hits, {})
      /\ turn' = [turn EXCEPT !.at = "gather"]
  BY DEF Resume, At, TurnInv, TurnOfRow
<1>2. turn.pin = {} /\ turn.scope.known = {} /\ turn.searched = {}
  BY <1>1 DEF TurnInv, TurnOfLane
<1>3. turn.hits \subseteq Enabled(grouping)
  BY <1>0, <1>1, ResolveEnabled
<1>4. /\ DOMAIN turn' = TurnFields /\ turn'.at = "gather" /\ turn'.lane = "module" /\ turn'.q = turn.q
      /\ turn'.pin = {} /\ turn'.all = turn.all /\ turn'.scope = turn.scope
      /\ turn'.searched = {} /\ turn'.hits = turn.hits
  BY <1>1, <1>2 DEF TurnFields
<1>5. RowsKept'
  BY <1>1, RowsStand DEF TurnInv
<1>6. TurnOfRow' /\ TurnOfLane' /\ TurnNarrowed'
  BY <1>1, <1>2, <1>3, <1>4 DEF TurnInv, TurnOfRow, TurnOfLane, TurnNarrowed
<1>7. Funnel' /\ NoParkedSource' /\ RecordSearched' /\ AskedFirst'
  BY <1>4 DEF Funnel, NoParkedSource, RecordSearched, AskedFirst, At
<1> QED
  BY <1>1, <1>5, <1>6, <1>7 DEF TurnInv

(* A turn that goes on to the walk from the router.                        *)
LEMMA AnswersKeeps ==
  ASSUME TurnInv, At("route"), UNCHANGED <<grouping, permitted>>,
         NEW mixed, Answers(mixed),
         mixed /\ turn.scope.known = {} => turn.q \in permitted
  PROVE  TurnInv'
<1>1. /\ turn # None /\ turn.lane = "fresh" /\ turn.at = "route" /\ DOMAIN turn = TurnFields
      /\ UNCHANGED messages
      /\ turn' = [turn EXCEPT !.at = "gather", !.searched = {}, !.mixed = mixed]
  BY DEF At, Answers, TurnInv, TurnOfRow, TurnOfLane
<1>2. /\ DOMAIN turn' = TurnFields /\ turn'.at = "gather" /\ turn'.lane = "fresh" /\ turn'.q = turn.q
      /\ turn'.pin = turn.pin /\ turn'.all = turn.all /\ turn'.scope = turn.scope
      /\ turn'.searched = {} /\ turn'.hits = turn.hits /\ turn'.mixed = mixed
  BY <1>1 DEF TurnFields
<1>3. RowsKept'
  BY <1>1, RowsStand DEF TurnInv
<1>4. TurnOfRow' /\ TurnOfLane'
  BY <1>1, <1>2 DEF TurnInv, TurnOfRow, TurnOfLane
<1>5. TurnNarrowed'
  BY <1>1, <1>2 DEF TurnInv, TurnNarrowed, Near, BuiltOn
<1>6. Funnel' /\ NoParkedSource' /\ RecordSearched' /\ AskedFirst'
  BY <1>2 DEF Funnel, NoParkedSource, RecordSearched, AskedFirst, At
<1> QED
  BY <1>3, <1>4, <1>5, <1>6 DEF TurnInv

LEMMA DistinctIsNat ==
  ASSUME WellFormed(grouping), NEW rs \in SUBSET Enabled(grouping)
  PROVE  Distinct(grouping, rs) \in Nat
<1>1. DOMAIN Fold(grouping, rs) \subseteq Names
  BY DEF Fold, Present, Of, Enabled, Libraries, WellFormed, Grouping
<1>2. IsFiniteSet(DOMAIN Fold(grouping, rs))
  BY <1>1, NamesFinite, FS_Subset
<1> QED
  BY <1>2, FS_CardinalityType DEF Distinct

(* The ladder: unrelated products go together only past a permission, and  *)
(* modules are asked about only when nothing narrows the turn.             *)
LEMMA RouteKeeps ==
  ASSUME TurnInv, Route
  PROVE  TurnInv'
<1>0. WellFormed(grouping)
  BY GroupingsLoad DEF TurnInv
<1>1. /\ turn # None /\ turn.at = "route" /\ At("route") /\ UNCHANGED <<grouping, permitted>>
      /\ turn.hits \subseteq Enabled(grouping)
      /\ turn.scope.all => turn.q \in permitted
  <2>1. At("route") /\ UNCHANGED <<grouping, permitted>>
    BY DEF Route
  <2>2. turn # None /\ turn.at = "route"
    BY <2>1 DEF At
  <2>3. turn.hits \subseteq Enabled(grouping)
    BY <2>2 DEF TurnInv, TurnNarrowed
  <2> QED
    BY <2>1, <2>2, <2>3, LastRow
<1> DEFINE settled == turn.scope.known # {} \/ turn.scope.all
<1>2. PICK offered \in SUBSET turn.hits, related \in BOOLEAN :
        \/ settled /\ Answers(Distinct(grouping, offered) > 1 /\ ~related)
        \/ Answers(FALSE)
        \/ ~SpansRepos(offered) /\ Answers(Distinct(grouping, offered) > 1)
        \/ \E kind, members : ~settled /\ Asks(kind, members)
  BY DEF Route
<1>3. CASE settled /\ Answers(Distinct(grouping, offered) > 1 /\ ~related)
  BY <1>1, <1>3, AnswersKeeps
<1>4. CASE Answers(FALSE)
  BY <1>1, <1>4, AnswersKeeps
<1>5. CASE ~SpansRepos(offered) /\ Answers(Distinct(grouping, offered) > 1)
  <2>1. Distinct(grouping, offered) \in Nat
    BY <1>0, <1>1, DistinctIsNat
  <2>2. ~(Distinct(grouping, offered) > 1)
    BY <1>5, <2>1 DEF SpansRepos
  <2> QED
    BY <1>1, <1>5, <2>2, AnswersKeeps
<1>6. CASE \E kind, members : ~settled /\ Asks(kind, members)
  BY <1>1, <1>6, AsksKeeps
<1> QED
  BY <1>2, <1>3, <1>4, <1>5, <1>6

(* Where a turn that was narrowed may read.                                *)
LEMMA PinCeiling ==
  ASSUME WellFormed(grouping), NEW pin \in SUBSET Enabled(grouping), pin # {}
  PROVE  /\ Near(pin) \subseteq Enabled(grouping) /\ Near(pin) # {}
         /\ Near(pin) \subseteq Ceiling(Near(pin), {})
         /\ \A r \in Near(pin) : Members(grouping, Of(grouping, r)) \subseteq Ceiling(Near(pin), {})
<1>1. Near(pin) \subseteq Enabled(grouping) /\ Near(pin) # {}
  <2>1. Near(pin) \in SUBSET Near(pin)
    OBVIOUS
  <2> QED
    BY <2>1, NearOnce DEF Near
<1>2. Near(pin) \subseteq Ceiling(Near(pin), {})
  BY <1>1, CeilingWithin
<1> QED
  BY <1>1, <1>2 DEF Ceiling

LEMMA AnswerChangesKeeps ==
  ASSUME TurnInv, AnswerChanges
  PROVE  TurnInv'
<1>0. WellFormed(grouping)
  BY GroupingsLoad DEF TurnInv
<1>1. turn # None /\ turn.at = "scoped" /\ UNCHANGED <<grouping, messages, permitted>>
  BY DEF AnswerChanges, At
<1>2. /\ turn.scope.known \subseteq Enabled(grouping)
      /\ turn.pin # {} => /\ turn.pin \subseteq Enabled(grouping)
                          /\ turn.scope.known # {} /\ turn.scope.known \subseteq Near(turn.pin)
  BY <1>1 DEF TurnInv, TurnNarrowed
<1>3. PICK repos : /\ GoesTo("changes", repos)
                   /\ repos \subseteq IF turn.scope.known = {} THEN Enabled(grouping) ELSE turn.scope.known
  BY DEF AnswerChanges
<1>4. repos \subseteq Enabled(grouping)
  BY <1>2, <1>3
<1>5. turn.pin # {} => repos \subseteq Ceiling(Near(turn.pin), {})
  BY <1>0, <1>2, <1>3, PinCeiling
<1> QED
  BY <1>1, <1>3, <1>4, <1>5, GoesToKeeps

LEMMA AnswerReleaseKeeps ==
  ASSUME TurnInv, AnswerRelease
  PROVE  TurnInv'
<1>0. WellFormed(grouping)
  BY GroupingsLoad DEF TurnInv
<1>1. turn # None /\ turn.at = "scoped" /\ UNCHANGED <<grouping, messages, permitted>>
  BY DEF AnswerRelease, At
<1>2. turn.pin # {} => /\ turn.pin \subseteq Enabled(grouping)
                       /\ turn.scope.known # {} /\ turn.scope.known \subseteq Near(turn.pin)
  BY <1>1 DEF TurnInv, TurnNarrowed
<1>3. PICK p, repos : /\ turn.scope.known # {} => \E r \in turn.scope.known : Of(grouping, r) = p
                      /\ repos \subseteq Own(grouping, p) /\ GoesTo("release", repos)
  BY DEF AnswerRelease
<1>4. repos \subseteq Enabled(grouping) /\ Own(grouping, p) \subseteq Members(grouping, p)
  BY <1>3 DEF Own, Members
<1>5. turn.pin # {} => repos \subseteq Ceiling(Near(turn.pin), {})
  BY <1>0, <1>2, <1>3, <1>4, PinCeiling
<1> QED
  BY <1>1, <1>3, <1>4, <1>5, GoesToKeeps

LEMMA AnswerReworkKeeps ==
  ASSUME TurnInv, AnswerRework
  PROVE  TurnInv'
<1>1. turn # None /\ GoesTo("rework", {}) /\ UNCHANGED <<grouping, messages, permitted>>
  BY DEF AnswerRework, At
<1> QED
  BY <1>1, GoesToKeeps

LEMMA GatherKeeps ==
  ASSUME TurnInv, Gather
  PROVE  TurnInv'
<1>0. WellFormed(grouping)
  BY GroupingsLoad DEF TurnInv
<1>1. turn # None /\ turn.at = "gather" /\ UNCHANGED <<grouping, messages, permitted>>
  BY DEF Gather, At
<1>2. /\ turn.scope.known \subseteq Enabled(grouping) /\ turn.hits \subseteq Enabled(grouping)
      /\ turn.pin # {} => /\ turn.pin \subseteq Enabled(grouping) /\ turn.hits \subseteq Near(turn.pin)
                          /\ turn.scope.known # {} /\ turn.scope.known \subseteq Near(turn.pin)
  BY <1>1 DEF TurnInv, TurnNarrowed
<1>3. PICK more \in SUBSET Ceiling(turn.scope.known, turn.hits) : GoesTo(turn.lane, turn.hits \cup more)
  BY DEF Gather
<1>4. turn.hits \cup more \subseteq Enabled(grouping)
  BY <1>0, <1>2, <1>3, CeilingWithin
<1>5. turn.pin # {} => turn.hits \cup more \subseteq Ceiling(Near(turn.pin), {})
  <2> HAVE turn.pin # {}
  <2>1. /\ Near(turn.pin) \subseteq Enabled(grouping)
        /\ Near(turn.pin) \subseteq Ceiling(Near(turn.pin), {})
    BY <1>0, <1>2, PinCeiling
  <2>2. Ceiling(turn.scope.known, turn.hits) \subseteq Ceiling(Near(turn.pin), {})
    BY <1>0, <1>2, <2>1, CeilingWithin
  <2> QED
    BY <1>2, <1>3, <2>1, <2>2
<1> QED
  BY <1>1, <1>3, <1>4, <1>5, GoesToKeeps

-----------------------------------------------------------------------------
LEMMA StutterKeeps ==
  ASSUME TurnInv, UNCHANGED vars
  PROVE  TurnInv'
BY DEF vars, TurnInv, RowsKept, RowKept, TurnOfRow, TurnOfLane, TurnNarrowed, Funnel, NoParkedSource,
     RecordSearched, AskedFirst, At, Near, BuiltOn, Ceiling, IsSeq

LEMMA InvNext == TurnInv /\ [Next]_vars => TurnInv'
<1> SUFFICES ASSUME TurnInv, [Next]_vars
             PROVE  TurnInv'
  OBVIOUS
<1>1. CASE UNCHANGED vars
  BY <1>1, StutterKeeps
<1>2. CASE \E q \in Questions : Type(q)
  BY <1>2, TypeKeeps
<1>3. CASE \E i \in 1..MaxRows, q \in Questions : Retry(i, q)
  BY <1>3, RetryKeeps
<1>4. CASE \E i \in 1..MaxRows : Choose(i) \/ Narrow(i)
  BY <1>4, ChooseReposKeeps DEF Choose, Narrow
<1>5. CASE \E i \in 1..MaxRows : ChooseModule(i)
  BY <1>5, ChooseModuleKeeps
<1>6. CASE \E guess \in Guesses, all \in BOOLEAN : Understand(guess, all)
  BY <1>6, UnderstandKeeps
<1>7. CASE Search \/ ResumeRepo \/ Resume \/ Route
  BY <1>7, SearchKeeps, ResumeRepoKeeps, ResumeKeeps, RouteKeeps
<1>8. CASE AnswerChanges \/ AnswerRelease \/ AnswerRework \/ Gather
  BY <1>8, AnswerChangesKeeps, AnswerReleaseKeeps, AnswerReworkKeeps, GatherKeeps
<1>9. CASE Answer \/ Fail \/ Remember
  BY <1>9, AnswerKeeps, FailKeeps
<1>10. CASE \E g \in Groupings : Restart(g)
  BY <1>10, RestartKeeps
<1> QED
  BY <1>1, <1>2, <1>3, <1>4, <1>5, <1>6, <1>7, <1>8, <1>9, <1>10 DEF Next

LEMMA InvHolds == Spec => []TurnInv
BY InvInit, InvNext, PTL DEF Spec

(* A follow-up stays in its thread's repositories and the libraries they   *)
(* are built on, whatever it names, and reads no further than their        *)
(* products: for every repos.yaml, any number of rows and restarts.        *)
THEOREM ThreadIsFunnel == Spec => []Funnel
<1>1. TurnInv => Funnel
  BY DEF TurnInv
<1> QED
  BY <1>1, InvHolds, PTL

(* No card, pin or retry brings a parked repository back into an answer.   *)
THEOREM ParkedStaysOut == Spec => []NoParkedSource
<1>1. TurnInv => NoParkedSource
  BY DEF TurnInv
<1> QED
  BY <1>1, InvHolds, PTL

(* A turn searches every repository its record will name, or fails.        *)
THEOREM RecordIsTrue == Spec => []RecordSearched
<1>1. TurnInv => RecordSearched
  BY DEF TurnInv
<1> QED
  BY <1>1, InvHolds, PTL

(* Unrelated products meet in an answer only by the reader's permission    *)
(* for that question.                                                      *)
THEOREM PermissionFirst == Spec => []AskedFirst
<1>1. TurnInv => AskedFirst
  BY DEF TurnInv
<1> QED
  BY <1>1, InvHolds, PTL

(* An answer reads what its row says and what is still there, for every    *)
(* repos.yaml, any number of rows and restarts.                            *)
THEOREM SourcesMatchRecord == Spec => []SourcesAsRecorded
<1>1. TurnInv => SourcesAsRecorded
  BY DEF TurnInv, SourcesAsRecorded
<1> QED
  BY <1>1, InvHolds, PTL
=============================================================================
