------------------------------- MODULE Gather -------------------------------
(***************************************************************************)
(* What a turn reads before its answer is written (ask.Gatherer): the hits *)
(* and the files they sit in, the symbol walk, the crossings into other    *)
(* repositories, the gap pass and the locate loop, one after the other     *)
(* under one token budget, each with a reserve the earlier ones leave it,  *)
(* all below the turn's ceiling.                                           *)
(*                                                                         *)
(* A chunk is a name with a cost and a file; the reference, edge and       *)
(* symbol tables are constants. A list the code admits in order until one  *)
(* does not fit is any subset that leaves room for none of the rest.       *)
(***************************************************************************)
EXTENDS Integers, Sequences, FiniteSets, FiniteSetsExt

CONSTANTS
  Chunks,      \* the index
  None,        \* no chunk: no conclusion, or one that names no place
  NotFound,    \* a conclusion that says the place is not in the index
  Cost,        \* estimateTokens of each chunk
  FileOf,      \* the file each chunk is of
  RepoOf,      \* and its repository
  Refs,        \* referenced: what a chunk's text names
  Far,         \* crossings: where a file's tokens lead, by file
  Property,    \* the landings that are reached over a property key
  Config,      \* those of them from one configuration file to another
  Defined,     \* the landings of each name the gap pass may ask for
  TokenBudget,
  MaxHops,
  CrossingReserve, GapReserve, LocateReserve,
  MaxCalls,    \* locateMaxCalls
  MaxLandings, \* locateMaxLandings
  Rounds,      \* how often the model may look
  MaxHits,     \* bound on the hits and seeds a turn starts with
  MaxAsked     \* bound on the calls one reply holds

ASSUME BudgetShares ==
  /\ {TokenBudget, MaxHops, MaxCalls, MaxLandings, MaxHits, MaxAsked} \subseteq Nat
  /\ {CrossingReserve, GapReserve, LocateReserve, Rounds} \subseteq Nat \ {0}

ASSUME ChunkTables ==
  /\ {None, NotFound} \cap Chunks = {} /\ None # NotFound
  /\ IsFiniteSet(Chunks)
  /\ Cost \in [Chunks -> Nat \ {0}] /\ DOMAIN FileOf = Chunks /\ DOMAIN RepoOf = Chunks
  /\ Refs \in [Chunks -> SUBSET Chunks]
  /\ \A c \in Chunks : Far[FileOf[c]] \subseteq Chunks
  /\ Config \subseteq Property
  /\ \A n \in DOMAIN Defined : Defined[n] \subseteq Chunks

VARIABLES
  pc,
  on,        \* which of "crossing", "gap" and "locate" this turn runs
  hits,      \* what the turn starts from, seeds included
  allowed,   \* the chunks below the turn's ceiling
  worded,    \* withTerms found a word in the question
  out,       \* the sources, in no order
  spent,     \* what the admitter has charged
  frontier,  \* what the next symbol hop, or the next crossing, starts from
  hop,       \* hops taken
  files,     \* files the current pass has not read yet
  landings,  \* where the file at hand leads and is not yet followed
  later,     \* property landings held back for the second pass
  config,    \* tokens spent from configuration to configuration
  names,     \* names of the gap pass still to resolve
  round, asks,      \* looks taken, and model calls of the locate loop
  called, results,  \* the calls of the last reply, and those answered so far
  ran, shown,       \* a lookup ran; the files the model was shown
  found, first      \* the conclusion, and the source put in front

vars == <<pc, on, hits, allowed, worded, out, spent, frontier, hop, files, landings,
          later, config, names, round, asks, called, results, ran, shown, found, first>>

walk == <<frontier, hop, files, landings, later, config, names>>

loop == <<round, asks, called, results, ran, shown, found, first>>

setting == <<on, hits, allowed, worded>>

-----------------------------------------------------------------------------
TokensOf(cs) == MapThenSumSet(LAMBDA c : Cost[c], cs)

FilesOf(cs) == {FileOf[c] : c \in cs}

Share(pass, reserve) == IF pass \in on THEN TokenBudget \div reserve ELSE 0

\* What each pass may spend up to: the later ones' reserves stay untouched.
Budget(pass) ==
  CASE pass = "symbols"  -> TokenBudget - Share("crossing", CrossingReserve)
                              - Share("gap", GapReserve) - Share("locate", LocateReserve)
    [] pass = "crossing" -> TokenBudget - Share("gap", GapReserve) - Share("locate", LocateReserve)
    [] pass = "gap"      -> TokenBudget - Share("locate", LocateReserve)
    [] pass = "locate"   -> TokenBudget

\* The chunks of cs a list's admission comes to charge for.
New(cs) == (cs \cap allowed) \ out

\* Mutant: a list is admitted whole when its first chunk fits.
TakenByFirst(cs, budget) ==
  {a \in {{}, New(cs)} : a # {} => \E c \in a : spent + Cost[c] <= budget}

\* What is admitted of cs in some order, until one does not fit.
Taken(cs, budget) ==
  {a \in SUBSET New(cs) :
     /\ a # {} => spent + TokensOf(a) <= budget
     /\ a = New(cs) \/ \E c \in New(cs) \ a : spent + TokensOf(a) + Cost[c] > budget}

Admit(a) ==
  /\ out' = out \cup a
  /\ spent' = spent + TokensOf(a)

-----------------------------------------------------------------------------
(* GatherSeeded.                                                           *)

\* The hits and the census landings, whatever they cost.
Start ==
  /\ pc = "start"
  /\ out' = hits
  /\ spent' = TokensOf(hits)
  /\ files' = FilesOf(hits)
  /\ pc' = IF hits = {} THEN "gap" ELSE "files"
  /\ UNCHANGED <<setting, frontier, hop, landings, later, config, names, loop>>

\* wholeFile: every chunk of a small file, those of the hit's symbol in another.
FileChunks(f) == SUBSET {c \in Chunks : FileOf[c] = f}

\* The rest of a hit's file.
WholeFile(f) ==
  /\ pc = "files" /\ f \in files
  /\ \E more \in FileChunks(f) :
       \E a \in Taken(more, Budget("symbols")) : Admit(a)
  /\ files' = files \ {f}
  /\ UNCHANGED <<pc, setting, frontier, hop, landings, later, config, names, loop>>

WalkStarts ==
  /\ pc = "files" /\ files = {}
  /\ frontier' = out
  /\ pc' = "walk"
  /\ UNCHANGED <<setting, out, spent, hop, files, landings, later, config, names, loop>>

Named == UNION {Refs[c] : c \in frontier}

\* Mutant: the next hop starts from every reference, admitted or not.
HopFromAll ==
  /\ pc = "walk" /\ hop < MaxHops /\ frontier # {}
  /\ \E a \in Taken(Named, Budget("symbols")) : Admit(a)
  /\ frontier' = Named
  /\ hop' = hop + 1
  /\ UNCHANGED <<pc, setting, files, landings, later, config, names, loop>>

\* Mutant: the walk goes on from whatever was named, for as long as anything is.
HopAgain ==
  /\ pc = "walk" /\ hop < MaxHops /\ frontier # {}
  /\ \E a \in Taken(Named, Budget("symbols")) : Admit(a) /\ frontier' = Named \cap (out \cup a)
  /\ UNCHANGED <<pc, setting, hop, files, landings, later, config, names, loop>>

\* One hop over everything the frontier names; a refusal ends the walk.
Hop ==
  /\ pc = "walk" /\ hop < MaxHops /\ frontier # {}
  /\ \E a \in Taken(Named, Budget("symbols")) :
       /\ Admit(a)
       /\ frontier' = IF a = New(Named) THEN a ELSE {}
  /\ hop' = hop + 1
  /\ UNCHANGED <<pc, setting, files, landings, later, config, names, loop>>

WalkEnds ==
  /\ pc = "walk" /\ (hop = MaxHops \/ frontier = {})
  /\ files' = IF "crossing" \in on THEN FilesOf(out) ELSE {}
  /\ pc' = IF "crossing" \in on THEN "cross" ELSE "gap"
  /\ frontier' = {} /\ hop' = 0
  /\ UNCHANGED <<setting, out, spent, landings, later, config, names, loop>>

\* crossings: the far ends of the file's tokens, as the question's words and
\* the stage leave them.
Crossings(f) == SUBSET Far[f]

\* One file crosses once; its property landings wait for the second pass.
Cross(f) ==
  /\ pc = "cross" /\ landings = {} /\ f \in files
  /\ \E far \in Crossings(f) :
       /\ landings' = far \ Property
       /\ later' = later \cup (far \cap Property)
  /\ files' = files \ {f}
  /\ UNCHANGED <<pc, setting, out, spent, frontier, hop, config, names, loop>>

\* land: the landing and one symbol hop on its far side, unless a property key
\* led to it. One outside the ceiling is not followed either, and a refusal
\* ends the crossing.
Lands(c) ==
  LET reach == IF c \in Property \/ New({c}) = {} THEN {c} ELSE {c} \cup Refs[c]
  IN  \E a \in Taken(reach, Budget("crossing")) :
        /\ New({c}) # {} => (c \in a <=> spent + Cost[c] <= Budget("crossing"))
        /\ c \notin a => a = {}
        /\ Admit(a)
        /\ IF a = New(reach) THEN UNCHANGED pc ELSE pc' = "gap"

Land(c) ==
  /\ pc = "cross" /\ c \in landings
  /\ Lands(c)
  /\ landings' = landings \ {c}
  /\ UNCHANGED <<setting, frontier, hop, files, later, config, names, loop>>

CrossLater ==
  /\ pc = "cross" /\ landings = {} /\ files = {}
  /\ pc' = "later"
  /\ UNCHANGED <<setting, out, spent, walk, loop>>

\* The held-back landings; from configuration to configuration they share
\* the crossing reserve, unless the question has no words to narrow them by.
Later(c) ==
  /\ pc = "later" /\ c \in later
  /\ LET capped == worded /\ c \in Config
         over   == c \in out \/ config + Cost[c] > TokenBudget \div CrossingReserve
     IN  \/ capped /\ over /\ UNCHANGED <<pc, out, spent, config>>
         \/ capped /\ ~over /\ config' = config + Cost[c] /\ Lands(c)
         \/ ~capped /\ Lands(c) /\ UNCHANGED config
  /\ later' = later \ {c}
  /\ UNCHANGED <<setting, frontier, hop, files, landings, names, loop>>

CrossEnds ==
  /\ pc = "later" /\ later = {}
  /\ pc' = "gap"
  /\ UNCHANGED <<setting, out, spent, walk, loop>>

-----------------------------------------------------------------------------
(* FillGaps.                                                               *)

\* gapNames: what is left of the reply, nothing twice, nothing that is there.
Askable == SUBSET DOMAIN Defined

\* resolve: the places the symbol or the edge table has for a name, below the
\* ceiling before the cap on landings is applied.
Landings(n) == Defined[n] \cap allowed

\* The call's own failure, a reply that is no JSON, or no name left to ask
\* leaves the sources as they are.
FillGaps ==
  /\ pc = "gap"
  /\ spent' = TokensOf(out)
  /\ \/ names' = {} /\ pc' = "locate"
     \/ /\ "gap" \in on /\ out # {}
        /\ \E asked \in Askable : names' = asked
        /\ pc' = "names"
  /\ files' = {} /\ landings' = {} /\ later' = {} /\ config' = 0
  /\ UNCHANGED <<setting, out, frontier, hop, loop>>

\* One name; a landing the reserve cannot hold refuses every later name.
Resolve(n) ==
  /\ pc = "names" /\ n \in names
  /\ \E a \in Taken(Landings(n), Budget("gap")) :
       /\ Admit(a)
       /\ names' = IF a = New(Landings(n)) THEN names \ {n} ELSE {}
  /\ UNCHANGED <<pc, setting, frontier, hop, files, landings, later, config, loop>>

GapsFilled ==
  /\ pc = "names" /\ names = {}
  /\ pc' = "locate"
  /\ UNCHANGED <<setting, out, spent, walk, loop>>

-----------------------------------------------------------------------------
(* Locate.                                                                 *)

\* Off for a resumed turn, whose gatherer runs without the loop.
LocateStarts ==
  /\ pc = "locate"
  /\ spent' = TokensOf(out)
  /\ pc' = IF "locate" \in on /\ out # {} THEN "look" ELSE "done"
  /\ UNCHANGED <<setting, out, walk, loop>>

\* The calls of a reply in order, answered or not.
Calls(n) == [i \in 1..n |-> i]

\* The round is counted before the call, and the call is paid for either way.
Ask == round' = round + 1 /\ asks' = asks + 1

\* A reply with calls, a cut one with its complete calls included.
LookCalls(n) ==
  /\ pc = "look" /\ round < Rounds
  /\ Ask
  /\ called' = n /\ results' = <<>>
  /\ pc' = "tools"
  /\ UNCHANGED <<setting, out, spent, walk, ran, shown, found, first>>

\* A reply without calls is the conclusion, kept if a lookup ran before it.
LookDone(place) ==
  /\ pc = "look" /\ round < Rounds
  /\ Ask
  /\ found' = IF ran THEN place ELSE None
  /\ pc' = "finish"
  /\ UNCHANGED <<setting, out, spent, walk, called, results, ran, shown, first>>

\* Mutant: a round that failed goes back to what the loop was given.
LookFailsForgetting(cut) ==
  /\ pc = "look" /\ round < Rounds
  /\ Ask
  /\ out' = hits /\ spent' = TokensOf(hits)
  /\ pc' = "finish"
  /\ UNCHANGED <<setting, walk, called, results, ran, shown, found, first>>

\* A round that failed keeps what landed; cut at the cap, with lookups behind
\* it, the model is asked for its conclusion from the messages before it.
LookFails(cut) ==
  /\ pc = "look" /\ round < Rounds
  /\ Ask
  /\ pc' = IF cut /\ ran THEN "conclude" ELSE "finish"
  /\ UNCHANGED <<setting, out, spent, walk, called, results, ran, shown, found, first>>

Calling == pc = "tools" /\ Len(results) < Min({called, MaxCalls})

Answered == results' = Append(results, Len(results) + 1)

\* Refused before any lookup: malformed, unnamed, outside the turn.
ToolRefused ==
  /\ Calling
  /\ Answered
  /\ UNCHANGED <<pc, setting, out, spent, walk, round, asks, called, ran, shown, found, first>>

\* A grep shows lines and admits nothing; a lookup may find nothing at all.
ToolShows(fs) ==
  /\ Calling
  /\ Answered
  /\ ran' = TRUE
  /\ shown' = shown \cup fs
  /\ UNCHANGED <<pc, setting, out, spent, walk, round, asks, called, found, first>>

\* Mutant: the calls after the one that ran out are left without a result.
RestOverLimit(answered) ==
  LET from == IF answered < MaxCalls THEN Min({called, MaxCalls}) ELSE answered
  IN  [i \in 1..(called - from) |-> from + i]

\* What the code answers after the call the reserve ran out on: the calls
\* left in the limit and the ones above it, in their own order.
Rest(answered) == [i \in 1..(called - answered) |-> answered + i]

\* The landings of search, symbol or read, until the reserve runs out.
ToolLands(cs) ==
  /\ Calling
  /\ ran' = TRUE
  /\ shown' = shown \cup FilesOf(cs)
  /\ \E a \in Taken(cs, Budget("locate")) :
       /\ Admit(a)
       /\ \/ a = New(cs) /\ Answered /\ UNCHANGED pc
          \/ /\ a # New(cs)
             /\ results' = Append(results, Len(results) + 1) \o Rest(Len(results) + 1)
             /\ pc' = "conclude"
  /\ UNCHANGED <<setting, walk, round, asks, called, found, first>>

\* Every call in the limit has its result: the ones above are told so, and
\* after the last round the model is asked what it concluded.
RoundEnds ==
  /\ pc = "tools" /\ ~Calling
  /\ results' = results \o Rest(Len(results))
  /\ pc' = IF round = Rounds THEN "conclude" ELSE "look"
  /\ UNCHANGED <<setting, out, spent, walk, round, asks, called, ran, shown, found, first>>

\* The closing call, without tools; a failed one concludes nothing.
Conclude(place) ==
  /\ pc = "conclude"
  /\ asks' = asks + 1
  /\ found' = place
  /\ pc' = "finish"
  /\ UNCHANGED <<setting, out, spent, walk, round, called, results, ran, shown, first>>

\* admitFound: the place, if it is of a file the model was shown and no source
\* holds it yet.
FoundNew == IF found \in Chunks /\ FileOf[found] \in shown THEN {found} ELSE {}

\* finishLocate: the place a source holds comes first.
Finish ==
  /\ pc = "finish"
  /\ \E a \in Taken(FoundNew, Budget("locate")) :
       /\ Admit(a)
       /\ first' = IF found \in out \cup a THEN found ELSE None
  /\ pc' = "done"
  /\ UNCHANGED <<setting, walk, round, asks, called, results, ran, shown, found>>

\* A database error, or the reader left: the turn is not answered.
Fails ==
  /\ pc \notin {"done", "failed"}
  /\ pc' = "failed"
  /\ UNCHANGED <<setting, out, spent, walk, loop>>

-----------------------------------------------------------------------------
SmallSets(s, n) == {x \in SUBSET s : Cardinality(x) <= n}

Init ==
  /\ pc = "start"
  /\ on \in SUBSET {"crossing", "gap", "locate"}
  /\ hits \in SmallSets(Chunks, MaxHits)
  /\ allowed \in {Chunks, {c \in Chunks : \E h \in hits : RepoOf[c] = RepoOf[h]}}
  /\ worded \in BOOLEAN
  /\ out = {} /\ spent = 0
  /\ frontier = {} /\ hop = 0 /\ files = {} /\ landings = {} /\ later = {}
  /\ config = 0 /\ names = {}
  /\ round = 0 /\ asks = 0 /\ called = 0 /\ results = <<>>
  /\ ran = FALSE /\ shown = {} /\ found = None /\ first = None

Next ==
  \/ Start
  \/ \E f \in FilesOf(Chunks) : WholeFile(f)
  \/ WalkStarts
  \/ Hop
  \/ WalkEnds
  \/ \E f \in FilesOf(Chunks) : Cross(f)
  \/ \E c \in Chunks : Land(c)
  \/ CrossLater
  \/ \E c \in Chunks : Later(c)
  \/ CrossEnds
  \/ FillGaps
  \/ \E n \in DOMAIN Defined : Resolve(n)
  \/ GapsFilled
  \/ LocateStarts
  \/ \E n \in 1..MaxAsked : LookCalls(n)
  \/ \E place \in Chunks \cup {None, NotFound} : LookDone(place)
  \/ \E cut \in BOOLEAN : LookFails(cut)
  \/ ToolRefused
  \/ \E fs \in SmallSets(FilesOf(allowed), 1) : ToolShows(fs)
  \/ \E cs \in SmallSets(allowed, MaxLandings) \ {{}} : ToolLands(cs)
  \/ RoundEnds
  \/ \E place \in Chunks \cup {None, NotFound} : Conclude(place)
  \/ Finish
  \/ Fails

Spec == Init /\ [][Next]_vars

\* The handler runs to its end: nothing in it waits for anything but calls
\* that return or fail.
FairSpec == Spec /\ WF_vars(Next)

-----------------------------------------------------------------------------
(* Every loop variable has its type.                                       *)
TypeOK ==
  /\ pc \in {"start", "files", "walk", "cross", "later", "gap", "names", "locate",
             "look", "tools", "conclude", "finish", "done", "failed"}
  /\ on \subseteq {"crossing", "gap", "locate"} /\ worded \in BOOLEAN
  /\ {hits, allowed, out, frontier, landings, later} \subseteq SUBSET Chunks
  /\ {spent, hop, config, round, asks, called} \subseteq Nat
  /\ files \subseteq FilesOf(Chunks) /\ names \subseteq DOMAIN Defined
  /\ results \in Seq(1..MaxAsked)
  /\ ran \in BOOLEAN /\ shown \subseteq FilesOf(Chunks)
  /\ found \in Chunks \cup {None, NotFound} /\ first \in Chunks \cup {None}

(* The admitter's running total is the cost of what it holds: no chunk is  *)
(* charged twice or admitted for free, although three passes rebuild it.   *)
Accounted == spent = TokensOf(out)

(* Each pass finds its reserve untouched: with hits that leave room, the   *)
(* crossing, the gap pass and the locate loop start with what was kept     *)
(* back for them, and nothing ever passes the budget.                      *)
ReserveLeft ==
  LET room(pass) == TokensOf(hits) <= Budget(pass) => spent <= Budget(pass)
  IN  /\ pc \in {"files", "walk"} => room("symbols")
      /\ pc \in {"cross", "later"} => room("crossing")
      /\ pc \in {"gap", "names", "locate"} => room("gap")
      /\ room("locate")

(* The budget is kept pass by pass, over a total that is the cost of the   *)
(* sources: TypeOK, Accounted and ReserveLeft.                             *)
Budgeted == TypeOK /\ Accounted /\ ReserveLeft

(* Nothing outside the turn's ceiling is admitted or followed: what a hop  *)
(* starts from is a source the answer shows.                               *)
BelowCeiling == out \subseteq hits \cup allowed /\ frontier \subseteq out

(* Whenever the model is asked again, every call it made has exactly one   *)
(* result, in the calls' order: also after the reserve ran out, above the  *)
(* limit, and when a later round was cut.                                  *)
EveryCallAnswered == pc \in {"look", "conclude"} => results = Calls(called)

(* The loop's bill: one model call for each round and one to conclude.     *)
Billed == asks <= Rounds + 1 /\ round <= Rounds

(* The source put in front is the one the conclusion names, and a source.  *)
PointedIsSource == first # None => first = found /\ first \in out

(* The sources are the ceiling's and the pointer is one of them.           *)
SourcesHonest == BelowCeiling /\ PointedIsSource

(* No pass takes a source away: a hit, or what an earlier pass gathered,   *)
(* is there for the answer to cite, however a later pass ends.             *)
NothingEvicted == [][out \subseteq out']_vars

(* The gathering comes to an end.                                          *)
GatherEnds == <>(pc \in {"done", "failed"})
=============================================================================
