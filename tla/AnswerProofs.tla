----------------------------- MODULE AnswerProofs ---------------------------
(***************************************************************************)
(* What the making of an answer keeps: the gathering, for any index, any   *)
(* reference graph, any budget and any number of rounds, and the stream,   *)
(* for any text, any tokens and any sources.  Which of a list the          *)
(* gathering's admitter takes is left open: the facts proved here hold     *)
(* whatever it takes, as long as that is there, below the ceiling and in   *)
(* the pass's budget.                                                      *)
(***************************************************************************)
EXTENDS Gather, Renumber, FiniteInduction, SequenceTheorems, TLAPS

(* take: nothing but new chunks below the ceiling.                         *)
LEMMA TakenIsNew ==
  ASSUME NEW cs, NEW budget, NEW a \in Taken(cs, budget)
  PROVE  a \subseteq New(cs) /\ a \subseteq allowed
BY DEF Taken, New

LEMMA LeastOfTwo ==
  ASSUME NEW m \in Nat, NEW n \in Nat
  PROVE  Min({m, n}) \in Nat /\ Min({m, n}) <= m /\ Min({m, n}) <= n
<1>1. \E x \in {m, n} : \A y \in {m, n} : x <= y
  <2>1. CASE m <= n
    BY <2>1
  <2>2. CASE n <= m
    BY <2>2
  <2> QED
    BY <2>1, <2>2
<1>2. Min({m, n}) = CHOOSE x \in {m, n} : \A y \in {m, n} : x <= y
  BY DEF Min
<1>3. Min({m, n}) \in {m, n} /\ \A y \in {m, n} : Min({m, n}) <= y
  BY <1>1, <1>2
<1> QED
  BY <1>3

-----------------------------------------------------------------------------
(* The steps that are not of the locate loop leave its variables alone.    *)
Gathering ==
  \/ Start
  \/ \E f \in FilesOf(Chunks) : WholeFile(f)
  \/ WalkStarts
  \/ Hop
  \/ WalkEnds
  \/ \E f \in FilesOf(Chunks) : Cross(f)
  \/ \E c \in Chunks : Land(c)
  \/ CrossLater
  \/ \E c \in Chunks : Later(c)
  \/ CrossEnds
  \/ FillGaps
  \/ \E n \in DOMAIN Defined : Resolve(n)
  \/ GapsFilled
  \/ LocateStarts

Early == {"start", "files", "walk", "cross", "later", "gap", "names", "locate"}

LEMMA GatheringIsEarly ==
  ASSUME Gathering
  PROVE  /\ pc \in Early /\ UNCHANGED loop
         /\ pc' \in Early \cup {"look", "done"}
<1> USE DEF Early, loop
<1>1. CASE Start
  BY <1>1 DEF Start
<1>2. CASE \E f \in FilesOf(Chunks) : WholeFile(f)
  BY <1>2 DEF WholeFile
<1>3. CASE WalkStarts
  BY <1>3 DEF WalkStarts
<1>4. CASE Hop
  BY <1>4 DEF Hop
<1>5. CASE WalkEnds
  BY <1>5 DEF WalkEnds
<1>6. CASE \E f \in FilesOf(Chunks) : Cross(f)
  BY <1>6 DEF Cross
<1>7. CASE \E c \in Chunks : Land(c)
  BY <1>7 DEF Land, Lands
<1>8. CASE CrossLater
  BY <1>8 DEF CrossLater
<1>9. CASE \E c \in Chunks : Later(c)
  BY <1>9 DEF Later, Lands
<1>10. CASE CrossEnds
  BY <1>10 DEF CrossEnds
<1>11. CASE FillGaps
  BY <1>11 DEF FillGaps
<1>12. CASE \E n \in DOMAIN Defined : Resolve(n)
  BY <1>12 DEF Resolve
<1>13. CASE GapsFilled
  BY <1>13 DEF GapsFilled
<1>14. CASE LocateStarts
  BY <1>14 DEF LocateStarts
<1> QED
  BY <1>1, <1>2, <1>3, <1>4, <1>5, <1>6, <1>7, <1>8, <1>9, <1>10, <1>11, <1>12, <1>13, <1>14
     DEF Gathering

(* The turns of the locate loop, and its end.                              *)
Looking ==
  \/ \E n \in 1..MaxAsked : LookCalls(n)
  \/ \E place \in Chunks \cup {None, NotFound} : LookDone(place)
  \/ \E cut \in BOOLEAN : LookFails(cut)
  \/ ToolRefused
  \/ \E fs \in SmallSets(FilesOf(allowed), 1) : ToolShows(fs)
  \/ \E cs \in SmallSets(allowed, MaxLandings) \ {{}} : ToolLands(cs)
  \/ RoundEnds
  \/ \E place \in Chunks \cup {None, NotFound} : Conclude(place)
  \/ Finish

LEMMA NextSplits == Next <=> Gathering \/ Looking \/ Fails
BY Zenon DEF Next, Gathering, Looking

-----------------------------------------------------------------------------
(* The bill.                                                               *)

(* A call is paid for with a round, except the closing one, which is the   *)
(* last.                                                                   *)
Paid ==
  /\ round \in Nat /\ asks \in Nat /\ round <= Rounds /\ asks <= round + 1
  /\ pc \in Early \cup {"look", "tools", "conclude"} => asks = round

LEMMA PaidStep == Paid /\ [Next]_vars => Paid'
<1> SUFFICES ASSUME Paid, [Next]_vars
             PROVE  Paid'
  OBVIOUS
<1>0. Rounds \in Nat
  BY BudgetShares
<1> USE DEF Paid
<1>1. CASE Gathering
  BY <1>1, GatheringIsEarly DEF loop
<1>2. CASE Looking
  BY <1>0, <1>2 DEF Looking, LookCalls, LookDone, LookFails, Ask, ToolRefused, ToolShows, ToolLands,
       RoundEnds, Conclude, Finish, Calling, Early
<1>3. CASE Fails
  BY <1>3 DEF Fails, loop, Early
<1>4. CASE UNCHANGED vars
  BY <1>4 DEF vars
<1> QED
  BY <1>1, <1>2, <1>3, <1>4, NextSplits

(* The loop never asks the model more often than its rounds and one        *)
(* conclusion, whatever fails, is cut or runs out.                         *)
THEOREM LoopIsBilled == Spec => []Billed
<1>1. Init => Paid
  BY BudgetShares DEF Init, Paid, Early
<1>2. Paid => Billed
  BY BudgetShares DEF Paid, Billed
<1> QED
  BY <1>1, <1>2, PaidStep, PTL DEF Spec

-----------------------------------------------------------------------------
(* The sources.                                                            *)

(* Every pass adds chunks below the ceiling to what is there, and nothing  *)
(* else; the hits come first, whatever they cost.                          *)
Grows == \E a \in SUBSET allowed : out' = out \cup a

LEMMA AdmitGrows ==
  ASSUME NEW cs, NEW budget, NEW a \in Taken(cs, budget), Admit(a)
  PROVE  Grows
<1>1. a \in SUBSET allowed
  BY TakenIsNew
<1> QED
  BY <1>1 DEF Admit, Grows

LEMMA StandingGrows ==
  ASSUME out' = out
  PROVE  Grows
<1>1. out' = out \cup {} /\ {} \in SUBSET allowed
  OBVIOUS
<1> QED
  BY <1>1 DEF Grows

LEMMA LandsGrows ==
  ASSUME NEW c, Lands(c)
  PROVE  Grows
BY AdmitGrows DEF Lands

LEMMA StepGrows ==
  ASSUME Next
  PROVE  /\ UNCHANGED <<hits, allowed>>
         /\ (pc = "start" /\ out' = hits) \/ Grows
<1> USE DEF setting
<1>1. CASE Start
  BY <1>1 DEF Start
<1>2. ASSUME NEW f, WholeFile(f)
      PROVE  UNCHANGED <<hits, allowed>> /\ Grows
  BY <1>2, AdmitGrows DEF WholeFile
<1>3. CASE WalkStarts
  BY <1>3, StandingGrows DEF WalkStarts
<1>4. CASE Hop
  BY <1>4, AdmitGrows DEF Hop
<1>5. CASE WalkEnds
  BY <1>5, StandingGrows DEF WalkEnds
<1>6. ASSUME NEW f, Cross(f)
      PROVE  UNCHANGED <<hits, allowed>> /\ Grows
  BY <1>6, StandingGrows DEF Cross
<1>7. ASSUME NEW c, Land(c)
      PROVE  UNCHANGED <<hits, allowed>> /\ Grows
  BY <1>7, LandsGrows DEF Land
<1>8. CASE CrossLater
  BY <1>8, StandingGrows DEF CrossLater
<1>9. ASSUME NEW c, Later(c)
      PROVE  UNCHANGED <<hits, allowed>> /\ Grows
  BY <1>9, LandsGrows, StandingGrows DEF Later
<1>10. CASE CrossEnds
  BY <1>10, StandingGrows DEF CrossEnds
<1>11. CASE FillGaps
  BY <1>11, StandingGrows DEF FillGaps
<1>12. ASSUME NEW n, Resolve(n)
       PROVE  UNCHANGED <<hits, allowed>> /\ Grows
  BY <1>12, AdmitGrows DEF Resolve
<1>13. CASE GapsFilled
  BY <1>13, StandingGrows DEF GapsFilled
<1>14. CASE LocateStarts
  BY <1>14, StandingGrows DEF LocateStarts
<1>15. ASSUME NEW n, LookCalls(n)
       PROVE  UNCHANGED <<hits, allowed>> /\ Grows
  BY <1>15, StandingGrows DEF LookCalls
<1>16. ASSUME NEW place, LookDone(place)
       PROVE  UNCHANGED <<hits, allowed>> /\ Grows
  BY <1>16, StandingGrows DEF LookDone
<1>17. ASSUME NEW cut, LookFails(cut)
       PROVE  UNCHANGED <<hits, allowed>> /\ Grows
  BY <1>17, StandingGrows DEF LookFails
<1>18. CASE ToolRefused
  BY <1>18, StandingGrows DEF ToolRefused
<1>19. ASSUME NEW fs, ToolShows(fs)
       PROVE  UNCHANGED <<hits, allowed>> /\ Grows
  BY <1>19, StandingGrows DEF ToolShows
<1>20. ASSUME NEW cs, ToolLands(cs)
       PROVE  UNCHANGED <<hits, allowed>> /\ Grows
  BY <1>20, AdmitGrows DEF ToolLands
<1>21. CASE RoundEnds
  BY <1>21, StandingGrows DEF RoundEnds
<1>22. ASSUME NEW place, Conclude(place)
       PROVE  UNCHANGED <<hits, allowed>> /\ Grows
  BY <1>22, StandingGrows DEF Conclude
<1>23. CASE Finish
  BY <1>23, AdmitGrows DEF Finish
<1>24. CASE Fails
  BY <1>24, StandingGrows DEF Fails
<1> QED
  BY <1>1, <1>2, <1>3, <1>4, <1>5, <1>6, <1>7, <1>8, <1>9, <1>10, <1>11, <1>12, <1>13, <1>14, <1>15,
     <1>16, <1>17, <1>18, <1>19, <1>20, <1>21, <1>22, <1>23, <1>24, Zenon DEF Next

(* Only the walk moves its frontier, and to sources.                       *)
LEMMA FrontierMoves ==
  ASSUME Next
  PROVE  frontier' = frontier \/ frontier' \subseteq out'
<1>1. CASE Hop
  <2>1. PICK a \in Taken(Named, Budget("symbols")) :
          Admit(a) /\ frontier' = IF a = New(Named) THEN a ELSE {}
    BY <1>1 DEF Hop
  <2> QED
    BY <2>1 DEF Admit
<1>2. CASE WalkStarts
  BY <1>2 DEF WalkStarts
<1>3. CASE WalkEnds
  BY <1>3 DEF WalkEnds
<1>4. CASE Gathering /\ ~Hop /\ ~WalkStarts /\ ~WalkEnds
  BY <1>4 DEF Gathering, Start, WholeFile, Cross, Land, CrossLater, Later, CrossEnds, FillGaps,
       Resolve, GapsFilled, LocateStarts, walk
<1>5. CASE Looking \/ Fails
  BY <1>5 DEF Looking, LookCalls, LookDone, LookFails, ToolRefused, ToolShows, ToolLands, RoundEnds,
       Conclude, Finish, Fails, walk
<1> QED
  BY <1>1, <1>2, <1>3, <1>4, <1>5, NextSplits

(* Where the gathering begins nothing is held yet, so that the hits take   *)
(* nothing away.                                                           *)
Below == BelowCeiling /\ (pc = "start" => out = {} /\ frontier = {})

LEMMA NeverBack ==
  ASSUME Next
  PROVE  pc' # "start"
<1>1. CASE Gathering
  BY <1>1 DEF Gathering, Start, WholeFile, WalkStarts, Hop, WalkEnds, Cross, Land, Lands, CrossLater,
       Later, CrossEnds, FillGaps, Resolve, GapsFilled, LocateStarts
<1>2. CASE Looking \/ Fails
  BY <1>2 DEF Looking, LookCalls, LookDone, LookFails, ToolRefused, ToolShows, ToolLands, RoundEnds,
       Conclude, Finish, Fails, Calling
<1> QED
  BY <1>1, <1>2, NextSplits

LEMMA BelowStep == Below /\ [Next]_vars => Below'
<1> SUFFICES ASSUME Below, [Next]_vars
             PROVE  Below'
  OBVIOUS
<1>1. CASE Next
  <2>1. out' \subseteq hits' \cup allowed' /\ out \subseteq out'
    BY <1>1, StepGrows DEF Below, BelowCeiling, Grows
  <2>2. frontier' \subseteq out'
    BY <1>1, <2>1, FrontierMoves DEF Below, BelowCeiling
  <2> QED
    BY <1>1, <2>1, <2>2, NeverBack DEF Below, BelowCeiling
<1>2. CASE UNCHANGED vars
  BY <1>2 DEF vars, Below, BelowCeiling
<1> QED
  BY <1>1, <1>2

LEMMA BelowAlways == Spec => []Below
<1>1. Init => Below
  BY DEF Init, Below, BelowCeiling
<1> QED
  BY <1>1, BelowStep, PTL DEF Spec

(* Nothing outside the turn's ceiling is admitted or followed, over any    *)
(* reference graph and any number of hops.                                 *)
THEOREM NothingAboveCeiling == Spec => []BelowCeiling
<1>1. Below => BelowCeiling
  BY DEF Below
<1> QED
  BY <1>1, BelowAlways, PTL

(* No step of any pass takes a source away.                                *)
THEOREM SourcesStay == Spec => NothingEvicted
<1>1. Below /\ [Next]_vars => [out \subseteq out']_vars
  <2> SUFFICES ASSUME Below, Next
               PROVE  out \subseteq out'
    OBVIOUS
  <2> QED
    BY StepGrows DEF Below, Grows
<1> QED
  BY <1>1, BelowAlways, PTL DEF Spec, NothingEvicted

-----------------------------------------------------------------------------
(* The pointer.                                                            *)

(* The source in front is chosen by the last step, which nothing follows.  *)
Fronted ==
  /\ PointedIsSource
  /\ pc \notin {"done", "failed"} => first = None

LEMMA FrontedStep == Fronted /\ [Next]_vars => Fronted'
<1> SUFFICES ASSUME Fronted, [Next]_vars
             PROVE  Fronted'
  OBVIOUS
<1>1. CASE Gathering
  BY <1>1, GatheringIsEarly DEF loop, Early, Fronted, PointedIsSource
<1>2. CASE Finish
  <2>1. PICK a \in Taken(FoundNew, Budget("locate")) :
          Admit(a) /\ first' = IF found \in out \cup a THEN found ELSE None
    BY <1>2 DEF Finish
  <2> QED
    BY <1>2, <2>1 DEF Finish, Admit, Fronted, PointedIsSource
<1>3. CASE Looking /\ ~Finish
  BY <1>3 DEF Looking, LookCalls, LookDone, LookFails, ToolRefused, ToolShows, ToolLands, RoundEnds,
       Conclude, Calling, Fronted, PointedIsSource
<1>4. CASE Fails
  BY <1>4 DEF Fails, loop, Fronted, PointedIsSource
<1>5. CASE UNCHANGED vars
  BY <1>5 DEF vars, Fronted, PointedIsSource
<1> QED
  BY <1>1, <1>2, <1>3, <1>4, <1>5, NextSplits

(* The source the answer is told to look at first is one it can cite.      *)
THEOREM PointerIsSource == Spec => []PointedIsSource
<1>1. Init => Fronted
  BY DEF Init, Fronted, PointedIsSource
<1>2. Fronted => PointedIsSource
  BY DEF Fronted
<1> QED
  BY <1>1, <1>2, FrontedStep, PTL DEF Spec

-----------------------------------------------------------------------------
(* Every call has its result.                                              *)

LEMMA CallsAreSeq ==
  ASSUME NEW n \in Nat
  PROVE  Calls(n) \in Seq(Nat) /\ Len(Calls(n)) = n /\ \A i \in 1..n : Calls(n)[i] = i
BY DEF Calls

(* The results of the first k calls and of the rest are those of all.      *)
LEMMA ResultsJoin ==
  ASSUME NEW n \in Nat, NEW k \in 0..n
  PROVE  Calls(k) \o [i \in 1..(n - k) |-> k + i] = Calls(n)
<1> DEFINE rest == [i \in 1..(n - k) |-> k + i]
           all == Calls(k) \o rest
<1>1. rest \in Seq(Nat) /\ Len(rest) = n - k
  OBVIOUS
<1>2. Calls(k) \in Seq(Nat) /\ Len(Calls(k)) = k
  BY CallsAreSeq
<1>3. \A i \in 1..(n - k) : rest[i] = k + i
  OBVIOUS
<1> HIDE DEF rest
<1>4. all \in Seq(Nat) /\ Len(all) = n
      /\ \A i \in 1..n : all[i] = IF i <= k THEN Calls(k)[i] ELSE rest[i - k]
  <2>1. Len(Calls(k)) + Len(rest) = n
    BY <1>1, <1>2
  <2> QED
    BY <1>1, <1>2, <2>1, ConcatProperties
<1> HIDE DEF all
<1>5. ASSUME NEW i \in 1..n
      PROVE  all[i] = Calls(n)[i]
  <2>0. k \in Int /\ i \in Int /\ Calls(n)[i] = i
    BY CallsAreSeq
  <2>1. CASE i <= k
    <3>1. all[i] = Calls(k)[i]
      BY <1>4, <2>1
    <3>2. Calls(k)[i] = i
      BY <2>0, <2>1, CallsAreSeq
    <3> QED
      BY <2>0, <3>1, <3>2
  <2>2. CASE i > k
    <3>1. i - k \in 1..(n - k)
      BY <2>2
    <3>2. rest[i - k] = k + (i - k)
      BY <1>3, <3>1
    <3>3. all[i] = rest[i - k]
      BY <1>4, <2>0, <2>2
    <3> QED
      BY <2>0, <3>2, <3>3
  <2> QED
    BY <2>0, <2>1, <2>2
<1>6. all = Calls(n)
  BY <1>4, <1>5, CallsAreSeq, SeqEqual
<1> QED
  BY <1>6 DEF all, rest

LEMMA ResultAdds ==
  ASSUME NEW k \in Nat
  PROVE  Append(Calls(k), k + 1) = Calls(k + 1)
<1>1. Calls(k) \in Seq(Nat) /\ Len(Calls(k)) = k
  BY CallsAreSeq
<1>2. Append(Calls(k), k + 1) \in Seq(Nat) /\ Len(Append(Calls(k), k + 1)) = k + 1
  BY <1>1
<1>3. \A i \in 1..(k + 1) : Append(Calls(k), k + 1)[i] = Calls(k + 1)[i]
  BY <1>1, CallsAreSeq
<1> QED
  BY <1>2, <1>3, CallsAreSeq

(* While the calls of a reply run, those done so far have their results.   *)
Resulted ==
  /\ called \in 0..MaxAsked
  /\ pc \in Early => called = 0 /\ results = Calls(0)
  /\ \E k \in 0..called : results = Calls(k)
  /\ EveryCallAnswered

(* The call at hand is one of the reply's.                                 *)
LEMMA CallingWithin ==
  ASSUME Calling, called \in Nat, NEW k \in 0..called, results = Calls(k)
  PROVE  Len(results) = k /\ k + 1 \in 0..called
<1>1. Len(results) = k
  BY CallsAreSeq
<1>2. Min({called, MaxCalls}) <= called /\ Min({called, MaxCalls}) \in Nat
  BY LeastOfTwo, BudgetShares
<1> QED
  BY <1>1, <1>2 DEF Calling

LEMMA ResultedStep == Resulted /\ [Next]_vars => Resulted'
<1> SUFFICES ASSUME Resulted, [Next]_vars
             PROVE  Resulted'
  OBVIOUS
<1>1. CASE Gathering
  <2>1. called' = 0 /\ results' = Calls(0) /\ pc' \in Early \cup {"look", "done"}
    BY <1>1, GatheringIsEarly DEF loop, Resulted
  <2>2. 0 \in 0..0 /\ 0 \in 0..MaxAsked
    BY BudgetShares
  <2> QED
    BY <2>1, <2>2 DEF Resulted, EveryCallAnswered, Early
<1>2. ASSUME NEW n \in 1..MaxAsked, LookCalls(n)
      PROVE  Resulted'
  <2>1. called' \in 0..MaxAsked /\ 0 \in 0..called' /\ results' = <<>> /\ pc' = "tools"
    BY <1>2, BudgetShares DEF LookCalls
  <2>2. Calls(0) = <<>>
    BY DEF Calls
  <2> QED
    BY <2>1, <2>2 DEF Resulted, EveryCallAnswered, Early
<1>3. ASSUME NEW place, LookDone(place)
      PROVE  Resulted'
  BY <1>3 DEF LookDone, Resulted, EveryCallAnswered, Early
<1>4. ASSUME NEW cut, LookFails(cut)
      PROVE  Resulted'
  BY <1>4 DEF LookFails, Resulted, EveryCallAnswered, Early
<1>5. CASE Calling
  <2>0. pc = "tools" /\ called \in Nat
    BY <1>5 DEF Calling, Resulted
  <2>1. PICK k \in 0..called : results = Calls(k)
    BY <2>0 DEF Resulted
  <2>2. Len(results) = k /\ k + 1 \in 0..called /\ k \in Nat
    BY <1>5, <2>0, <2>1, CallingWithin
  <2>3. Append(results, Len(results) + 1) = Calls(k + 1)
    BY <2>1, <2>2, ResultAdds
  <2>4. Append(results, Len(results) + 1) \o Rest(Len(results) + 1) = Calls(called)
    BY <2>0, <2>2, <2>3, ResultsJoin DEF Rest
  <2>5. ASSUME called' = called, pc' = pc, Answered
        PROVE  Resulted'
    BY <2>0, <2>2, <2>3, <2>5 DEF Answered, Resulted, EveryCallAnswered, Early
  <2>6. CASE ToolRefused
    BY <2>5, <2>6 DEF ToolRefused
  <2>7. ASSUME NEW fs, ToolShows(fs)
        PROVE  Resulted'
    BY <2>5, <2>7 DEF ToolShows
  <2>8. ASSUME NEW cs, ToolLands(cs)
        PROVE  Resulted'
    <3>1. called' = called
      BY <2>8 DEF ToolLands
    <3>2. CASE Answered /\ UNCHANGED pc
      BY <2>5, <3>1, <3>2
    <3>3. CASE results' = Append(results, Len(results) + 1) \o Rest(Len(results) + 1) /\ pc' = "conclude"
      <4>1. called \in 0..called
        BY <2>0
      <4> QED
        BY <2>0, <2>4, <3>1, <3>3, <4>1 DEF Resulted, EveryCallAnswered, Early
    <3> QED
      BY <2>8, <3>2, <3>3 DEF ToolLands
  <2>9. Looking => ToolRefused \/ (\E fs : ToolShows(fs)) \/ \E cs : ToolLands(cs)
    BY <1>5, <2>0 DEF Looking, LookCalls, LookDone, LookFails, RoundEnds, Conclude, Finish
  <2>10. CASE Fails
    BY <2>0, <2>10 DEF Fails, loop, Resulted, EveryCallAnswered, Early
  <2>11. CASE UNCHANGED vars
    BY <2>11 DEF vars, Resulted, EveryCallAnswered
  <2> QED
    BY <1>1, <2>6, <2>7, <2>8, <2>9, <2>10, <2>11, NextSplits
<1>6. CASE RoundEnds
  <2>0. pc = "tools" /\ called \in Nat
    BY <1>6 DEF RoundEnds, Resulted
  <2>1. PICK k \in 0..called : results = Calls(k)
    BY <2>0 DEF Resulted
  <2>2. Len(results) = k
    BY <2>0, <2>1, CallsAreSeq
  <2>3. results' = Calls(called) /\ called' = called
    BY <1>6, <2>0, <2>1, <2>2, ResultsJoin DEF RoundEnds, Rest
  <2> QED
    BY <1>6, <2>0, <2>3 DEF RoundEnds, Resulted, EveryCallAnswered, Early
<1>7. ASSUME NEW place, Conclude(place)
      PROVE  Resulted'
  BY <1>7 DEF Conclude, Resulted, EveryCallAnswered, Early
<1>8. CASE Finish
  BY <1>8 DEF Finish, Resulted, EveryCallAnswered, Early
<1>9. CASE Fails
  BY <1>9 DEF Fails, loop, Resulted, EveryCallAnswered, Early
<1>10. CASE UNCHANGED vars
  BY <1>10 DEF vars, Resulted, EveryCallAnswered
<1>11. CASE Looking /\ ~Calling
  BY <1>2, <1>3, <1>4, <1>6, <1>7, <1>8, <1>11 DEF Looking, ToolRefused, ToolShows, ToolLands
<1> QED
  BY <1>1, <1>5, <1>9, <1>10, <1>11, NextSplits

(* What was called and answered stays in step.                             *)
LEMMA ResultedHolds == Spec => []Resulted
<1>1. Init => Resulted
  <2>1. Calls(0) = <<>> /\ 0 \in 0..0 /\ 0 \in 0..MaxAsked
    BY BudgetShares DEF Calls
  <2> QED
    BY <2>1 DEF Init, Resulted, EveryCallAnswered, Early
<1> QED
  BY <1>1, ResultedStep, PTL DEF Spec

(* Whenever the model is asked again every call it made has exactly one    *)
(* result, in order, for any limit on calls and any number of rounds.      *)
THEOREM NoCallUnanswered == Spec => []EveryCallAnswered
<1>1. Resulted => EveryCallAnswered
  BY DEF Resulted
<1> QED
  BY <1>1, ResultedHolds, PTL

(* Every source is of the turn's ceiling and the one in front is a source, *)
(* for any corpus, budget and number of rounds.                            *)
THEOREM SourcesAreHonest == Spec => []SourcesHonest
<1>1. BelowCeiling /\ PointedIsSource => SourcesHonest
  BY DEF SourcesHonest
<1> QED
  BY <1>1, NothingAboveCeiling, PointerIsSource, PTL
-----------------------------------------------------------------------------
(* The budget.                                                             *)

(* estimateTokens summed: what sources apart cost together, and no source  *)
(* twice.                                                                  *)
LEMMA TokensAdd ==
  ASSUME NEW a \in SUBSET Chunks, NEW b \in SUBSET (Chunks \ a)
  PROVE  /\ TokensOf(a) \in Nat /\ TokensOf(b) \in Nat
         /\ TokensOf(a \cup b) = TokensOf(a) + TokensOf(b)
<1>1. \A cs : TokensOf(cs) = SumOf(Cost, cs)
  BY DEF TokensOf, MapThenSumSet, MapThenFoldSet, SumOf, Sums, Pick
<1>2. IsFiniteSet(Chunks) /\ \A c \in Chunks : Cost[c] \in Nat
  BY ChunkTables
<1>3. /\ SumOf(Cost, a) \in Nat /\ SumOf(Cost, b) \in Nat
      /\ SumOf(Cost, a \cup b) = SumOf(Cost, a) + SumOf(Cost, b)
  BY <1>2, SumTyped, SumUnion
<1> QED
  BY <1>1, <1>3

(* Nothing costs nothing.                                                  *)
LEMMA TokensOfNothing == TokensOf({}) = 0
<1>1. TokensOf({}) = SumOf(Cost, {})
  BY DEF TokensOf, MapThenSumSet, MapThenFoldSet, SumOf, Sums, Pick
<1> QED
  BY <1>1, FS_EmptySet, SumStep

(* A pass may spend what the pass before it may and the reserve kept back  *)
(* for it.                                                                 *)
LEMMA BudgetsGrow ==
  ASSUME on \subseteq {"crossing", "gap", "locate"}
  PROVE  /\ \A p \in {"symbols", "crossing", "gap", "locate"} : Budget(p) \in Int
         /\ Budget("symbols") <= Budget("crossing") /\ Budget("crossing") <= Budget("gap")
         /\ Budget("gap") <= Budget("locate") /\ Budget("locate") = TokenBudget
<1>1. TokenBudget \in Nat /\ {CrossingReserve, GapReserve, LocateReserve} \subseteq Nat \ {0}
  BY BudgetShares
<1>2. \A n \in Nat \ {0} : TokenBudget \div n \in Nat
  BY <1>1
<1>3. /\ Share("crossing", CrossingReserve) \in Nat /\ Share("gap", GapReserve) \in Nat
      /\ Share("locate", LocateReserve) \in Nat
  BY <1>1, <1>2 DEF Share
<1> QED
  BY <1>1, <1>3 DEF Budget

(* The type invariant's parts, one by one.                                 *)
LEMMA Parts ==
  TypeOK <=>
    /\ pc \in Early \cup {"look", "tools", "conclude", "finish", "done", "failed"}
    /\ on \subseteq {"crossing", "gap", "locate"} /\ worded \in BOOLEAN
    /\ hits \in SUBSET Chunks /\ allowed \in SUBSET Chunks /\ out \in SUBSET Chunks
    /\ frontier \in SUBSET Chunks /\ landings \in SUBSET Chunks /\ later \in SUBSET Chunks
    /\ spent \in Nat /\ hop \in Nat /\ config \in Nat /\ round \in Nat /\ asks \in Nat /\ called \in Nat
    /\ files \subseteq FilesOf(Chunks) /\ names \subseteq DOMAIN Defined
    /\ results \in Seq(1..MaxAsked)
    /\ ran \in BOOLEAN /\ shown \subseteq FilesOf(Chunks)
    /\ found \in Chunks \cup {None, NotFound} /\ first \in Chunks \cup {None}
BY DEF TypeOK, Early

(* What a pass charges is what it adds, and it stays in its budget unless  *)
(* it adds nothing.                                                        *)
LEMMA AdmitCharges ==
  ASSUME TypeOK, Accounted, NEW cs, NEW budget \in Int, NEW a \in Taken(cs, budget), Admit(a)
  PROVE  /\ a \in SUBSET Chunks /\ out' \in SUBSET Chunks /\ spent' \in Nat /\ Accounted'
         /\ spent' = spent \/ spent' <= budget
<1>1. out \in SUBSET Chunks /\ allowed \in SUBSET Chunks
  BY Parts
<1>2. a \in SUBSET (Chunks \ out)
  BY <1>1, TakenIsNew DEF New
<1>3. TokensOf(out) \in Nat /\ TokensOf(a) \in Nat /\ TokensOf(out \cup a) = TokensOf(out) + TokensOf(a)
  BY <1>1, <1>2, TokensAdd
<1>4. a = {} => spent' = spent
  BY <1>3, TokensOfNothing DEF Admit, Accounted
<1>5. a # {} => spent' <= budget
  BY DEF Taken, Admit
<1> QED
  BY <1>1, <1>2, <1>3, <1>4, <1>5 DEF Admit, Accounted

\* One pass admits of some list, or the sources and their cost stay.
Spends(pass) == \E cs : \E a \in Taken(cs, Budget(pass)) : Admit(a)
Stays == out' = out /\ spent' \in {spent, TokensOf(out)}

(* A landing is admitted under the crossing's budget.                      *)
LEMMA LandsSpends ==
  ASSUME NEW c, Lands(c)
  PROVE  Spends("crossing") /\ pc' \in {pc, "gap"}
BY DEF Lands, Spends

\* How far the gathering is: the passes whose reserve is still to be left.
Reading == {"files", "walk"}
Crossing == {"cross", "later"}
Filling == {"gap", "names", "locate"}

(* Each pass admits under its own budget, and passes follow one another.   *)
LEMMA StepSpends ==
  ASSUME Next
  PROVE  \/ Start
         \/ Spends("symbols") /\ pc \in Reading /\ pc' \in Reading
         \/ Spends("crossing") /\ pc \in Crossing /\ pc' \in Crossing \cup {"gap"}
         \/ Spends("gap") /\ pc = "names" /\ pc' = "names"
         \/ Spends("locate") /\ pc' \notin Reading \cup Crossing \cup Filling
         \/ /\ Stays
            /\ pc' \in Reading => pc \in Reading
            /\ pc' \in Crossing => pc \in Reading \cup Crossing
            /\ pc' \in Filling => pc \in Reading \cup Crossing \cup Filling
<1> USE DEF Reading, Crossing, Filling
<1>1. ASSUME NEW f, WholeFile(f)
      PROVE  Spends("symbols") /\ pc \in Reading /\ pc' \in Reading
  BY <1>1 DEF WholeFile, Spends
<1>2. CASE Hop
  BY <1>2 DEF Hop, Spends
<1>3. ASSUME NEW c, Land(c)
      PROVE  Spends("crossing") /\ pc \in Crossing /\ pc' \in Crossing \cup {"gap"}
  BY <1>3, LandsSpends DEF Land
<1>4. ASSUME NEW c, Later(c)
      PROVE  \/ Spends("crossing") /\ pc \in Crossing /\ pc' \in Crossing \cup {"gap"}
             \/ Stays /\ pc \in Crossing /\ pc' = pc
  BY <1>4, LandsSpends DEF Later, Stays
<1>5. ASSUME NEW n, Resolve(n)
      PROVE  Spends("gap") /\ pc = "names" /\ pc' = "names"
  BY <1>5 DEF Resolve, Spends
<1>6. ASSUME NEW cs, ToolLands(cs)
      PROVE  Spends("locate") /\ pc' \in {"tools", "conclude"}
  BY <1>6 DEF ToolLands, Calling, Spends
<1>7. CASE Finish
  BY <1>7 DEF Finish, Spends
<1>8. ASSUME \/ WalkStarts \/ WalkEnds \/ (\E f \in FilesOf(Chunks) : Cross(f)) \/ CrossLater \/ CrossEnds
             \/ FillGaps \/ GapsFilled \/ LocateStarts
      PROVE  /\ Stays
             /\ pc' \in Reading => pc \in Reading
             /\ pc' \in Crossing => pc \in Reading \cup Crossing
             /\ pc' \in Filling => pc \in Reading \cup Crossing \cup Filling
  BY <1>8 DEF WalkStarts, WalkEnds, Cross, CrossLater, CrossEnds, FillGaps, GapsFilled, LocateStarts, Stays
<1>9. ASSUME \/ \E n \in 1..MaxAsked : LookCalls(n)
             \/ \E place \in Chunks \cup {None, NotFound} : LookDone(place) \/ Conclude(place)
             \/ \E cut \in BOOLEAN : LookFails(cut)
             \/ ToolRefused
             \/ \E fs \in SmallSets(FilesOf(allowed), 1) : ToolShows(fs)
             \/ RoundEnds \/ Fails
      PROVE  Stays /\ pc' \notin Reading \cup Crossing \cup Filling
  BY <1>9 DEF LookCalls, LookDone, LookFails, ToolRefused, ToolShows, RoundEnds, Conclude, Calling, Fails,
     Stays
<1> QED
  BY <1>1, <1>2, <1>3, <1>4, <1>5, <1>6, <1>7, <1>8, <1>9 DEF Next

(* Every step leaves every variable its type.                              *)
LEMMA TypeStep ==
  ASSUME TypeOK, Accounted, Resulted', [Next]_vars
  PROVE  TypeOK'
<1>a. /\ on \subseteq {"crossing", "gap", "locate"} /\ worded \in BOOLEAN
      /\ hits \in SUBSET Chunks /\ allowed \in SUBSET Chunks /\ out \in SUBSET Chunks
      /\ frontier \in SUBSET Chunks /\ landings \in SUBSET Chunks /\ later \in SUBSET Chunks
      /\ spent \in Nat /\ hop \in Nat /\ config \in Nat /\ round \in Nat /\ asks \in Nat /\ called \in Nat
      /\ files \subseteq FilesOf(Chunks) /\ names \subseteq DOMAIN Defined
      /\ ran \in BOOLEAN /\ shown \subseteq FilesOf(Chunks)
      /\ found \in Chunks \cup {None, NotFound} /\ first \in Chunks \cup {None}
  BY Parts
<1>b. \A p \in {"symbols", "crossing", "gap", "locate"} : Budget(p) \in Int
  BY <1>a, BudgetsGrow
<1>c. \A cs : FilesOf(cs \cap Chunks) \subseteq FilesOf(Chunks)
  BY DEF FilesOf
<1>1. called' \in Nat /\ results' \in Seq(1..MaxAsked)
  <2>1. PICK k \in 0..called' : results' = Calls(k)
    BY DEF Resulted
  <2>2. called' \in 0..MaxAsked /\ called' \in Nat /\ k \in Nat
    BY BudgetShares DEF Resulted
  <2>3. Calls(k) \in Seq(1..MaxAsked)
    BY <2>2, BudgetShares DEF Calls
  <2> QED
    BY <2>1, <2>2, <2>3
<1>2. UNCHANGED setting
  BY DEF Next, vars, setting, Start, WholeFile, WalkStarts, Hop, WalkEnds, Cross, Land, CrossLater, Later,
     CrossEnds, FillGaps, Resolve, GapsFilled, LocateStarts, LookCalls, LookDone, LookFails, ToolRefused,
     ToolShows, ToolLands, RoundEnds, Conclude, Finish, Fails
<1>3. out' \in SUBSET Chunks /\ spent' \in Nat
  <2>1. ASSUME NEW p \in {"symbols", "crossing", "gap", "locate"}, Spends(p)
        PROVE  out' \in SUBSET Chunks /\ spent' \in Nat
    BY <1>b, <2>1, AdmitCharges DEF Spends
  <2>2. CASE Start
    BY <1>a, <2>2, TokensAdd DEF Start
  <2>3. CASE Stays \/ UNCHANGED vars
    BY <1>a, <2>3, TokensAdd DEF Stays, vars
  <2> QED
    BY <2>1, <2>2, <2>3, StepSpends
<1>4. /\ frontier' \in SUBSET Chunks /\ landings' \in SUBSET Chunks /\ later' \in SUBSET Chunks
      /\ hop' \in Nat /\ config' \in Nat
      /\ files' \subseteq FilesOf(Chunks) /\ names' \subseteq DOMAIN Defined
  <2>1. CASE Hop
    <3>1. PICK a \in Taken(Named, Budget("symbols")) :
            Admit(a) /\ frontier' = IF a = New(Named) THEN a ELSE {}
      BY <2>1 DEF Hop
    <3>2. a \in SUBSET Chunks
      BY <1>a, <3>1, TakenIsNew
    <3> QED
      BY <1>a, <2>1, <3>1, <3>2 DEF Hop
  <2>2. CASE WalkStarts \/ WalkEnds
    BY <1>a, <1>c, <2>2 DEF WalkStarts, WalkEnds
  <2>3. ASSUME NEW f \in FilesOf(Chunks), Cross(f)
        PROVE  /\ landings' \in SUBSET Chunks /\ later' \in SUBSET Chunks
               /\ files' \subseteq FilesOf(Chunks) /\ UNCHANGED <<frontier, hop, config, names>>
    <3>1. Far[f] \subseteq Chunks
      BY ChunkTables DEF FilesOf
    <3> QED
      BY <1>a, <2>3, <3>1 DEF Cross, Crossings
  <2>4. ASSUME NEW f \in FilesOf(Chunks), WholeFile(f)
        PROVE  /\ files' \subseteq FilesOf(Chunks)
               /\ UNCHANGED <<frontier, hop, landings, later, config, names>>
    BY <1>a, <2>4 DEF WholeFile
  <2>5. ASSUME NEW c \in Chunks, Land(c)
        PROVE  landings' \in SUBSET Chunks /\ UNCHANGED <<frontier, hop, files, later, config, names>>
    BY <1>a, <2>5 DEF Land
  <2>6. ASSUME NEW c \in Chunks, Later(c)
        PROVE  /\ later' \in SUBSET Chunks /\ config' \in Nat
               /\ UNCHANGED <<frontier, hop, files, landings, names>>
    <3>1. Cost[c] \in Nat
      BY ChunkTables
    <3> QED
      BY <1>a, <2>6, <3>1 DEF Later
  <2>7. CASE Start
    BY <1>a, <2>7 DEF Start, FilesOf
  <2>8. CASE FillGaps
    BY <1>a, <2>8 DEF FillGaps, Askable
  <2>9. ASSUME NEW n \in DOMAIN Defined, Resolve(n)
        PROVE  /\ names' \subseteq DOMAIN Defined
               /\ UNCHANGED <<frontier, hop, files, landings, later, config>>
    BY <1>a, <2>9 DEF Resolve
  <2>10. CASE CrossLater \/ CrossEnds \/ GapsFilled \/ LocateStarts \/ Looking \/ Fails \/ UNCHANGED vars
    BY <1>a, <2>10 DEF CrossLater, CrossEnds, GapsFilled, LocateStarts, Fails, Looking, LookCalls, LookDone,
       LookFails, ToolRefused, ToolShows, ToolLands, RoundEnds, Conclude, Finish, walk, vars
  <2> QED
    BY <1>a, <2>1, <2>2, <2>3, <2>4, <2>5, <2>6, <2>7, <2>8, <2>9, <2>10, NextSplits DEF Gathering
<1>5. /\ pc' \in Early \cup {"look", "tools", "conclude", "finish", "done", "failed"}
      /\ round' \in Nat /\ asks' \in Nat /\ ran' \in BOOLEAN /\ shown' \subseteq FilesOf(Chunks)
      /\ found' \in Chunks \cup {None, NotFound} /\ first' \in Chunks \cup {None}
  <2>1. CASE Gathering
    BY <1>a, <2>1, GatheringIsEarly DEF loop
  <2>2. CASE Fails \/ UNCHANGED vars
    BY <1>a, <2>2, Parts DEF Fails, loop, vars
  <2>3. ASSUME NEW fs \in SmallSets(FilesOf(allowed), 1), ToolShows(fs)
        PROVE  /\ pc' = "tools" /\ ran' = TRUE /\ shown' \subseteq FilesOf(Chunks)
               /\ UNCHANGED <<round, asks, found, first>>
    <3>1. fs \subseteq FilesOf(Chunks)
      BY <1>a DEF SmallSets, FilesOf
    <3> QED
      BY <1>a, <2>3, <3>1 DEF ToolShows, Calling
  <2>4. ASSUME NEW cs \in SmallSets(allowed, MaxLandings) \ {{}}, ToolLands(cs)
        PROVE  /\ pc' \in {"tools", "conclude"} /\ ran' = TRUE /\ shown' \subseteq FilesOf(Chunks)
               /\ UNCHANGED <<round, asks, found, first>>
    <3>1. FilesOf(cs) \subseteq FilesOf(Chunks)
      BY <1>a DEF SmallSets, FilesOf
    <3> QED
      BY <1>a, <2>4, <3>1 DEF ToolLands, Calling
  <2>5. CASE Finish
    <3>1. PICK a \in Taken(FoundNew, Budget("locate")) :
            Admit(a) /\ first' = IF found \in out \cup a THEN found ELSE None
      BY <2>5 DEF Finish
    <3>2. a \in SUBSET Chunks
      BY <1>a, <3>1, TakenIsNew
    <3> QED
      BY <1>a, <2>5, <3>1, <3>2 DEF Finish
  <2>6. ASSUME \/ \E n \in 1..MaxAsked : LookCalls(n)
               \/ \E place \in Chunks \cup {None, NotFound} : LookDone(place) \/ Conclude(place)
               \/ \E cut \in BOOLEAN : LookFails(cut)
               \/ ToolRefused \/ RoundEnds
        PROVE  /\ pc' \in {"look", "tools", "conclude", "finish"}
               /\ round' \in Nat /\ asks' \in Nat /\ UNCHANGED <<ran, shown, first>>
               /\ found' \in Chunks \cup {None, NotFound}
    BY <1>a, <2>6 DEF LookCalls, LookDone, LookFails, ToolRefused, RoundEnds, Conclude, Ask, Calling
  <2> QED
    BY <1>a, <2>1, <2>2, <2>3, <2>4, <2>5, <2>6, NextSplits DEF Looking
<1>6. /\ on' \subseteq {"crossing", "gap", "locate"} /\ worded' \in BOOLEAN
      /\ hits' \in SUBSET Chunks /\ allowed' \in SUBSET Chunks
  BY <1>a, <1>2 DEF setting
<1>7. /\ asks' \in Nat /\ round' \in Nat
      /\ pc' \in Early \cup {"look", "tools", "conclude", "finish", "done", "failed"}
  BY <1>5
<1> QED
  BY <1>1, <1>3, <1>4, <1>5, <1>6, <1>7 DEF TypeOK, Early

\* The total is in a pass's budget, or what the hits alone cost: a pass that
\* finds no room admits nothing.
Within(pass) == spent <= Budget(pass) \/ spent = TokensOf(hits)

\* The inductive invariant of the budget.
BudgetInv ==
  /\ TypeOK /\ Accounted
  /\ pc \in Reading => Within("symbols")
  /\ pc \in Crossing => Within("crossing")
  /\ pc \in Filling => Within("gap")
  /\ Within("locate")

(* No pass spends of the reserves of those after it.                       *)
LEMMA BudgetStep ==
  ASSUME BudgetInv, Resulted', [Next]_vars
  PROVE  BudgetInv'
<1>a. TypeOK /\ Accounted /\ TypeOK'
  BY TypeStep DEF BudgetInv
<1>b. /\ on \subseteq {"crossing", "gap", "locate"} /\ spent \in Nat /\ TokensOf(hits) \in Nat
      /\ spent = TokensOf(out)
  BY <1>a, Parts, TokensAdd DEF Accounted
<1>c. UNCHANGED <<on, hits>>
  BY DEF Next, vars, setting, Start, WholeFile, WalkStarts, Hop, WalkEnds, Cross, Land, CrossLater, Later,
     CrossEnds, FillGaps, Resolve, GapsFilled, LocateStarts, LookCalls, LookDone, LookFails, ToolRefused,
     ToolShows, ToolLands, RoundEnds, Conclude, Finish, Fails
<1>d. /\ \A p \in {"symbols", "crossing", "gap", "locate"} : Budget(p) \in Int /\ Budget(p)' = Budget(p)
      /\ Budget("symbols") <= Budget("crossing") /\ Budget("crossing") <= Budget("gap")
      /\ Budget("gap") <= Budget("locate")
  BY <1>b, <1>c, BudgetsGrow DEF Budget, Share
<1>e. Reading \cap (Crossing \cup Filling) = {} /\ Crossing \cap Filling = {}
  BY DEF Reading, Crossing, Filling
<1>1. CASE Start
  <2>1. out' = hits /\ spent' = TokensOf(hits)
    BY <1>1 DEF Start
  <2> QED
    BY <1>a, <1>c, <2>1 DEF BudgetInv, Within, Accounted
<1>2. ASSUME NEW p \in {"symbols", "crossing", "gap", "locate"}, Spends(p)
      PROVE  Accounted' /\ (spent' = spent \/ spent' <= Budget(p)) /\ spent' \in Nat
  BY <1>2, <1>a, <1>d, AdmitCharges DEF Spends
<1>3. CASE Spends("symbols") /\ pc \in Reading /\ pc' \in Reading
  BY <1>2, <1>3, <1>a, <1>b, <1>c, <1>d, <1>e DEF BudgetInv, Within
<1>4. CASE Spends("crossing") /\ pc \in Crossing /\ pc' \in Crossing \cup {"gap"}
  <2>1. "gap" \in Filling
    BY DEF Filling
  <2> QED
    BY <1>2, <1>4, <1>a, <1>b, <1>c, <1>d, <1>e, <2>1 DEF BudgetInv, Within
<1>5. CASE Spends("gap") /\ pc = "names" /\ pc' = "names"
  <2>1. "names" \in Filling
    BY DEF Filling
  <2> QED
    BY <1>2, <1>5, <1>a, <1>b, <1>c, <1>d, <1>e, <2>1 DEF BudgetInv, Within
<1>6. CASE Spends("locate") /\ pc' \notin Reading \cup Crossing \cup Filling
  BY <1>2, <1>6, <1>a, <1>b, <1>c, <1>d DEF BudgetInv, Within
<1>7. CASE /\ Stays
           /\ pc' \in Reading => pc \in Reading
           /\ pc' \in Crossing => pc \in Reading \cup Crossing
           /\ pc' \in Filling => pc \in Reading \cup Crossing \cup Filling
  <2>1. spent' = spent /\ Accounted'
    BY <1>7, <1>b DEF Stays, Accounted
  <2> QED
    BY <1>7, <1>a, <1>b, <1>c, <1>d, <1>e, <2>1 DEF BudgetInv, Within
<1>8. CASE UNCHANGED vars
  BY <1>8, <1>a, <1>c, <1>d DEF vars, BudgetInv, Within, Accounted
<1> QED
  BY <1>1, <1>3, <1>4, <1>5, <1>6, <1>7, <1>8, StepSpends

(* Every pass starts with the reserve that was kept back for it and the    *)
(* total is what the sources cost, for any index, any budget and reserves, *)
(* and whatever the passes find.                                           *)
THEOREM BudgetIsKept == Spec => []Budgeted
<1>1. Init => BudgetInv
  <2> SUFFICES ASSUME Init
               PROVE  BudgetInv
    OBVIOUS
  <2>1. hits \in SUBSET Chunks /\ allowed \in SUBSET Chunks
    BY DEF Init, SmallSets
  <2>2. <<>> \in Seq(1..MaxAsked)
    OBVIOUS
  <2>3. TypeOK
    BY <2>1, <2>2, Parts DEF Init, Early
  <2>4. Budget("locate") = TokenBudget /\ TokenBudget \in Nat
    BY BudgetShares DEF Budget
  <2> QED
    BY <2>3, <2>4, TokensOfNothing DEF Init, BudgetInv, Accounted, Within, Reading, Crossing, Filling
<1>2. BudgetInv => Budgeted
  <2> SUFFICES ASSUME BudgetInv
               PROVE  ReserveLeft
    BY DEF BudgetInv, Budgeted
  <2> QED
    BY DEF BudgetInv, Within, ReserveLeft, Reading, Crossing, Filling
<1>3. BudgetInv /\ Resulted' /\ [Next]_vars => BudgetInv'
  BY BudgetStep
<1> QED
  BY <1>1, <1>2, <1>3, ResultedHolds, PTL DEF Spec

-----------------------------------------------------------------------------
(* The stream: what renumberer emits does not depend on where the tokens   *)
(* are cut.  First, parts of texts; then what marks, prose and fences find  *)
(* in a text, and find again whatever follows it; then the walk.           *)

-----------------------------------------------------------------------------
(* Texts.                                                                  *)

Text == Seq(Alphabet)

(* What stands behind the first symbols of a text.                         *)
LEMMA FromIs ==
  ASSUME NEW T, NEW s \in Seq(T), NEW n \in 0 .. Len(s)
  PROVE  /\ From(s, n + 1) \in Seq(T) /\ Len(From(s, n + 1)) = Len(s) - n
         /\ \A k \in 1 .. Len(s) - n : From(s, n + 1)[k] = s[n + k]
         /\ SubSeq(s, 1, n) \in Seq(T) /\ Len(SubSeq(s, 1, n)) = n
         /\ \A k \in 1 .. n : SubSeq(s, 1, n)[k] = s[k]
         /\ s = SubSeq(s, 1, n) \o From(s, n + 1)
<1>1. Len(s) \in Nat /\ n \in Nat /\ \A i \in 1 .. Len(s) : s[i] \in T
  OBVIOUS
<1>2. /\ From(s, n + 1) \in Seq(T) /\ Len(From(s, n + 1)) = Len(s) - n
      /\ \A k \in 1 .. Len(s) - n : From(s, n + 1)[k] = s[n + k]
  <2>1. \A i \in n + 1 .. Len(s) : s[i] \in T
    BY <1>1
  <2>2. /\ SubSeq(s, n + 1, Len(s)) \in Seq(T)
        /\ Len(SubSeq(s, n + 1, Len(s))) = IF n + 1 <= Len(s) THEN Len(s) - (n + 1) + 1 ELSE 0
        /\ \A i \in 1 .. Len(s) - (n + 1) + 1 : SubSeq(s, n + 1, Len(s))[i] = s[n + 1 + i - 1]
    BY <1>1, <2>1, SubSeqProperties
  <2>3. \A i \in 1 .. Len(s) - n : n + 1 + i - 1 = n + i /\ i \in 1 .. Len(s) - (n + 1) + 1
    BY <1>1
  <2>4. Len(SubSeq(s, n + 1, Len(s))) = Len(s) - n
    BY <1>1, <2>2
  <2> QED
    BY <2>2, <2>3, <2>4 DEF From
<1>3. /\ SubSeq(s, 1, n) \in Seq(T) /\ Len(SubSeq(s, 1, n)) = n
      /\ \A k \in 1 .. n : SubSeq(s, 1, n)[k] = s[k]
  <2>1. \A i \in 1 .. n : s[i] \in T
    BY <1>1
  <2>2. /\ SubSeq(s, 1, n) \in Seq(T)
        /\ Len(SubSeq(s, 1, n)) = IF 1 <= n THEN n - 1 + 1 ELSE 0
        /\ \A i \in 1 .. n - 1 + 1 : SubSeq(s, 1, n)[i] = s[1 + i - 1]
    BY <1>1, <2>1, SubSeqProperties
  <2>3. \A i \in 1 .. n : 1 + i - 1 = i /\ i \in 1 .. n - 1 + 1
    BY <1>1
  <2>4. Len(SubSeq(s, 1, n)) = n
    BY <1>1, <2>2
  <2> QED
    BY <2>2, <2>3, <2>4
<1>4. s = SubSeq(s, 1, n) \o From(s, n + 1)
  <2> DEFINE p == SubSeq(s, 1, n)
             q == From(s, n + 1)
  <2>1. p \o q \in Seq(T) /\ Len(p \o q) = Len(s)
        /\ \A i \in 1 .. Len(s) : (p \o q)[i] = IF i <= n THEN p[i] ELSE q[i - n]
    <3>1. p \in Seq(T) /\ q \in Seq(T) /\ Len(p) = n /\ Len(q) = Len(s) - n
      BY <1>2, <1>3
    <3> HIDE DEF p, q
    <3>2. /\ p \o q \in Seq(T) /\ Len(p \o q) = Len(p) + Len(q)
          /\ \A i \in 1 .. Len(p) + Len(q) : (p \o q)[i] = IF i <= Len(p) THEN p[i] ELSE q[i - Len(p)]
      BY <3>1, ConcatProperties
    <3>3. Len(p) + Len(q) = Len(s)
      BY <1>1, <3>1
    <3> QED
      BY <3>1, <3>2, <3>3
  <2>2. ASSUME NEW i \in 1 .. Len(s)
        PROVE  (IF i <= n THEN p[i] ELSE q[i - n]) = s[i]
    <3>1. CASE i <= n
      BY <1>3, <3>1
    <3>2. CASE ~(i <= n)
      <4>1. i - n \in 1 .. Len(s) - n /\ n + (i - n) = i
        BY <1>1, <3>2
      <4> QED
        BY <1>2, <3>2, <4>1
    <3> QED
      BY <3>1, <3>2
  <2> HIDE DEF p, q
  <2>3. \A i \in 1 .. Len(p \o q) : (p \o q)[i] = s[i]
    BY <2>1, <2>2
  <2>4. p \o q = s
    BY <2>1, <2>3, SeqEqual
  <2> QED
    BY <2>4 DEF p, q
<1> QED
  BY <1>2, <1>3, <1>4

(* Text that is added stays behind.                                        *)
LEMMA FromConcat ==
  ASSUME NEW T, NEW s \in Seq(T), NEW x \in Seq(T), NEW n \in 0 .. Len(s)
  PROVE  /\ From(s \o x, n + 1) = From(s, n + 1) \o x
         /\ SubSeq(s \o x, 1, n) = SubSeq(s, 1, n)
<1> DEFINE y == s \o x
           p == SubSeq(s, 1, n)
           q == From(s, n + 1)
<1>1. /\ y \in Seq(T) /\ Len(y) = Len(s) + Len(x) /\ n \in 0 .. Len(y) /\ Len(x) \in Nat /\ Len(s) \in Nat
      /\ \A i \in 1 .. Len(s) + Len(x) : y[i] = IF i <= Len(s) THEN s[i] ELSE x[i - Len(s)]
  BY ConcatProperties
<1>2. /\ q \in Seq(T) /\ Len(q) = Len(s) - n /\ \A k \in 1 .. Len(s) - n : q[k] = s[n + k]
      /\ p \in Seq(T) /\ Len(p) = n /\ \A k \in 1 .. n : p[k] = s[k]
  BY FromIs
<1>3. /\ From(y, n + 1) \in Seq(T) /\ Len(From(y, n + 1)) = Len(y) - n
      /\ \A k \in 1 .. Len(y) - n : From(y, n + 1)[k] = y[n + k]
      /\ SubSeq(y, 1, n) \in Seq(T) /\ Len(SubSeq(y, 1, n)) = n
      /\ \A k \in 1 .. n : SubSeq(y, 1, n)[k] = y[k]
  <2> HIDE DEF y
  <2> QED
    BY <1>1, FromIs
<1>4. /\ q \o x \in Seq(T) /\ Len(q \o x) = Len(q) + Len(x)
      /\ \A i \in 1 .. Len(q) + Len(x) : (q \o x)[i] = IF i <= Len(q) THEN q[i] ELSE x[i - Len(q)]
  <2> HIDE DEF q
  <2> QED
    BY <1>2, ConcatProperties
<1> HIDE DEF y, p, q
<1>5. From(y, n + 1) = q \o x
  <2>1. Len(From(y, n + 1)) = Len(q \o x) /\ Len(q \o x) = Len(s) - n + Len(x)
    BY <1>1, <1>2, <1>3, <1>4
  <2>2. ASSUME NEW k \in 1 .. Len(s) - n + Len(x)
        PROVE  From(y, n + 1)[k] = (q \o x)[k]
    <3>1. From(y, n + 1)[k] = y[n + k] /\ n + k \in 1 .. Len(s) + Len(x)
      BY <1>1, <1>3
    <3>2. CASE k <= Len(s) - n
      <4>1. n + k <= Len(s) /\ k <= Len(q) /\ k \in 1 .. Len(s) - n /\ k \in 1 .. Len(q) + Len(x)
        BY <1>1, <1>2, <3>2
      <4> QED
        BY <1>1, <1>2, <1>4, <3>1, <4>1
    <3>3. CASE ~(k <= Len(s) - n)
      <4>1. /\ ~(n + k <= Len(s)) /\ ~(k <= Len(q)) /\ k \in 1 .. Len(q) + Len(x)
            /\ n + k - Len(s) = k - Len(q)
        BY <1>1, <1>2, <3>3
      <4> QED
        BY <1>1, <1>4, <3>1, <4>1
    <3> QED
      BY <3>2, <3>3
  <2> QED
    BY <1>3, <1>4, <2>1, <2>2, SeqEqual
<1>6. SubSeq(y, 1, n) = p
  <2>1. ASSUME NEW k \in 1 .. n
        PROVE  SubSeq(y, 1, n)[k] = p[k]
    <3>1. k <= Len(s) /\ k \in 1 .. Len(s) + Len(x)
      BY <1>1
    <3> QED
      BY <1>1, <1>2, <1>3, <3>1
  <2> QED
    BY <1>2, <1>3, <2>1, SeqEqual
<1> QED
  BY <1>5, <1>6 DEF y, p, q

(* The same of texts, whose symbols need no naming.                        *)
LEMMA TextFrom ==
  ASSUME NEW s \in Text, NEW n \in 0 .. Len(s)
  PROVE  /\ From(s, n + 1) \in Text /\ Len(From(s, n + 1)) = Len(s) - n
         /\ \A k \in 1 .. Len(s) - n : From(s, n + 1)[k] = s[n + k]
         /\ SubSeq(s, 1, n) \in Text /\ Len(SubSeq(s, 1, n)) = n
         /\ \A k \in 1 .. n : SubSeq(s, 1, n)[k] = s[k]
         /\ s = SubSeq(s, 1, n) \o From(s, n + 1)
BY FromIs DEF Text

LEMMA TextConcat ==
  ASSUME NEW s \in Text, NEW x \in Text, NEW n \in 0 .. Len(s)
  PROVE  /\ From(s \o x, n + 1) = From(s, n + 1) \o x
         /\ SubSeq(s \o x, 1, n) = SubSeq(s, 1, n)
BY FromConcat DEF Text

(* Pieces put together.                                                    *)

\* g puts the pieces of f together, one after the other.
Puts(g, f) == g = [i \in 1 .. Len(f) |-> IF i = 1 THEN f[i] ELSE g[i - 1] \o f[i]]

LEMMA PutsIs ==
  ASSUME NEW T, NEW f \in Seq(Seq(T)), f # <<>>
  PROVE  \E g \in [1 .. Len(f) -> Seq(T)] : Puts(g, f) /\ FlattenSeq(f) = g[Len(f)]
<1> DEFINE V == Seq(T)
           n == Len(f)
           F == [i \in 1 .. n |-> [v \in V |-> v \o f[i]]]
           G == CHOOSE g : Puts(g, f)
<1>1. n \in Nat /\ n > 0 /\ \A i \in 1 .. n : f[i] \in V
  BY EmptySeq
<1>2. ASSUME NEW i \in 1 .. n, NEW v \in V
      PROVE  F[i][v] \in V /\ F[i][v] = v \o f[i]
  <2>1. v \o f[i] \in V
    BY <1>1, ConcatProperties
  <2> QED
    BY <2>1
<1>3. <<>> \in V
  OBVIOUS
<1> HIDE DEF V, F
<1>4. \E m : Recurses(V, <<>>, n, F, m)
  BY <1>1, <1>2, <1>3, Recursion
<1>5. PICK m : Recurses(V, <<>>, n, F, m)
  BY <1>4
<1>6. m \in [0 .. n -> V] /\ m[0] = <<>> /\ \A i \in 1 .. n : m[i] = F[i][m[i - 1]]
  BY <1>5 DEF Recurses
<1>7. \A i \in 1 .. n : m[i - 1] \in V /\ m[i] = m[i - 1] \o f[i] /\ m[i] \in V
  <2>1. \A i \in 1 .. n : i - 1 \in 0 .. n /\ i \in 0 .. n
    BY <1>1
  <2> QED
    BY <1>2, <1>6, <2>1
<1> DEFINE g0 == [i \in 1 .. n |-> m[i]]
<1>8. Puts(g0, f)
  <2>1. ASSUME NEW i \in 1 .. n
        PROVE  g0[i] = IF i = 1 THEN f[i] ELSE g0[i - 1] \o f[i]
    <3>1. CASE i = 1
      <4>1. 1 \in 1 .. n /\ 1 - 1 = 0
        BY <1>1
      <4>2. m[1] = m[1 - 1] \o f[1] /\ f[1] \in V
        BY <1>1, <1>7, <4>1
      <4>3. m[1 - 1] = <<>>
        BY <1>6, <4>1
      <4>4. <<>> \o f[1] = f[1]
        BY <4>2, ConcatEmptySeq DEF V
      <4> QED
        BY <3>1, <4>2, <4>3, <4>4
    <3>2. CASE i # 1
      <4>1. i - 1 \in 1 .. n
        BY <1>1, <3>2
      <4> QED
        BY <1>7, <3>2, <4>1
    <3> QED
      BY <3>1, <3>2
  <2>2. g0 = [i \in 1 .. n |-> g0[i]]
    OBVIOUS
  <2> HIDE DEF g0
  <2>3. g0 = [i \in 1 .. n |-> IF i = 1 THEN f[i] ELSE g0[i - 1] \o f[i]]
    BY <2>1, <2>2
  <2> QED
    BY <2>3 DEF Puts, n
<1>9. Puts(G, f)
  BY <1>8
<1>10. FlattenSeq(f) = G[n]
  <2>1. Len(f) # 0
    BY <1>1
  <2> QED
    BY <2>1 DEF FlattenSeq, Puts, G, n
<1>11. G \in [1 .. n -> V]
  <2> HIDE DEF G
  <2> DEFINE N == {k \in Nat : k + 1 <= n => G[k + 1] \in V}
  <2>1. G = [i \in 1 .. n |-> IF i = 1 THEN f[i] ELSE G[i - 1] \o f[i]]
    BY <1>9 DEF Puts, n
  <2>2. 0 \in N
    <3>1. 0 + 1 = 1 /\ 1 \in 1 .. n /\ G[1] = f[1]
      BY <1>1, <2>1
    <3> QED
      BY <1>1, <3>1
  <2>3. ASSUME NEW k \in Nat, k \in N
        PROVE  k + 1 \in N
    <3>1. SUFFICES ASSUME k + 1 + 1 <= n
                   PROVE  G[k + 1 + 1] \in V
      OBVIOUS
    <3> DEFINE a == k + 1 + 1
               b == k + 1
    <3>2. a \in 1 .. n /\ a # 1 /\ a - 1 = b /\ b <= n
      BY <1>1, <3>1
    <3>3. G[b] \in V
      BY <2>3, <3>2
    <3> HIDE DEF a, b
    <3>4. f[a] \in V /\ G[a] = G[a - 1] \o f[a]
      BY <1>1, <2>1, <3>2
    <3>5. G[a] = G[b] \o f[a]
      BY <3>2, <3>4
    <3>6. G[a] \in V
      BY <3>3, <3>4, <3>5, ConcatProperties DEF V
    <3> QED
      BY <3>6 DEF a
  <2>4. \A k \in Nat : k \in N
    <3> HIDE DEF N
    <3> QED
      BY <2>2, <2>3, CountInduction
  <2>5. ASSUME NEW i \in 1 .. n
        PROVE  G[i] \in V
    <3>1. i - 1 \in Nat /\ i - 1 + 1 = i /\ i <= n
      BY <1>1
    <3> QED
      BY <2>4, <3>1
  <2> QED
    BY <2>1, <2>5
<1> QED
  BY <1>9, <1>10, <1>11 DEF V, n

LEMMA PutsStep ==
  ASSUME NEW T, NEW f \in Seq(Seq(T)), f # <<>>, NEW g, Puts(g, f)
  PROVE  /\ g[1] = f[1]
         /\ \A i \in 1 .. Len(f) - 1 : g[i + 1] = g[i] \o f[i + 1]
<1>1. Len(f) \in Nat /\ Len(f) > 0
  BY EmptySeq
<1>2. \A i \in 1 .. Len(f) : g[i] = IF i = 1 THEN f[i] ELSE g[i - 1] \o f[i]
  BY DEF Puts
<1>3. g[1] = f[1]
  BY <1>1, <1>2
<1>4. ASSUME NEW i \in 1 .. Len(f) - 1
      PROVE  g[i + 1] = g[i] \o f[i + 1]
  <2> DEFINE a == i + 1
  <2>1. a \in 1 .. Len(f) /\ a # 1 /\ a - 1 = i
    BY <1>1
  <2> HIDE DEF a
  <2>2. g[a] = g[a - 1] \o f[a]
    BY <1>2, <2>1
  <2>3. g[a] = g[i] \o f[a]
    BY <2>1, <2>2
  <2> QED
    BY <2>3 DEF a
<1> QED
  BY <1>3, <1>4

(* What is put together is a text, and nothing is put together of nothing. *)
LEMMA FlattenTyped ==
  ASSUME NEW T, NEW f \in Seq(Seq(T))
  PROVE  FlattenSeq(f) \in Seq(T) /\ FlattenSeq(<<>>) = <<>>
<1>1. FlattenSeq(<<>>) = <<>>
  BY DEF FlattenSeq
<1>2. CASE f = <<>>
  <2>1. <<>> \in Seq(T)
    OBVIOUS
  <2> QED
    BY <1>1, <1>2, <2>1
<1>3. CASE f # <<>>
  <2>1. PICK g \in [1 .. Len(f) -> Seq(T)] : FlattenSeq(f) = g[Len(f)]
    BY <1>3, PutsIs
  <2>2. Len(f) \in 1 .. Len(f)
    BY <1>3, EmptySeq
  <2> QED
    BY <1>1, <2>1, <2>2
<1> QED
  BY <1>2, <1>3

(* The pieces up to the last, and the last.                                *)
LEMMA FlattenLast ==
  ASSUME NEW T, NEW f \in Seq(Seq(T)), NEW p \in Seq(T)
  PROVE  FlattenSeq(Append(f, p)) = FlattenSeq(f) \o p
<1> DEFINE h == Append(f, p)
           n == Len(f)
<1>1. /\ h \in Seq(Seq(T)) /\ Len(h) = n + 1 /\ h # <<>> /\ n \in Nat
      /\ h[n + 1] = p /\ \A i \in 1 .. n : h[i] = f[i]
  <2>1. h \in Seq(Seq(T)) /\ Len(h) = n + 1 /\ n \in Nat
        /\ \A i \in 1 .. n + 1 : h[i] = IF i = n + 1 THEN p ELSE f[i]
    BY AppendProperties
  <2>2. h # <<>>
    <3> HIDE DEF h
    <3> QED
      BY <2>1, EmptySeq
  <2> HIDE DEF h
  <2> QED
    BY <2>1, <2>2
<1> HIDE DEF h
<1>2. PICK g \in [1 .. Len(h) -> Seq(T)] : Puts(g, h) /\ FlattenSeq(h) = g[Len(h)]
  BY <1>1, PutsIs
<1>3. g[1] = h[1] /\ \A i \in 1 .. n : g[i + 1] = g[i] \o h[i + 1]
  <2>1. g[1] = h[1] /\ \A i \in 1 .. Len(h) - 1 : g[i + 1] = g[i] \o h[i + 1]
    BY <1>1, <1>2, PutsStep
  <2>2. Len(h) - 1 = n
    BY <1>1
  <2> QED
    BY <2>1, <2>2
<1>4. CASE f = <<>>
  <2>1. n = 0 /\ FlattenSeq(f) = <<>>
    BY <1>4, FlattenTyped
  <2>2. FlattenSeq(h) = p
    BY <1>1, <1>2, <1>3, <2>1
  <2> QED
    BY <2>1, <2>2, ConcatEmptySeq DEF h
<1>5. CASE f # <<>>
  <2>1. n > 0
    BY <1>1, <1>5, EmptySeq
  <2>2. PICK k \in [1 .. n -> Seq(T)] : Puts(k, f) /\ FlattenSeq(f) = k[n]
    BY <1>5, PutsIs
  <2>3. k[1] = f[1] /\ \A i \in 1 .. n - 1 : k[i + 1] = k[i] \o f[i + 1]
    BY <1>5, <2>2, PutsStep
  <2> DEFINE N == {i \in Nat : i + 1 <= n => g[i + 1] = k[i + 1]}
  <2>4. 0 \in N
    <3>1. g[1] = k[1]
      BY <1>1, <1>3, <2>1, <2>3
    <3> QED
      BY <3>1
  <2>5. ASSUME NEW i \in Nat, i \in N
        PROVE  i + 1 \in N
    <3>1. SUFFICES ASSUME i + 1 + 1 <= n
                   PROVE  g[i + 1 + 1] = k[i + 1 + 1]
      OBVIOUS
    <3>2. i + 1 \in 1 .. n - 1 /\ i + 1 \in 1 .. n /\ i + 1 + 1 \in 1 .. n /\ i + 1 <= n
      BY <1>1, <3>1
    <3>3. g[i + 1 + 1] = g[i + 1] \o h[i + 1 + 1] /\ k[i + 1 + 1] = k[i + 1] \o f[i + 1 + 1]
      BY <1>3, <2>3, <3>2
    <3> QED
      BY <1>1, <2>5, <3>2, <3>3
  <2>6. \A i \in Nat : i \in N
    <3> HIDE DEF N
    <3> QED
      BY <2>4, <2>5, CountInduction
  <2>7. g[n] = k[n]
    <3>1. n - 1 \in Nat /\ n - 1 + 1 = n /\ n <= n
      BY <1>1, <2>1
    <3>2. n - 1 \in N
      BY <2>6, <3>1
    <3>3. g[n - 1 + 1] = k[n - 1 + 1]
      BY <3>1, <3>2
    <3> QED
      BY <3>1, <3>3
  <2>8. FlattenSeq(h) = g[n] \o p
    <3>1. n \in 1 .. n
      BY <1>1, <2>1
    <3> QED
      BY <1>1, <1>2, <1>3, <3>1
  <2> QED
    BY <2>2, <2>7, <2>8 DEF h
<1> QED
  BY <1>4, <1>5

(* Two lists of pieces, one after the other.                               *)
LEMMA FlattenConcat ==
  ASSUME NEW T, NEW f \in Seq(Seq(T)), NEW h \in Seq(Seq(T))
  PROVE  FlattenSeq(f \o h) = FlattenSeq(f) \o FlattenSeq(h)
<1> DEFINE V == Seq(T)
           N == {n \in Nat : \A a \in Seq(V) : Len(a) = n =>
                  FlattenSeq(f \o a) = FlattenSeq(f) \o FlattenSeq(a)}
<1>1. 0 \in N
  <2>1. ASSUME NEW a \in Seq(V), Len(a) = 0
        PROVE  FlattenSeq(f \o a) = FlattenSeq(f) \o FlattenSeq(a)
    <3>1. a = <<>>
      BY <2>1, EmptySeq
    <3>2. f \o a = f /\ FlattenSeq(a) = <<>> /\ FlattenSeq(f) \in Seq(T)
      BY <3>1, ConcatEmptySeq, FlattenTyped
    <3> QED
      BY <3>2, ConcatEmptySeq
  <2> QED
    BY <2>1
<1>2. ASSUME NEW n \in Nat, n \in N
      PROVE  n + 1 \in N
  <2>1. ASSUME NEW a \in Seq(V), Len(a) = n + 1
        PROVE  FlattenSeq(f \o a) = FlattenSeq(f) \o FlattenSeq(a)
    <3> DEFINE b == SubSeq(a, 1, n)
               p == a[n + 1]
    <3>1. n \in 0 .. Len(a) /\ n + 1 \in 1 .. Len(a)
      BY <2>1
    <3>2. b \in Seq(V) /\ Len(b) = n /\ (\A k \in 1 .. n : b[k] = a[k]) /\ p \in V
      <4>1. p \in V
        BY <3>1
      <4> HIDE DEF V, p
      <4> QED
        BY <3>1, <4>1, FromIs
    <3> HIDE DEF b, p
    <3>3. Append(b, p) \in Seq(V) /\ Append(b, p) = a
      <4>1. /\ Append(b, p) \in Seq(V) /\ Len(Append(b, p)) = n + 1
            /\ \A i \in 1 .. n + 1 : Append(b, p)[i] = IF i = n + 1 THEN p ELSE b[i]
        BY <3>2, AppendProperties
      <4>2. ASSUME NEW i \in 1 .. n + 1
            PROVE  Append(b, p)[i] = a[i]
        <5>1. CASE i = n + 1
          BY <4>1, <5>1 DEF p
        <5>2. CASE i # n + 1
          <6>1. i \in 1 .. n
            BY <5>2
          <6> QED
            BY <3>2, <4>1, <5>2, <6>1
        <5> QED
          BY <5>1, <5>2
      <4> QED
        BY <2>1, <4>1, <4>2, SeqEqual
    <3>4. f \o a = Append(f \o b, p)
      <4>1. /\ f \o b \in Seq(V) /\ b \in Seq(V) /\ f \in Seq(V) /\ <<p>> \in Seq(V)
        BY <3>2, ConcatProperties
      <4>2. Append(f \o b, p) = (f \o b) \o <<p>> /\ Append(b, p) = b \o <<p>>
        BY <3>2, <4>1, AppendIsConcat
      <4>3. (f \o b) \o <<p>> = f \o (b \o <<p>>)
        <5> DEFINE c == <<p>>
        <5>1. c \in Seq(V) /\ b \in Seq(V) /\ f \in Seq(V)
          BY <4>1
        <5> HIDE DEF b, c
        <5>2. (f \o b) \o c = f \o (b \o c)
          BY <5>1, ConcatAssociative, SMTT(30)
        <5> QED
          BY <5>2 DEF c
      <4> QED
        BY <3>3, <4>2, <4>3
    <3>5. FlattenSeq(f \o a) = FlattenSeq(f \o b) \o p
      <4>1. f \o b \in Seq(V)
        BY <3>2, ConcatProperties
      <4> QED
        BY <3>2, <3>4, <4>1, FlattenLast
    <3>6. FlattenSeq(a) = FlattenSeq(b) \o p
      BY <3>2, <3>3, FlattenLast
    <3>7. FlattenSeq(f \o b) = FlattenSeq(f) \o FlattenSeq(b)
      BY <1>2, <3>2
    <3>8. FlattenSeq(f) \in Seq(T) /\ FlattenSeq(b) \in Seq(T) /\ p \in Seq(T)
      BY <3>2, FlattenTyped
    <3> QED
      BY <3>5, <3>6, <3>7, <3>8, ConcatAssociative
  <2> QED
    BY <2>1
<1>3. \A n \in Nat : n \in N
  <2> HIDE DEF N
  <2> QED
    BY <1>1, <1>2, CountInduction
<1>4. h \in Seq(V) /\ Len(h) \in Nat
  OBVIOUS
<1> QED
  BY <1>3, <1>4

-----------------------------------------------------------------------------
(* The spelling.  A blank ends a word and a unit, so what stands before it *)
(* is spelled as if nothing followed.                                      *)

SpelledAt(s, i) ==
  IF Respelt(s, i) THEN <<"U">> ELSE IF Respelt(s, i - 1) THEN <<>> ELSE <<s[i]>>

LEMMA OneIsSeq ==
  ASSUME NEW T, NEW c \in T
  PROVE  <<c>> \in Seq(T) /\ <<>> \in Seq(T)
OBVIOUS

LEMMA SymbolsAreText ==
  <<>> \in Text /\ \A c \in Alphabet : <<c>> \in Text
BY OneIsSeq DEF Text

LEMMA SpellIs ==
  ASSUME NEW s \in Text
  PROVE  /\ [i \in 1 .. Len(s) |-> SpelledAt(s, i)] \in Seq(Text)
         /\ Spell(s) = FlattenSeq([i \in 1 .. Len(s) |-> SpelledAt(s, i)])
         /\ Spell(s) \in Text
<1>1. DOMAIN s = 1 .. Len(s) /\ Len(s) \in Nat /\ \A i \in 1 .. Len(s) : s[i] \in Alphabet
  BY DEF Text
<1> DEFINE f == [i \in 1 .. Len(s) |-> SpelledAt(s, i)]
<1>2. f \in Seq(Text)
  <2>1. ASSUME NEW i \in 1 .. Len(s)
        PROVE  SpelledAt(s, i) \in Text
    <3>1. s[i] \in Alphabet
      BY <1>1
    <3>2. "U" \in Alphabet
      BY DEF Alphabet, Letters
    <3>3. <<"U">> \in Text /\ <<s[i]>> \in Text /\ <<>> \in Text
      BY <3>1, <3>2, SymbolsAreText, Zenon
    <3> QED
      BY <3>3 DEF SpelledAt
  <2> QED
    BY <1>1, <2>1, IsASeq
<1>3. Spell(s) = FlattenSeq(f)
  BY <1>1 DEF Spell, SpelledAt
<1>4. FlattenSeq(f) \in Text
  <2> HIDE DEF f
  <2> QED
    BY <1>2, FlattenTyped DEF Text
<1> QED
  BY <1>2, <1>3, <1>4

(* Where the two parts of a text whose first ends in a blank stand.        *)
LEMMA PartsIs ==
  ASSUME NEW p \in Text, NEW y \in Text
  PROVE  /\ p \o y \in Text /\ Len(p \o y) = Len(p) + Len(y) /\ Len(p) \in Nat /\ Len(y) \in Nat
         /\ \A i \in 1 .. Len(p) : (p \o y)[i] = p[i]
         /\ \A i \in 1 .. Len(y) : (p \o y)[Len(p) + i] = y[i]
         /\ DOMAIN p = 1 .. Len(p) /\ DOMAIN y = 1 .. Len(y)
         /\ DOMAIN (p \o y) = 1 .. Len(p) + Len(y)
<1>1. /\ p \o y \in Text /\ Len(p \o y) = Len(p) + Len(y) /\ Len(p) \in Nat /\ Len(y) \in Nat
      /\ \A i \in 1 .. Len(p) + Len(y) : (p \o y)[i] = IF i <= Len(p) THEN p[i] ELSE y[i - Len(p)]
      /\ DOMAIN p = 1 .. Len(p) /\ DOMAIN y = 1 .. Len(y)
  BY ConcatProperties DEF Text
<1> DEFINE s == p \o y
<1>2. DOMAIN s = 1 .. Len(s)
  <2> HIDE DEF s
  <2>1. s \in Text
    BY <1>1 DEF s
  <2> QED
    BY <2>1 DEF Text
<1>3. ASSUME NEW i \in 1 .. Len(p)
      PROVE  s[i] = p[i]
  <2>1. i \in 1 .. Len(p) + Len(y) /\ i <= Len(p)
    BY <1>1
  <2> HIDE DEF s
  <2> QED
    BY <1>1, <2>1 DEF s
<1>4. ASSUME NEW i \in 1 .. Len(y)
      PROVE  s[Len(p) + i] = y[i]
  <2>1. Len(p) + i \in 1 .. Len(p) + Len(y) /\ ~(Len(p) + i <= Len(p)) /\ Len(p) + i - Len(p) = i
    BY <1>1
  <2> HIDE DEF s
  <2> QED
    BY <1>1, <2>1 DEF s
<1> QED
  BY <1>1, <1>2, <1>3, <1>4

LEMMA UmlautBefore ==
  ASSUME NEW p \in Text, p # <<>>, p[Len(p)] \in Spaces, NEW y \in Text, NEW i \in 1 .. Len(p)
  PROVE  Umlaut(p \o y, i) <=> Umlaut(p, i)
<1> DEFINE s == p \o y
           n == Len(p)
<1>1. /\ n \in Nat /\ Len(y) \in Nat /\ n > 0 /\ DOMAIN p = 1 .. n /\ DOMAIN s = 1 .. n + Len(y)
      /\ \A k \in 1 .. n : s[k] = p[k]
  BY PartsIs, EmptySeq DEF Text
<1>2. s[n] # "u" /\ s[n] # "e" /\ s[n] \notin Letters
  <2>1. s[n] = p[n] /\ p[n] \in Spaces
    <3>1. n \in 1 .. n
      BY <1>1
    <3> QED
      BY <1>1, <3>1
  <2> HIDE DEF s, n
  <2> QED
    BY <2>1 DEF Spaces, Letters
<1> HIDE DEF s, n
<1>3. ASSUME NEW c \in 1 .. n
      PROVE  IsUe(s, c) <=> IsUe(p, c)
  <2>1. CASE c = n
    BY <1>1, <1>2, <2>1 DEF IsUe
  <2>2. CASE c # n
    <3>1. c + 1 \in 1 .. n /\ c + 1 \in 1 .. n + Len(y)
      BY <1>1, <2>2
    <3> QED
      BY <1>1, <3>1 DEF IsUe
  <2> QED
    BY <2>1, <2>2
<1>4. i \in 1 .. n
  BY DEF n
<1>5. IsUe(s, i) => /\ i + 2 \in DOMAIN s /\ s[i + 2] \in Letters
                         <=> i + 2 \in DOMAIN p /\ p[i + 2] \in Letters
  <2>1. SUFFICES ASSUME IsUe(s, i)
                 PROVE  i + 2 \in 1 .. n /\ i + 2 \in 1 .. n + Len(y)
    BY <1>1
  <2>2. s[i] = "u" /\ s[i + 1] = "e"
    BY <2>1 DEF IsUe
  <2>3. i # n
    BY <1>2, <2>2
  <2>4. i + 1 # n
    BY <1>2, <2>2
  <2> QED
    BY <1>1, <1>4, <2>3, <2>4
<1>6. ASSUME NEW b \in 1 .. i
      PROVE  /\ b \in 1 .. n
             /\ (\A c \in b .. i : (c - b) % 2 = 0 => IsUe(s, c))
                  <=> (\A c \in b .. i : (c - b) % 2 = 0 => IsUe(p, c))
             /\ (b = 1 \/ s[b - 1] # "e") <=> (b = 1 \/ p[b - 1] # "e")
  <2>1. b \in 1 .. n /\ (b # 1 => b - 1 \in 1 .. n) /\ \A c \in b .. i : c \in 1 .. n
    BY <1>1, <1>4
  <2> QED
    BY <1>1, <1>3, <2>1
<1>7. Umlaut(s, i) <=> Umlaut(p, i)
  BY <1>3, <1>4, <1>5, <1>6 DEF Umlaut
<1> QED
  BY <1>7 DEF s

LEMMA UmlautBehind ==
  ASSUME NEW p \in Text, p # <<>>, p[Len(p)] \in Spaces, NEW y \in Text, NEW i \in 1 .. Len(y)
  PROVE  Umlaut(p \o y, Len(p) + i) <=> Umlaut(y, i)
<1> DEFINE s == p \o y
           n == Len(p)
           m == Len(y)
<1>1. /\ n \in Nat /\ m \in Nat /\ n > 0 /\ DOMAIN y = 1 .. m /\ DOMAIN s = 1 .. n + m
      /\ \A k \in 1 .. m : s[n + k] = y[k]
      /\ s[n] # "u" /\ s[n] # "e"
  <2>1. n > 0 /\ n \in Nat /\ p[n] # "u" /\ p[n] # "e"
    <3>1. p[n] # "u" /\ p[n] # "e"
      BY DEF Spaces
    <3> QED
      BY <3>1, EmptySeq DEF Text
  <2>2. n \in 1 .. n
    BY <2>1
  <2> QED
    BY <2>1, <2>2, PartsIs
<1>2. i \in 1 .. m
  OBVIOUS
<1> HIDE DEF s, n, m
<1>3. ASSUME NEW c \in 1 .. m
      PROVE  IsUe(s, n + c) <=> IsUe(y, c)
  <2>1. n + c + 1 = n + (c + 1) /\ (n + c + 1 \in 1 .. n + m <=> c + 1 \in 1 .. m)
    BY <1>1
  <2> QED
    BY <1>1, <2>1 DEF IsUe
<1>4. (n + i + 2 \in DOMAIN s /\ s[n + i + 2] \in Letters) <=> (i + 2 \in DOMAIN y /\ y[i + 2] \in Letters)
  <2>1. n + i + 2 = n + (i + 2) /\ (n + i + 2 \in 1 .. n + m <=> i + 2 \in 1 .. m)
    BY <1>1, <1>2
  <2> QED
    BY <1>1, <2>1
<1> DEFINE At(t, j, b) == /\ (j - b) % 2 = 0 /\ \A c \in b .. j : (c - b) % 2 = 0 => IsUe(t, c)
                          /\ b = 1 \/ t[b - 1] # "e"
<1>5. ASSUME NEW b \in 1 .. n + i, At(s, n + i, b)
      PROVE  \E d \in 1 .. i : At(y, i, d)
  <2>1. b > n
    <3>1. SUFFICES ASSUME b <= n PROVE FALSE
      BY <1>1
    <3>2. CASE (n - b) % 2 = 0
      <4>1. n \in b .. n + i
        BY <1>1, <1>2, <3>1
      <4>2. IsUe(s, n)
        BY <1>5, <3>2, <4>1
      <4> QED
        BY <1>1, <4>2 DEF IsUe
    <3>3. CASE (n - b) % 2 # 0
      <4>1. n - 1 \in b .. n + i /\ (n - 1 - b) % 2 = 0 /\ n - 1 + 1 = n
        BY <1>1, <1>2, <3>1, <3>3
      <4>2. IsUe(s, n - 1)
        BY <1>5, <4>1
      <4> QED
        BY <1>1, <4>1, <4>2 DEF IsUe
    <3> QED
      BY <3>2, <3>3
  <2> DEFINE d == b - n
  <2>2. d \in 1 .. i /\ (i - d) % 2 = 0 /\ d \in 1 .. m
    BY <1>1, <1>2, <1>5, <2>1
  <2>3. ASSUME NEW c \in d .. i, (c - d) % 2 = 0
        PROVE  IsUe(y, c)
    <3>1. n + c \in b .. n + i /\ ((n + c) - b) % 2 = 0 /\ c \in 1 .. m
      BY <1>1, <1>2, <2>1, <2>2, <2>3
    <3>2. \A k \in b .. n + i : (k - b) % 2 = 0 => IsUe(s, k)
      BY <1>5
    <3>3. IsUe(s, n + c)
      <4> DEFINE k == n + c
      <4>1. k \in b .. n + i /\ (k - b) % 2 = 0
        BY <1>1, <3>1
      <4> HIDE DEF k
      <4>2. IsUe(s, k)
        BY <3>2, <4>1
      <4> QED
        BY <4>2 DEF k
    <3> QED
      BY <1>3, <3>1, <3>3
  <2>4. d = 1 \/ y[d - 1] # "e"
    <3>1. SUFFICES ASSUME d # 1 PROVE y[d - 1] # "e"
      OBVIOUS
    <3>2. d - 1 \in 1 .. m /\ n + (d - 1) = b - 1 /\ b # 1
      BY <1>1, <2>1, <2>2, <3>1
    <3>3. s[b - 1] # "e" /\ s[n + (d - 1)] = y[d - 1]
      BY <1>1, <1>5, <3>2
    <3> QED
      BY <3>2, <3>3
  <2>5. At(y, i, d)
    BY <2>2, <2>3, <2>4
  <2> QED
    BY <2>2, <2>5
<1>6. ASSUME NEW d \in 1 .. i, At(y, i, d)
      PROVE  \E b \in 1 .. n + i : At(s, n + i, b)
  <2> DEFINE b == n + d
  <2>1. b \in 1 .. n + i /\ ((n + i) - b) % 2 = 0
    BY <1>1, <1>2, <1>6
  <2>2. ASSUME NEW c \in b .. n + i, (c - b) % 2 = 0
        PROVE  IsUe(s, c)
    <3>1. c - n \in d .. i /\ (c - n - d) % 2 = 0 /\ c - n \in 1 .. m /\ n + (c - n) = c
      BY <1>1, <1>2, <2>2
    <3>2. IsUe(y, c - n)
      BY <1>6, <3>1
    <3>3. IsUe(s, n + (c - n))
      BY <1>3, <3>1, <3>2
    <3> QED
      BY <3>1, <3>3
  <2>3. b = 1 \/ s[b - 1] # "e"
    <3>1. CASE d = 1
      <4>1. b - 1 = n
        BY <1>1, <3>1
      <4> QED
        BY <1>1, <4>1
    <3>2. CASE d # 1
      <4>1. d - 1 \in 1 .. m /\ b - 1 = n + (d - 1)
        BY <1>1, <1>2, <3>2
      <4>2. y[d - 1] # "e"
        BY <1>6, <3>2
      <4> QED
        BY <1>1, <4>1, <4>2
    <3> QED
      BY <3>1, <3>2
  <2>4. At(s, n + i, b)
    <3>1. b \in Int /\ n + i \in Int
      BY <1>1, <1>2
    <3> HIDE DEF b
    <3> QED
      BY <2>1, <2>2, <2>3, <3>1
  <2> QED
    BY <2>1, <2>4
<1>7. (\E b \in 1 .. n + i : At(s, n + i, b)) <=> (\E d \in 1 .. i : At(y, i, d))
  <2> HIDE DEF At
  <2> QED
    BY <1>5, <1>6
<1>8. Umlaut(s, n + i) <=> Umlaut(y, i)
  BY <1>2, <1>3, <1>4, <1>7 DEF Umlaut
<1> QED
  BY <1>8 DEF s, n

LEMMA IdentifierBefore ==
  ASSUME NEW p \in Text, p # <<>>, p[Len(p)] \in Spaces, NEW y \in Text, NEW i \in 1 .. Len(p)
  PROVE  Identifier(p \o y, i) <=> Identifier(p, i)
<1> DEFINE s == p \o y
           n == Len(p)
<1>1. /\ n \in Nat /\ Len(y) \in Nat /\ n > 0 /\ DOMAIN p = 1 .. n /\ DOMAIN s = 1 .. n + Len(y)
      /\ \A k \in 1 .. n : s[k] = p[k]
  BY PartsIs, EmptySeq DEF Text
<1>2. i \in 1 .. n /\ s[n] \in Spaces
  BY <1>1
<1> HIDE DEF s, n
<1>3. ASSUME NEW j \in 1 .. n
      PROVE  (s[j] \in Digits /\ \A k \in i .. j \cup j .. i : s[k] \notin Spaces)
               <=> (p[j] \in Digits /\ \A k \in i .. j \cup j .. i : p[k] \notin Spaces)
  <2>1. \A k \in i .. j \cup j .. i : k \in 1 .. n
    BY <1>1, <1>2
  <2> QED
    BY <1>1, <2>1
<1>4. ASSUME NEW j \in 1 .. n + Len(y), \A k \in i .. j \cup j .. i : s[k] \notin Spaces
      PROVE  j \in 1 .. n
  <2>1. SUFFICES ASSUME j > n PROVE FALSE
    BY <1>1
  <2>2. n \in i .. j
    BY <1>1, <1>2, <2>1
  <2> QED
    BY <1>2, <1>4, <2>2
<1>5. n <= n + Len(y) /\ \A j \in 1 .. n : j \in 1 .. n + Len(y)
  BY <1>1
<1>6. Identifier(s, i) <=> Identifier(p, i)
  BY <1>1, <1>3, <1>4, <1>5 DEF Identifier
<1> QED
  BY <1>6 DEF s

LEMMA IdentifierBehind ==
  ASSUME NEW p \in Text, p # <<>>, p[Len(p)] \in Spaces, NEW y \in Text, NEW i \in 1 .. Len(y)
  PROVE  Identifier(p \o y, Len(p) + i) <=> Identifier(y, i)
<1> DEFINE s == p \o y
           n == Len(p)
           m == Len(y)
<1>1. /\ n \in Nat /\ m \in Nat /\ n > 0 /\ DOMAIN y = 1 .. m /\ DOMAIN s = 1 .. n + m
      /\ \A k \in 1 .. m : s[n + k] = y[k]
  BY PartsIs, EmptySeq DEF Text
<1>2. i \in 1 .. m /\ s[n] \in Spaces
  <2>1. n \in 1 .. n
    BY <1>1
  <2> QED
    BY <2>1, PartsIs
<1> HIDE DEF s, n, m
<1>3. ASSUME NEW j \in 1 .. m
      PROVE  (s[n + j] \in Digits /\ \A k \in (n + i) .. (n + j) \cup (n + j) .. (n + i) : s[k] \notin Spaces)
               <=> (y[j] \in Digits /\ \A k \in i .. j \cup j .. i : y[k] \notin Spaces)
  <2>1. \A k \in i .. j \cup j .. i : k \in 1 .. m /\ n + k \in (n + i) .. (n + j) \cup (n + j) .. (n + i)
    BY <1>1, <1>2
  <2>2. \A k \in (n + i) .. (n + j) \cup (n + j) .. (n + i) :
           k - n \in i .. j \cup j .. i /\ k - n \in 1 .. m /\ n + (k - n) = k
    BY <1>1, <1>2
  <2>3. ASSUME \A k \in (n + i) .. (n + j) \cup (n + j) .. (n + i) : s[k] \notin Spaces,
               NEW k \in i .. j \cup j .. i
        PROVE  y[k] \notin Spaces
    <3>1. s[n + k] \notin Spaces /\ s[n + k] = y[k]
      BY <1>1, <2>1, <2>3
    <3> QED
      BY <3>1
  <2>4. ASSUME \A k \in i .. j \cup j .. i : y[k] \notin Spaces,
               NEW k \in (n + i) .. (n + j) \cup (n + j) .. (n + i)
        PROVE  s[k] \notin Spaces
    <3>1. y[k - n] \notin Spaces /\ s[n + (k - n)] = y[k - n] /\ n + (k - n) = k
      BY <1>1, <2>2, <2>4
    <3> QED
      BY <3>1
  <2> QED
    BY <1>1, <2>3, <2>4
<1>4. ASSUME NEW j \in 1 .. n + m, \A k \in (n + i) .. j \cup j .. (n + i) : s[k] \notin Spaces
      PROVE  j - n \in 1 .. m /\ n + (j - n) = j
  <2>1. j > n
    <3>1. SUFFICES ASSUME j <= n PROVE FALSE
      BY <1>1
    <3>2. n \in j .. (n + i)
      BY <1>1, <1>2, <3>1
    <3> QED
      BY <1>2, <1>4, <3>2
  <2> QED
    BY <1>1, <2>1
<1>5. ASSUME Identifier(s, n + i) PROVE Identifier(y, i)
  <2>1. PICK j \in 1 .. n + m : s[j] \in Digits /\ \A k \in (n + i) .. j \cup j .. (n + i) : s[k] \notin Spaces
    BY <1>1, <1>5 DEF Identifier
  <2> DEFINE h == j - n
  <2>2. h \in 1 .. m /\ n + h = j
    BY <1>4, <2>1
  <2> HIDE DEF h
  <2>3. y[h] \in Digits /\ \A k \in i .. h \cup h .. i : y[k] \notin Spaces
    BY <1>3, <2>1, <2>2
  <2> QED
    BY <1>1, <2>2, <2>3 DEF Identifier
<1>6. ASSUME Identifier(y, i) PROVE Identifier(s, n + i)
  <2>1. PICK j \in 1 .. m : y[j] \in Digits /\ \A k \in i .. j \cup j .. i : y[k] \notin Spaces
    BY <1>1, <1>6 DEF Identifier
  <2>2. n + j \in 1 .. n + m
    BY <1>1
  <2>3. s[n + j] \in Digits /\ \A k \in (n + i) .. (n + j) \cup (n + j) .. (n + i) : s[k] \notin Spaces
    BY <1>3, <2>1
  <2> QED
    BY <1>1, <2>2, <2>3 DEF Identifier
<1> QED
  BY <1>5, <1>6 DEF s, n

(* What a text is spelled of, in its two parts.                            *)
LEMMA SpelledApart ==
  ASSUME NEW p \in Text, p # <<>>, p[Len(p)] \in Spaces, NEW y \in Text
  PROVE  /\ \A i \in 1 .. Len(p) : SpelledAt(p \o y, i) = SpelledAt(p, i)
         /\ \A i \in 1 .. Len(y) : SpelledAt(p \o y, Len(p) + i) = SpelledAt(y, i)
<1> DEFINE s == p \o y
           n == Len(p)
           m == Len(y)
<1>1. /\ n \in Nat /\ m \in Nat /\ n > 0 /\ DOMAIN p = 1 .. n /\ DOMAIN y = 1 .. m /\ DOMAIN s = 1 .. n + m
      /\ \A k \in 1 .. n : s[k] = p[k]
      /\ \A k \in 1 .. m : s[n + k] = y[k]
  BY PartsIs, EmptySeq DEF Text
<1>2. /\ \A i \in 1 .. n : Umlaut(s, i) <=> Umlaut(p, i)
      /\ \A i \in 1 .. m : Umlaut(s, n + i) <=> Umlaut(y, i)
      /\ \A i \in 1 .. n : Identifier(s, i) <=> Identifier(p, i)
      /\ \A i \in 1 .. m : Identifier(s, n + i) <=> Identifier(y, i)
  BY UmlautBefore, UmlautBehind, IdentifierBefore, IdentifierBehind
<1>3. ~Respelt(s, n)
  <2>1. n \in 1 .. n
    BY <1>1
  <2>2. s[n] \in Spaces
    BY <1>1, <2>1
  <2> HIDE DEF s, n
  <2> QED
    BY <2>2 DEF Respelt, Umlaut, IsUe, Spaces
<1> HIDE DEF s, n, m
<1>4. ASSUME NEW i \in 0 .. n
      PROVE  Respelt(s, i) <=> Respelt(p, i)
  <2>1. CASE i = 0
    BY <1>1, <2>1 DEF Respelt
  <2>2. CASE i # 0
    <3>1. i \in 1 .. n /\ i \in 1 .. n + m
      BY <1>1, <2>2
    <3> QED
      BY <1>1, <1>2, <3>1 DEF Respelt
  <2> QED
    BY <2>1, <2>2
<1>5. ASSUME NEW i \in 0 .. m
      PROVE  Respelt(s, n + i) <=> Respelt(y, i)
  <2>1. CASE i = 0
    <3>1. n + i = n /\ i \notin 1 .. m
      BY <1>1, <2>1
    <3> QED
      BY <1>1, <1>3, <3>1 DEF Respelt
  <2>2. CASE i # 0
    <3>1. i \in 1 .. m /\ n + i \in 1 .. n + m
      BY <1>1, <2>2
    <3> QED
      BY <1>1, <1>2, <3>1 DEF Respelt
  <2> QED
    BY <2>1, <2>2
<1>6. ASSUME NEW i \in 1 .. n
      PROVE  SpelledAt(s, i) = SpelledAt(p, i)
  <2>1. i \in 0 .. n /\ i - 1 \in 0 .. n
    BY <1>1
  <2> QED
    BY <1>1, <1>4, <2>1 DEF SpelledAt
<1>7. ASSUME NEW i \in 1 .. m
      PROVE  SpelledAt(s, n + i) = SpelledAt(y, i)
  <2>1. i \in 0 .. m /\ i - 1 \in 0 .. m /\ (n + i) - 1 = n + (i - 1)
    BY <1>1
  <2>2. s[n + i] = y[i] /\ (Respelt(s, n + i) <=> Respelt(y, i)) /\ (Respelt(s, n + (i - 1)) <=> Respelt(y, i - 1))
    BY <1>1, <1>5, <2>1
  <2>3. Respelt(s, (n + i) - 1) <=> Respelt(y, i - 1)
    BY <2>1, <2>2
  <2> DEFINE a == n + i
  <2>4. s[a] = y[i] /\ (Respelt(s, a) <=> Respelt(y, i)) /\ (Respelt(s, a - 1) <=> Respelt(y, i - 1))
    BY <2>2, <2>3
  <2> HIDE DEF a
  <2>5. SpelledAt(s, a) = SpelledAt(y, i)
    BY <2>4 DEF SpelledAt
  <2> QED
    BY <2>5 DEF a
<1> QED
  BY <1>6, <1>7 DEF s, n, m

(* prose, of a text that is cut behind a blank.                            *)
LEMMA SpellApart ==
  ASSUME NEW p \in Text, p = <<>> \/ p[Len(p)] \in Spaces, NEW y \in Text
  PROVE  Spell(p \o y) = Spell(p) \o Spell(y)
<1>1. CASE p = <<>>
  <2>1. Spell(p) = <<>>
    <3>1. <<>> \in Text /\ [i \in 1 .. 0 |-> SpelledAt(<<>>, i)] = <<>> /\ Len(<<>>) = 0
      BY DEF Text
    <3>2. Spell(<<>>) = FlattenSeq(<<>>)
      BY <3>1, SpellIs
    <3>3. <<>> \in Seq(Seq(Alphabet))
      OBVIOUS
    <3> QED
      BY <1>1, <3>2, <3>3, FlattenTyped
  <2>2. p \o y = y /\ <<>> \o Spell(y) = Spell(y)
    BY <1>1, SpellIs, ConcatEmptySeq DEF Text
  <2> QED
    BY <2>1, <2>2
<1>2. CASE p # <<>>
  <2> DEFINE s == p \o y
             n == Len(p)
             m == Len(y)
             f == [i \in 1 .. n |-> SpelledAt(p, i)]
             h == [i \in 1 .. m |-> SpelledAt(y, i)]
             k == [i \in 1 .. Len(s) |-> SpelledAt(s, i)]
  <2>1. s \in Text /\ Len(s) = n + m /\ n \in Nat /\ m \in Nat
    BY PartsIs
  <2>2. /\ (\A i \in 1 .. n : SpelledAt(s, i) = SpelledAt(p, i))
        /\ (\A i \in 1 .. m : SpelledAt(s, n + i) = SpelledAt(y, i))
    BY <1>2, SpelledApart
  <2>3. f \in Seq(Text) /\ Spell(p) = FlattenSeq(f) /\ h \in Seq(Text) /\ Spell(y) = FlattenSeq(h)
    BY SpellIs
  <2>4. k \in Seq(Text) /\ Spell(s) = FlattenSeq(k)
    <3> HIDE DEF s
    <3> QED
      BY <2>1, SpellIs
  <2>5. Len(f) = n /\ Len(h) = m /\ Len(k) = n + m
    BY <2>1
  <2>6. /\ \A i \in 1 .. n : f[i] = SpelledAt(p, i)
        /\ \A i \in 1 .. m : h[i] = SpelledAt(y, i)
        /\ \A i \in 1 .. n + m : k[i] = SpelledAt(s, i)
    BY <2>1
  <2> HIDE DEF s, n, m, f, h, k
  <2>7. /\ f \o h \in Seq(Text) /\ Len(f \o h) = n + m
        /\ \A i \in 1 .. n + m : (f \o h)[i] = IF i <= n THEN f[i] ELSE h[i - n]
    BY <2>3, <2>5, ConcatProperties
  <2>8. ASSUME NEW i \in 1 .. n + m
        PROVE  k[i] = (f \o h)[i]
    <3>1. CASE i <= n
      <4>1. i \in 1 .. n
        BY <2>1, <3>1
      <4> QED
        BY <2>2, <2>6, <2>7, <3>1, <4>1
    <3>2. CASE ~(i <= n)
      <4>1. i - n \in 1 .. m /\ n + (i - n) = i
        BY <2>1, <3>2
      <4>2. SpelledAt(s, n + (i - n)) = SpelledAt(y, i - n) /\ h[i - n] = SpelledAt(y, i - n)
        BY <2>2, <2>6, <4>1
      <4> QED
        BY <2>6, <2>7, <3>2, <4>1, <4>2
    <3> QED
      BY <3>1, <3>2
  <2>9. k = f \o h
    BY <2>1, <2>4, <2>5, <2>7, <2>8, SeqEqual
  <2> QED
    BY <2>3, <2>4, <2>9, FlattenConcat DEF s, Text
<1> QED
  BY <1>1, <1>2

-----------------------------------------------------------------------------
(* The markers' text.                                                      *)

(* The greatest place with a property; there is one.                       *)
LEMMA LastPlace ==
  ASSUME NEW m \in Nat, NEW S \in SUBSET (0 .. m), S # {}
  PROVE  Max(S) \in S /\ \A x \in S : x <= Max(S)
<1>1. IsFiniteSet(0 .. m)
  BY IntervalFinite
<1>2. IsFiniteSet(S)
  BY <1>1, FS_Subset
<1>3. S \subseteq Nat
  OBVIOUS
<1> QED
  BY <1>2, <1>3, GreatestOf

LEMMA NumeralTyped ==
  ASSUME NEW d \in Nat
  PROVE  Numeral(d) \in Text
<1> DEFINE digit(n) == <<DigitOf[(n % 10) + 1]>>
<1>1. ASSUME NEW n \in Nat
      PROVE  digit(n) \in Text
  <2>1. n % 10 \in 0 .. 9
    OBVIOUS
  <2>2. DigitOf[(n % 10) + 1] \in Alphabet
    BY <2>1 DEF Alphabet, Digits
  <2> QED
    BY <2>2, SymbolsAreText
<1>2. d \div 100 \in Nat /\ d \div 10 \in Nat
  OBVIOUS
<1>3. digit(d \div 100) \in Text /\ digit(d \div 10) \in Text /\ digit(d) \in Text /\ <<>> \in Text
  BY <1>1, <1>2, SymbolsAreText
<1>4. Numeral(d) = (IF d > 99 THEN digit(d \div 100) ELSE <<>>)
                     \o (IF d > 9 THEN digit(d \div 10) ELSE <<>>) \o digit(d)
  BY DEF Numeral
<1> HIDE DEF digit
<1>5. \A a, b \in Text : a \o b \in Text
  BY ConcatProperties DEF Text
<1>6. CASE d > 99 /\ d > 9
  BY <1>3, <1>4, <1>5, <1>6
<1>7. CASE ~(d > 99) /\ d > 9
  BY <1>3, <1>4, <1>5, <1>7
<1>8. CASE ~(d > 99) /\ ~(d > 9)
  BY <1>3, <1>4, <1>5, <1>8
<1> QED
  BY <1>6, <1>7, <1>8

(* denseOf: what was minted stays where it is, and what is cited is there. *)
LEMMA MintIs ==
  ASSUME NEW known \in Seq(Int), NEW X, NEW nums \in Seq(X), NEW n \in Nat
  PROVE  LET k == Mint(known, nums, n)
         IN  /\ k \in Seq(Int) /\ Len(known) <= Len(k)
             /\ \A d \in 1 .. Len(known) : k[d] = known[d]
             /\ \A i \in 1 .. Len(nums) : nums[i] \in 1 .. n => \E d \in 1 .. Len(k) : k[d] = nums[i]
<1> DEFINE S == {i \in DOMAIN nums : /\ nums[i] \in 1 .. n /\ ~Contains(known, nums[i])
                                     /\ \A j \in 1 .. i - 1 : nums[j] # nums[i]}
           r == Picked(nums, S)
           k == Mint(known, nums, n)
<1>1. DOMAIN nums = 1 .. Len(nums) /\ Len(nums) \in Nat /\ S \in SUBSET (1 .. Len(nums))
      /\ DOMAIN known = 1 .. Len(known) /\ Len(known) \in Nat
  OBVIOUS
<1>2. k = known \o r
  BY DEF Mint
<1>3. \A i \in S : nums[i] \in Int
  OBVIOUS
<1>4. /\ r \in Seq(X) /\ Len(r) = Cardinality(S) /\ Cardinality(S) \in Nat
      /\ \A i \in S : PlaceIn(S, i) \in 1 .. Cardinality(S) /\ r[PlaceIn(S, i)] = nums[i]
      /\ \A m \in 1 .. Cardinality(S) : \E i \in S : PlaceIn(S, i) = m
  <2>1. S \in SUBSET (1 .. Len(nums))
    BY <1>1
  <2> HIDE DEF S
  <2> QED
    BY <2>1, PickedIs
<1>5. r \in Seq(Int)
  <2>1. \A m \in 1 .. Len(r) : r[m] \in Int
    <3> HIDE DEF S, r
    <3> QED
      BY <1>3, <1>4
  <2>2. r = [m \in 1 .. Len(r) |-> r[m]]
    <3> HIDE DEF r
    <3> QED
      BY <1>4
  <2> DEFINE l == Len(r)
  <2>3. l \in Nat
    <3> HIDE DEF r
    <3> QED
      BY <1>4
  <2> HIDE DEF r, l
  <2>4. \A m \in 1 .. l : r[m] \in Int
    BY <2>1 DEF l
  <2>5. [m \in 1 .. l |-> r[m]] \in Seq(Int)
    BY <2>3, <2>4, IsASeq
  <2> QED
    BY <2>2, <2>5 DEF l
<1>6. /\ k \in Seq(Int) /\ Len(k) = Len(known) + Len(r)
      /\ \A i \in 1 .. Len(known) + Len(r) : k[i] = IF i <= Len(known) THEN known[i] ELSE r[i - Len(known)]
  <2> HIDE DEF r, k
  <2> QED
    BY <1>2, <1>5, ConcatProperties
<1>7. ASSUME NEW i \in 1 .. Len(nums), nums[i] \in 1 .. n
      PROVE  \E d \in 1 .. Len(k) : k[d] = nums[i]
  <2>1. CASE Contains(known, nums[i])
    <3>1. PICK d \in 1 .. Len(known) : known[d] = nums[i]
      BY <1>1, <2>1 DEF Contains
    <3>2. d \in 1 .. Len(known) + Len(r) /\ d <= Len(known) /\ Len(r) \in Nat
      BY <1>1, <1>4
    <3> HIDE DEF k, r
    <3> QED
      BY <1>6, <3>1, <3>2
  <2>2. CASE ~Contains(known, nums[i])
    <3> DEFINE M == {j \in 1 .. Len(nums) : nums[j] = nums[i]}
    <3>1. PICK j \in M : \A h \in M : j <= h
      <4>1. M \in SUBSET Nat /\ i \in M
        BY <1>1
      <4> HIDE DEF M
      <4> QED
        BY <4>1, LeastNumber
    <3>2. j \in S
      <4>1. ASSUME NEW h \in 1 .. j - 1
            PROVE  nums[h] # nums[j]
        <5>1. h \in 1 .. Len(nums) /\ ~(j <= h)
          BY <1>1
        <5> QED
          BY <3>1, <5>1
      <4> QED
        BY <1>1, <1>7, <2>2, <4>1
    <3>3. nums[j] = nums[i]
      OBVIOUS
    <3> HIDE DEF S, M, r, k
    <3> DEFINE h == PlaceIn(S, j)
    <3>4. h \in 1 .. Len(r) /\ r[h] = nums[i]
      BY <1>4, <3>2, <3>3
    <3> HIDE DEF h
    <3> DEFINE d == Len(known) + h
    <3>5. d \in 1 .. Len(known) + Len(r) /\ ~(d <= Len(known)) /\ d - Len(known) = h
      BY <1>1, <1>4, <3>4
    <3> HIDE DEF d
    <3>6. k[d] = nums[i]
      BY <1>6, <3>4, <3>5
    <3> QED
      BY <1>6, <3>5, <3>6
  <2> QED
    BY <2>1, <2>2
<1>8. /\ Len(known) <= Len(k)
      /\ \A d \in 1 .. Len(known) : k[d] = known[d]
  <2>1. Len(r) \in Nat
    BY <1>4
  <2>2. \A d \in 1 .. Len(known) : d \in 1 .. Len(known) + Len(r) /\ d <= Len(known)
    BY <1>1, <2>1
  <2> HIDE DEF r, k
  <2> QED
    BY <1>1, <1>6, <2>1, <2>2
<1> HIDE DEF k
<1>9. /\ k \in Seq(Int) /\ Len(known) <= Len(k)
      /\ \A d \in 1 .. Len(known) : k[d] = known[d]
      /\ \A i \in 1 .. Len(nums) : nums[i] \in 1 .. n => \E d \in 1 .. Len(k) : k[d] = nums[i]
  BY <1>6, <1>7, <1>8
<1> QED
  BY <1>9 DEF k

(* The runs of digits of a chain, in their order.                          *)
LEMMA RunsListed ==
  ASSUME NEW c \in Text
  PROVE  LET r == Ascending(RunStarts(c))
         IN  /\ r \in Seq(RunStarts(c)) /\ DOMAIN r = 1 .. Len(r) /\ Len(r) \in Nat
             /\ \A p \in RunStarts(c) : \E i \in 1 .. Len(r) : r[i] = p
<1> DEFINE S == RunStarts(c)
           B == [x \in S |-> {y \in S : y < x}]
           r == Ascending(S)
<1>1. S \in SUBSET (1 .. Len(c)) /\ Len(c) \in Nat
  BY DEF RunStarts, Text
<1>2. IsFiniteSet(S)
  <2>1. IsFiniteSet(1 .. Len(c))
    BY <1>1, IntervalFinite
  <2> QED
    BY <1>1, <2>1, FS_Subset
<1> HIDE DEF S
<1>3. Orders(B, S)
  BY <1>1, NumbersOrdered
<1> HIDE DEF B
<1>4. Lists(InOrder(B), B, S)
  BY <1>2, <1>3, InOrderLists
<1>5. r = InOrder(B)
  BY DEF Ascending, B
<1>6. Enumerates(r, S)
  BY <1>4, <1>5, ListsEnumerate
<1> HIDE DEF r
<1>7. r \in Seq(S) /\ \A x \in S : \E n \in 1 .. Len(r) : r[n] = x
  BY <1>6 DEF Enumerates
<1>8. DOMAIN r = 1 .. Len(r) /\ Len(r) \in Nat
  BY <1>7
<1> QED
  BY <1>7, <1>8 DEF r, S

LEMMA NumbersAre ==
  ASSUME NEW c \in Text
  PROVE  /\ Numbers(c) \in Seq({NumberAt(c, p) : p \in RunStarts(c)})
         /\ \A p \in RunStarts(c) : \E i \in 1 .. Len(Numbers(c)) : Numbers(c)[i] = NumberAt(c, p)
<1> DEFINE r == Ascending(RunStarts(c))
           X == {NumberAt(c, p) : p \in RunStarts(c)}
           f == [n \in 1 .. Len(r) |-> NumberAt(c, r[n])]
<1>1. /\ r \in Seq(RunStarts(c)) /\ DOMAIN r = 1 .. Len(r) /\ Len(r) \in Nat
      /\ \A p \in RunStarts(c) : \E i \in 1 .. Len(r) : r[i] = p
  BY RunsListed
<1>2. Numbers(c) = f
  BY <1>1 DEF Numbers
<1>3. \A n \in 1 .. Len(r) : NumberAt(c, r[n]) \in X
  <2> HIDE DEF r
  <2>1. \A n \in 1 .. Len(r) : r[n] \in RunStarts(c)
    BY <1>1
  <2> QED
    BY <2>1
<1> HIDE DEF r, X
<1>4. f \in Seq(X) /\ Len(f) = Len(r)
  BY <1>1, <1>3, IsASeq
<1>5. ASSUME NEW p \in RunStarts(c)
      PROVE  \E i \in 1 .. Len(f) : f[i] = NumberAt(c, p)
  <2>1. PICK i \in 1 .. Len(r) : r[i] = p
    BY <1>1
  <2> QED
    BY <1>4, <2>1
<1> QED
  BY <1>2, <1>4, <1>5 DEF X

LEMMA RunTyped ==
  ASSUME NEW c \in Text, NEW p \in RunStarts(c)
  PROVE  RunAt(c, p) \in Text
<1> DEFINE S == {q \in p .. Len(c) : \A r \in p .. q : c[r] \in Digits}
<1>1. p \in 1 .. Len(c) /\ Len(c) \in Nat /\ c[p] \in Digits /\ \A i \in 1 .. Len(c) : c[i] \in Alphabet
  BY DEF RunStarts, Text
<1>2. S \in SUBSET (0 .. Len(c)) /\ p \in S
  BY <1>1
<1>3. Max(S) \in S
  <2> HIDE DEF S
  <2> QED
    BY <1>1, <1>2, LastPlace
<1> DEFINE q == Max(S)
<1>4. q \in p .. Len(c)
  BY <1>3
<1> HIDE DEF q
<1>5. SubSeq(c, p, q) \in Seq(Alphabet)
  <2>1. \A i \in p .. q : c[i] \in Alphabet
    BY <1>1, <1>4
  <2> QED
    BY <1>1, <1>4, <2>1, SubSeqProperties
<1> QED
  BY <1>5 DEF RunAt, Text, q

LEMMA InPlaceTyped ==
  ASSUME NEW c \in Text, NEW n \in Nat, NEW k \in Seq(Int),
         \A p \in RunStarts(c) : NumberAt(c, p) \in 1 .. n => \E d \in 1 .. Len(k) : k[d] = NumberAt(c, p)
  PROVE  InPlace(c, n, k) \in Text
<1> DEFINE piece(p) == IF c[p] \notin Digits THEN <<c[p]>>
                       ELSE IF p \notin RunStarts(c) THEN <<>>
                       ELSE IF NumberAt(c, p) \in 1 .. n THEN Numeral(Dense(k, NumberAt(c, p)))
                       ELSE RunAt(c, p)
           f == [p \in 1 .. Len(c) |-> piece(p)]
<1>1. DOMAIN c = 1 .. Len(c) /\ Len(c) \in Nat /\ \A i \in 1 .. Len(c) : c[i] \in Alphabet
  BY DEF Text
<1>2. ASSUME NEW p \in 1 .. Len(c)
      PROVE  piece(p) \in Text
  <2>1. CASE c[p] \notin Digits
    BY <1>1, <2>1, SymbolsAreText
  <2>2. CASE c[p] \in Digits /\ p \notin RunStarts(c)
    BY <2>2, SymbolsAreText
  <2>3. CASE c[p] \in Digits /\ p \in RunStarts(c) /\ NumberAt(c, p) \notin 1 .. n
    BY <2>3, RunTyped
  <2>4. CASE c[p] \in Digits /\ p \in RunStarts(c) /\ NumberAt(c, p) \in 1 .. n
    <3> DEFINE v == NumberAt(c, p)
    <3>1. \E d \in DOMAIN k : k[d] = v
      BY <2>4
    <3> HIDE DEF v
    <3>2. Dense(k, v) \in DOMAIN k
      BY <3>1 DEF Dense
    <3>3. Dense(k, v) \in Nat
      BY <3>2
    <3>4. Numeral(Dense(k, v)) \in Text
      BY <3>3, NumeralTyped
    <3> QED
      BY <2>4, <3>4 DEF v
  <2> QED
    BY <2>1, <2>2, <2>3, <2>4
<1>3. InPlace(c, n, k) = FlattenSeq(f)
  BY <1>1 DEF InPlace
<1>4. f \in Seq(Text)
  <2> HIDE DEF piece
  <2> QED
    BY <1>1, <1>2, IsASeq
<1> HIDE DEF f
<1> QED
  BY <1>3, <1>4, FlattenTyped DEF Text

(* rewriteChain makes a text of a text, and an order of an order.          *)
LEMMA RewriteTyped ==
  ASSUME NEW c \in Text, NEW n \in Nat, NEW known \in Seq(Int)
  PROVE  RewriteChain(c, n, known).out \in Text /\ RewriteChain(c, n, known).order \in Seq(Int)
<1> DEFINE nums == Numbers(c)
           k == Mint(known, nums, n)
           S == {Dense(k, v) : v \in Range(nums)}
           dense == Ascending(S)
           f == [i \in DOMAIN dense |-> <<"[">> \o Numeral(dense[i]) \o <<"]">>]
<1>1. /\ k \in Seq(Int)
      /\ \A i \in 1 .. Len(nums) : nums[i] \in 1 .. n => \E d \in 1 .. Len(k) : k[d] = nums[i]
      /\ nums \in Seq({NumberAt(c, p) : p \in RunStarts(c)})
      /\ \A p \in RunStarts(c) : \E i \in 1 .. Len(nums) : nums[i] = NumberAt(c, p)
  <2>1. /\ nums \in Seq({NumberAt(c, p) : p \in RunStarts(c)})
        /\ \A p \in RunStarts(c) : \E i \in 1 .. Len(nums) : nums[i] = NumberAt(c, p)
    BY NumbersAre
  <2> DEFINE X == {NumberAt(c, p) : p \in RunStarts(c)}
  <2>2. nums \in Seq(X)
    BY <2>1
  <2> HIDE DEF nums, X
  <2>3. /\ k \in Seq(Int)
        /\ \A i \in 1 .. Len(nums) : nums[i] \in 1 .. n => \E d \in 1 .. Len(k) : k[d] = nums[i]
    BY <2>2, MintIs
  <2> QED
    BY <2>1, <2>3
<1>2. RewriteChain(c, n, known).order = k
      /\ RewriteChain(c, n, known).out = IF Range(nums) \subseteq 1 .. n THEN FlattenSeq(f) ELSE InPlace(c, n, k)
  BY DEF RewriteChain
<1> HIDE DEF k, nums
<1>3. InPlace(c, n, k) \in Text
  <2>1. \A p \in RunStarts(c) : NumberAt(c, p) \in 1 .. n => \E d \in 1 .. Len(k) : k[d] = NumberAt(c, p)
    BY <1>1
  <2> QED
    BY <1>1, <2>1, InPlaceTyped
<1>4. ASSUME Range(nums) \subseteq 1 .. n
      PROVE  FlattenSeq(f) \in Text
  <2>1. \A v \in Range(nums) : \E d \in 1 .. Len(k) : k[d] = v
    <3>1. \A v \in Range(nums) : \E i \in 1 .. Len(nums) : nums[i] = v
      BY <1>1 DEF Range
    <3> QED
      BY <1>1, <1>4, <3>1
  <2>2. \A v \in Range(nums) : Dense(k, v) \in 1 .. Len(k)
    <3>1. DOMAIN k = 1 .. Len(k)
      BY <1>1
    <3> QED
      BY <2>1, <3>1 DEF Dense
  <2>3. S \in SUBSET (1 .. Len(k)) /\ Len(k) \in Nat
    BY <1>1, <2>2
  <2> HIDE DEF S
  <2>4. IsFiniteSet(S) /\ S \subseteq Int
    <3>1. IsFiniteSet(1 .. Len(k))
      BY <2>3, IntervalFinite
    <3>2. IsFiniteSet(S)
      BY <2>3, <3>1, FS_Subset
    <3>3. 1 .. Len(k) \subseteq Int
      OBVIOUS
    <3> QED
      BY <2>3, <3>2, <3>3
  <2> DEFINE B == [x \in S |-> {y \in S : y < x}]
  <2>5. Orders(B, S)
    BY <2>4, NumbersOrdered
  <2>6. dense = InOrder(B)
    BY DEF Ascending
  <2> HIDE DEF B, dense
  <2>7. dense \in Seq(S)
    BY <2>4, <2>5, <2>6, InOrderLists DEF Lists
  <2>8. DOMAIN dense = 1 .. Len(dense) /\ Len(dense) \in Nat /\ \A i \in DOMAIN dense : dense[i] \in Nat
    <3>1. DOMAIN dense = 1 .. Len(dense) /\ Len(dense) \in Nat /\ \A i \in 1 .. Len(dense) : dense[i] \in S
      BY <2>7
    <3>2. 1 .. Len(k) \subseteq Nat
      OBVIOUS
    <3>3. S \subseteq Nat
      BY <2>3, <3>2
    <3> QED
      BY <3>1, <3>3
  <2>9. ASSUME NEW i \in DOMAIN dense
        PROVE  <<"[">> \o Numeral(dense[i]) \o <<"]">> \in Text
    <3>1. Numeral(dense[i]) \in Text
      BY <2>8, NumeralTyped
    <3>2. <<"[">> \in Text /\ <<"]">> \in Text
      BY SymbolsAreText DEF Alphabet
    <3>3. \A a, b \in Text : a \o b \in Text
      BY ConcatProperties DEF Text
    <3> QED
      BY <3>1, <3>2, <3>3
  <2>10. f \in Seq(Text)
    BY <2>8, <2>9, IsASeq
  <2> HIDE DEF f
  <2> QED
    BY <2>10, FlattenTyped DEF Text
<1> QED
  BY <1>1, <1>2, <1>3, <1>4

-----------------------------------------------------------------------------
(* Where things first stand in a text.                                     *)

(* A text is its places.                                                   *)
LEMMA TextIs ==
  ASSUME NEW s \in Text
  PROVE  /\ DOMAIN s = 1 .. Len(s) /\ Len(s) \in Nat
         /\ \A i \in 1 .. Len(s) : s[i] \in Alphabet
         /\ s = <<>> <=> Len(s) = 0
BY EmptySeq DEF Text

LEMMA FirstOfIs ==
  ASSUME NEW s \in Text, NEW S
  PROVE  LET j == FirstOf(s, S)
         IN  /\ j \in 0 .. Len(s)
             /\ j > 0 => s[j] \in S /\ \A k \in 1 .. j - 1 : s[k] \notin S
             /\ j = 0 => \A k \in 1 .. Len(s) : s[k] \notin S
<1> DEFINE at == {j \in DOMAIN s : s[j] \in S}
           j == FirstOf(s, S)
<1>1. DOMAIN s = 1 .. Len(s) /\ Len(s) \in Nat
  BY TextIs
<1>2. CASE at = {}
  <2>1. j = 0
    BY <1>2 DEF FirstOf
  <2> QED
    BY <1>1, <1>2, <2>1
<1>3. CASE at # {}
  <2>1. j = Min(at)
    BY <1>3 DEF FirstOf
  <2>2. at \subseteq Nat
    BY <1>1
  <2>3. Min(at) \in at /\ \A x \in at : Min(at) <= x
    <3> HIDE DEF at
    <3> QED
      BY <1>3, <2>2, LeastOf
  <2>4. j \in at /\ \A x \in at : j <= x
    BY <2>1, <2>3
  <2> HIDE DEF j
  <2>5. j \in 1 .. Len(s) /\ s[j] \in S
    BY <1>1, <2>4
  <2>6. \A k \in 1 .. j - 1 : s[k] \notin S
    BY <1>1, <2>4, <2>5
  <2>7. j \in 0 .. Len(s) /\ j # 0
    BY <1>1, <2>5
  <2> QED
    BY <2>5, <2>6, <2>7 DEF j
<1> QED
  BY <1>2, <1>3

LEMMA FirstOfGiven ==
  ASSUME NEW s \in Text, NEW S
  PROVE  /\ \A j \in 1 .. Len(s) : s[j] \in S /\ (\A k \in 1 .. j - 1 : s[k] \notin S) => FirstOf(s, S) = j
         /\ (\A k \in 1 .. Len(s) : s[k] \notin S) => FirstOf(s, S) = 0
<1> DEFINE f == FirstOf(s, S)
<1>1. /\ f \in 0 .. Len(s)
      /\ f > 0 => s[f] \in S /\ \A k \in 1 .. f - 1 : s[k] \notin S
      /\ f = 0 => \A k \in 1 .. Len(s) : s[k] \notin S
      /\ Len(s) \in Nat
  BY FirstOfIs, TextIs
<1> HIDE DEF f
<1>2. ASSUME NEW j \in 1 .. Len(s), s[j] \in S, \A k \in 1 .. j - 1 : s[k] \notin S
      PROVE  f = j
  <2>1. f # 0
    BY <1>1, <1>2
  <2>2. f > 0 /\ f \in Nat /\ j \in Nat
    BY <1>1, <2>1
  <2>3. ~(f < j)
    <3>1. SUFFICES ASSUME f < j PROVE FALSE
      OBVIOUS
    <3>2. f \in 1 .. j - 1
      BY <2>2, <3>1
    <3> QED
      BY <1>1, <1>2, <2>2, <3>2
  <2>4. ~(j < f)
    <3>1. SUFFICES ASSUME j < f PROVE FALSE
      OBVIOUS
    <3>2. j \in 1 .. f - 1
      BY <2>2, <3>1
    <3> QED
      BY <1>1, <1>2, <2>2, <3>2
  <2> QED
    BY <2>2, <2>3, <2>4
<1>3. ASSUME \A k \in 1 .. Len(s) : s[k] \notin S
      PROVE  f = 0
  <2>1. ~(f > 0)
    <3>1. f > 0 => f \in 1 .. Len(s)
      BY <1>1
    <3> QED
      BY <1>1, <1>3, <3>1
  <2> QED
    BY <1>1, <2>1
<1> QED
  BY <1>2, <1>3 DEF f

(* The first place in a text, in its two parts.                            *)
LEMMA FirstOfConcat ==
  ASSUME NEW a \in Text, NEW x \in Text, NEW S
  PROVE  FirstOf(a \o x, S) = IF FirstOf(a, S) > 0 THEN FirstOf(a, S)
                              ELSE IF FirstOf(x, S) > 0 THEN Len(a) + FirstOf(x, S) ELSE 0
<1> DEFINE s == a \o x
           f == FirstOf(a, S)
           g == FirstOf(x, S)
<1>1. /\ s \in Text /\ Len(s) = Len(a) + Len(x) /\ Len(a) \in Nat /\ Len(x) \in Nat
      /\ \A i \in 1 .. Len(a) : s[i] = a[i]
      /\ \A i \in 1 .. Len(x) : s[Len(a) + i] = x[i]
  BY PartsIs
<1>2. /\ f \in 0 .. Len(a)
      /\ f > 0 => a[f] \in S /\ \A k \in 1 .. f - 1 : a[k] \notin S
      /\ f = 0 => \A k \in 1 .. Len(a) : a[k] \notin S
      /\ g \in 0 .. Len(x)
      /\ g > 0 => x[g] \in S /\ \A k \in 1 .. g - 1 : x[k] \notin S
      /\ g = 0 => \A k \in 1 .. Len(x) : x[k] \notin S
  BY FirstOfIs
<1> HIDE DEF s, f, g
<1>3. CASE f > 0
  <2>1. f \in 1 .. Len(s) /\ f \in 1 .. Len(a)
    BY <1>1, <1>2, <1>3
  <2>2. s[f] \in S /\ \A k \in 1 .. f - 1 : s[k] \notin S
    <3>1. \A k \in 1 .. f - 1 : k \in 1 .. Len(a)
      BY <1>1, <2>1
    <3> QED
      BY <1>1, <1>2, <1>3, <2>1, <3>1
  <2>3. FirstOf(s, S) = f
    BY <1>1, <2>1, <2>2, FirstOfGiven
  <2> QED
    BY <1>3, <2>3 DEF s, f
<1>4. ASSUME NEW k \in 1 .. Len(s), ~(k <= Len(a))
      PROVE  k - Len(a) \in 1 .. Len(x) /\ s[k] = x[k - Len(a)]
  <2>1. k - Len(a) \in 1 .. Len(x) /\ Len(a) + (k - Len(a)) = k
    BY <1>1, <1>4
  <2> QED
    BY <1>1, <2>1
<1>5. CASE ~(f > 0) /\ g > 0
  <2> DEFINE j == Len(a) + g
  <2>1. j \in 1 .. Len(s) /\ f = 0 /\ g \in 1 .. Len(x) /\ s[j] = x[g]
    BY <1>1, <1>2, <1>5
  <2>2. ASSUME NEW k \in 1 .. j - 1
        PROVE  s[k] \notin S
    <3>1. k \in 1 .. Len(s)
      BY <1>1, <2>1
    <3>2. CASE k <= Len(a)
      <4>1. k \in 1 .. Len(a)
        BY <3>2, <1>1
      <4> QED
        BY <1>1, <1>2, <2>1, <4>1
    <3>3. CASE ~(k <= Len(a))
      <4>1. k - Len(a) \in 1 .. g - 1
        BY <1>1, <2>1, <3>3
      <4>2. s[k] = x[k - Len(a)]
        BY <1>4, <3>1, <3>3
      <4> QED
        BY <1>2, <1>5, <4>1, <4>2
    <3> QED
      BY <3>2, <3>3
  <2> HIDE DEF j
  <2>3. s[j] \in S
    BY <1>2, <1>5, <2>1
  <2>4. FirstOf(s, S) = j
    BY <1>1, <2>1, <2>2, <2>3, FirstOfGiven
  <2> QED
    BY <1>5, <2>4 DEF s, f, g, j
<1>6. CASE ~(f > 0) /\ ~(g > 0)
  <2>1. f = 0 /\ g = 0
    BY <1>2, <1>6
  <2>2. ASSUME NEW k \in 1 .. Len(s)
        PROVE  s[k] \notin S
    <3>1. CASE k <= Len(a)
      <4>1. k \in 1 .. Len(a)
        BY <3>1, <1>1
      <4> QED
        BY <1>1, <1>2, <2>1, <4>1
    <3>2. CASE ~(k <= Len(a))
      BY <1>2, <1>4, <2>1, <3>2
    <3> QED
      BY <3>1, <3>2
  <2>3. FirstOf(s, S) = 0
    BY <1>1, <2>2, FirstOfGiven
  <2> QED
    BY <1>6, <2>3 DEF s, f, g
<1> QED
  BY <1>3, <1>5, <1>6

FenceAt(s, j) == s[j] = "t" /\ s[j + 1] = "t" /\ s[j + 2] = "t"

LEMMA FenceAtIs ==
  ASSUME NEW s \in Text, NEW j \in 1 .. Len(s) - 2
  PROVE  SubSeq(s, j, j + 2) = Fence <=> FenceAt(s, j)
<1> DEFINE u == SubSeq(s, j, j + 2)
<1>1. Len(s) \in Nat /\ j \in Int /\ j + 2 \in Int /\ \A i \in j .. j + 2 : s[i] \in Alphabet
  BY TextIs
<1>2. /\ u \in Seq(Alphabet) /\ Len(u) = IF j <= j + 2 THEN (j + 2) - j + 1 ELSE 0
      /\ \A i \in 1 .. (j + 2) - j + 1 : u[i] = s[j + i - 1]
  BY <1>1, SubSeqProperties
<1>3. Len(u) = 3 /\ u[1] = s[j] /\ u[2] = s[j + 1] /\ u[3] = s[j + 2]
  <2> HIDE DEF u
  <2>1. (j + 2) - j + 1 = 3 /\ j <= j + 2
    BY <1>1
  <2>2. j + 1 - 1 = j /\ j + 2 - 1 = j + 1 /\ j + 3 - 1 = j + 2
    BY <1>1
  <2>3. 1 \in 1 .. 3 /\ 2 \in 1 .. 3 /\ 3 \in 1 .. 3
    OBVIOUS
  <2>4. u[1] = s[j + 1 - 1] /\ u[2] = s[j + 2 - 1] /\ u[3] = s[j + 3 - 1]
    BY <1>2, <2>1, <2>3
  <2> QED
    BY <1>2, <2>1, <2>2, <2>4
<1> HIDE DEF u
<1>4. Len(Fence) = 3 /\ Fence \in Seq(Alphabet) /\ Fence[1] = "t" /\ Fence[2] = "t" /\ Fence[3] = "t"
  BY DEF Fence, Alphabet
<1>5. (\A i \in 1 .. 3 : u[i] = Fence[i]) => u = Fence
  BY <1>2, <1>3, <1>4, SeqEqual
<1>6. (u[1] = "t" /\ u[2] = "t" /\ u[3] = "t") => u = Fence
  <2>1. \A i \in 1 .. 3 : i = 1 \/ i = 2 \/ i = 3
    OBVIOUS
  <2> QED
    BY <1>4, <1>5, <2>1
<1>7. u = Fence <=> FenceAt(s, j)
  BY <1>3, <1>4, <1>6 DEF FenceAt
<1> QED
  BY <1>7 DEF u

LEMMA FirstFenceIs ==
  ASSUME NEW s \in Text
  PROVE  LET j == FirstFence(s)
         IN  /\ j \in 0 .. Len(s)
             /\ j > 0 => j \in 1 .. Len(s) - 2 /\ FenceAt(s, j) /\ \A k \in 1 .. j - 1 : ~FenceAt(s, k)
             /\ j = 0 => \A k \in 1 .. Len(s) - 2 : ~FenceAt(s, k)
<1> DEFINE at == {j \in 1 .. Len(s) - 2 : SubSeq(s, j, j + 2) = Fence}
           j == FirstFence(s)
<1>1. Len(s) \in Nat /\ at = {k \in 1 .. Len(s) - 2 : FenceAt(s, k)}
  BY TextIs, FenceAtIs
<1>2. CASE at = {}
  <2>1. j = 0
    BY <1>2 DEF FirstFence
  <2> QED
    BY <1>1, <1>2, <2>1
<1>3. CASE at # {}
  <2>1. j = Min(at)
    BY <1>3 DEF FirstFence
  <2>2. at \subseteq Nat
    BY <1>1
  <2>3. Min(at) \in at /\ \A x \in at : Min(at) <= x
    <3> HIDE DEF at
    <3> QED
      BY <1>3, <2>2, LeastOf
  <2> HIDE DEF at
  <2>4. j \in at /\ \A x \in at : j <= x
    BY <2>1, <2>3
  <2> HIDE DEF j
  <2>5. j \in 1 .. Len(s) - 2 /\ FenceAt(s, j)
    BY <1>1, <2>4
  <2>6. \A k \in 1 .. j - 1 : k \in 1 .. Len(s) - 2 /\ ~(j <= k)
    BY <1>1, <2>5
  <2>7. \A k \in 1 .. j - 1 : ~FenceAt(s, k)
    BY <1>1, <2>4, <2>6
  <2>8. j \in 0 .. Len(s) /\ j # 0
    BY <1>1, <2>5
  <2> QED
    BY <2>5, <2>7, <2>8 DEF j
<1> QED
  BY <1>2, <1>3

(* The first fence of a text whose first part holds the start of none.     *)
LEMMA FirstFenceBehind ==
  ASSUME NEW a \in Text, NEW x \in Text,
         \A k \in 1 .. Len(a) : k <= Len(a) + Len(x) - 2 => ~FenceAt(a \o x, k)
  PROVE  FirstFence(a \o x) = IF FirstFence(x) > 0 THEN Len(a) + FirstFence(x) ELSE 0
<1> DEFINE s == a \o x
           f == FirstFence(s)
           g == FirstFence(x)
           n == Len(a)
           m == Len(x)
<1>1. /\ s \in Text /\ Len(s) = n + m /\ n \in Nat /\ m \in Nat
      /\ \A i \in 1 .. m : s[n + i] = x[i]
  BY PartsIs
<1>2. \A k \in 1 .. m - 2 : FenceAt(s, n + k) <=> FenceAt(x, k)
  <2> SUFFICES ASSUME NEW k \in 1 .. m - 2
               PROVE  FenceAt(s, n + k) <=> FenceAt(x, k)
    OBVIOUS
  <2>1. k \in 1 .. m /\ k + 1 \in 1 .. m /\ k + 2 \in 1 .. m /\ n + k + 1 = n + (k + 1) /\ n + k + 2 = n + (k + 2)
    BY <1>1
  <2> HIDE DEF s, n, m
  <2> QED
    BY <1>1, <2>1 DEF FenceAt
<1>3. /\ g \in 0 .. m
      /\ g > 0 => g \in 1 .. m - 2 /\ FenceAt(x, g) /\ \A k \in 1 .. g - 1 : ~FenceAt(x, k)
      /\ g = 0 => \A k \in 1 .. m - 2 : ~FenceAt(x, k)
  BY FirstFenceIs
<1>4. /\ f \in 0 .. Len(s)
      /\ f > 0 => f \in 1 .. Len(s) - 2 /\ FenceAt(s, f) /\ \A k \in 1 .. f - 1 : ~FenceAt(s, k)
      /\ f = 0 => \A k \in 1 .. Len(s) - 2 : ~FenceAt(s, k)
  <2> HIDE DEF s
  <2> QED
    BY <1>1, FirstFenceIs
<1>5. \A k \in 1 .. n : k <= (n + m) - 2 => ~FenceAt(s, k)
  <2>1. (n + m) - 2 = n + m - 2
    BY <1>1
  <2> QED
    BY <2>1
<1> HIDE DEF s, f, g, n, m
<1>6. ASSUME f > 0
      PROVE  g > 0 /\ f = n + g
  <2>1. f > n /\ f - n \in 1 .. m - 2 /\ n + (f - n) = f
    <3>1. ~(f <= n)
      BY <1>1, <1>4, <1>5, <1>6
    <3> QED
      BY <1>1, <1>4, <1>6, <3>1
  <2>2. FenceAt(x, f - n)
    BY <1>2, <1>4, <1>6, <2>1
  <2>3. g # 0
    BY <1>3, <2>1, <2>2
  <2>4. g > 0 /\ g \in 1 .. m - 2
    BY <1>1, <1>3, <2>3
  <2>5. ~(f - n < g)
    <3>1. SUFFICES ASSUME f - n < g PROVE FALSE
      OBVIOUS
    <3>2. f - n \in 1 .. g - 1
      BY <1>1, <2>1, <2>4, <3>1
    <3> QED
      BY <1>3, <2>2, <2>4, <3>2
  <2>6. ~(g < f - n)
    <3>1. SUFFICES ASSUME g < f - n PROVE FALSE
      OBVIOUS
    <3>2. n + g \in 1 .. f - 1
      BY <1>1, <2>1, <2>4, <3>1
    <3>3. FenceAt(s, n + g)
      BY <1>2, <1>3, <2>4
    <3> QED
      BY <1>4, <1>6, <3>2, <3>3
  <2>7. f - n \in Int /\ g \in Int
    BY <2>1, <2>4
  <2>8. f - n = g
    BY <2>5, <2>6, <2>7
  <2> QED
    BY <2>1, <2>4, <2>8
<1>7. ASSUME g > 0
      PROVE  f > 0
  <2>1. g \in 1 .. m - 2 /\ FenceAt(s, n + g)
    BY <1>2, <1>3, <1>7
  <2>2. n + g \in 1 .. Len(s) - 2
    BY <1>1, <2>1
  <2> QED
    BY <1>1, <1>4, <2>1, <2>2
<1>8. f = IF g > 0 THEN n + g ELSE 0
  BY <1>1, <1>3, <1>4, <1>6, <1>7
<1> QED
  BY <1>8 DEF s, f, g, n

(* A fence stays the first when text is added.                             *)
LEMMA FirstFenceStays ==
  ASSUME NEW a \in Text, NEW x \in Text, FirstFence(a) > 0
  PROVE  FirstFence(a \o x) = FirstFence(a)
<1> DEFINE s == a \o x
           f == FirstFence(s)
           g == FirstFence(a)
           n == Len(a)
           m == Len(x)
<1>1. /\ s \in Text /\ Len(s) = n + m /\ n \in Nat /\ m \in Nat
      /\ \A i \in 1 .. n : s[i] = a[i]
  BY PartsIs
<1>2. \A k \in 1 .. n - 2 : FenceAt(s, k) <=> FenceAt(a, k)
  <2> SUFFICES ASSUME NEW k \in 1 .. n - 2
               PROVE  FenceAt(s, k) <=> FenceAt(a, k)
    OBVIOUS
  <2>1. k \in 1 .. n /\ k + 1 \in 1 .. n /\ k + 2 \in 1 .. n
    BY <1>1
  <2> HIDE DEF s, n
  <2> QED
    BY <1>1, <2>1 DEF FenceAt
<1>3. /\ g \in 0 .. n
      /\ g > 0 => g \in 1 .. n - 2 /\ FenceAt(a, g) /\ \A k \in 1 .. g - 1 : ~FenceAt(a, k)
  BY FirstFenceIs
<1>4. /\ f \in 0 .. Len(s)
      /\ f > 0 => f \in 1 .. Len(s) - 2 /\ FenceAt(s, f) /\ \A k \in 1 .. f - 1 : ~FenceAt(s, k)
      /\ f = 0 => \A k \in 1 .. Len(s) - 2 : ~FenceAt(s, k)
  <2> HIDE DEF s
  <2> QED
    BY <1>1, FirstFenceIs
<1>5. g > 0
  OBVIOUS
<1> HIDE DEF s, f, g, n, m
<1>6. g \in 1 .. n - 2 /\ FenceAt(s, g) /\ g \in 1 .. Len(s) - 2
  BY <1>1, <1>2, <1>3, <1>5
<1>7. f > 0 /\ f \in Nat /\ g \in Nat
  BY <1>1, <1>4, <1>6
<1>8. ~(g < f)
  <2>1. SUFFICES ASSUME g < f PROVE FALSE
    OBVIOUS
  <2>2. g \in 1 .. f - 1
    BY <1>6, <1>7, <2>1
  <2> QED
    BY <1>4, <1>6, <1>7, <2>2
<1>9. ~(f < g)
  <2>1. SUFFICES ASSUME f < g PROVE FALSE
    OBVIOUS
  <2>2. f \in 1 .. g - 1 /\ f \in 1 .. n - 2
    BY <1>1, <1>6, <1>7, <2>1
  <2> QED
    BY <1>2, <1>3, <1>4, <1>5, <1>7, <2>2
<1> QED
  BY <1>7, <1>8, <1>9 DEF s, f, g

-----------------------------------------------------------------------------
(* Chains of markers.                                                      *)

(* Two texts that agree between two places have the same part there.       *)
LEMMA SamePart ==
  ASSUME NEW a \in Text, NEW b \in Text, NEW p \in 1 .. Len(a), NEW q \in 1 .. Len(a), q <= Len(b),
         \A i \in p .. q : a[i] = b[i]
  PROVE  SubSeq(a, p, q) = SubSeq(b, p, q)
<1> DEFINE u == SubSeq(a, p, q)
           v == SubSeq(b, p, q)
           m == q - p + 1
<1>1. /\ p \in Int /\ q \in Int /\ Len(a) \in Nat /\ Len(b) \in Nat
      /\ \A i \in p .. q : a[i] \in Alphabet /\ b[i] \in Alphabet
  <2>1. Len(a) \in Nat /\ Len(b) \in Nat
    BY TextIs
  <2>2. \A i \in p .. q : i \in 1 .. Len(a) /\ i \in 1 .. Len(b)
    BY <2>1
  <2> QED
    BY <2>1, <2>2, TextIs
<1>2. /\ u \in Seq(Alphabet) /\ Len(u) = IF p <= q THEN m ELSE 0
      /\ \A i \in 1 .. m : u[i] = a[p + i - 1]
  BY <1>1, SubSeqProperties
<1>3. /\ v \in Seq(Alphabet) /\ Len(v) = IF p <= q THEN m ELSE 0
      /\ \A i \in 1 .. m : v[i] = b[p + i - 1]
  BY <1>1, SubSeqProperties
<1>4. \A i \in 1 .. m : p + i - 1 \in p .. q
  BY <1>1
<1>5. \A i \in 1 .. Len(u) : u[i] = v[i]
  <2> HIDE DEF u, v
  <2>1. \A i \in 1 .. Len(u) : i \in 1 .. m
    BY <1>1, <1>2
  <2> HIDE DEF m
  <2> QED
    BY <1>2, <1>3, <1>4, <2>1
<1> HIDE DEF u, v, m
<1>6. u = v
  BY <1>2, <1>3, <1>5, SeqEqual
<1> QED
  BY <1>6 DEF u, v

(* The part of a text between two places.                                  *)
LEMMA PartIs ==
  ASSUME NEW s \in Text, NEW p \in 1 .. Len(s), NEW q \in p .. Len(s)
  PROVE  /\ SubSeq(s, p, q) \in Text /\ Len(SubSeq(s, p, q)) = q - p + 1
         /\ \A i \in 1 .. q - p + 1 : SubSeq(s, p, q)[i] = s[p + i - 1]
<1>1. Len(s) \in Nat /\ p \in Int /\ q \in Int /\ p <= q /\ \A i \in p .. q : s[i] \in Alphabet
  BY TextIs
<1> QED
  BY <1>1, SubSeqProperties DEF Text

(* A part of a text's beginning is a part of the text.                     *)
LEMMA PartOfBeginning ==
  ASSUME NEW s \in Text, NEW e \in 1 .. Len(s), NEW p \in 1 .. e, NEW q \in p .. e
  PROVE  SubSeq(SubSeq(s, 1, e), p, q) = SubSeq(s, p, q)
<1> DEFINE a == SubSeq(s, 1, e)
<1>1. Len(s) \in Nat /\ e \in 0 .. Len(s)
  BY TextIs
<1>2. a \in Text /\ Len(a) = e /\ \A k \in 1 .. e : a[k] = s[k]
  BY <1>1, TextFrom
<1> HIDE DEF a
<1>3. p \in 1 .. Len(a) /\ q \in 1 .. Len(a) /\ q <= Len(s)
  BY <1>1, <1>2
<1>4. \A i \in p .. q : i \in 1 .. e
  BY <1>1
<1>5. SubSeq(a, p, q) = SubSeq(s, p, q)
  BY <1>2, <1>3, <1>4, SamePart
<1> QED
  BY <1>5 DEF a

(* What stands in a group.                                                 *)
LEMMA GroupIs ==
  ASSUME NEW s \in Text, NEW p \in 1 .. Len(s), NEW q \in p .. Len(s), IsGroup(SubSeq(s, p, q))
  PROVE  /\ p < q /\ s[p] = "[" /\ s[q] = "]"
         /\ \A r \in p + 1 .. q - 1 : s[r] \in Inside
<1> DEFINE g == SubSeq(s, p, q)
<1>1. /\ Len(g) = q - p + 1 /\ p \in Nat /\ q \in Nat /\ Len(s) \in Nat
      /\ \A i \in 1 .. q - p + 1 : g[i] = s[p + i - 1]
  BY PartIs, TextIs
<1> HIDE DEF g
<1>2. /\ Len(g) > 2 /\ g[1] = "[" /\ g[Len(g)] = "]"
      /\ \A i \in 2 .. Len(g) - 1 : g[i] \in Inside
  BY DEF IsGroup, g
<1>3. p < q
  BY <1>1, <1>2
<1>4. g[1] = s[p] /\ g[Len(g)] = s[q]
  <2>1. 1 \in 1 .. q - p + 1 /\ Len(g) \in 1 .. q - p + 1 /\ p + 1 - 1 = p /\ p + Len(g) - 1 = q
    BY <1>1, <1>3
  <2> QED
    BY <1>1, <2>1
<1>5. ASSUME NEW r \in p + 1 .. q - 1
      PROVE  s[r] \in Inside
  <2> DEFINE i == (r - p) + 1
  <2>1. i \in 2 .. Len(g) - 1 /\ i \in 1 .. q - p + 1 /\ p + i - 1 = r
    BY <1>1
  <2> HIDE DEF i
  <2> QED
    BY <1>1, <1>2, <2>1
<1> QED
  BY <1>2, <1>3, <1>4, <1>5

(* A chain from the start of s to e, in the places of s.                   *)
ChainTo(s, e) ==
  /\ s[1] = "[" /\ s[e] = "]"
  /\ \A p \in 1 .. e : s[p] = "[" => \E q \in p .. e : IsGroup(SubSeq(s, p, q))
  /\ \A p \in 1 .. e - 1 : s[p] = "]" =>
       \E k \in p + 1 .. e : s[k] = "[" /\ \A j \in p + 1 .. k - 1 : s[j] = "_"

LEMMA ChainToIs ==
  ASSUME NEW s \in Text, NEW e \in 1 .. Len(s)
  PROVE  IsChain(SubSeq(s, 1, e)) <=> ChainTo(s, e)
<1> DEFINE c == SubSeq(s, 1, e)
<1>1. Len(s) \in Nat /\ e \in 0 .. Len(s) /\ e \in Nat /\ e > 0
  BY TextIs
<1>2. c \in Text /\ Len(c) = e /\ \A k \in 1 .. e : c[k] = s[k]
  BY <1>1, TextFrom
<1>3. DOMAIN c = 1 .. e /\ c # <<>>
  BY <1>1, <1>2, TextIs
<1>4. \A p \in 1 .. e : \A q \in p .. e : SubSeq(c, p, q) = SubSeq(s, p, q)
  BY PartOfBeginning
<1> HIDE DEF c
<1>5. (\A p \in DOMAIN c : c[p] = "[" => \E q \in p .. Len(c) : IsGroup(SubSeq(c, p, q)))
      <=> (\A p \in 1 .. e : s[p] = "[" => \E q \in p .. e : IsGroup(SubSeq(s, p, q)))
  <2>1. ASSUME NEW p \in 1 .. e
        PROVE  (c[p] = "[" => \E q \in p .. Len(c) : IsGroup(SubSeq(c, p, q)))
               <=> (s[p] = "[" => \E q \in p .. e : IsGroup(SubSeq(s, p, q)))
    <3>1. c[p] = s[p] /\ Len(c) = e
      BY <1>2
    <3>2. \A q \in p .. e : IsGroup(SubSeq(c, p, q)) <=> IsGroup(SubSeq(s, p, q))
      BY <1>4, Zenon
    <3> QED
      BY <3>1, <3>2, Zenon
  <2> QED
    BY <1>3, <2>1, Zenon
<1>6. ASSUME NEW p \in 1 .. e - 1
      PROVE  Joins(c, p + 1) <=> \E k \in p + 1 .. e : s[k] = "[" /\ \A j \in p + 1 .. k - 1 : s[j] = "_"
  <2>1. \A k \in p + 1 .. e : k \in 1 .. e /\ \A j \in p + 1 .. k - 1 : j \in 1 .. e
    BY <1>1
  <2>2. \A k \in p + 1 .. e : c[k] = s[k] /\ \A j \in p + 1 .. k - 1 : c[j] = s[j]
    BY <1>2, <2>1
  <2>3. Joins(c, p + 1) <=> \E k \in p + 1 .. e : c[k] = "[" /\ \A j \in p + 1 .. k - 1 : c[j] = "_"
    BY <1>2 DEF Joins
  <2> QED
    BY <2>2, <2>3
<1>7. (\A p \in 1 .. Len(c) - 1 : c[p] = "]" => Joins(c, p + 1))
      <=> (\A p \in 1 .. e - 1 : s[p] = "]" =>
             \E k \in p + 1 .. e : s[k] = "[" /\ \A j \in p + 1 .. k - 1 : s[j] = "_")
  <2>1. \A p \in 1 .. e - 1 : p \in 1 .. e
    BY <1>1
  <2> QED
    BY <1>2, <1>6, <2>1
<1>8. c[1] = s[1] /\ c[Len(c)] = s[e]
  <2>1. 1 \in 1 .. e /\ e \in 1 .. e
    BY <1>1
  <2> QED
    BY <1>2, <2>1
<1>9. IsChain(c) <=> ChainTo(s, e)
  BY <1>3, <1>5, <1>7, <1>8 DEF IsChain, ChainTo
<1> QED
  BY <1>9 DEF c

LEMMA ChainEndIs ==
  ASSUME NEW s \in Text
  PROVE  /\ ChainEnd(s) \in 0 .. Len(s)
         /\ ChainEnd(s) > 0 => ChainTo(s, ChainEnd(s))
         /\ \A f \in 1 .. Len(s) : ChainTo(s, f) => f <= ChainEnd(s)
<1> DEFINE E == {e \in DOMAIN s : IsChain(SubSeq(s, 1, e))}
           n == Len(s)
<1>1. n \in Nat /\ DOMAIN s = 1 .. n /\ E = {e \in 1 .. n : ChainTo(s, e)}
  BY TextIs, ChainToIs
<1>2. ChainEnd(s) = Max({0} \cup E)
  BY DEF ChainEnd
<1>3. {0} \cup E \in SUBSET (0 .. n) /\ {0} \cup E # {}
  BY <1>1
<1> HIDE DEF E, n
<1>4. Max({0} \cup E) \in {0} \cup E /\ \A x \in {0} \cup E : x <= Max({0} \cup E)
  BY <1>1, <1>3, LastPlace
<1>5. ChainEnd(s) \in 0 .. n /\ (ChainEnd(s) > 0 => ChainEnd(s) \in E) /\ \A x \in E : x <= ChainEnd(s)
  BY <1>1, <1>2, <1>3, <1>4
<1> QED
  BY <1>1, <1>5 DEF n

(* No bracket stands inside a group.                                       *)
LEMMA ClosesNothing ==
  "]" \notin Inside /\ "[" \notin Inside
<1>1. \A v \in 0 .. 9 : DigitOf[v + 1] # "]" /\ DigitOf[v + 1] # "["
  <2>1. \A v \in 0 .. 9 : v + 1 \in 1 .. 10
    OBVIOUS
  <2>2. \A i \in 1 .. 10 : i = 1 \/ i = 2 \/ i = 3 \/ i = 4 \/ i = 5 \/ i = 6 \/ i = 7 \/ i = 8 \/ i = 9 \/ i = 10
    OBVIOUS
  <2>3. \A i \in 1 .. 10 : DigitOf[i] # "]" /\ DigitOf[i] # "["
    BY <2>2 DEF DigitOf
  <2> QED
    BY <2>1, <2>3
<1> QED
  BY <1>1 DEF Inside, Digits, Spaces

(* A chain up to one of its groups is one.                                 *)
LEMMA ChainCut ==
  ASSUME NEW s \in Text, NEW f \in 1 .. Len(s), ChainTo(s, f),
         NEW k \in 1 .. f, s[k] = "["
  PROVE  \E q \in k + 1 .. f : ChainTo(s, q) /\ s[q] = "]" /\ \A r \in k + 1 .. q - 1 : s[r] \in Inside
<1>1. Len(s) \in Nat /\ f \in Nat /\ k \in Nat
  BY TextIs
<1>2. PICK q \in k .. f : IsGroup(SubSeq(s, k, q))
  BY DEF ChainTo
<1>3. k \in 1 .. Len(s) /\ q \in k .. Len(s) /\ q \in Nat
  BY <1>1, <1>2
<1>4. k < q /\ s[q] = "]" /\ \A r \in k + 1 .. q - 1 : s[r] \in Inside
  BY <1>2, <1>3, GroupIs
<1>5. q \in k + 1 .. f
  BY <1>1, <1>3, <1>4
<1>6. ASSUME NEW p \in 1 .. q, s[p] = "["
      PROVE  \E r \in p .. q : IsGroup(SubSeq(s, p, r))
  <2>1. p \in 1 .. f /\ p \in Nat
    BY <1>1, <1>5
  <2>2. PICK r \in p .. f : IsGroup(SubSeq(s, p, r))
    BY <1>6, <2>1 DEF ChainTo
  <2>3. p \in 1 .. Len(s) /\ r \in p .. Len(s) /\ r \in Nat
    BY <1>1, <2>1, <2>2
  <2>4. \A m \in p + 1 .. r - 1 : s[m] \in Inside
    BY <2>2, <2>3, GroupIs
  <2>5. p # q
    BY <1>4, <1>6
  <2>6. ~(q < r)
    <3>1. SUFFICES ASSUME q < r PROVE FALSE
      OBVIOUS
    <3>2. q \in p + 1 .. r - 1
      BY <1>3, <2>1, <2>3, <2>5, <3>1
    <3>3. "]" \in Inside
      BY <1>4, <2>4, <3>2
    <3> QED
      BY <3>3, ClosesNothing
  <2>7. r \in p .. q
    BY <1>3, <2>1, <2>3, <2>6
  <2> QED
    BY <2>2, <2>7
<1>7. ASSUME NEW p \in 1 .. q - 1, s[p] = "]"
      PROVE  \E m \in p + 1 .. q : s[m] = "[" /\ \A j \in p + 1 .. m - 1 : s[j] = "_"
  <2>1. p \in 1 .. f - 1 /\ p \in Nat
    BY <1>1, <1>5
  <2>2. PICK m \in p + 1 .. f : s[m] = "[" /\ \A j \in p + 1 .. m - 1 : s[j] = "_"
    BY <1>7, <2>1 DEF ChainTo
  <2>5. m \in Nat /\ p + 1 <= m /\ m <= f
    BY <1>1, <2>1
  <2>3. ~(q < m)
    <3>1. SUFFICES ASSUME q < m PROVE FALSE
      OBVIOUS
    <3>2. q \in p + 1 .. m - 1
      BY <1>1, <1>3, <2>1, <2>5, <3>1
    <3> QED
      BY <1>4, <2>2, <3>2
  <2>4. m \in p + 1 .. q
    BY <1>1, <1>3, <2>1, <2>3, <2>5
  <2> QED
    BY <2>2, <2>4
<1>8. s[1] = "["
  BY DEF ChainTo
<1>9. ChainTo(s, q)
  BY <1>4, <1>6, <1>7, <1>8 DEF ChainTo
<1> QED
  BY <1>4, <1>5, <1>9

(* Chains depend on the text up to their end.                              *)
LEMMA ChainSame ==
  ASSUME NEW s \in Text, NEW x \in Text, NEW e \in 1 .. Len(s)
  PROVE  ChainTo(s \o x, e) <=> ChainTo(s, e)
<1> DEFINE y == s \o x
<1>1. y \in Text /\ Len(y) = Len(s) + Len(x) /\ Len(s) \in Nat /\ Len(x) \in Nat
  BY PartsIs
<1>2. e \in 1 .. Len(y) /\ e \in 0 .. Len(s)
  BY <1>1
<1>3. SubSeq(y, 1, e) = SubSeq(s, 1, e)
  BY <1>2, TextConcat
<1>4. ChainTo(y, e) <=> IsChain(SubSeq(y, 1, e))
  <2> HIDE DEF y
  <2> QED
    BY <1>1, <1>2, ChainToIs
<1>5. ChainTo(s, e) <=> IsChain(SubSeq(s, 1, e))
  BY ChainToIs
<1> QED
  BY <1>3, <1>4, <1>5

(* What opens a group whose end has not arrived is half a marker.          *)
LEMMA HalfAt ==
  ASSUME NEW s \in Text, NEW k \in 1 .. Len(s), s[k] = "[",
         \A r \in k + 1 .. Len(s) : s[r] \in Inside
  PROVE  HalfMarker(From(s, k))
<1> DEFINE n == k - 1
           t == From(s, n + 1)
<1>1. Len(s) \in Nat /\ k \in Nat /\ n \in 0 .. Len(s) /\ n \in Nat /\ n + 1 = k
  BY TextIs
<1>2. /\ Len(t) = Len(s) - n
      /\ \A i \in 1 .. Len(s) - n : t[i] = s[n + i]
  BY <1>1, TextFrom
<1> HIDE DEF t, n
<1>3. t[1] = "["
  <2>1. 1 \in 1 .. Len(s) - n
    BY <1>1
  <2> QED
    BY <1>1, <1>2, <2>1
<1>4. ASSUME NEW i \in 2 .. Len(t)
      PROVE  t[i] \in Inside
  <2>1. i \in 1 .. Len(s) - n /\ n + i \in k + 1 .. Len(s)
    BY <1>1, <1>2
  <2> QED
    BY <1>2, <2>1
<1>5. HalfMarker(t)
  BY <1>3, <1>4 DEF HalfMarker
<1> QED
  BY <1>1, <1>5 DEF t

(* A chain that nothing can make longer is the one of the text when more   *)
(* of it has arrived.                                                      *)
LEMMA ChainStays ==
  ASSUME NEW s \in Text, NEW x \in Text, ChainEnd(s) > 0, ~MayGrow(From(s, ChainEnd(s) + 1))
  PROVE  ChainEnd(s \o x) = ChainEnd(s)
<1> DEFINE y == s \o x
           e == ChainEnd(s)
           f == ChainEnd(y)
           n == Len(s)
           t == From(s, e + 1)
<1>1. /\ y \in Text /\ Len(y) = n + Len(x) /\ n \in Nat /\ Len(x) \in Nat
      /\ \A i \in 1 .. n : y[i] = s[i]
  BY PartsIs
<1>2. e \in 1 .. n /\ e \in Nat /\ ChainTo(s, e) /\ \A k \in 1 .. n : ChainTo(s, k) => k <= e
  BY <1>1, ChainEndIs
<1>3. f \in 0 .. Len(y) /\ (f > 0 => ChainTo(y, f)) /\ \A k \in 1 .. Len(y) : ChainTo(y, k) => k <= f
  <2> HIDE DEF y
  <2> QED
    BY <1>1, ChainEndIs
<1>4. \A k \in 1 .. n : ChainTo(y, k) <=> ChainTo(s, k)
  BY ChainSame
<1>5. /\ Len(t) = n - e
      /\ \A i \in 1 .. n - e : t[i] = s[e + i]
      /\ t \in Text
  <2>1. e \in 0 .. n
    BY <1>1, <1>2
  <2> HIDE DEF e
  <2> QED
    BY <2>1, TextFrom
<1>6. ~MayGrow(t)
  OBVIOUS
<1> HIDE DEF y, e, f, n, t
<1>7. e <= f /\ f \in Nat
  <2>1. e \in 1 .. Len(y) /\ ChainTo(y, e)
    BY <1>1, <1>2, <1>4
  <2> QED
    BY <1>1, <1>3, <2>1
<1>8. ASSUME e < f
      PROVE  FALSE
  <2>1. ChainTo(y, f) /\ f \in 1 .. Len(y)
    BY <1>1, <1>2, <1>3, <1>7, <1>8
  <2>2. y[e] = "]"
    BY <1>1, <1>2 DEF ChainTo
  <2>3. e \in 1 .. f - 1
    BY <1>2, <1>7, <1>8
  <2>4. PICK k \in e + 1 .. f : y[k] = "[" /\ \A j \in e + 1 .. k - 1 : y[j] = "_"
    BY <2>1, <2>2, <2>3 DEF ChainTo
  <2>5. k \in 1 .. f /\ k \in Nat /\ e + 1 <= k /\ k <= f
    BY <1>2, <1>7
  <2>6. PICK q \in k + 1 .. f : ChainTo(y, q) /\ \A r \in k + 1 .. q - 1 : y[r] \in Inside
    BY <1>1, <2>1, <2>4, <2>5, ChainCut
  <2>7. q \in Nat /\ k < q /\ q <= f
    BY <1>7, <2>5
  <2>8. ~(q <= n)
    <3>1. SUFFICES ASSUME q <= n PROVE FALSE
      OBVIOUS
    <3>2. q \in 1 .. n
      BY <1>1, <2>5, <2>7, <3>1
    <3>3. ChainTo(s, q)
      BY <1>4, <2>6, <3>2
    <3>4. q <= e
      BY <1>2, <3>2, <3>3
    <3> QED
      BY <1>2, <2>5, <2>7, <3>4
  <2> DEFINE m == k - e
  <2>9. m \in Nat /\ m >= 1 /\ e + m = k /\ n \in Nat
    BY <1>1, <1>2, <2>5
  <2>10. CASE k <= n
    <3>1. m \in 1 .. n - e
      BY <1>1, <1>2, <2>9, <2>10
    <3>2. \A i \in 1 .. m - 1 : t[i] = "_"
      <4>1. \A i \in 1 .. m - 1 : i \in 1 .. n - e /\ e + i \in e + 1 .. k - 1 /\ e + i \in 1 .. n
        BY <1>1, <1>2, <2>5, <2>9, <2>10
      <4> HIDE DEF m
      <4> QED
        BY <1>1, <1>5, <2>4, <4>1
    <3>3. t[m] = "["
      <4>1. k \in 1 .. n
        BY <1>1, <2>5, <2>10
      <4> HIDE DEF m
      <4> QED
        BY <1>1, <1>5, <2>4, <2>9, <3>1, <4>1
    <3>4. \A i \in m + 1 .. Len(t) : t[i] \in Inside
      <4>1. \A i \in m + 1 .. Len(t) : i \in 1 .. n - e /\ e + i \in k + 1 .. q - 1 /\ e + i \in 1 .. n
        BY <1>1, <1>2, <1>5, <2>5, <2>7, <2>8, <2>9
      <4> HIDE DEF m
      <4> QED
        BY <1>1, <1>5, <2>6, <4>1
    <3> HIDE DEF m
    <3>5. m \in 1 .. Len(t)
      BY <1>5, <3>1
    <3>6. HalfMarker(From(t, m))
      BY <1>5, <3>3, <3>4, <3>5, HalfAt
    <3>7. m \in 1 .. Len(t) + 1
      BY <1>5, <2>9, <3>5, TextIs
    <3>8. MayGrow(t)
      BY <3>2, <3>6, <3>7 DEF MayGrow
    <3> QED
      BY <1>6, <3>8
  <2>11. CASE ~(k <= n)
    <3>1. \A i \in 1 .. Len(t) : i \in 1 .. n - e /\ e + i \in e + 1 .. k - 1 /\ e + i \in 1 .. n
      BY <1>1, <1>2, <1>5, <2>5, <2>11
    <3>2. \A i \in 1 .. Len(t) : t[i] = "_"
      BY <1>1, <1>5, <2>4, <3>1
    <3>3. Len(t) \in Nat /\ Len(t) + 1 \in 1 .. Len(t) + 1 /\ \A i \in 1 .. (Len(t) + 1) - 1 : i \in 1 .. Len(t)
      BY <1>5, TextIs
    <3>4. \A i \in 1 .. (Len(t) + 1) - 1 : t[i] = "_"
      BY <3>2, <3>3
    <3>5. MayGrow(t)
      BY <3>3, <3>4 DEF MayGrow
    <3> QED
      BY <1>6, <3>5
  <2> QED
    BY <2>10, <2>11
<1>9. f = e
  BY <1>2, <1>7, <1>8
<1> QED
  BY <1>9 DEF e, f, y

(* A bracket that is neither a marker nor half of one never becomes one.   *)
LEMMA NoChainStays ==
  ASSUME NEW s \in Text, NEW x \in Text, s # <<>>, s[1] = "[", ChainEnd(s) = 0, ~HalfMarker(s)
  PROVE  ChainEnd(s \o x) = 0
<1> DEFINE y == s \o x
           f == ChainEnd(y)
           n == Len(s)
<1>1. /\ y \in Text /\ Len(y) = n + Len(x) /\ n \in Nat /\ Len(x) \in Nat
      /\ \A i \in 1 .. n : y[i] = s[i]
  BY PartsIs
<1>2. \A k \in 1 .. n : ~ChainTo(s, k)
  <2>1. \A k \in 1 .. n : ChainTo(s, k) => k <= 0
    BY ChainEndIs
  <2>2. \A k \in 1 .. n : ~(k <= 0)
    OBVIOUS
  <2> QED
    BY <2>1, <2>2
<1>3. f \in 0 .. Len(y) /\ (f > 0 => ChainTo(y, f))
  <2> HIDE DEF y
  <2> QED
    BY <1>1, ChainEndIs
<1>4. \A k \in 1 .. n : ChainTo(y, k) <=> ChainTo(s, k)
  BY ChainSame
<1>5. n > 0
  BY <1>1, TextIs
<1> HIDE DEF y, f, n
<1>6. ASSUME f > 0
      PROVE  FALSE
  <2>1. ChainTo(y, f) /\ f \in 1 .. Len(y) /\ f \in Nat /\ 1 \in 1 .. f
    BY <1>1, <1>3, <1>6
  <2>2. y[1] = "["
    BY <2>1 DEF ChainTo
  <2>3. PICK q \in 1 + 1 .. f : ChainTo(y, q) /\ \A r \in 1 + 1 .. q - 1 : y[r] \in Inside
    BY <1>1, <2>1, <2>2, ChainCut
  <2>4. q \in Nat /\ 1 < q
    BY <2>1
  <2>5. ~(q <= n)
    <3>1. SUFFICES ASSUME q <= n PROVE FALSE
      OBVIOUS
    <3>2. q \in 1 .. n
      BY <1>1, <2>4, <3>1
    <3> QED
      BY <1>2, <1>4, <2>3, <3>2
  <2>6. \A i \in 2 .. n : i \in 1 + 1 .. q - 1 /\ i \in 1 .. n
    BY <1>1, <2>4, <2>5
  <2>7. \A i \in 2 .. n : s[i] \in Inside
    BY <1>1, <2>3, <2>6
  <2>8. HalfMarker(s)
    BY <2>7 DEF HalfMarker, n
  <2> QED
    BY <2>8
<1>7. f = 0
  BY <1>1, <1>3, <1>6
<1> QED
  BY <1>7 DEF f, y

-----------------------------------------------------------------------------
(* What the loop carries.                                                  *)

Carried == [rest : Text, out : Text, open : BOOLEAN, order : Seq(Int), held : BOOLEAN]

(* The configuration when x has arrived besides.                           *)
More(g, x) == [g EXCEPT !.rest = @ \o x, !.held = FALSE]

(* The configuration when o came out before.                               *)
Behind(o, g) == [g EXCEPT !.out = o \o @]

Opened(g, b) == [g EXCEPT !.open = b]
Ordered(g, k) == [g EXCEPT !.order = k]

LEMMA ThreeParts ==
  ASSUME NEW a \in Text, NEW b \in Text, NEW c \in Text
  PROVE  (a \o b) \o c = a \o (b \o c)
BY ConcatAssociative DEF Text

LEMMA CarriedEqual ==
  ASSUME NEW g \in Carried, NEW h \in Carried,
         g.rest = h.rest, g.out = h.out, g.open = h.open, g.order = h.order, g.held = h.held
  PROVE  g = h
BY DEF Carried

LEMMA TellIs ==
  ASSUME NEW g \in Carried, NEW n \in 0 .. Len(g.rest), NEW said \in Text
  PROVE  /\ Tell(g, n, said) \in Carried
         /\ Tell(g, n, said).rest = From(g.rest, n + 1)
         /\ Tell(g, n, said).out = g.out \o said
         /\ Tell(g, n, said).open = g.open /\ Tell(g, n, said).order = g.order
         /\ Tell(g, n, said).held = g.held
         /\ Len(Tell(g, n, said).rest) = Len(g.rest) - n
<1>1. g.rest \in Text /\ g.out \in Text
  BY DEF Carried
<1>2. From(g.rest, n + 1) \in Text /\ Len(From(g.rest, n + 1)) = Len(g.rest) - n
  BY <1>1, TextFrom
<1>3. g.out \o said \in Text
  BY <1>1, PartsIs
<1> DEFINE r == From(g.rest, n + 1)
           u == g.out \o said
<1> HIDE DEF r, u
<1>4. Tell(g, n, said) = [g EXCEPT !.out = u, !.rest = r]
  BY DEF Tell, r, u
<1>5. r \in Text /\ u \in Text
  BY <1>2, <1>3 DEF r, u
<1>6. /\ Tell(g, n, said) \in Carried
      /\ Tell(g, n, said).rest = r /\ Tell(g, n, said).out = u
      /\ Tell(g, n, said).open = g.open /\ Tell(g, n, said).order = g.order
      /\ Tell(g, n, said).held = g.held
  BY <1>4, <1>5 DEF Carried
<1> QED
  BY <1>2, <1>6 DEF r, u

LEMMA HoldIs ==
  ASSUME NEW g \in Carried
  PROVE  /\ Hold(g) \in Carried
         /\ Hold(g).rest = g.rest /\ Hold(g).out = g.out /\ Hold(g).open = g.open
         /\ Hold(g).order = g.order /\ Hold(g).held = (g.rest # <<>>)
BY DEF Hold, Carried

LEMMA OpenedIs ==
  ASSUME NEW g \in Carried, NEW b \in BOOLEAN
  PROVE  /\ Opened(g, b) \in Carried
         /\ Opened(g, b).rest = g.rest /\ Opened(g, b).out = g.out /\ Opened(g, b).open = b
         /\ Opened(g, b).order = g.order /\ Opened(g, b).held = g.held
BY DEF Opened, Carried

LEMMA OrderedIs ==
  ASSUME NEW g \in Carried, NEW k \in Seq(Int)
  PROVE  /\ Ordered(g, k) \in Carried
         /\ Ordered(g, k).rest = g.rest /\ Ordered(g, k).out = g.out /\ Ordered(g, k).open = g.open
         /\ Ordered(g, k).order = k /\ Ordered(g, k).held = g.held
BY DEF Ordered, Carried

LEMMA MoreIs ==
  ASSUME NEW g \in Carried, NEW x \in Text
  PROVE  /\ More(g, x) \in Carried
         /\ More(g, x).rest = g.rest \o x /\ More(g, x).out = g.out /\ More(g, x).open = g.open
         /\ More(g, x).order = g.order /\ More(g, x).held = FALSE
<1>1. g.rest \o x \in Text
  BY PartsIs DEF Carried
<1> DEFINE r == g.rest \o x
<1> HIDE DEF r
<1>2. r \in Text /\ More(g, x) = [g EXCEPT !.rest = r, !.held = FALSE]
  BY <1>1 DEF r, More
<1>3. /\ More(g, x) \in Carried
      /\ More(g, x).rest = r /\ More(g, x).out = g.out /\ More(g, x).open = g.open
      /\ More(g, x).order = g.order /\ More(g, x).held = FALSE
  BY <1>2 DEF Carried
<1> QED
  BY <1>3 DEF r

(* More text behind two that differ in nothing but waiting.                *)
LEMMA MoreSame ==
  ASSUME NEW g \in Carried, NEW h \in Carried, NEW x \in Text,
         g.rest = h.rest, g.out = h.out, g.open = h.open, g.order = h.order
  PROVE  More(g, x) = More(h, x)
<1> DEFINE a == More(g, x)
           b == More(h, x)
<1>1. /\ a \in Carried /\ a.rest = g.rest \o x /\ a.out = g.out /\ a.open = g.open
      /\ a.order = g.order /\ a.held = FALSE
  BY MoreIs
<1>2. /\ b \in Carried /\ b.rest = h.rest \o x /\ b.out = h.out /\ b.open = h.open
      /\ b.order = h.order /\ b.held = FALSE
  BY MoreIs
<1> HIDE DEF a, b
<1>3. a = b
  BY <1>1, <1>2, CarriedEqual
<1> QED
  BY <1>3 DEF a, b

LEMMA BehindIs ==
  ASSUME NEW g \in Carried, NEW o \in Text
  PROVE  /\ Behind(o, g) \in Carried
         /\ Behind(o, g).rest = g.rest /\ Behind(o, g).out = o \o g.out /\ Behind(o, g).open = g.open
         /\ Behind(o, g).order = g.order /\ Behind(o, g).held = g.held
<1>1. o \o g.out \in Text
  BY PartsIs DEF Carried
<1> DEFINE u == o \o g.out
<1> HIDE DEF u
<1>2. u \in Text /\ Behind(o, g) = [g EXCEPT !.out = u]
  BY <1>1 DEF u, Behind
<1>3. /\ Behind(o, g) \in Carried
      /\ Behind(o, g).rest = g.rest /\ Behind(o, g).out = u /\ Behind(o, g).open = g.open
      /\ Behind(o, g).order = g.order /\ Behind(o, g).held = g.held
  BY <1>2 DEF Carried
<1> QED
  BY <1>3 DEF u

LEMMA TellMore ==
  ASSUME NEW g \in Carried, NEW x \in Text, NEW n \in 0 .. Len(g.rest), NEW said \in Text
  PROVE  Tell(More(g, x), n, said) = More(Tell(g, n, said), x)
<1> DEFINE a == Tell(More(g, x), n, said)
           b == More(Tell(g, n, said), x)
<1>1. g.rest \in Text /\ n \in 0 .. Len(More(g, x).rest) /\ From(g.rest \o x, n + 1) = From(g.rest, n + 1) \o x
  <2>1. g.rest \in Text
    BY DEF Carried
  <2>2. Len(g.rest \o x) = Len(g.rest) + Len(x) /\ Len(g.rest) \in Nat /\ Len(x) \in Nat
    BY <2>1, PartsIs
  <2>3. More(g, x).rest = g.rest \o x
    BY MoreIs
  <2>4. n \in 0 .. Len(g.rest \o x)
    BY <2>2
  <2> QED
    BY <2>1, <2>3, <2>4, TextConcat
<1>2. /\ a \in Carried /\ a.rest = From(g.rest, n + 1) \o x /\ a.out = g.out \o said
      /\ a.open = g.open /\ a.order = g.order /\ a.held = FALSE
  <2> DEFINE m == More(g, x)
  <2>1. /\ m \in Carried /\ m.rest = g.rest \o x /\ m.out = g.out /\ m.open = g.open
        /\ m.order = g.order /\ m.held = FALSE
    BY MoreIs
  <2>2. n \in 0 .. Len(m.rest)
    BY <1>1
  <2> HIDE DEF m
  <2>3. /\ Tell(m, n, said) \in Carried /\ Tell(m, n, said).rest = From(m.rest, n + 1)
        /\ Tell(m, n, said).out = m.out \o said /\ Tell(m, n, said).open = m.open
        /\ Tell(m, n, said).order = m.order /\ Tell(m, n, said).held = m.held
    BY <2>1, <2>2, TellIs
  <2> QED
    BY <1>1, <2>1, <2>3 DEF m
<1>3. /\ b \in Carried /\ b.rest = From(g.rest, n + 1) \o x /\ b.out = g.out \o said
      /\ b.open = g.open /\ b.order = g.order /\ b.held = FALSE
  <2> DEFINE t == Tell(g, n, said)
  <2>1. /\ t \in Carried /\ t.rest = From(g.rest, n + 1) /\ t.out = g.out \o said
        /\ t.open = g.open /\ t.order = g.order
    BY TellIs
  <2> HIDE DEF t
  <2>2. /\ More(t, x) \in Carried /\ More(t, x).rest = t.rest \o x /\ More(t, x).out = t.out
        /\ More(t, x).open = t.open /\ More(t, x).order = t.order /\ More(t, x).held = FALSE
    BY <2>1, MoreIs
  <2> QED
    BY <2>1, <2>2 DEF t
<1> HIDE DEF a, b
<1>4. a = b
  BY <1>2, <1>3, CarriedEqual
<1> QED
  BY <1>4 DEF a, b

LEMMA TellBehind ==
  ASSUME NEW g \in Carried, NEW o \in Text, NEW n \in 0 .. Len(g.rest), NEW said \in Text
  PROVE  Tell(Behind(o, g), n, said) = Behind(o, Tell(g, n, said))
<1> DEFINE a == Tell(Behind(o, g), n, said)
           b == Behind(o, Tell(g, n, said))
<1>1. g.out \in Text /\ (o \o g.out) \o said = o \o (g.out \o said)
  BY ConcatAssociative DEF Carried, Text
<1>2. Behind(o, g).rest = g.rest
  BY BehindIs
<1>3. /\ a \in Carried /\ a.rest = From(g.rest, n + 1) /\ a.out = (o \o g.out) \o said
      /\ a.open = g.open /\ a.order = g.order /\ a.held = g.held
  <2> DEFINE m == Behind(o, g)
  <2>1. /\ m \in Carried /\ m.rest = g.rest /\ m.out = o \o g.out /\ m.open = g.open
        /\ m.order = g.order /\ m.held = g.held
    BY BehindIs
  <2>2. n \in 0 .. Len(m.rest)
    BY <1>2
  <2> HIDE DEF m
  <2>3. /\ Tell(m, n, said) \in Carried /\ Tell(m, n, said).rest = From(m.rest, n + 1)
        /\ Tell(m, n, said).out = m.out \o said /\ Tell(m, n, said).open = m.open
        /\ Tell(m, n, said).order = m.order /\ Tell(m, n, said).held = m.held
    BY <2>1, <2>2, TellIs
  <2> QED
    BY <2>1, <2>3 DEF m
<1>4. /\ b \in Carried /\ b.rest = From(g.rest, n + 1) /\ b.out = o \o (g.out \o said)
      /\ b.open = g.open /\ b.order = g.order /\ b.held = g.held
  <2> DEFINE t == Tell(g, n, said)
  <2>1. /\ t \in Carried /\ t.rest = From(g.rest, n + 1) /\ t.out = g.out \o said
        /\ t.open = g.open /\ t.order = g.order /\ t.held = g.held
    BY TellIs
  <2> HIDE DEF t
  <2>2. /\ Behind(o, t) \in Carried /\ Behind(o, t).rest = t.rest /\ Behind(o, t).out = o \o t.out
        /\ Behind(o, t).open = t.open /\ Behind(o, t).order = t.order /\ Behind(o, t).held = t.held
    BY <2>1, BehindIs
  <2> QED
    BY <2>1, <2>2 DEF t
<1> HIDE DEF a, b
<1>5. a = b
  BY <1>1, <1>3, <1>4, CarriedEqual
<1> QED
  BY <1>5 DEF a, b

(* Told in two pieces.                                                     *)
LEMMA TellTell ==
  ASSUME NEW g \in Carried, NEW n \in Nat, NEW m \in Nat, n + m <= Len(g.rest), NEW p \in Text, NEW q \in Text
  PROVE  Tell(Tell(g, n, p), m, q) = Tell(g, n + m, p \o q)
<1> DEFINE a == Tell(Tell(g, n, p), m, q)
           b == Tell(g, n + m, p \o q)
           s == g.rest
<1>1. g.out \in Text /\ s \in Text /\ (g.out \o p) \o q = g.out \o (p \o q) /\ p \o q \in Text
  <2>1. g.out \in Text /\ g.rest \in Text
    BY DEF Carried
  <2>2. p \o q \in Text
    BY PartsIs
  <2>4. (g.out \o p) \o q = g.out \o (p \o q)
    BY <2>1, ThreeParts
  <2> QED
    BY <2>1, <2>2, <2>4
<1>2. Len(s) \in Nat /\ n \in 0 .. Len(s) /\ n + m \in 0 .. Len(s) /\ m \in 0 .. Len(s) - n
  BY <1>1, TextIs
<1>3. From(From(s, n + 1), m + 1) = From(s, (n + m) + 1)
  <2> DEFINE t == From(s, n + 1)
             u == From(t, m + 1)
             v == From(s, (n + m) + 1)
  <2>1. t \in Text /\ Len(t) = Len(s) - n /\ \A k \in 1 .. Len(s) - n : t[k] = s[n + k]
    BY <1>1, <1>2, TextFrom
  <2>2. m \in 0 .. Len(t)
    BY <1>2, <2>1
  <2> HIDE DEF t
  <2>3. u \in Text /\ Len(u) = Len(t) - m /\ \A k \in 1 .. Len(t) - m : u[k] = t[m + k]
    BY <2>1, <2>2, TextFrom
  <2>4. v \in Text /\ Len(v) = Len(s) - (n + m) /\ \A k \in 1 .. Len(s) - (n + m) : v[k] = s[(n + m) + k]
    BY <1>1, <1>2, TextFrom
  <2> HIDE DEF u, v
  <2>5. Len(u) = Len(v)
    BY <1>2, <2>1, <2>3, <2>4
  <2>6. ASSUME NEW k \in 1 .. Len(u)
        PROVE  u[k] = v[k]
    <3>1. k \in 1 .. Len(t) - m /\ m + k \in 1 .. Len(s) - n /\ k \in 1 .. Len(s) - (n + m) /\ n + (m + k) = (n + m) + k
      <4> DEFINE ls == Len(s)
                 lt == Len(t)
      <4>1. ls \in Nat /\ n \in Nat /\ m \in Nat /\ lt = ls - n /\ k \in 1 .. lt - m
        BY <1>2, <2>1, <2>3
      <4> HIDE DEF ls, lt
      <4>2. k \in 1 .. lt - m /\ m + k \in 1 .. ls - n /\ k \in 1 .. ls - (n + m) /\ n + (m + k) = (n + m) + k
        BY <4>1
      <4> QED
        BY <4>2 DEF ls, lt
    <3> QED
      BY <2>1, <2>3, <2>4, <3>1
  <2>7. u = v
    BY <2>3, <2>4, <2>5, <2>6, SeqEqual DEF Text
  <2> QED
    BY <2>7 DEF t, u, v
<1>4. /\ Tell(g, n, p) \in Carried /\ Tell(g, n, p).rest = From(s, n + 1) /\ Tell(g, n, p).out = g.out \o p
      /\ Tell(g, n, p).open = g.open /\ Tell(g, n, p).order = g.order /\ Tell(g, n, p).held = g.held
      /\ m \in 0 .. Len(Tell(g, n, p).rest)
  BY <1>2, TellIs
<1>5. /\ a \in Carried /\ a.rest = From(From(s, n + 1), m + 1) /\ a.out = (g.out \o p) \o q
      /\ a.open = g.open /\ a.order = g.order /\ a.held = g.held
  <2> DEFINE d == Tell(g, n, p)
  <2>1. d \in Carried /\ m \in 0 .. Len(d.rest)
    BY <1>4
  <2> HIDE DEF d
  <2>2. /\ Tell(d, m, q) \in Carried /\ Tell(d, m, q).rest = From(d.rest, m + 1) /\ Tell(d, m, q).out = d.out \o q
        /\ Tell(d, m, q).open = d.open /\ Tell(d, m, q).order = d.order /\ Tell(d, m, q).held = d.held
    BY <2>1, TellIs
  <2> QED
    BY <1>4, <2>2 DEF d
<1>6. /\ b \in Carried /\ b.rest = From(s, (n + m) + 1) /\ b.out = g.out \o (p \o q)
      /\ b.open = g.open /\ b.order = g.order /\ b.held = g.held
  BY <1>1, <1>2, TellIs
<1> HIDE DEF a, b, s
<1>7. a = b
  BY <1>1, <1>3, <1>5, <1>6, CarriedEqual
<1> QED
  BY <1>7 DEF a, b

LEMMA TellNone ==
  ASSUME NEW g \in Carried
  PROVE  Tell(g, 0, <<>>) = g
<1>1. g.rest \in Text /\ g.out \in Text /\ Len(g.rest) \in Nat
  BY TextIs DEF Carried
<1>2. From(g.rest, 0 + 1) = g.rest
  <2> DEFINE t == From(g.rest, 0 + 1)
  <2>1. t \in Text /\ Len(t) = Len(g.rest) - 0 /\ \A k \in 1 .. Len(g.rest) - 0 : t[k] = g.rest[0 + k]
    <3>1. 0 \in 0 .. Len(g.rest)
      BY <1>1
    <3> QED
      BY <1>1, <3>1, TextFrom, Zenon
  <2> HIDE DEF t
  <2>2. Len(t) = Len(g.rest) /\ \A k \in 1 .. Len(t) : t[k] = g.rest[k]
    BY <1>1, <2>1
  <2>3. t = g.rest
    BY <1>1, <2>1, <2>2, SeqEqual DEF Text
  <2> QED
    BY <2>3 DEF t
<1>3. g.out \o <<>> = g.out /\ <<>> \in Text /\ 0 \in 0 .. Len(g.rest)
  BY <1>1, ConcatEmptySeq, SymbolsAreText DEF Text
<1> DEFINE a == Tell(g, 0, <<>>)
<1>4. /\ a \in Carried /\ a.rest = g.rest /\ a.out = g.out
      /\ a.open = g.open /\ a.order = g.order /\ a.held = g.held
  BY <1>2, <1>3, TellIs
<1> HIDE DEF a
<1>5. a = g
  BY <1>4, CarriedEqual
<1> QED
  BY <1>5 DEF a

LEMMA ProseTyped ==
  ASSUME NEW s \in Text, NEW german \in BOOLEAN
  PROVE  Prose(s, german) \in Text
BY SpellIs DEF Prose

LEMMA BeginningIs ==
  ASSUME NEW g \in Carried, NEW n \in 0 .. Len(g.rest)
  PROVE  SubSeq(g.rest, 1, n) \in Text /\ Len(SubSeq(g.rest, 1, n)) = n
<1>1. g.rest \in Text
  BY DEF Carried
<1> QED
  BY <1>1, TextFrom

(* A beginning, told one way or the other, when more has arrived and when  *)
(* something came out before.                                              *)
LEMMA SaidIs ==
  ASSUME NEW g \in Carried, NEW n \in 0 .. Len(g.rest)
  PROVE  /\ Said(g, n) \in Carried /\ Len(Said(g, n).rest) = Len(g.rest) - n
         /\ Said(g, n).open = g.open /\ Said(g, n).order = g.order /\ Said(g, n).held = g.held
         /\ \A x \in Text : Said(More(g, x), n) = More(Said(g, n), x)
         /\ \A o \in Text : Said(Behind(o, g), n) = Behind(o, Said(g, n))
<1> DEFINE p == SubSeq(g.rest, 1, n)
<1>1. p \in Text /\ g.rest \in Text
  BY BeginningIs DEF Carried
<1>2. Said(g, n) = Tell(g, n, p)
  BY DEF Said
<1>3. ASSUME NEW x \in Text
      PROVE  Said(More(g, x), n) = Tell(More(g, x), n, p)
  <2>1. SubSeq(g.rest \o x, 1, n) = p
    BY <1>1, TextConcat
  <2>2. More(g, x).rest = g.rest \o x
    BY MoreIs
  <2> QED
    BY <2>1, <2>2 DEF Said
<1>4. ASSUME NEW o \in Text
      PROVE  Said(Behind(o, g), n) = Tell(Behind(o, g), n, p)
  <2>1. Behind(o, g).rest = g.rest
    BY BehindIs
  <2> QED
    BY <2>1 DEF Said
<1> HIDE DEF p
<1>5. /\ Tell(g, n, p) \in Carried /\ Len(Tell(g, n, p).rest) = Len(g.rest) - n
      /\ Tell(g, n, p).open = g.open /\ Tell(g, n, p).order = g.order /\ Tell(g, n, p).held = g.held
  BY <1>1, TellIs
<1>6. \A x \in Text : Tell(More(g, x), n, p) = More(Tell(g, n, p), x)
  BY <1>1, TellMore
<1>7. \A o \in Text : Tell(Behind(o, g), n, p) = Behind(o, Tell(g, n, p))
  BY <1>1, TellBehind
<1> QED
  BY <1>2, <1>3, <1>4, <1>5, <1>6, <1>7

LEMMA ToldIs ==
  ASSUME NEW g \in Carried, NEW n \in 0 .. Len(g.rest), NEW german \in BOOLEAN
  PROVE  /\ Told(g, n, german) \in Carried /\ Len(Told(g, n, german).rest) = Len(g.rest) - n
         /\ Told(g, n, german).rest = From(g.rest, n + 1)
         /\ Told(g, n, german).open = g.open /\ Told(g, n, german).order = g.order
         /\ Told(g, n, german).held = g.held
         /\ \A x \in Text : Told(More(g, x), n, german) = More(Told(g, n, german), x)
         /\ \A o \in Text : Told(Behind(o, g), n, german) = Behind(o, Told(g, n, german))
<1> DEFINE p == Prose(SubSeq(g.rest, 1, n), german)
<1>1. p \in Text /\ g.rest \in Text
  BY BeginningIs, ProseTyped DEF Carried
<1>2. Told(g, n, german) = Tell(g, n, p)
  BY DEF Told
<1>3. ASSUME NEW x \in Text
      PROVE  Told(More(g, x), n, german) = Tell(More(g, x), n, p)
  <2>1. SubSeq(g.rest \o x, 1, n) = SubSeq(g.rest, 1, n)
    BY <1>1, TextConcat
  <2>2. More(g, x).rest = g.rest \o x
    BY MoreIs
  <2> QED
    BY <2>1, <2>2 DEF Told
<1>4. ASSUME NEW o \in Text
      PROVE  Told(Behind(o, g), n, german) = Tell(Behind(o, g), n, p)
  <2>1. Behind(o, g).rest = g.rest
    BY BehindIs
  <2> QED
    BY <2>1 DEF Told
<1> HIDE DEF p
<1>5. /\ Tell(g, n, p) \in Carried /\ Len(Tell(g, n, p).rest) = Len(g.rest) - n
      /\ Tell(g, n, p).rest = From(g.rest, n + 1)
      /\ Tell(g, n, p).open = g.open /\ Tell(g, n, p).order = g.order /\ Tell(g, n, p).held = g.held
  BY <1>1, TellIs
<1>6. \A x \in Text : Tell(More(g, x), n, p) = More(Tell(g, n, p), x)
  BY <1>1, TellMore
<1>7. \A o \in Text : Tell(Behind(o, g), n, p) = Behind(o, Tell(g, n, p))
  BY <1>1, TellBehind
<1> QED
  BY <1>2, <1>3, <1>4, <1>5, <1>6, <1>7

LEMMA HoldMore ==
  ASSUME NEW g \in Carried, NEW x \in Text
  PROVE  More(Hold(g), x) = More(g, x)
<1>1. Hold(g) \in Carried /\ Hold(g).rest = g.rest /\ Hold(g).out = g.out /\ Hold(g).open = g.open
      /\ Hold(g).order = g.order
  BY HoldIs
<1> DEFINE h == Hold(g)
<1> HIDE DEF h
<1>2. h \in Carried /\ h.rest = g.rest /\ h.out = g.out /\ h.open = g.open /\ h.order = g.order
  BY <1>1 DEF h
<1>3. /\ More(h, x) \in Carried
      /\ More(h, x).rest = h.rest \o x /\ More(h, x).out = h.out /\ More(h, x).open = h.open
      /\ More(h, x).order = h.order /\ More(h, x).held = FALSE
  BY <1>2, MoreIs
<1>4. /\ More(g, x) \in Carried
      /\ More(g, x).rest = g.rest \o x /\ More(g, x).out = g.out /\ More(g, x).open = g.open
      /\ More(g, x).order = g.order /\ More(g, x).held = FALSE
  BY MoreIs
<1>5. More(h, x) = More(g, x)
  BY <1>2, <1>3, <1>4, CarriedEqual
<1> QED
  BY <1>5 DEF h

LEMMA HoldBehind ==
  ASSUME NEW g \in Carried, NEW o \in Text
  PROVE  /\ Hold(Behind(o, g)) = Behind(o, Hold(g))
         /\ \A b \in BOOLEAN : Opened(Behind(o, g), b) = Behind(o, Opened(g, b))
         /\ \A k \in Seq(Int) : Ordered(Behind(o, g), k) = Behind(o, Ordered(g, k))
BY DEF Hold, Behind, Opened, Ordered, Carried

LEMMA OpenedMore ==
  ASSUME NEW g \in Carried, NEW x \in Text
  PROVE  /\ \A b \in BOOLEAN : Opened(More(g, x), b) = More(Opened(g, b), x)
         /\ \A k \in Seq(Int) : Ordered(More(g, x), k) = More(Ordered(g, k), x)
BY DEF More, Opened, Ordered, Carried

LEMMA TicksAre ==
  ASSUME NEW s \in Text
  PROVE  /\ Ticks(s) \in 0 .. 2 /\ Ticks(s) <= Len(s)
         /\ \A m \in Len(s) - Ticks(s) + 1 .. Len(s) : s[m] = "t"
         /\ \A k \in 0 .. 2 : k <= Len(s) /\ (\A m \in Len(s) - k + 1 .. Len(s) : s[m] = "t") => k <= Ticks(s)
<1> DEFINE K == {k \in 0 .. 2 : k <= Len(s) /\ \A m \in Len(s) - k + 1 .. Len(s) : s[m] = "t"}
<1>1. Len(s) \in Nat
  BY TextIs
<1>2. 0 \in K
  BY <1>1
<1>3. K \in SUBSET (0 .. 2) /\ K # {} /\ Ticks(s) = Max(K)
  BY <1>2 DEF Ticks
<1>4. Ticks(s) \in K /\ \A k \in K : k <= Ticks(s)
  <2> HIDE DEF K
  <2> QED
    BY <1>3, LastPlace
<1> QED
  BY <1>4

LEMMA LastBlankIs ==
  ASSUME NEW s \in Text
  PROVE  /\ BeforeLastWord(s) \in 0 .. Len(s)
         /\ BeforeLastWord(s) > 0 => s[BeforeLastWord(s)] \in Spaces
         /\ \A k \in 1 .. Len(s) : s[k] \in Spaces => k <= BeforeLastWord(s)
<1> DEFINE K == {0} \cup {k \in DOMAIN s : s[k] \in Spaces}
<1>1. Len(s) \in Nat /\ DOMAIN s = 1 .. Len(s)
  BY TextIs
<1>2. K \in SUBSET (0 .. Len(s)) /\ K # {} /\ BeforeLastWord(s) = Max(K)
  BY <1>1 DEF BeforeLastWord
<1>3. BeforeLastWord(s) \in K /\ \A k \in K : k <= BeforeLastWord(s)
  <2> HIDE DEF K
  <2> QED
    BY <1>1, <1>2, LastPlace
<1> QED
  BY <1>1, <1>3

-----------------------------------------------------------------------------
(* The turns of the loop: each is one, takes from the text or waits, and   *)
(* does not read what came out before.                                     *)

(* h comes of g by a turn.                                                 *)
Fits(h, g) == h \in Carried /\ (h.held \/ h.rest = <<>> \/ Len(h.rest) < Len(g.rest))

LineOf(s) == IF FirstOf(s, {"n"}) = 0 THEN s ELSE SubSeq(s, 1, FirstOf(s, {"n"}) - 1)
HeadOf(s) == IF FirstOf(s, {"n"}) = 0 THEN Len(s) ELSE FirstOf(s, {"n"})
SpanOf(s) == FirstOf(From(s, 2), {"t", "n"}) + 1

LEMMA InFenceIs ==
  ASSUME NEW g, NEW atEnd
  PROVE  InFence(g, atEnd) =
           IF FirstFence(g.rest) > 0 THEN Opened(Said(g, FirstFence(g.rest) + 2), FALSE)
           ELSE Hold(Said(g, IF atEnd THEN Len(g.rest) ELSE Len(g.rest) - Ticks(g.rest)))
BY DEF InFence, Opened

LEMMA AtTickIs ==
  ASSUME NEW g, NEW atEnd
  PROVE  AtTick(g, atEnd) =
           IF ~atEnd /\ g.rest \in {<<"t">>, <<"t", "t">>} THEN Hold(g)
           ELSE IF IsPrefix(Fence, g.rest) THEN
             IF FirstFence(From(LineOf(g.rest), 4)) > 0 THEN Opened(Said(g, 3), TRUE)
             ELSE IF FirstOf(g.rest, {"n"}) = 0 /\ ~atEnd THEN Hold(g) ELSE Opened(Said(g, HeadOf(g.rest)), TRUE)
           ELSE IF SpanOf(g.rest) > 1 /\ g.rest[SpanOf(g.rest)] = "t" THEN Said(g, SpanOf(g.rest))
           ELSE IF SpanOf(g.rest) > 1 \/ atEnd THEN Said(g, 1) ELSE Hold(g)
BY DEF AtTick, Opened, LineOf, HeadOf, SpanOf

LEMMA AtBracketIs ==
  ASSUME NEW g, NEW w, NEW atEnd
  PROVE  AtBracket(g, w, atEnd) =
           LET new == RewriteChain(SubSeq(g.rest, 1, ChainEnd(g.rest)), w.sources, g.order)
           IN  IF ChainEnd(g.rest) > 0
               THEN IF ~atEnd /\ MayGrow(From(g.rest, ChainEnd(g.rest) + 1)) THEN Hold(g)
                    ELSE Ordered(Tell(g, ChainEnd(g.rest), new.out), new.order)
               ELSE IF ~atEnd /\ HalfMarker(g.rest) THEN Hold(g) ELSE Tell(g, 1, <<"[">>)
BY DEF AtBracket, Ordered

LEMMA TickPlaces ==
  ASSUME NEW s \in Text, s # <<>>
  PROVE  /\ IsPrefix(Fence, s) <=> Len(s) >= 3 /\ FenceAt(s, 1)
         /\ HeadOf(s) \in 1 .. Len(s) /\ SpanOf(s) \in 1 .. Len(s)
         /\ From(s, 2) \in Text /\ Len(From(s, 2)) = Len(s) - 1
         /\ \A k \in 1 .. Len(s) - 1 : From(s, 2)[k] = s[1 + k]
<1>1. Len(s) \in Nat /\ Len(s) > 0
  BY TextIs
<1>2. IsPrefix(Fence, s) <=> Len(s) >= 3 /\ FenceAt(s, 1)
  <2>1. Len(Fence) = 3 /\ SubSeq(Fence, 1, 3) = Fence
    <3>1. Len(Fence) = 3 /\ Fence \in Seq(Alphabet)
      BY DEF Fence, Alphabet
    <3>2. 3 \in 0 .. Len(Fence)
      BY <3>1
    <3>3. SubSeq(Fence, 1, 3) \in Seq(Alphabet) /\ Len(SubSeq(Fence, 1, 3)) = 3
          /\ \A k \in 1 .. 3 : SubSeq(Fence, 1, 3)[k] = Fence[k]
      BY <3>1, <3>2, FromIs
    <3>4. SubSeq(Fence, 1, 3) = Fence
      BY <3>1, <3>3, SeqEqual
    <3> QED
      BY <3>1, <3>4
  <2>2. IsPrefix(Fence, s) <=> 3 <= Len(s) /\ Fence = SubSeq(s, 1, 3)
    BY <2>1 DEF IsPrefix
  <2>3. CASE Len(s) >= 3
    <3>1. 1 \in 1 .. Len(s) - 2 /\ 1 + 2 = 3
      BY <1>1, <2>3
    <3>2. SubSeq(s, 1, 3) = Fence <=> FenceAt(s, 1)
      BY <3>1, FenceAtIs
    <3> QED
      BY <2>2, <2>3, <3>2
  <2>4. CASE ~(Len(s) >= 3)
    BY <1>1, <2>2, <2>4
  <2> QED
    BY <2>3, <2>4
<1>3. HeadOf(s) \in 1 .. Len(s)
  <2>1. FirstOf(s, {"n"}) \in 0 .. Len(s)
    BY FirstOfIs
  <2> QED
    BY <1>1, <2>1 DEF HeadOf
<1>4. From(s, 2) \in Text /\ Len(From(s, 2)) = Len(s) - 1 /\ \A k \in 1 .. Len(s) - 1 : From(s, 2)[k] = s[1 + k]
  <2> DEFINE n == 1
  <2>1. n \in 0 .. Len(s)
    BY <1>1
  <2>2. /\ From(s, n + 1) \in Text /\ Len(From(s, n + 1)) = Len(s) - n
        /\ \A k \in 1 .. Len(s) - n : From(s, n + 1)[k] = s[n + k]
    <3> HIDE DEF n
    <3> QED
      BY <2>1, TextFrom
  <2> QED
    BY <2>2
<1>5. SpanOf(s) \in 1 .. Len(s)
  <2>1. FirstOf(From(s, 2), {"t", "n"}) \in 0 .. Len(s) - 1
    BY <1>4, FirstOfIs
  <2> QED
    BY <1>1, <2>1 DEF SpanOf
<1> QED
  BY <1>2, <1>3, <1>4, <1>5

LEMMA SaidFits ==
  ASSUME NEW g \in Carried, NEW n \in 1 .. Len(g.rest)
  PROVE  Fits(Said(g, n), g) /\ \A b \in BOOLEAN : Fits(Opened(Said(g, n), b), g)
<1>1. Len(g.rest) \in Nat /\ n \in 0 .. Len(g.rest)
  BY TextIs DEF Carried
<1>2. Said(g, n) \in Carried /\ Len(Said(g, n).rest) = Len(g.rest) - n
  BY <1>1, SaidIs
<1>3. Len(Said(g, n).rest) < Len(g.rest)
  BY <1>1, <1>2
<1> QED
  BY <1>2, <1>3, OpenedIs DEF Fits

LEMMA HoldFits ==
  ASSUME NEW g, NEW h \in Carried
  PROVE  Fits(Hold(h), g)
<1>1. Hold(h) \in Carried /\ Hold(h).rest = h.rest /\ Hold(h).held = (h.rest # <<>>)
  BY HoldIs
<1> QED
  BY <1>1 DEF Fits

LEMMA InFenceFits ==
  ASSUME NEW g \in Carried, g.rest # <<>>, NEW atEnd \in BOOLEAN
  PROVE  /\ Fits(InFence(g, atEnd), g)
         /\ \A o \in Text : InFence(Behind(o, g), atEnd) = Behind(o, InFence(g, atEnd))
<1> DEFINE s == g.rest
           f == FirstFence(s)
           n == IF atEnd THEN Len(s) ELSE Len(s) - Ticks(s)
<1>1. s \in Text /\ Len(s) \in Nat
  BY TextIs DEF Carried
<1>2. f > 0 => f + 2 \in 1 .. Len(s)
  <2>1. f \in 0 .. Len(s) /\ (f > 0 => f \in 1 .. Len(s) - 2)
    BY <1>1, FirstFenceIs
  <2> QED
    BY <1>1, <2>1
<1>3. n \in 0 .. Len(s)
  BY <1>1, TicksAre
<1>4. InFence(g, atEnd) = IF f > 0 THEN Opened(Said(g, f + 2), FALSE) ELSE Hold(Said(g, n))
  BY InFenceIs
<1>5. ASSUME NEW o \in Text
      PROVE  InFence(Behind(o, g), atEnd) =
               IF f > 0 THEN Opened(Said(Behind(o, g), f + 2), FALSE) ELSE Hold(Said(Behind(o, g), n))
  <2>1. Behind(o, g).rest = s
    BY BehindIs
  <2> QED
    BY <2>1, InFenceIs
<1> HIDE DEF f, n
<1>6. CASE f > 0
  <2>1. f + 2 \in 0 .. Len(g.rest)
    BY <1>1, <1>2, <1>6
  <2>2. Said(g, f + 2) \in Carried /\ \A o \in Text : Said(Behind(o, g), f + 2) = Behind(o, Said(g, f + 2))
    BY <2>1, SaidIs
  <2>3. \A o \in Text : Opened(Behind(o, Said(g, f + 2)), FALSE) = Behind(o, Opened(Said(g, f + 2), FALSE))
    BY <2>2, HoldBehind
  <2> QED
    BY <1>2, <1>4, <1>5, <1>6, <2>2, <2>3, SaidFits
<1>7. CASE ~(f > 0)
  <2>1. Said(g, n) \in Carried /\ \A o \in Text : Said(Behind(o, g), n) = Behind(o, Said(g, n))
    BY <1>3, SaidIs
  <2>2. \A o \in Text : Hold(Behind(o, Said(g, n))) = Behind(o, Hold(Said(g, n)))
    BY <2>1, HoldBehind
  <2>3. Fits(Hold(Said(g, n)), g)
    BY <2>1, HoldFits
  <2> QED
    BY <1>4, <1>5, <1>7, <2>1, <2>2, <2>3
<1> QED
  BY <1>6, <1>7

LEMMA AtTickFits ==
  ASSUME NEW g \in Carried, g.rest # <<>>, NEW atEnd \in BOOLEAN
  PROVE  /\ Fits(AtTick(g, atEnd), g)
         /\ \A o \in Text : AtTick(Behind(o, g), atEnd) = Behind(o, AtTick(g, atEnd))
<1> DEFINE s == g.rest
<1>1. s \in Text /\ Len(s) \in Nat /\ Len(s) > 0
  BY TextIs DEF Carried
<1>2. /\ IsPrefix(Fence, s) => 3 \in 1 .. Len(s)
      /\ HeadOf(s) \in 1 .. Len(s) /\ SpanOf(s) \in 1 .. Len(s) /\ 1 \in 1 .. Len(s)
  BY <1>1, TickPlaces
<1>3. \A o \in Text : Behind(o, g).rest = s
  BY BehindIs
<1>4. ASSUME NEW n \in 1 .. Len(s), NEW b \in BOOLEAN
      PROVE  /\ Fits(Said(g, n), g) /\ Fits(Opened(Said(g, n), b), g)
             /\ \A o \in Text : /\ Said(Behind(o, g), n) = Behind(o, Said(g, n))
                                /\ Opened(Said(Behind(o, g), n), b) = Behind(o, Opened(Said(g, n), b))
  <2>1. n \in 0 .. Len(g.rest)
    BY <1>1
  <2>2. Said(g, n) \in Carried /\ \A o \in Text : Said(Behind(o, g), n) = Behind(o, Said(g, n))
    BY <2>1, SaidIs
  <2>3. \A o \in Text : Opened(Behind(o, Said(g, n)), b) = Behind(o, Opened(Said(g, n), b))
    BY <2>2, HoldBehind
  <2> QED
    BY <2>2, <2>3, SaidFits
<1>5. Fits(Hold(g), g) /\ \A o \in Text : Hold(Behind(o, g)) = Behind(o, Hold(g))
  BY HoldFits, HoldBehind
<1>6. AtTick(g, atEnd) =
           IF ~atEnd /\ s \in {<<"t">>, <<"t", "t">>} THEN Hold(g)
           ELSE IF IsPrefix(Fence, s) THEN
             IF FirstFence(From(LineOf(s), 4)) > 0 THEN Opened(Said(g, 3), TRUE)
             ELSE IF FirstOf(s, {"n"}) = 0 /\ ~atEnd THEN Hold(g) ELSE Opened(Said(g, HeadOf(s)), TRUE)
           ELSE IF SpanOf(s) > 1 /\ s[SpanOf(s)] = "t" THEN Said(g, SpanOf(s))
           ELSE IF SpanOf(s) > 1 \/ atEnd THEN Said(g, 1) ELSE Hold(g)
  BY AtTickIs
<1>7. ASSUME NEW o \in Text
      PROVE  AtTick(Behind(o, g), atEnd) =
           IF ~atEnd /\ s \in {<<"t">>, <<"t", "t">>} THEN Hold(Behind(o, g))
           ELSE IF IsPrefix(Fence, s) THEN
             IF FirstFence(From(LineOf(s), 4)) > 0 THEN Opened(Said(Behind(o, g), 3), TRUE)
             ELSE IF FirstOf(s, {"n"}) = 0 /\ ~atEnd THEN Hold(Behind(o, g))
             ELSE Opened(Said(Behind(o, g), HeadOf(s)), TRUE)
           ELSE IF SpanOf(s) > 1 /\ s[SpanOf(s)] = "t" THEN Said(Behind(o, g), SpanOf(s))
           ELSE IF SpanOf(s) > 1 \/ atEnd THEN Said(Behind(o, g), 1) ELSE Hold(Behind(o, g))
  BY <1>3, AtTickIs
<1> DEFINE c1 == ~atEnd /\ s \in {<<"t">>, <<"t", "t">>}
           c2 == IsPrefix(Fence, s)
           c3 == FirstFence(From(LineOf(s), 4)) > 0
           c4 == FirstOf(s, {"n"}) = 0 /\ ~atEnd
           c5 == SpanOf(s) > 1 /\ s[SpanOf(s)] = "t"
           c6 == SpanOf(s) > 1 \/ atEnd
           head == HeadOf(s)
           span == SpanOf(s)
<1> HIDE DEF s, c1, c2, c3, c4, c5, c6, head, span
<1>8. AtTick(g, atEnd) =
        IF c1 THEN Hold(g) ELSE IF c2 THEN IF c3 THEN Opened(Said(g, 3), TRUE)
                                         ELSE IF c4 THEN Hold(g) ELSE Opened(Said(g, head), TRUE)
        ELSE IF c5 THEN Said(g, span) ELSE IF c6 THEN Said(g, 1) ELSE Hold(g)
  BY <1>6 DEF c1, c2, c3, c4, c5, c6, head, span
<1>9. ASSUME NEW o \in Text
      PROVE  AtTick(Behind(o, g), atEnd) =
        IF c1 THEN Hold(Behind(o, g))
        ELSE IF c2 THEN IF c3 THEN Opened(Said(Behind(o, g), 3), TRUE)
                        ELSE IF c4 THEN Hold(Behind(o, g)) ELSE Opened(Said(Behind(o, g), head), TRUE)
        ELSE IF c5 THEN Said(Behind(o, g), span)
        ELSE IF c6 THEN Said(Behind(o, g), 1) ELSE Hold(Behind(o, g))
  BY <1>7 DEF c1, c2, c3, c4, c5, c6, head, span
<1>10. (c2 => 3 \in 1 .. Len(s)) /\ head \in 1 .. Len(s) /\ span \in 1 .. Len(s) /\ 1 \in 1 .. Len(s)
  BY <1>2 DEF c2, head, span
<1>11. CASE c1 \/ (~c1 /\ c2 /\ ~c3 /\ c4) \/ (~c1 /\ ~c2 /\ ~c5 /\ ~c6)
  <2>1. AtTick(g, atEnd) = Hold(g) /\ \A o \in Text : AtTick(Behind(o, g), atEnd) = Hold(Behind(o, g))
    BY <1>8, <1>9, <1>11
  <2> QED
    BY <1>5, <2>1
<1>12. CASE ~c1 /\ c2 /\ c3
  <2>1. /\ AtTick(g, atEnd) = Opened(Said(g, 3), TRUE)
        /\ \A o \in Text : AtTick(Behind(o, g), atEnd) = Opened(Said(Behind(o, g), 3), TRUE)
    BY <1>8, <1>9, <1>12
  <2> QED
    BY <1>4, <1>10, <1>12, <2>1
<1>13. CASE ~c1 /\ c2 /\ ~c3 /\ ~c4
  <2>1. /\ AtTick(g, atEnd) = Opened(Said(g, head), TRUE)
        /\ \A o \in Text : AtTick(Behind(o, g), atEnd) = Opened(Said(Behind(o, g), head), TRUE)
    BY <1>8, <1>9, <1>13
  <2> QED
    BY <1>4, <1>10, <2>1
<1>14. CASE ~c1 /\ ~c2 /\ c5
  <2>1. /\ AtTick(g, atEnd) = Said(g, span)
        /\ \A o \in Text : AtTick(Behind(o, g), atEnd) = Said(Behind(o, g), span)
    BY <1>8, <1>9, <1>14
  <2> QED
    BY <1>4, <1>10, <2>1
<1>15. CASE ~c1 /\ ~c2 /\ ~c5 /\ c6
  <2>1. /\ AtTick(g, atEnd) = Said(g, 1)
        /\ \A o \in Text : AtTick(Behind(o, g), atEnd) = Said(Behind(o, g), 1)
    BY <1>8, <1>9, <1>15
  <2> QED
    BY <1>4, <1>10, <2>1
<1> QED
  BY <1>11, <1>12, <1>13, <1>14, <1>15

LEMMA AtBracketFits ==
  ASSUME NEW g \in Carried, g.rest # <<>>, NEW w, w.sources \in Nat, NEW atEnd \in BOOLEAN
  PROVE  /\ Fits(AtBracket(g, w, atEnd), g)
         /\ \A o \in Text : AtBracket(Behind(o, g), w, atEnd) = Behind(o, AtBracket(g, w, atEnd))
<1> DEFINE s == g.rest
           e == ChainEnd(s)
           new == RewriteChain(SubSeq(s, 1, e), w.sources, g.order)
           c1 == ~atEnd /\ MayGrow(From(s, e + 1))
           c2 == ~atEnd /\ HalfMarker(s)
           b == <<"[">>
<1>1. s \in Text /\ Len(s) \in Nat /\ Len(s) > 0 /\ g.order \in Seq(Int)
  BY TextIs DEF Carried
<1>2. e \in 0 .. Len(s) /\ SubSeq(s, 1, e) \in Text
  BY <1>1, ChainEndIs, TextFrom
<1>3. new.out \in Text /\ new.order \in Seq(Int)
  <2> HIDE DEF s, e
  <2> QED
    BY <1>1, <1>2, RewriteTyped
<1>4. b \in Text
  BY SymbolsAreText DEF Alphabet
<1>5. AtBracket(g, w, atEnd) =
        IF e > 0 THEN IF c1 THEN Hold(g) ELSE Ordered(Tell(g, e, new.out), new.order)
        ELSE IF c2 THEN Hold(g) ELSE Tell(g, 1, b)
  BY AtBracketIs
<1>6. ASSUME NEW o \in Text
      PROVE  AtBracket(Behind(o, g), w, atEnd) =
        IF e > 0 THEN IF c1 THEN Hold(Behind(o, g)) ELSE Ordered(Tell(Behind(o, g), e, new.out), new.order)
        ELSE IF c2 THEN Hold(Behind(o, g)) ELSE Tell(Behind(o, g), 1, b)
  <2>1. Behind(o, g).rest = s /\ Behind(o, g).order = g.order
    BY BehindIs
  <2> QED
    BY <2>1, AtBracketIs
<1> HIDE DEF e, new, c1, c2, b
<1>7. ASSUME NEW n \in 1 .. Len(s), NEW said \in Text
      PROVE  /\ Tell(g, n, said) \in Carried /\ Fits(Tell(g, n, said), g)
             /\ \A o \in Text : Tell(Behind(o, g), n, said) = Behind(o, Tell(g, n, said))
  <2>1. n \in 0 .. Len(g.rest)
    BY <1>1
  <2>2. Tell(g, n, said) \in Carried /\ Len(Tell(g, n, said).rest) = Len(g.rest) - n
    BY <2>1, TellIs
  <2>3. Len(Tell(g, n, said).rest) < Len(g.rest)
    BY <1>1, <2>2
  <2> QED
    BY <2>1, <2>2, <2>3, TellBehind DEF Fits
<1>8. Fits(Hold(g), g) /\ \A o \in Text : Hold(Behind(o, g)) = Behind(o, Hold(g))
  BY HoldFits, HoldBehind
<1>9. CASE e > 0
  <2>1. e \in 1 .. Len(s)
    BY <1>1, <1>2, <1>9
  <2>2. /\ Tell(g, e, new.out) \in Carried /\ Fits(Tell(g, e, new.out), g)
        /\ \A o \in Text : Tell(Behind(o, g), e, new.out) = Behind(o, Tell(g, e, new.out))
    BY <1>3, <1>7, <2>1
  <2>3. /\ Fits(Ordered(Tell(g, e, new.out), new.order), g)
        /\ \A o \in Text : Ordered(Behind(o, Tell(g, e, new.out)), new.order)
                             = Behind(o, Ordered(Tell(g, e, new.out), new.order))
    BY <1>3, <2>2, OrderedIs, HoldBehind DEF Fits
  <2> QED
    BY <1>5, <1>6, <1>8, <1>9, <2>2, <2>3
<1>10. CASE ~(e > 0)
  <2>1. 1 \in 1 .. Len(s)
    BY <1>1
  <2>2. Fits(Tell(g, 1, b), g) /\ \A o \in Text : Tell(Behind(o, g), 1, b) = Behind(o, Tell(g, 1, b))
    BY <1>4, <1>7, <2>1
  <2> QED
    BY <1>5, <1>6, <1>8, <1>10, <2>2
<1> QED
  BY <1>9, <1>10

(* Where prose ends for now.                                               *)
ProseEnd(s, w, atEnd) == IF w.german /\ ~atEnd THEN BeforeLastWord(s) ELSE Len(s)
NextMark(s) == FirstOf(s, {"t", "["})

LEMMA PassIs ==
  ASSUME NEW g, NEW w, NEW atEnd, ~(g.held \/ g.rest = <<>>)
  PROVE  Pass(g, w, atEnd) =
           IF g.open THEN InFence(g, atEnd)
           ELSE IF NextMark(g.rest) = 0 THEN Hold(Told(g, ProseEnd(g.rest, w, atEnd), w.german))
           ELSE IF g.rest[NextMark(g.rest)] = "t" THEN AtTick(Told(g, NextMark(g.rest) - 1, w.german), atEnd)
           ELSE AtBracket(Told(g, NextMark(g.rest) - 1, w.german), w, atEnd)
BY DEF Pass, NextMark, ProseEnd

LEMMA PassFits ==
  ASSUME NEW g \in Carried, NEW w, w.sources \in Nat, w.german \in BOOLEAN, NEW atEnd \in BOOLEAN
  PROVE  /\ g.held \/ g.rest = <<>> => Pass(g, w, atEnd) = g
         /\ Fits(Pass(g, w, atEnd), g)
         /\ \A o \in Text : Pass(Behind(o, g), w, atEnd) = Behind(o, Pass(g, w, atEnd))
<1> DEFINE s == g.rest
           done == g.held \/ s = <<>>
           j == NextMark(s)
           n == ProseEnd(s, w, atEnd)
<1>1. s \in Text /\ Len(s) \in Nat /\ (s # <<>> => Len(s) > 0) /\ g.open \in BOOLEAN
  BY TextIs DEF Carried
<1>2. \A o \in Text : /\ Behind(o, g).rest = s /\ Behind(o, g).held = g.held /\ Behind(o, g).open = g.open
                      /\ Behind(o, g) \in Carried
  BY BehindIs
<1>3. CASE done
  <2>1. Pass(g, w, atEnd) = g
    BY <1>3 DEF Pass
  <2>2. \A o \in Text : Pass(Behind(o, g), w, atEnd) = Behind(o, g)
    BY <1>2, <1>3 DEF Pass
  <2> QED
    BY <1>3, <2>1, <2>2 DEF Fits
<1>4. CASE ~done
  <2>1. Pass(g, w, atEnd) =
           IF g.open THEN InFence(g, atEnd)
           ELSE IF j = 0 THEN Hold(Told(g, n, w.german))
           ELSE IF s[j] = "t" THEN AtTick(Told(g, j - 1, w.german), atEnd)
           ELSE AtBracket(Told(g, j - 1, w.german), w, atEnd)
    BY <1>4, PassIs
  <2>2. ASSUME NEW o \in Text
        PROVE  Pass(Behind(o, g), w, atEnd) =
           IF g.open THEN InFence(Behind(o, g), atEnd)
           ELSE IF j = 0 THEN Hold(Told(Behind(o, g), n, w.german))
           ELSE IF s[j] = "t" THEN AtTick(Told(Behind(o, g), j - 1, w.german), atEnd)
           ELSE AtBracket(Told(Behind(o, g), j - 1, w.german), w, atEnd)
    <3>1. ~(Behind(o, g).held \/ Behind(o, g).rest = <<>>)
      BY <1>2, <1>4
    <3> QED
      BY <1>2, <3>1, PassIs
  <2>3. j \in 0 .. Len(s)
    BY <1>1, FirstOfIs DEF NextMark
  <2>4. n \in 0 .. Len(s)
    BY <1>1, LastBlankIs DEF ProseEnd
  <2> DEFINE c == s[j] = "t"
  <2> HIDE DEF j, n, c
  <2>5. CASE g.open
    <3>1. Pass(g, w, atEnd) = InFence(g, atEnd) /\ \A o \in Text : Pass(Behind(o, g), w, atEnd) = InFence(Behind(o, g), atEnd)
      BY <2>1, <2>2, <2>5
    <3> QED
      BY <1>4, <3>1, InFenceFits
  <2>6. CASE ~g.open /\ j = 0
    <3> DEFINE t == Told(g, n, w.german)
    <3>1. t \in Carried /\ \A o \in Text : Told(Behind(o, g), n, w.german) = Behind(o, t)
      BY <2>4, ToldIs
    <3>2. Pass(g, w, atEnd) = Hold(t) /\ \A o \in Text : Pass(Behind(o, g), w, atEnd) = Hold(Behind(o, t))
      BY <2>1, <2>2, <2>6, <3>1
    <3> HIDE DEF t
    <3>3. Fits(Hold(t), g) /\ \A o \in Text : Hold(Behind(o, t)) = Behind(o, Hold(t))
      BY <3>1, HoldFits, HoldBehind
    <3> QED
      BY <1>4, <3>2, <3>3
  <2>7. CASE ~g.open /\ j # 0
    <3> DEFINE t == Told(g, j - 1, w.german)
    <3>1. j - 1 \in 0 .. Len(s) /\ Len(s) - (j - 1) > 0 /\ Len(s) - (j - 1) <= Len(s)
      BY <1>1, <2>3, <2>7
    <3>2. /\ t \in Carried /\ Len(t.rest) = Len(s) - (j - 1)
          /\ \A o \in Text : Told(Behind(o, g), j - 1, w.german) = Behind(o, t)
      BY <3>1, ToldIs
    <3>3. /\ Pass(g, w, atEnd) = IF c THEN AtTick(t, atEnd) ELSE AtBracket(t, w, atEnd)
          /\ \A o \in Text : Pass(Behind(o, g), w, atEnd)
                               = IF c THEN AtTick(Behind(o, t), atEnd) ELSE AtBracket(Behind(o, t), w, atEnd)
      BY <2>1, <2>2, <2>7, <3>2 DEF c
    <3> HIDE DEF t
    <3>4. t.rest # <<>> /\ Len(t.rest) <= Len(s) /\ Len(t.rest) \in Nat
      <4>1. t.rest \in Text
        BY <3>2 DEF Carried
      <4> QED
        BY <1>1, <3>1, <3>2, <4>1, TextIs
    <3>5. \A h : Fits(h, t) => Fits(h, g)
      <4>1. \A h : h \in Carried => Len(h.rest) \in Nat
        BY TextIs DEF Carried
      <4> QED
        BY <1>1, <3>4, <4>1 DEF Fits
    <3>6. /\ Fits(AtTick(t, atEnd), t)
          /\ \A o \in Text : AtTick(Behind(o, t), atEnd) = Behind(o, AtTick(t, atEnd))
      BY <3>2, <3>4, AtTickFits
    <3>7. /\ Fits(AtBracket(t, w, atEnd), t)
          /\ \A o \in Text : AtBracket(Behind(o, t), w, atEnd) = Behind(o, AtBracket(t, w, atEnd))
      BY <3>2, <3>4, AtBracketFits
    <3>8. CASE c
      BY <1>4, <3>3, <3>5, <3>6, <3>8
    <3>9. CASE ~c
      BY <1>4, <3>3, <3>5, <3>7, <3>9
    <3> QED
      BY <3>8, <3>9
  <2> QED
    BY <1>1, <2>5, <2>6, <2>7
<1> QED
  BY <1>3, <1>4

-----------------------------------------------------------------------------
(* The loop: it ends where it waits or nothing is left, and one turn more  *)
(* or less before it starts is the same.                                   *)

Turns(m, g, w, atEnd, n) == m = [i \in 0 .. n |-> IF i = 0 THEN g ELSE Pass(m[i - 1], w, atEnd)]

(* The turns of the loop, as many as one likes.                            *)
LEMMA TurnsAre ==
  ASSUME NEW g \in Carried, NEW w, w.sources \in Nat, w.german \in BOOLEAN, NEW atEnd \in BOOLEAN, NEW n \in Nat
  PROVE  \E m \in [0 .. n -> Carried] : Turns(m, g, w, atEnd, n)
<1> DEFINE F == [i \in 1 .. n |-> [v \in Carried |-> Pass(v, w, atEnd)]]
<1>1. \A v \in Carried : Pass(v, w, atEnd) \in Carried
  BY PassFits DEF Fits
<1>2. \A i \in 1 .. n : \A v \in Carried : F[i][v] = Pass(v, w, atEnd) /\ F[i][v] \in Carried
  BY <1>1
<1> HIDE DEF F
<1>3. \E m : Recurses(Carried, g, n, F, m)
  BY <1>2, Recursion
<1>4. PICK m : Recurses(Carried, g, n, F, m)
  BY <1>3
<1>5. m \in [0 .. n -> Carried] /\ m[0] = g /\ \A i \in 1 .. n : m[i] = F[i][m[i - 1]]
  BY <1>4 DEF Recurses
<1>6. ASSUME NEW i \in 0 .. n
      PROVE  m[i] = IF i = 0 THEN g ELSE Pass(m[i - 1], w, atEnd)
  <2>1. CASE i = 0
    BY <1>5, <2>1
  <2>2. CASE i # 0
    <3>1. i \in 1 .. n /\ i - 1 \in 0 .. n
      BY <2>2
    <3>2. m[i - 1] \in Carried
      BY <1>5, <3>1
    <3> QED
      BY <1>2, <1>5, <2>2, <3>1, <3>2
  <2> QED
    BY <2>1, <2>2
<1>7. Turns(m, g, w, atEnd, n)
  BY <1>5, <1>6 DEF Turns
<1> QED
  BY <1>5, <1>7

Waits(g) == g.held \/ g.rest = <<>>

LEMMA TurnsTyped ==
  ASSUME NEW g \in Carried, NEW w, w.sources \in Nat, w.german \in BOOLEAN, NEW atEnd \in BOOLEAN,
         NEW n \in Nat, NEW m, Turns(m, g, w, atEnd, n)
  PROVE  /\ m[0] = g /\ \A i \in 1 .. n : m[i] = Pass(m[i - 1], w, atEnd)
         /\ \A i \in 0 .. n : m[i] \in Carried /\ (Waits(m[i]) \/ Len(m[i].rest) + i <= Len(g.rest))
<1>1. m[0] = g /\ \A i \in 1 .. n : m[i] = Pass(m[i - 1], w, atEnd)
  <2>1. \A i \in 0 .. n : m[i] = IF i = 0 THEN g ELSE Pass(m[i - 1], w, atEnd)
    BY DEF Turns
  <2>2. 0 \in 0 .. n /\ \A i \in 1 .. n : i \in 0 .. n /\ i # 0
    OBVIOUS
  <2> QED
    BY <2>1, <2>2
<1> DEFINE Short(i) == m[i] \in Carried /\ (Waits(m[i]) \/ Len(m[i].rest) + i <= Len(g.rest))
           N == {i \in Nat : i <= n => Short(i)}
<1>2. \A h \in Carried : Len(h.rest) \in Nat
  BY TextIs DEF Carried
<1>3. 0 \in N
  BY <1>1, <1>2
<1>4. ASSUME NEW i \in Nat, i \in N
      PROVE  i + 1 \in N
  <2>1. SUFFICES ASSUME i + 1 <= n
                 PROVE  Short(i + 1)
    <3> HIDE DEF Short
    <3> QED
      OBVIOUS
  <2>2. m[i] \in Carried /\ (Waits(m[i]) \/ Len(m[i].rest) + i <= Len(g.rest))
    BY <1>4, <2>1
  <2>3. m[i + 1] = Pass(m[i], w, atEnd)
    <3>1. i + 1 \in 1 .. n /\ (i + 1) - 1 = i
      BY <2>1
    <3> QED
      BY <1>1, <3>1
  <2> DEFINE h == m[i]
             k == m[i + 1]
  <2> HIDE DEF h, k
  <2>4. h \in Carried /\ (Waits(h) \/ Len(h.rest) + i <= Len(g.rest)) /\ k = Pass(h, w, atEnd)
    BY <2>2, <2>3 DEF h, k
  <2>5. (Waits(h) => k = h) /\ k \in Carried /\ (Waits(k) \/ Len(k.rest) < Len(h.rest))
    BY <2>4, PassFits DEF Fits, Waits
  <2>6. Len(k.rest) \in Nat /\ Len(h.rest) \in Nat /\ Len(g.rest) \in Nat
    BY <1>2, <2>4, <2>5
  <2>7. k \in Carried /\ (Waits(k) \/ Len(k.rest) + (i + 1) <= Len(g.rest))
    <3> DEFINE a == Len(h.rest)
               b == Len(k.rest)
               c == Len(g.rest)
    <3>1. a \in Nat /\ b \in Nat /\ c \in Nat /\ (Waits(h) \/ a + i <= c) /\ (Waits(k) \/ b < a)
      BY <2>4, <2>5, <2>6
    <3> HIDE DEF a, b, c
    <3>2. Waits(h) \/ Waits(k) \/ b + (i + 1) <= c
      BY <3>1
    <3>3. Waits(h) => Waits(k)
      BY <2>5
    <3> QED
      BY <2>5, <3>2, <3>3 DEF b, c
  <2> QED
    BY <2>7 DEF k
<1> HIDE DEF N
<1>5. \A i \in Nat : i \in N
  BY <1>3, <1>4, CountInduction
<1>6. \A i \in 0 .. n : m[i] \in Carried /\ (Waits(m[i]) \/ Len(m[i].rest) + i <= Len(g.rest))
  BY <1>5 DEF N
<1> QED
  BY <1>1, <1>6

(* Once the loop waits it goes on waiting.                                 *)
LEMMA TurnsStay ==
  ASSUME NEW g \in Carried, NEW w, w.sources \in Nat, w.german \in BOOLEAN, NEW atEnd \in BOOLEAN,
         NEW n \in Nat, NEW m, Turns(m, g, w, atEnd, n), NEW i \in 0 .. n, Waits(m[i])
  PROVE  \A k \in i .. n : m[k] = m[i]
<1>1. (\A k \in 1 .. n : m[k] = Pass(m[k - 1], w, atEnd)) /\ m[i] \in Carried
  BY TurnsTyped
<1> DEFINE N == {d \in Nat : i + d <= n => m[i + d] = m[i]}
<1>2. 0 \in N
  OBVIOUS
<1>3. ASSUME NEW d \in Nat, d \in N
      PROVE  d + 1 \in N
  <2>1. SUFFICES ASSUME i + (d + 1) <= n
                 PROVE  m[i + (d + 1)] = m[i]
    OBVIOUS
  <2>2. m[i + d] = m[i]
    BY <1>3, <2>1
  <2>3. i + (d + 1) \in 1 .. n /\ (i + (d + 1)) - 1 = i + d
    BY <2>1
  <2>4. m[i + (d + 1)] = Pass(m[i], w, atEnd)
    BY <1>1, <2>2, <2>3
  <2>5. Pass(m[i], w, atEnd) = m[i]
    BY <1>1, PassFits DEF Waits
  <2> QED
    BY <2>4, <2>5
<1> HIDE DEF N
<1>4. \A d \in Nat : d \in N
  BY <1>2, <1>3, CountInduction
<1>5. ASSUME NEW k \in i .. n
      PROVE  m[k] = m[i]
  <2>1. k - i \in Nat /\ i + (k - i) = k /\ k <= n
    OBVIOUS
  <2>2. k - i \in N
    BY <1>4, <2>1
  <2> QED
    BY <2>1, <2>2 DEF N
<1> QED
  BY <1>5

LEMMA WalkIs ==
  ASSUME NEW g \in Carried, NEW w, w.sources \in Nat, w.german \in BOOLEAN, NEW atEnd \in BOOLEAN
  PROVE  \E m : Turns(m, g, w, atEnd, Len(g.rest)) /\ Walk(g, w, atEnd) = m[Len(g.rest)]
<1> DEFINE n == Len(g.rest)
           M == CHOOSE m : Turns(m, g, w, atEnd, n)
<1>1. n \in Nat
  BY TextIs DEF Carried
<1>2. \E m : Turns(m, g, w, atEnd, n)
  <2> HIDE DEF n
  <2> QED
    BY <1>1, TurnsAre
<1>3. Turns(M, g, w, atEnd, n)
  <2> HIDE DEF n
  <2> QED
    BY <1>2
<1>4. Walk(g, w, atEnd) = M[n]
  BY DEF Walk, Turns
<1> QED
  BY <1>3, <1>4

LEMMA TurnsAgree ==
  ASSUME NEW g \in Carried, NEW w, w.sources \in Nat, w.german \in BOOLEAN, NEW atEnd \in BOOLEAN,
         NEW n \in Nat, NEW m, Turns(m, g, w, atEnd, n), NEW k \in 0 .. n, NEW l, Turns(l, g, w, atEnd, k)
  PROVE  m[k] = l[k]
<1>1. m[0] = g /\ \A i \in 1 .. n : m[i] = Pass(m[i - 1], w, atEnd)
  BY TurnsTyped
<1>2. l[0] = g /\ \A i \in 1 .. k : l[i] = Pass(l[i - 1], w, atEnd)
  BY TurnsTyped
<1> DEFINE N == {i \in Nat : i <= k => m[i] = l[i]}
<1>3. 0 \in N
  BY <1>1, <1>2
<1>4. ASSUME NEW i \in Nat, i \in N
      PROVE  i + 1 \in N
  <2>1. SUFFICES ASSUME i + 1 <= k PROVE m[i + 1] = l[i + 1]
    OBVIOUS
  <2>2. i + 1 \in 1 .. n /\ i + 1 \in 1 .. k /\ (i + 1) - 1 = i /\ m[i] = l[i]
    BY <1>4, <2>1
  <2> QED
    BY <1>1, <1>2, <2>2
<1> HIDE DEF N
<1>5. k \in N
  BY <1>3, <1>4, CountInduction
<1> QED
  BY <1>5 DEF N

(* The walk is where any number of turns that is enough comes to.          *)
LEMMA WalkStops ==
  ASSUME NEW g \in Carried, NEW w, w.sources \in Nat, w.german \in BOOLEAN, NEW atEnd \in BOOLEAN,
         NEW n \in Nat, n >= Len(g.rest), NEW m, Turns(m, g, w, atEnd, n)
  PROVE  Walk(g, w, atEnd) = m[n] /\ m[n] \in Carried /\ Waits(m[n])
<1> DEFINE L == Len(g.rest)
<1>1. L \in Nat /\ L \in 0 .. n
  BY TextIs DEF Carried
<1>2. PICK l : Turns(l, g, w, atEnd, L) /\ Walk(g, w, atEnd) = l[L]
  BY WalkIs
<1> HIDE DEF L
<1>3. m[L] = l[L]
  BY <1>1, <1>2, TurnsAgree
<1>4. m[L] \in Carried /\ (Waits(m[L]) \/ Len(m[L].rest) + L <= L)
  <2>1. \A i \in 0 .. n : m[i] \in Carried /\ (Waits(m[i]) \/ Len(m[i].rest) + i <= Len(g.rest))
    BY TurnsTyped
  <2> QED
    BY <1>1, <2>1 DEF L
<1>5. Waits(m[L])
  <2>1. m[L].rest \in Text
    BY <1>4 DEF Carried
  <2>2. Len(m[L].rest) \in Nat /\ (Len(m[L].rest) = 0 => m[L].rest = <<>>)
    BY <2>1, TextIs
  <2> QED
    BY <1>1, <1>4, <2>2 DEF Waits
<1>6. m[n] = m[L]
  <2>1. n \in L .. n
    BY <1>1
  <2> QED
    BY <1>1, <1>5, <2>1, TurnsStay
<1> QED
  BY <1>2, <1>3, <1>4, <1>5, <1>6

LEMMA WalkTyped ==
  ASSUME NEW g \in Carried, NEW w, w.sources \in Nat, w.german \in BOOLEAN, NEW atEnd \in BOOLEAN
  PROVE  Walk(g, w, atEnd) \in Carried
<1> DEFINE n == Len(g.rest)
<1>1. n \in Nat /\ n >= n
  BY TextIs DEF Carried
<1>2. PICK m : Turns(m, g, w, atEnd, n)
  BY WalkIs
<1>3. Walk(g, w, atEnd) = m[n] /\ m[n] \in Carried
  BY <1>1, <1>2, WalkStops
<1> QED
  BY <1>3

(* A turn before the walk is one of its turns.                             *)
LEMMA WalkPass ==
  ASSUME NEW g \in Carried, NEW w, w.sources \in Nat, w.german \in BOOLEAN, NEW atEnd \in BOOLEAN
  PROVE  Walk(Pass(g, w, atEnd), w, atEnd) = Walk(g, w, atEnd)
<1> DEFINE h == Pass(g, w, atEnd)
           n == Len(g.rest) + Len(h.rest)
<1>1. h \in Carried
  BY PassFits DEF Fits
<1>2. n \in Nat /\ n >= Len(h.rest) /\ n + 1 >= Len(g.rest) /\ n + 1 \in Nat
  <2>1. Len(g.rest) \in Nat /\ Len(h.rest) \in Nat
    BY <1>1, TextIs DEF Carried
  <2> DEFINE a == Len(g.rest)
             b == Len(h.rest)
  <2> HIDE DEF a, b
  <2>2. a \in Nat /\ b \in Nat
    BY <2>1 DEF a, b
  <2>3. a + b \in Nat /\ a + b >= b /\ (a + b) + 1 >= a /\ (a + b) + 1 \in Nat
    BY <2>2
  <2> QED
    BY <2>3 DEF a, b
<1>3. h = Pass(g, w, atEnd)
  OBVIOUS
<1> HIDE DEF h, n
<1>4. PICK m \in [0 .. n -> Carried] : Turns(m, h, w, atEnd, n)
  BY <1>1, <1>2, TurnsAre
<1>5. m[0] = h /\ \A i \in 1 .. n : m[i] = Pass(m[i - 1], w, atEnd)
  BY <1>1, <1>2, <1>4, TurnsTyped
<1> DEFINE k == [i \in 0 .. n + 1 |-> IF i = 0 THEN g ELSE m[i - 1]]
<1>6. ASSUME NEW i \in 0 .. n + 1
      PROVE  k[i] = IF i = 0 THEN g ELSE Pass(k[i - 1], w, atEnd)
  <2>1. CASE i = 0
    BY <2>1
  <2>2. CASE i = 1
    <3>1. k[i] = m[0] /\ k[i - 1] = g
      BY <1>2, <2>2
    <3> QED
      BY <1>3, <1>5, <2>2, <3>1
  <2>3. CASE i > 1
    <3>1. i - 1 \in 1 .. n /\ i - 1 \in 0 .. n + 1 /\ i - 1 # 0 /\ i # 0
      BY <1>2, <2>3
    <3>2. k[i] = m[i - 1] /\ k[i - 1] = m[(i - 1) - 1]
      BY <3>1
    <3>3. m[i - 1] = Pass(m[(i - 1) - 1], w, atEnd)
      BY <1>5, <3>1
    <3> QED
      BY <3>1, <3>2, <3>3
  <2> QED
    BY <1>2, <2>1, <2>2, <2>3
<1>7. k[n + 1] = m[n]
  BY <1>2
<1>8. Turns(k, g, w, atEnd, n + 1)
  <2>1. k = [i \in 0 .. n + 1 |-> k[i]]
    OBVIOUS
  <2> HIDE DEF k
  <2>2. k = [i \in 0 .. n + 1 |-> IF i = 0 THEN g ELSE Pass(k[i - 1], w, atEnd)]
    BY <1>6, <2>1
  <2> QED
    BY <2>2 DEF Turns
<1> HIDE DEF k
<1>9. Walk(g, w, atEnd) = k[n + 1]
  BY <1>2, <1>8, WalkStops
<1>10. Walk(h, w, atEnd) = m[n]
  BY <1>1, <1>2, <1>4, WalkStops
<1> QED
  BY <1>3, <1>7, <1>9, <1>10

LEMMA WalkBehind ==
  ASSUME NEW g \in Carried, NEW w, w.sources \in Nat, w.german \in BOOLEAN, NEW atEnd \in BOOLEAN, NEW o \in Text
  PROVE  Walk(Behind(o, g), w, atEnd) = Behind(o, Walk(g, w, atEnd))
<1> DEFINE n == Len(g.rest)
           h == Behind(o, g)
<1>1. n \in Nat /\ h \in Carried /\ h.rest = g.rest /\ n >= n
  BY BehindIs, TextIs DEF Carried
<1>2. PICK m : Turns(m, g, w, atEnd, n) /\ Walk(g, w, atEnd) = m[n]
  BY WalkIs
<1>3. /\ m[0] = g /\ \A i \in 1 .. n : m[i] = Pass(m[i - 1], w, atEnd)
      /\ \A i \in 0 .. n : m[i] \in Carried
  <2> HIDE DEF n
  <2> QED
    BY <1>1, <1>2, TurnsTyped
<1> DEFINE k == [i \in 0 .. n |-> Behind(o, m[i])]
<1>4. ASSUME NEW i \in 0 .. n
      PROVE  k[i] = IF i = 0 THEN h ELSE Pass(k[i - 1], w, atEnd)
  <2>1. CASE i = 0
    BY <1>3, <2>1
  <2>2. CASE i # 0
    <3>1. i \in 1 .. n /\ i - 1 \in 0 .. n
      BY <1>1, <2>2
    <3>2. k[i] = Behind(o, m[i]) /\ k[i - 1] = Behind(o, m[i - 1]) /\ m[i] = Pass(m[i - 1], w, atEnd)
      BY <1>3, <3>1
    <3>3. Pass(Behind(o, m[i - 1]), w, atEnd) = Behind(o, Pass(m[i - 1], w, atEnd))
      BY <1>3, <3>1, PassFits
    <3> QED
      BY <2>2, <3>2, <3>3
  <2> QED
    BY <2>1, <2>2
<1>5. Turns(k, h, w, atEnd, n)
  <2>1. k = [i \in 0 .. n |-> k[i]]
    OBVIOUS
  <2> HIDE DEF k, h
  <2>2. k = [i \in 0 .. n |-> IF i = 0 THEN h ELSE Pass(k[i - 1], w, atEnd)]
    BY <1>4, <2>1
  <2> QED
    BY <2>2 DEF Turns
<1>6. k[n] = Behind(o, m[n])
  BY <1>1
<1>7. n >= Len(h.rest)
  BY <1>1
<1> HIDE DEF k, h
<1>8. Walk(h, w, atEnd) = k[n]
  BY <1>1, <1>5, <1>7, WalkStops
<1> QED
  BY <1>2, <1>6, <1>8 DEF h

-----------------------------------------------------------------------------
(* What was decided stays decided: in a fence.                             *)

(* A beginning and the beginning of what is behind it.                     *)
LEMMA BeginningsJoin ==
  ASSUME NEW y \in Text, NEW n \in Nat, NEW m \in Nat, n + m <= Len(y)
  PROVE  SubSeq(y, 1, n) \o SubSeq(From(y, n + 1), 1, m) = SubSeq(y, 1, n + m)
<1> DEFINE p == SubSeq(y, 1, n)
           z == From(y, n + 1)
           q == SubSeq(z, 1, m)
           r == SubSeq(y, 1, n + m)
<1>1. Len(y) \in Nat /\ n \in 0 .. Len(y) /\ n + m \in 0 .. Len(y)
  BY TextIs
<1>2. /\ p \in Text /\ Len(p) = n /\ \A k \in 1 .. n : p[k] = y[k]
      /\ z \in Text /\ Len(z) = Len(y) - n /\ \A k \in 1 .. Len(y) - n : z[k] = y[n + k]
  BY <1>1, TextFrom
<1>3. r \in Text /\ Len(r) = n + m /\ \A k \in 1 .. n + m : r[k] = y[k]
  BY <1>1, TextFrom
<1> HIDE DEF p, z, r
<1>4. m \in 0 .. Len(z)
  BY <1>1, <1>2
<1>5. q \in Text /\ Len(q) = m /\ \A k \in 1 .. m : q[k] = z[k]
  BY <1>2, <1>4, TextFrom
<1> HIDE DEF q
<1>6. /\ p \o q \in Text /\ Len(p \o q) = n + m
      /\ \A i \in 1 .. n : (p \o q)[i] = p[i]
      /\ \A i \in 1 .. m : (p \o q)[n + i] = q[i]
  BY <1>2, <1>5, PartsIs
<1>7. ASSUME NEW k \in 1 .. Len(r)
      PROVE  (p \o q)[k] = r[k]
  <2>1. k \in 1 .. n + m
    BY <1>3
  <2>2. CASE k <= n
    <3>1. k \in 1 .. n
      BY <2>1, <2>2
    <3> QED
      BY <1>2, <1>3, <1>6, <2>1, <3>1
  <2>3. CASE ~(k <= n)
    <3> DEFINE i == k - n
    <3>1. i \in 1 .. m /\ n + i = k /\ i \in 1 .. Len(y) - n
      BY <1>1, <2>1, <2>3
    <3> HIDE DEF i
    <3>2. (p \o q)[k] = q[i] /\ q[i] = z[i] /\ z[i] = y[k] /\ r[k] = y[k]
      BY <1>2, <1>3, <1>5, <1>6, <2>1, <3>1
    <3> QED
      BY <3>2
  <2> QED
    BY <2>2, <2>3
<1>8. p \o q = r
  BY <1>3, <1>6, <1>7, SeqEqual DEF Text
<1> QED
  BY <1>8 DEF p, q, r, z

LEMMA SaidSaid ==
  ASSUME NEW g \in Carried, NEW n \in 0 .. Len(g.rest), NEW m \in 0 .. Len(g.rest) - n
  PROVE  Said(Said(g, n), m) = Said(g, n + m)
<1> DEFINE y == g.rest
           p == SubSeq(y, 1, n)
           z == From(y, n + 1)
           q == SubSeq(z, 1, m)
<1>1. y \in Text /\ Len(y) \in Nat /\ n \in Nat /\ m \in Nat /\ n + m <= Len(y) /\ m \in 0 .. Len(y) - n
  BY TextIs DEF Carried
<1>2. p \in Text /\ z \in Text /\ Len(z) = Len(y) - n
  BY <1>1, TextFrom
<1>3. q \in Text
  <2> HIDE DEF z
  <2>1. m \in 0 .. Len(z)
    BY <1>1, <1>2
  <2> QED
    BY <1>2, <2>1, TextFrom
<1>4. p \o q = SubSeq(y, 1, n + m)
  <2> HIDE DEF y
  <2> QED
    BY <1>1, BeginningsJoin
<1>5. Said(g, n) = Tell(g, n, p) /\ Said(g, n + m) = Tell(g, n + m, p \o q)
  BY <1>4 DEF Said
<1>6. Tell(g, n, p).rest = z
  BY <1>2, TellIs
<1>7. Said(Said(g, n), m) = Tell(Tell(g, n, p), m, q)
  BY <1>5, <1>6 DEF Said
<1>8. Tell(Tell(g, n, p), m, q) = Tell(g, n + m, p \o q)
  <2> HIDE DEF p, q
  <2> QED
    BY <1>1, <1>2, <1>3, TellTell
<1> QED
  BY <1>5, <1>7, <1>8

(* Trailing backticks that all stand behind the first n symbols.           *)
LEMMA TicksBehind ==
  ASSUME NEW y \in Text, NEW n \in 0 .. Len(y), Ticks(y) <= Len(y) - n
  PROVE  Ticks(From(y, n + 1)) = Ticks(y)
<1> DEFINE z == From(y, n + 1)
           S == Ticks(y)
           T == Ticks(z)
           l == Len(y)
           m == Len(z)
<1>1. l \in Nat /\ n \in Nat /\ z \in Text /\ m = l - n /\ \A k \in 1 .. l - n : z[k] = y[n + k]
  BY TextFrom, TextIs
<1>2. /\ S \in 0 .. 2 /\ S <= l /\ \A k \in l - S + 1 .. l : y[k] = "t"
      /\ \A k \in 0 .. 2 : k <= l /\ (\A i \in l - k + 1 .. l : y[i] = "t") => k <= S
  BY TicksAre
<1>3. /\ T \in 0 .. 2 /\ T <= m /\ \A k \in m - T + 1 .. m : z[k] = "t"
      /\ \A k \in 0 .. 2 : k <= m /\ (\A i \in m - k + 1 .. m : z[i] = "t") => k <= T
  <2> HIDE DEF z
  <2> QED
    BY <1>1, TicksAre
<1>4. S <= l - n
  OBVIOUS
<1> HIDE DEF z, S, T, l, m
<1>5. T <= S
  <2>1. ASSUME NEW i \in l - T + 1 .. l
        PROVE  y[i] = "t"
    <3>1. i - n \in m - T + 1 .. m /\ i - n \in 1 .. l - n /\ n + (i - n) = i
      BY <1>1, <1>3
    <3>2. z[i - n] = "t" /\ z[i - n] = y[n + (i - n)]
      BY <1>1, <1>3, <3>1
    <3> QED
      BY <3>1, <3>2
  <2>2. T <= l
    BY <1>1, <1>3
  <2> QED
    BY <1>2, <1>3, <2>1, <2>2
<1>6. S <= T
  <2>1. ASSUME NEW i \in m - S + 1 .. m
        PROVE  z[i] = "t"
    <3>1. n + i \in l - S + 1 .. l /\ i \in 1 .. l - n
      BY <1>1, <1>2, <1>4
    <3> QED
      BY <1>1, <1>2, <3>1
  <2>2. S <= m
    BY <1>1, <1>4
  <2> QED
    BY <1>2, <1>3, <2>1, <2>2
<1>7. S = T
  BY <1>2, <1>3, <1>5, <1>6
<1> QED
  BY <1>7 DEF S, T, z

(* A beginning without a fence may come out first.                         *)
LEMMA FenceSplits ==
  ASSUME NEW g \in Carried, NEW n \in 0 .. Len(g.rest), NEW atEnd \in BOOLEAN,
         \A k \in 1 .. n : k <= Len(g.rest) - 2 => ~FenceAt(g.rest, k),
         Ticks(g.rest) <= Len(g.rest) - n
  PROVE  InFence(Said(g, n), atEnd) = InFence(g, atEnd)
<1> DEFINE y == g.rest
           p == SubSeq(y, 1, n)
           z == From(y, n + 1)
           h == Said(g, n)
           l == Len(y)
           m == Len(z)
           f == FirstFence(z)
           S == Ticks(y)
<1>1. y \in Text /\ l \in Nat /\ n \in Nat /\ n \in 0 .. l
  BY TextIs DEF Carried
<1>2. p \in Text /\ Len(p) = n /\ z \in Text /\ m = l - n /\ y = p \o z
  BY <1>1, TextFrom
<1>3. h.rest = z /\ h \in Carried
  <2>1. h = Tell(g, n, p)
    BY DEF Said
  <2>2. Tell(g, n, p).rest = From(g.rest, n + 1) /\ Tell(g, n, p) \in Carried
    BY <1>2, TellIs
  <2> QED
    BY <2>1, <2>2
<1>4. FirstFence(y) = IF f > 0 THEN n + f ELSE 0
  <2>1. \A k \in 1 .. Len(p) : k <= Len(p) + Len(z) - 2 => ~FenceAt(p \o z, k)
    <3>1. Len(p) + Len(z) - 2 = Len(y) - 2
      BY <1>1, <1>2
    <3>2. \A k \in 1 .. n : k <= Len(y) - 2 => ~FenceAt(y, k)
      OBVIOUS
    <3> HIDE DEF y, p, z
    <3> QED
      BY <1>2, <3>1, <3>2
  <2> HIDE DEF y, p, z
  <2>2. FirstFence(p \o z) = IF FirstFence(z) > 0 THEN Len(p) + FirstFence(z) ELSE 0
    BY <1>2, <2>1, FirstFenceBehind
  <2> QED
    BY <1>2, <2>2
<1>5. f \in 0 .. m /\ (f > 0 => f + 2 \in 0 .. m)
  <2>1. f \in 0 .. m /\ (f > 0 => f \in 1 .. m - 2)
    <3> HIDE DEF z
    <3> QED
      BY <1>2, FirstFenceIs
  <2> HIDE DEF f, m, l
  <2> QED
    BY <1>1, <1>2, <2>1
<1>6. Ticks(z) = S /\ S \in 0 .. 2 /\ S <= m
  <2>1. S <= l - n
    OBVIOUS
  <2>2. Ticks(z) = S
    <3> HIDE DEF y
    <3> QED
      BY <1>1, <2>1, TicksBehind
  <2> QED
    BY <1>1, <1>2, <2>1, <2>2, TicksAre
<1>7. InFence(g, atEnd) =
        IF FirstFence(y) > 0 THEN Opened(Said(g, FirstFence(y) + 2), FALSE)
        ELSE Hold(Said(g, IF atEnd THEN l ELSE l - S))
  BY InFenceIs
<1>8. InFence(h, atEnd) =
        IF f > 0 THEN Opened(Said(h, f + 2), FALSE)
        ELSE Hold(Said(h, IF atEnd THEN m ELSE m - Ticks(z)))
  BY <1>3, InFenceIs
<1>9. \A k \in 0 .. m : Said(h, k) = Said(g, n + k)
  <2>1. m = Len(g.rest) - n
    BY <1>2
  <2> QED
    BY <2>1, SaidSaid
<1> HIDE DEF y, p, z, h, l, m, f, S
<1>10. CASE f > 0
  <2>1. f + 2 \in 0 .. m /\ FirstFence(y) > 0 /\ FirstFence(y) + 2 = n + (f + 2)
    BY <1>1, <1>2, <1>4, <1>5, <1>10
  <2>2. Said(h, f + 2) = Said(g, FirstFence(y) + 2)
    BY <1>9, <2>1
  <2> QED
    BY <1>7, <1>8, <1>10, <2>1, <2>2 DEF h
<1>11. CASE ~(f > 0)
  <2> DEFINE k == IF atEnd THEN m ELSE m - Ticks(z)
  <2>1. k \in 0 .. m /\ n + k = IF atEnd THEN l ELSE l - S
    BY <1>1, <1>2, <1>6
  <2>2. ~(FirstFence(y) > 0)
    BY <1>4, <1>11
  <2> HIDE DEF k
  <2>3. Said(h, k) = Said(g, n + k)
    BY <1>9, <2>1
  <2> QED
    BY <1>7, <1>8, <1>11, <2>1, <2>2, <2>3 DEF k, h
<1> QED
  BY <1>10, <1>11

(* A walk and the walk behind its first turn are one.                      *)
LEMMA FirstTurn ==
  ASSUME NEW g \in Carried, NEW w, w.sources \in Nat, w.german \in BOOLEAN, NEW atEnd \in BOOLEAN,
         NEW h, Pass(g, w, atEnd) = h
  PROVE  Walk(h, w, atEnd) = Walk(g, w, atEnd)
BY WalkPass

(* With nothing left, a fence is as it was.                                *)
LEMMA EmptyFence ==
  ASSUME NEW g \in Carried, g.rest = <<>>, ~g.held, NEW atEnd \in BOOLEAN
  PROVE  InFence(g, atEnd) = g
<1>1. <<>> \in Text /\ Len(<<>>) = 0
  BY SymbolsAreText
<1>2. FirstFence(<<>>) = 0 /\ Ticks(<<>>) = 0
  <2> DEFINE z == <<>>
  <2>1. z \in Text /\ Len(z) = 0
    BY <1>1
  <2> HIDE DEF z
  <2>2. FirstFence(z) \in 0 .. 0 /\ Ticks(z) <= 0 /\ Ticks(z) \in 0 .. 2
    BY <2>1, FirstFenceIs, TicksAre
  <2>3. FirstFence(z) = 0 /\ Ticks(z) = 0
    BY <2>2
  <2> QED
    BY <2>3 DEF z
<1>3. InFence(g, atEnd) = Hold(Said(g, 0))
  <2>1. ~(FirstFence(g.rest) > 0)
    BY <1>2
  <2> DEFINE n == IF atEnd THEN Len(g.rest) ELSE Len(g.rest) - Ticks(g.rest)
  <2>2. n = 0
    BY <1>1, <1>2
  <2>3. InFence(g, atEnd) = Hold(Said(g, n))
    BY <2>1, InFenceIs
  <2> HIDE DEF n
  <2> QED
    BY <2>2, <2>3
<1>4. Said(g, 0) = g
  <2>1. SubSeq(g.rest, 1, 0) = <<>>
    <3>1. g.rest \in Text /\ 0 \in 0 .. Len(g.rest)
      BY <1>1
    <3> DEFINE a == SubSeq(g.rest, 1, 0)
    <3>2. a \in Text /\ Len(a) = 0
      BY <3>1, TextFrom
    <3> HIDE DEF a
    <3>3. a = <<>>
      BY <3>2, TextIs
    <3> QED
      BY <3>3 DEF a
  <2> QED
    BY <2>1, TellNone DEF Said
<1>5. Hold(g) = g
  <2>1. /\ Hold(g) \in Carried /\ Hold(g).rest = g.rest /\ Hold(g).out = g.out
        /\ Hold(g).open = g.open /\ Hold(g).order = g.order /\ Hold(g).held = (g.rest # <<>>)
    BY HoldIs
  <2>2. g.held = FALSE
    BY DEF Carried
  <2>3. Hold(g).held = g.held
    BY <2>1, <2>2
  <2> QED
    BY <2>1, <2>3, CarriedEqual
<1> QED
  BY <1>3, <1>4, <1>5

(* What a fence says before its trailing backticks holds no fence, however  *)
(* the text goes on.                                                       *)
LEMMA FenceSafe ==
  ASSUME NEW s \in Text, NEW x \in Text, FirstFence(s) = 0
  PROVE  LET n == Len(s) - Ticks(s)
             y == s \o x
         IN  /\ n \in 0 .. Len(s)
             /\ \A k \in 1 .. n : k <= Len(y) - 2 => ~FenceAt(y, k)
             /\ Ticks(y) <= Len(y) - n
<1> DEFINE y == s \o x
           T == Ticks(s)
           t == Ticks(y)
           L == Len(s)
           X == Len(x)
           n == L - T
<1>1. /\ y \in Text /\ Len(y) = L + X /\ L \in Nat /\ X \in Nat
      /\ \A i \in 1 .. L : y[i] = s[i]
  BY PartsIs
<1>2. /\ T \in 0 .. 2 /\ T <= L
      /\ \A k \in 0 .. 2 : k <= L /\ (\A m \in L - k + 1 .. L : s[m] = "t") => k <= T
  BY TicksAre
<1>3. \A k \in 1 .. L - 2 : ~FenceAt(s, k)
  BY FirstFenceIs
<1>4. t \in 0 .. 2 /\ t <= L + X /\ \A m \in (L + X) - t + 1 .. L + X : y[m] = "t"
  <2> HIDE DEF y
  <2>1. t \in 0 .. 2 /\ t <= Len(y) /\ \A m \in Len(y) - t + 1 .. Len(y) : y[m] = "t"
    BY <1>1, TicksAre
  <2> QED
    BY <1>1, <2>1
<1> HIDE DEF y, T, t, L, X
<1>5. n \in 0 .. L
  BY <1>1, <1>2
<1>6. ASSUME NEW k \in 1 .. n, k <= (L + X) - 2, FenceAt(y, k)
      PROVE  FALSE
  <2>1. y[k] = "t" /\ y[k + 1] = "t" /\ y[k + 2] = "t"
    BY <1>6 DEF FenceAt
  <2>2. CASE k <= L - 2
    <3>1. k \in 1 .. L - 2 /\ k \in 1 .. L /\ k + 1 \in 1 .. L /\ k + 2 \in 1 .. L
      BY <1>1, <1>2, <2>2
    <3>2. s[k] = "t" /\ s[k + 1] = "t" /\ s[k + 2] = "t"
      BY <1>1, <2>1, <3>1
    <3> QED
      BY <1>3, <3>1, <3>2 DEF FenceAt
  <2>3. CASE ~(k <= L - 2)
    <3> DEFINE j == L - k + 1
    <3>1. j \in 0 .. 2 /\ j <= L /\ L - j + 1 = k
      BY <1>1, <1>2, <2>3
    <3>2. ASSUME NEW m \in L - j + 1 .. L
          PROVE  s[m] = "t"
      <4>1. m \in 1 .. L /\ (m = k \/ m = k + 1)
        BY <1>1, <1>2, <2>3, <3>1
      <4> QED
        BY <1>1, <2>1, <4>1
    <3>3. j <= T
      <4> HIDE DEF j
      <4> QED
        BY <1>2, <3>1, <3>2
    <3> QED
      BY <1>1, <1>2, <3>3
  <2> QED
    BY <2>2, <2>3
<1>7. t <= (L + X) - n
  <2>1. CASE t <= X
    BY <1>1, <1>2, <1>4, <2>1
  <2>2. CASE ~(t <= X)
    <3> DEFINE j == t - X
    <3>1. j \in 0 .. 2 /\ j <= L /\ L - j + 1 = (L + X) - t + 1
      BY <1>1, <1>4, <2>2
    <3>2. ASSUME NEW m \in L - j + 1 .. L
          PROVE  s[m] = "t"
      <4>1. m \in 1 .. L /\ m \in (L + X) - t + 1 .. L + X
        BY <1>1, <3>1
      <4> QED
        BY <1>1, <1>4, <4>1
    <3>3. j <= T
      <4> HIDE DEF j
      <4> QED
        BY <1>2, <3>1, <3>2
    <3> QED
      BY <1>1, <1>2, <1>4, <3>3
  <2> QED
    BY <2>1, <2>2
<1> QED
  BY <1>1, <1>5, <1>6, <1>7 DEF y, T, t, L, X

(* In a fence: what one turn leaves, with more behind it, walks on as the    *)
(* whole would have.                                                       *)
LEMMA FenceResumes ==
  ASSUME NEW g \in Carried, NEW x \in Text, NEW w, w.sources \in Nat, w.german \in BOOLEAN, NEW atEnd \in BOOLEAN,
         ~Waits(g), g.open
  PROVE  Walk(More(g, x), w, atEnd) = Walk(More(InFence(g, FALSE), x), w, atEnd)
<1> DEFINE s == g.rest
           y == s \o x
           G == More(g, x)
           f == FirstFence(s)
<1>1. s \in Text /\ s # <<>> /\ y \in Text /\ y # <<>> /\ Len(y) = Len(s) + Len(x) /\ Len(s) \in Nat /\ Len(x) \in Nat
  <2>1. s \in Text /\ s # <<>>
    BY DEF Carried, Waits
  <2>2. Len(s) \in Nat /\ Len(s) # 0 /\ Len(x) \in Nat
    BY <2>1, TextIs
  <2>3. y \in Text /\ Len(y) = Len(s) + Len(x)
    BY <2>1, PartsIs
  <2> HIDE DEF y, s
  <2> QED
    BY <2>1, <2>2, <2>3, TextIs
<1>2. G \in Carried /\ G.rest = y /\ G.open = g.open /\ G.held = FALSE
  BY MoreIs
<1>3. Pass(G, w, atEnd) = InFence(G, atEnd)
  BY <1>1, <1>2, PassIs
<1>4. Walk(InFence(G, atEnd), w, atEnd) = Walk(G, w, atEnd)
  BY <1>2, <1>3, FirstTurn
<1>5. CASE f > 0
  <2>1. FirstFence(y) = f
    BY <1>1, <1>5, FirstFenceStays
  <2>2. f + 2 \in 0 .. Len(s)
    <3> HIDE DEF s
    <3>1. f \in 1 .. Len(s) - 2
      BY <1>1, <1>5, FirstFenceIs
    <3> HIDE DEF f
    <3> QED
      BY <1>1, <3>1
  <2>3. InFence(G, atEnd) = Opened(Said(G, f + 2), FALSE)
    BY <1>2, <1>5, <2>1, InFenceIs
  <2>4. InFence(g, FALSE) = Opened(Said(g, f + 2), FALSE)
    BY <1>5, InFenceIs
  <2>5. Said(G, f + 2) = More(Said(g, f + 2), x) /\ Said(g, f + 2) \in Carried
    <3> HIDE DEF f
    <3> QED
      BY <2>2, SaidIs
  <2>6. Opened(More(Said(g, f + 2), x), FALSE) = More(Opened(Said(g, f + 2), FALSE), x)
    BY <2>5, OpenedMore
  <2> QED
    BY <1>4, <2>3, <2>4, <2>5, <2>6
<1>6. CASE ~(f > 0)
  <2> DEFINE n == Len(s) - Ticks(s)
             k == Said(g, n)
             K == Said(G, n)
  <2>1. f = 0
    <3> HIDE DEF s
    <3>1. f \in 0 .. Len(s)
      BY <1>1, FirstFenceIs
    <3> HIDE DEF f
    <3> QED
      BY <1>1, <1>6, <3>1
  <2>2. /\ n \in 0 .. Len(s)
        /\ \A i \in 1 .. n : i <= Len(y) - 2 => ~FenceAt(y, i)
        /\ Ticks(y) <= Len(y) - n
    BY <1>1, <2>1, FenceSafe
  <2>3. InFence(g, FALSE) = Hold(k)
    BY <1>6, InFenceIs
  <2>4. k \in Carried /\ K = More(k, x)
    <3> HIDE DEF n
    <3> QED
      BY <2>2, SaidIs
  <2>5. More(Hold(k), x) = K
    BY <2>4, HoldMore
  <2>6. K \in Carried /\ K.open = g.open /\ K.held = FALSE
    <3>1. n \in 0 .. Len(G.rest)
      <4> HIDE DEF n
      <4>1. n \in 0 .. Len(y)
        BY <1>1, <2>2
      <4> QED
        BY <1>2, <4>1
    <3> HIDE DEF n
    <3> QED
      BY <1>2, <3>1, SaidIs
  <2>7. InFence(K, atEnd) = InFence(G, atEnd)
    <3>1. n \in 0 .. Len(y)
      <4> HIDE DEF n
      <4> QED
        BY <1>1, <2>2
    <3> HIDE DEF n, y, G
    <3>2. /\ n \in 0 .. Len(G.rest)
          /\ \A i \in 1 .. n : i <= Len(G.rest) - 2 => ~FenceAt(G.rest, i)
          /\ Ticks(G.rest) <= Len(G.rest) - n
      BY <1>2, <2>2, <3>1
    <3> QED
      BY <1>2, <3>2, FenceSplits
  <2>8. Walk(InFence(K, atEnd), w, atEnd) = Walk(K, w, atEnd)
    <3> HIDE DEF K
    <3>1. CASE K.rest = <<>>
      BY <2>6, <3>1, EmptyFence
    <3>2. CASE K.rest # <<>>
      <4>1. Pass(K, w, atEnd) = InFence(K, atEnd)
        BY <2>6, <3>2, PassIs
      <4> QED
        BY <2>6, <4>1, FirstTurn
    <3> QED
      BY <3>1, <3>2
  <2> QED
    BY <1>4, <2>3, <2>5, <2>7, <2>8
<1> QED
  BY <1>5, <1>6

-----------------------------------------------------------------------------
(* What was decided stays decided: at a backtick.                          *)

(* A text and the beginning of what follows it.                            *)
LEMMA WholeAndBeginning ==
  ASSUME NEW s \in Text, NEW x \in Text, NEW m \in 0 .. Len(x)
  PROVE  SubSeq(s \o x, 1, Len(s) + m) = s \o SubSeq(x, 1, m)
<1> DEFINE y == s \o x
           z == SubSeq(x, 1, m)
           a == SubSeq(y, 1, Len(s) + m)
           b == s \o z
<1>1. Len(s) \in Nat /\ Len(x) \in Nat /\ m \in Nat
  BY TextIs
<1>2. /\ y \in Text /\ Len(y) = Len(s) + Len(x)
      /\ \A i \in 1 .. Len(s) : y[i] = s[i]
      /\ \A i \in 1 .. Len(x) : y[Len(s) + i] = x[i]
  BY PartsIs
<1>3. z \in Text /\ Len(z) = m /\ \A i \in 1 .. m : z[i] = x[i]
  BY TextFrom
<1>4. a \in Text /\ Len(a) = Len(s) + m /\ \A i \in 1 .. Len(s) + m : a[i] = y[i]
  <2> HIDE DEF y
  <2>1. Len(s) + m \in 0 .. Len(y)
    BY <1>1, <1>2
  <2> DEFINE n == Len(s) + m
  <2>2. n \in 0 .. Len(y)
    BY <2>1
  <2> HIDE DEF n
  <2>3. SubSeq(y, 1, n) \in Text /\ Len(SubSeq(y, 1, n)) = n /\ \A i \in 1 .. n : SubSeq(y, 1, n)[i] = y[i]
    BY <1>2, <2>2, TextFrom
  <2> QED
    BY <2>3 DEF n
<1> HIDE DEF z
<1>5. /\ b \in Text /\ Len(b) = Len(s) + m
      /\ \A i \in 1 .. Len(s) : b[i] = s[i]
      /\ \A i \in 1 .. m : b[Len(s) + i] = z[i]
  BY <1>3, PartsIs
<1> HIDE DEF a, b, y
<1>6. ASSUME NEW i \in 1 .. Len(a)
      PROVE  a[i] = b[i]
  <2>1. i \in 1 .. Len(s) + m
    BY <1>4
  <2>2. CASE i <= Len(s)
    <3>1. i \in 1 .. Len(s)
      BY <2>1, <2>2
    <3> QED
      BY <1>2, <1>4, <1>5, <2>1, <3>1
  <2>3. CASE ~(i <= Len(s))
    <3> DEFINE k == i - Len(s)
    <3>1. k \in 1 .. m /\ k \in 1 .. Len(x) /\ Len(s) + k = i
      BY <1>1, <2>1, <2>3
    <3> HIDE DEF k
    <3> QED
      BY <1>2, <1>3, <1>4, <1>5, <2>1, <3>1
  <2> QED
    BY <2>2, <2>3
<1>7. a = b
  BY <1>4, <1>5, <1>6, SeqEqual DEF Text
<1> QED
  BY <1>7 DEF a, b, y, z

(* The line a text starts with only grows, and not once it is whole.       *)
LEMMA LineStays ==
  ASSUME NEW s \in Text, NEW x \in Text
  PROVE  /\ \E z \in Text : LineOf(s \o x) = LineOf(s) \o z
         /\ FirstOf(s, {"n"}) > 0 =>
              /\ FirstOf(s \o x, {"n"}) = FirstOf(s, {"n"})
              /\ LineOf(s \o x) = LineOf(s) /\ HeadOf(s \o x) = HeadOf(s)
         /\ LineOf(s) \in Text
         /\ Len(LineOf(s)) = IF FirstOf(s, {"n"}) = 0 THEN Len(s) ELSE FirstOf(s, {"n"}) - 1
         /\ \A i \in 1 .. Len(LineOf(s)) : LineOf(s)[i] = s[i]
<1> DEFINE y == s \o x
           a == FirstOf(s, {"n"})
           b == FirstOf(x, {"n"})
           c == FirstOf(y, {"n"})
<1>1. /\ Len(s) \in Nat /\ Len(x) \in Nat /\ a \in 0 .. Len(s) /\ b \in 0 .. Len(x)
      /\ c = IF a > 0 THEN a ELSE IF b > 0 THEN Len(s) + b ELSE 0
  BY TextIs, FirstOfIs, FirstOfConcat
<1>2. <<>> \in Text
  BY SymbolsAreText
<1> HIDE DEF a, b, c, y
<1>3. LineOf(s) = (IF a = 0 THEN s ELSE SubSeq(s, 1, a - 1)) /\ LineOf(y) = IF c = 0 THEN y ELSE SubSeq(y, 1, c - 1)
  BY DEF LineOf, a, c
<1>4. HeadOf(s) = (IF a = 0 THEN Len(s) ELSE a) /\ HeadOf(y) = IF c = 0 THEN Len(y) ELSE c
  BY DEF HeadOf, a, c
<1>5. CASE a > 0
  <2> DEFINE n == a - 1
  <2>1. n \in 0 .. Len(s) /\ c = a /\ a # 0
    BY <1>1, <1>5
  <2>2. LineOf(s) = SubSeq(s, 1, n) /\ LineOf(y) = SubSeq(y, 1, n) /\ HeadOf(y) = HeadOf(s)
    BY <1>3, <1>4, <2>1
  <2> HIDE DEF n
  <2>3. SubSeq(y, 1, n) = SubSeq(s, 1, n)
    BY <2>1, TextConcat DEF y
  <2>4. SubSeq(s, 1, n) \in Text /\ Len(SubSeq(s, 1, n)) = n /\ \A i \in 1 .. n : SubSeq(s, 1, n)[i] = s[i]
    BY <2>1, TextFrom
  <2>5. LineOf(s) \o <<>> = LineOf(s)
    BY <2>2, <2>4 DEF Text
  <2> QED
    BY <1>2, <2>1, <2>2, <2>3, <2>4, <2>5 DEF n, a, c, y
<1>6. CASE ~(a > 0)
  <2>1. a = 0 /\ LineOf(s) = s
    BY <1>1, <1>3, <1>6
  <2>2. \E z \in Text : LineOf(y) = s \o z
    <3>1. CASE b = 0
      BY <1>1, <1>3, <2>1, <3>1 DEF y
    <3>2. CASE b # 0
      <4> DEFINE m == b - 1
      <4>1. m \in 0 .. Len(x) /\ c # 0 /\ c - 1 = Len(s) + m
        BY <1>1, <2>1, <3>2
      <4>2. LineOf(y) = SubSeq(y, 1, Len(s) + m)
        BY <1>3, <4>1
      <4> HIDE DEF m
      <4>3. SubSeq(s \o x, 1, Len(s) + m) = s \o SubSeq(x, 1, m) /\ SubSeq(x, 1, m) \in Text
        BY <4>1, WholeAndBeginning, TextFrom
      <4> QED
        BY <4>2, <4>3 DEF y
    <3> QED
      BY <3>1, <3>2
  <2> QED
    BY <2>1, <2>2, <1>6 DEF a, y
<1> QED
  BY <1>5, <1>6

(* Where the text stands at a backtick, what it decided it decides again,   *)
(* whatever follows; or it waits as it was.                                *)
LEMMA AtTickStays ==
  ASSUME NEW g \in Carried, NEW x \in Text, NEW atEnd \in BOOLEAN,
         ~Waits(g), g.rest[1] = "t"
  PROVE  IF AtTick(g, FALSE).held THEN AtTick(g, FALSE) = Hold(g)
         ELSE AtTick(More(g, x), atEnd) = More(AtTick(g, FALSE), x)
<1> DEFINE s == g.rest
           y == s \o x
           G == More(g, x)
           L == Len(s)
           a == FirstOf(s, {"n"})
<1>1. s \in Text /\ s # <<>> /\ L \in Nat /\ L > 0 /\ g.held = FALSE
  BY TextIs DEF Carried, Waits
<1>2. /\ y \in Text /\ Len(y) = L + Len(x) /\ Len(x) \in Nat
      /\ \A i \in 1 .. L : y[i] = s[i]
  BY <1>1, PartsIs
<1>3. y # <<>>
  <2> HIDE DEF y, s
  <2> QED
    BY <1>1, <1>2, TextIs
<1>4. G \in Carried /\ G.rest = y
  BY MoreIs
<1>5. Hold(g).held = TRUE
  BY <1>1, HoldIs
<1>6. \A n \in 0 .. L : /\ Said(g, n).held = FALSE /\ Said(g, n) \in Carried
                        /\ Said(G, n) = More(Said(g, n), x)
  <2> HIDE DEF G
  <2>1. ASSUME NEW n \in 0 .. L
        PROVE  Said(g, n).held = FALSE /\ Said(g, n) \in Carried /\ Said(More(g, x), n) = More(Said(g, n), x)
    BY <1>1, SaidIs
  <2> QED
    BY <2>1 DEF G
<1>7. \A n \in 0 .. L : /\ Opened(Said(g, n), TRUE).held = FALSE
                        /\ Opened(Said(G, n), TRUE) = More(Opened(Said(g, n), TRUE), x)
  <2> HIDE DEF G, L
  <2>1. ASSUME NEW n \in 0 .. L
        PROVE  Opened(Said(g, n), TRUE).held = FALSE /\ Opened(Said(G, n), TRUE) = More(Opened(Said(g, n), TRUE), x)
    <3> DEFINE h == Said(g, n)
    <3>1. h.held = FALSE /\ h \in Carried /\ Said(G, n) = More(h, x)
      BY <1>6
    <3> HIDE DEF h
    <3>2. Opened(h, TRUE).held = FALSE /\ Opened(More(h, x), TRUE) = More(Opened(h, TRUE), x)
      BY <3>1, OpenedIs, OpenedMore
    <3> QED
      BY <3>1, <3>2 DEF h
  <2> QED
    BY <2>1
<1>8. CASE s \in {<<"t">>, <<"t", "t">>}
  <2>1. AtTick(g, FALSE) = Hold(g)
    BY <1>8, AtTickIs
  <2> QED
    BY <1>5, <2>1
<1>9. CASE s \notin {<<"t">>, <<"t", "t">>} /\ IsPrefix(Fence, s)
  <2>1. L >= 3 /\ FenceAt(s, 1)
    <3> HIDE DEF s
    <3> QED
      BY <1>1, <1>9, TickPlaces
  <2>2. s[1] = "t" /\ s[2] = "t" /\ s[3] = "t"
    BY <2>1 DEF FenceAt
  <2>3. Len(y) >= 3 /\ FenceAt(y, 1)
    <3>1. 1 \in 1 .. L /\ 2 \in 1 .. L /\ 3 \in 1 .. L
      BY <1>1, <2>1
    <3>2. y[1] = "t" /\ y[2] = "t" /\ y[3] = "t"
      BY <1>2, <2>2, <3>1
    <3> QED
      BY <1>1, <1>2, <2>1, <3>2 DEF FenceAt
  <2>4. IsPrefix(Fence, y) /\ y \notin {<<"t">>, <<"t", "t">>}
    <3>1. IsPrefix(Fence, y)
      <4> HIDE DEF y
      <4> QED
        BY <1>2, <1>3, <2>3, TickPlaces
    <3>2. Len(y) # 1 /\ Len(y) # 2
      BY <1>2, <2>3
    <3>3. Len(<<"t">>) = 1 /\ Len(<<"t", "t">>) = 2
      OBVIOUS
    <3> HIDE DEF y
    <3> QED
      BY <3>1, <3>2, <3>3
  <2>5. /\ AtTick(g, FALSE) = (IF FirstFence(From(LineOf(s), 4)) > 0 THEN Opened(Said(g, 3), TRUE)
                              ELSE IF a = 0 THEN Hold(g) ELSE Opened(Said(g, HeadOf(s)), TRUE))
        /\ AtTick(G, atEnd) = (IF FirstFence(From(LineOf(y), 4)) > 0 THEN Opened(Said(G, 3), TRUE)
                               ELSE IF FirstOf(y, {"n"}) = 0 /\ ~atEnd THEN Hold(G)
                               ELSE Opened(Said(G, HeadOf(y)), TRUE))
    BY <1>4, <1>9, <2>4, AtTickIs
  <2>6. 3 \in 0 .. L
    BY <1>1, <2>1
  <2>7. CASE FirstFence(From(LineOf(s), 4)) > 0
    <3>1. PICK z \in Text : LineOf(y) = LineOf(s) \o z
      BY <1>1, LineStays
    <3>2. LineOf(s) \in Text /\ Len(LineOf(s)) = (IF a = 0 THEN L ELSE a - 1)
      <4> HIDE DEF s
      <4> QED
        BY <1>1, LineStays DEF L, a
    <3>3. a \in Nat /\ (a = 0 \/ a > 3)
      <4>1. a \in 0 .. L /\ (a > 0 => s[a] \in {"n"})
        <5> HIDE DEF s
        <5> QED
          BY <1>1, FirstOfIs DEF L, a
      <4>2. a # 1 /\ a # 2 /\ a # 3
        BY <2>2, <4>1
      <4> HIDE DEF a, s, L
      <4> QED
        BY <1>1, <4>1, <4>2
    <3> DEFINE n == 3
    <3>4. n \in 0 .. Len(LineOf(s)) /\ n + 1 = 4
      <4> HIDE DEF a, s
      <4> QED
        BY <1>1, <2>1, <3>2, <3>3
    <3> HIDE DEF n
    <3>5. From(LineOf(y), n + 1) = From(LineOf(s), n + 1) \o z /\ From(LineOf(s), n + 1) \in Text
      <4> DEFINE l == LineOf(s)
      <4>1. l \in Text /\ n \in 0 .. Len(l) /\ LineOf(y) = l \o z
        BY <3>1, <3>2, <3>4
      <4> HIDE DEF l
      <4>2. From(l \o z, n + 1) = From(l, n + 1) \o z /\ From(l, n + 1) \in Text
        BY <4>1, TextConcat, TextFrom
      <4> QED
        BY <4>1, <4>2 DEF l
    <3>6. From(LineOf(y), 4) = From(LineOf(s), 4) \o z /\ From(LineOf(s), 4) \in Text
      BY <3>4, <3>5
    <3>7. FirstFence(From(LineOf(y), 4)) > 0
      <4> DEFINE r == From(LineOf(s), 4)
      <4>1. FirstFence(r) > 0 /\ r \in Text
        BY <2>7, <3>6
      <4> HIDE DEF r
      <4>2. FirstFence(r \o z) = FirstFence(r)
        BY <4>1, FirstFenceStays
      <4> QED
        BY <3>6, <4>1, <4>2 DEF r
    <3>8. AtTick(g, FALSE) = Opened(Said(g, 3), TRUE) /\ AtTick(G, atEnd) = Opened(Said(G, 3), TRUE)
      BY <2>5, <2>7, <3>7
    <3> QED
      BY <1>7, <2>6, <3>8
  <2>8. CASE ~(FirstFence(From(LineOf(s), 4)) > 0) /\ a = 0
    BY <1>5, <2>5, <2>8
  <2>9. CASE ~(FirstFence(From(LineOf(s), 4)) > 0) /\ a # 0
    <3>1. a > 0 /\ a \in 0 .. L
      <4>1. a \in 0 .. L
        <5> HIDE DEF s
        <5> QED
          BY <1>1, FirstOfIs DEF L, a
      <4> HIDE DEF a
      <4> QED
        BY <1>1, <2>9, <4>1
    <3>2. FirstOf(y, {"n"}) = a /\ LineOf(y) = LineOf(s) /\ HeadOf(y) = HeadOf(s)
      BY <1>1, <3>1, LineStays
    <3>3. HeadOf(s) \in 0 .. L
      BY <2>9, <3>1 DEF HeadOf
    <3>4. AtTick(g, FALSE) = Opened(Said(g, HeadOf(s)), TRUE) /\ AtTick(G, atEnd) = Opened(Said(G, HeadOf(s)), TRUE)
      BY <2>5, <2>9, <3>2
    <3> QED
      BY <1>7, <3>3, <3>4
  <2> QED
    BY <2>7, <2>8, <2>9
<1>10. CASE s \notin {<<"t">>, <<"t", "t">>} /\ ~IsPrefix(Fence, s)
  <2> DEFINE p == SpanOf(s)
  <2>1. AtTick(g, FALSE) = IF p > 1 /\ s[p] = "t" THEN Said(g, p) ELSE IF p > 1 THEN Said(g, 1) ELSE Hold(g)
    BY <1>10, AtTickIs
  <2>2. CASE ~(p > 1)
    BY <1>5, <2>1, <2>2
  <2>3. CASE p > 1
    <3>1. p \in 1 .. L
      <4> HIDE DEF s
      <4> QED
        BY <1>1, TickPlaces DEF p, L
    <3>2. SpanOf(y) = p
      <4> DEFINE n == 1
                 r == From(s, 2)
      <4>1. n \in 0 .. L /\ n + 1 = 2
        BY <1>1
      <4> HIDE DEF n
      <4>2. From(y, n + 1) = From(s, n + 1) \o x /\ From(s, n + 1) \in Text
        <5> HIDE DEF s
        <5>1. n \in 0 .. Len(s)
          BY <4>1 DEF L
        <5>2. From(s \o x, n + 1) = From(s, n + 1) \o x
          BY <1>1, <5>1, TextConcat
        <5>3. From(s, n + 1) \in Text
          BY <1>1, <5>1, TextFrom
        <5> QED
          BY <5>2, <5>3 DEF y
      <4>3. From(y, 2) = r \o x /\ r \in Text
        BY <4>1, <4>2
      <4>4. p = FirstOf(r, {"t", "n"}) + 1 /\ SpanOf(y) = FirstOf(From(y, 2), {"t", "n"}) + 1
        BY DEF SpanOf
      <4> HIDE DEF r, p, y
      <4>5. FirstOf(r, {"t", "n"}) \in Nat
        <5>1. Len(r) \in Nat
          BY <4>3, TextIs
        <5> QED
          BY <4>3, <5>1, FirstOfIs
      <4>6. FirstOf(r, {"t", "n"}) > 0
        BY <2>3, <4>4, <4>5
      <4>7. FirstOf(r \o x, {"t", "n"}) = FirstOf(r, {"t", "n"})
        BY <4>3, <4>6, FirstOfConcat
      <4> QED
        BY <4>3, <4>4, <4>7
    <3>3. y[p] = s[p]
      BY <1>2, <3>1
    <3>4. ~IsPrefix(Fence, y) /\ y \notin {<<"t">>, <<"t", "t">>}
      <4>1. CASE L >= 3
        <5>1. ~FenceAt(s, 1)
          <6> HIDE DEF s
          <6> QED
            BY <1>1, <1>10, <4>1, TickPlaces DEF L
        <5>2. 1 \in 1 .. L /\ 2 \in 1 .. L /\ 3 \in 1 .. L
          BY <1>1, <4>1
        <5>3. ~(y[1] = "t" /\ y[2] = "t" /\ y[3] = "t")
          BY <1>2, <5>1, <5>2 DEF FenceAt
        <5>4. ~FenceAt(y, 1)
          <6> HIDE DEF y
          <6> QED
            BY <5>3 DEF FenceAt
        <5>5. Len(y) # 1 /\ Len(y) # 2
          BY <1>1, <1>2, <4>1
        <5>6. Len(<<"t">>) = 1 /\ Len(<<"t", "t">>) = 2
          OBVIOUS
        <5> HIDE DEF y
        <5> QED
          BY <1>2, <1>3, <5>4, <5>5, <5>6, TickPlaces
      <4>2. CASE ~(L >= 3)
        <5>1. L = 2 /\ s[2] # "t"
          <6>1. L = 1 \/ L = 2
            <7> HIDE DEF L, s
            <7> QED
              BY <1>1, <4>2
          <6>2. s[1] = "t"
            OBVIOUS
          <6>3. ASSUME L = 1 PROVE FALSE
            <7>1. s = <<"t">>
              BY <1>1, <6>2, <6>3 DEF Text
            <7> QED
              BY <1>10, <7>1
          <6>4. ASSUME L = 2, s[2] = "t" PROVE FALSE
            <7>1. s = <<"t", "t">>
              BY <1>1, <6>2, <6>4 DEF Text
            <7> QED
              BY <1>10, <7>1
          <6> QED
            BY <6>1, <6>3, <6>4
        <5>2. y[2] # "t"
          <6>1. 2 \in 1 .. L
            BY <5>1
          <6> QED
            BY <1>2, <5>1, <6>1
        <5>3. ~FenceAt(y, 1)
          <6> HIDE DEF y
          <6> QED
            BY <5>2 DEF FenceAt
        <5>4. y # <<"t">> /\ y # <<"t", "t">>
          <6>1. Len(y) # 1
            BY <1>2, <5>1
          <6>2. Len(<<"t">>) = 1 /\ <<"t", "t">>[2] = "t"
            OBVIOUS
          <6> HIDE DEF y
          <6> QED
            BY <5>2, <6>1, <6>2
        <5> HIDE DEF y
        <5> QED
          BY <1>2, <1>3, <5>3, <5>4, TickPlaces
      <4> QED
        BY <4>1, <4>2
    <3>5. AtTick(G, atEnd) = IF p > 1 /\ y[p] = "t" THEN Said(G, p)
                             ELSE IF p > 1 \/ atEnd THEN Said(G, 1) ELSE Hold(G)
      BY <1>4, <3>2, <3>4, AtTickIs
    <3>6. p \in 0 .. L /\ 1 \in 0 .. L
      BY <1>1, <3>1
    <3> HIDE DEF p, s, y, G, L
    <3>7. CASE s[p] = "t"
      <4>1. AtTick(g, FALSE) = Said(g, p) /\ AtTick(G, atEnd) = Said(G, p)
        BY <2>1, <2>3, <3>3, <3>5, <3>7
      <4> QED
        BY <1>6, <3>6, <4>1 DEF G
    <3>8. CASE s[p] # "t"
      <4>1. AtTick(g, FALSE) = Said(g, 1) /\ AtTick(G, atEnd) = Said(G, 1)
        BY <2>1, <2>3, <3>3, <3>5, <3>8
      <4> QED
        BY <1>6, <3>6, <4>1 DEF G
    <3> QED
      BY <3>7, <3>8 DEF G
  <2> QED
    BY <2>2, <2>3
<1> QED
  BY <1>8, <1>9, <1>10

-----------------------------------------------------------------------------
(* What was decided stays decided: at a bracket, and before one.           *)

(* What is no half of a marker does not become one.                        *)
LEMMA HalfStays ==
  ASSUME NEW s \in Text, NEW x \in Text, s # <<>>, HalfMarker(s \o x)
  PROVE  HalfMarker(s)
<1>1. Len(s) \in Nat /\ Len(s) > 0 /\ Len(x) \in Nat
  BY TextIs
<1>2. Len(s \o x) = Len(s) + Len(x) /\ \A i \in 1 .. Len(s) : (s \o x)[i] = s[i]
  BY PartsIs
<1> DEFINE y == s \o x
<1> HIDE DEF y
<1>3. y[1] = "[" /\ \A j \in 2 .. Len(y) : y[j] \in Inside
  BY DEF HalfMarker, y
<1>4. s[1] = "["
  <2>1. 1 \in 1 .. Len(s)
    BY <1>1
  <2> QED
    BY <1>2, <1>3, <2>1 DEF y
<1>5. ASSUME NEW j \in 2 .. Len(s)
      PROVE  s[j] \in Inside
  <2>1. j \in 1 .. Len(s) /\ j \in 2 .. Len(y)
    BY <1>1, <1>2 DEF y
  <2> QED
    BY <1>2, <1>3, <2>1 DEF y
<1> QED
  BY <1>4, <1>5 DEF HalfMarker

(* What cannot grow into another group never can.                          *)
LEMMA GrowStays ==
  ASSUME NEW a \in Text, NEW x \in Text, MayGrow(a \o x)
  PROVE  MayGrow(a)
<1> DEFINE y == a \o x
<1>1. Len(a) \in Nat /\ Len(x) \in Nat /\ Len(y) = Len(a) + Len(x) /\ \A i \in 1 .. Len(a) : y[i] = a[i]
  BY TextIs, PartsIs
<1>2. PICK k \in 1 .. Len(y) + 1 : /\ \A j \in 1 .. k - 1 : y[j] = "_"
                                   /\ k = Len(y) + 1 \/ HalfMarker(From(y, k))
  BY DEF MayGrow
<1> HIDE DEF y
<1>3. CASE k <= Len(a)
  <2> DEFINE n == k - 1
  <2>1. n \in 0 .. Len(a) /\ n + 1 = k /\ k \in 1 .. Len(a) + 1 /\ k # Len(y) + 1 /\ Len(a) - n > 0
    BY <1>1, <1>3
  <2>2. ASSUME NEW j \in 1 .. k - 1
        PROVE  a[j] = "_"
    <3>1. j \in 1 .. Len(a)
      BY <1>1, <1>3
    <3> QED
      BY <1>1, <1>2, <3>1
  <2> HIDE DEF n
  <2>3. From(y, n + 1) = From(a, n + 1) \o x
    BY <2>1, TextConcat DEF y
  <2>4. From(a, n + 1) \in Text /\ Len(From(a, n + 1)) = Len(a) - n
    BY <2>1, TextFrom
  <2> DEFINE r == From(a, n + 1)
  <2>5. r \in Text /\ Len(r) > 0 /\ HalfMarker(r \o x)
    BY <1>2, <2>1, <2>3, <2>4
  <2> HIDE DEF r
  <2>6. r # <<>>
    BY <1>1, <2>1, <2>5, TextIs
  <2>7. HalfMarker(r)
    BY <2>5, <2>6, HalfStays
  <2> QED
    BY <2>1, <2>2, <2>7 DEF r, MayGrow
<1>4. CASE ~(k <= Len(a))
  <2> DEFINE n == Len(a) + 1
  <2>1. \A j \in 1 .. n - 1 : a[j] = "_"
    <3>1. ASSUME NEW j \in 1 .. n - 1
          PROVE  a[j] = "_"
      <4>1. j \in 1 .. Len(a) /\ j \in 1 .. k - 1
        BY <1>1, <1>4
      <4> QED
        BY <1>1, <1>2, <4>1
    <3> QED
      BY <3>1
  <2>2. n \in 1 .. Len(a) + 1
    BY <1>1
  <2> QED
    BY <2>1, <2>2 DEF MayGrow
<1> QED
  BY <1>3, <1>4

(* Where the text stands at a bracket, what it decided it decides again,    *)
(* whatever follows; or it waits as it was.                                *)
LEMMA AtBracketStays ==
  ASSUME NEW g \in Carried, NEW x \in Text, NEW w, w.sources \in Nat, NEW atEnd \in BOOLEAN,
         ~Waits(g), g.rest[1] = "["
  PROVE  IF AtBracket(g, w, FALSE).held THEN AtBracket(g, w, FALSE) = Hold(g)
         ELSE AtBracket(More(g, x), w, atEnd) = More(AtBracket(g, w, FALSE), x)
<1> DEFINE s == g.rest
           y == s \o x
           G == More(g, x)
           e == ChainEnd(s)
           new == RewriteChain(SubSeq(s, 1, e), w.sources, g.order)
<1>1. s \in Text /\ s # <<>> /\ Len(s) \in Nat /\ Len(s) > 0 /\ g.held = FALSE /\ g.order \in Seq(Int)
  BY TextIs DEF Carried, Waits
<1>2. y \in Text /\ y # <<>>
  <2>1. y \in Text /\ Len(y) = Len(s) + Len(x) /\ Len(x) \in Nat
    BY <1>1, PartsIs
  <2> HIDE DEF y, s
  <2> QED
    BY <1>1, <2>1, TextIs
<1>3. G \in Carried /\ G.rest = y /\ G.order = g.order
  BY MoreIs
<1>4. Hold(g).held = TRUE
  BY <1>1, HoldIs
<1>5. e \in 0 .. Len(s)
  <2> HIDE DEF s
  <2> QED
    BY <1>1, ChainEndIs
<1>6. CASE e > 0
  <2>1. CASE MayGrow(From(s, e + 1))
    <3>1. AtBracket(g, w, FALSE) = Hold(g)
      BY <1>6, <2>1, AtBracketIs
    <3> QED
      BY <1>4, <3>1
  <2>2. CASE ~MayGrow(From(s, e + 1))
    <3> DEFINE t == SubSeq(s, 1, e)
    <3>1. ChainEnd(y) = e
      BY <1>1, <1>6, <2>2, ChainStays
    <3>2. t \in Text /\ SubSeq(y, 1, e) = t /\ From(s, e + 1) \in Text /\ From(y, e + 1) = From(s, e + 1) \o x
      <4> HIDE DEF s, e
      <4>1. s \in Seq(Alphabet) /\ x \in Seq(Alphabet)
        BY <1>1 DEF Text
      <4>2. SubSeq(s, 1, e) \in Seq(Alphabet) /\ From(s, e + 1) \in Seq(Alphabet)
        BY <1>5, <4>1, FromIs
      <4>3. From(s \o x, e + 1) = From(s, e + 1) \o x /\ SubSeq(s \o x, 1, e) = SubSeq(s, 1, e)
        BY <1>5, <4>1, FromConcat
      <4> QED
        BY <4>2, <4>3 DEF Text
    <3>3. ~MayGrow(From(y, e + 1))
      <4> DEFINE r == From(s, e + 1)
      <4>1. r \in Text /\ ~MayGrow(r)
        BY <2>2, <3>2
      <4> HIDE DEF r
      <4>2. ~MayGrow(r \o x)
        BY <4>1, GrowStays
      <4> QED
        BY <3>2, <4>2 DEF r
    <3>4. AtBracket(g, w, FALSE) = Ordered(Tell(g, e, new.out), new.order)
      BY <1>6, <2>2, AtBracketIs
    <3>5. AtBracket(G, w, atEnd) = Ordered(Tell(G, e, new.out), new.order)
      <4>1. RewriteChain(SubSeq(G.rest, 1, ChainEnd(G.rest)), w.sources, G.order) = new
        BY <1>3, <3>1, <3>2
      <4>2. ChainEnd(G.rest) = e /\ ~MayGrow(From(G.rest, e + 1))
        BY <1>3, <3>1, <3>3
      <4> HIDE DEF G, new, e
      <4> QED
        BY <1>6, <4>1, <4>2, AtBracketIs
    <3>6. new.out \in Text /\ new.order \in Seq(Int)
      <4> HIDE DEF t
      <4>1. RewriteChain(t, w.sources, g.order).out \in Text /\ RewriteChain(t, w.sources, g.order).order \in Seq(Int)
        BY <1>1, <3>2, RewriteTyped
      <4> QED
        BY <4>1 DEF t
    <3> HIDE DEF new, e
    <3> DEFINE h == Tell(g, e, new.out)
    <3>7. Tell(G, e, new.out) = More(h, x) /\ h \in Carried
      BY <1>5, <3>6, TellMore, TellIs
    <3> HIDE DEF h
    <3>8. Ordered(More(h, x), new.order) = More(Ordered(h, new.order), x)
      BY <3>6, <3>7, OpenedMore
    <3>9. Ordered(h, new.order).held = FALSE
      <4>1. h.held = FALSE
        BY <1>1, <1>5, <3>6, TellIs DEF h
      <4> QED
        BY <3>6, <3>7, <4>1, OrderedIs
    <3> QED
      BY <3>4, <3>5, <3>7, <3>8, <3>9 DEF h
  <2> QED
    BY <2>1, <2>2
<1>7. CASE ~(e > 0)
  <2>1. CASE HalfMarker(s)
    <3>1. AtBracket(g, w, FALSE) = Hold(g)
      BY <1>7, <2>1, AtBracketIs
    <3> QED
      BY <1>4, <3>1
  <2>2. CASE ~HalfMarker(s)
    <3>1. e = 0
      <4> HIDE DEF e
      <4> QED
        BY <1>1, <1>5, <1>7
    <3>2. ChainEnd(y) = 0
      BY <1>1, <2>2, <3>1, NoChainStays
    <3>3. ~HalfMarker(y)
      <4> HIDE DEF s
      <4> QED
        BY <1>1, <2>2, HalfStays
    <3>4. AtBracket(g, w, FALSE) = Tell(g, 1, <<"[">>)
      BY <1>7, <2>2, AtBracketIs
    <3>5. AtBracket(G, w, atEnd) = Tell(G, 1, <<"[">>)
      <4>1. ~(ChainEnd(G.rest) > 0) /\ ~HalfMarker(G.rest)
        BY <1>3, <3>2, <3>3
      <4> HIDE DEF G
      <4> QED
        BY <4>1, AtBracketIs
    <3>6. <<"[">> \in Text /\ 1 \in 0 .. Len(s)
      <4>1. "[" \in Alphabet
        BY DEF Alphabet
      <4> QED
        BY <1>1, <4>1, SymbolsAreText
    <3>7. Tell(G, 1, <<"[">>) = More(Tell(g, 1, <<"[">>), x) /\ Tell(g, 1, <<"[">>).held = g.held
      <4> DEFINE b == <<"[">>
                 n == 1
      <4>1. b \in Text /\ n \in 0 .. Len(s)
        BY <3>6
      <4> HIDE DEF b, n
      <4>2. Tell(G, n, b) = More(Tell(g, n, b), x) /\ Tell(g, n, b).held = g.held
        BY <4>1, TellMore, TellIs
      <4> QED
        BY <4>2 DEF b, n
    <3> QED
      BY <1>1, <3>4, <3>5, <3>7
  <2> QED
    BY <2>1, <2>2
<1> QED
  BY <1>6, <1>7

-----------------------------------------------------------------------------
(* What was decided stays decided: in prose, and turn by turn.             *)

(* Nothing is said of nothing.                                             *)
LEMMA ProseNone ==
  ASSUME NEW german \in BOOLEAN
  PROVE  Prose(<<>>, german) = <<>>
<1>1. <<>> \in Text /\ <<>> \o <<>> = <<>>
  BY SymbolsAreText
<1> DEFINE z == <<>>
<1>2. z \in Text /\ z \o z = z /\ z = <<>>
  BY <1>1
<1> HIDE DEF z
<1>3. Spell(z \o z) = Spell(z) \o Spell(z)
  BY <1>2, SpellApart
<1>4. Spell(z) \in Text
  BY <1>2, SpellIs
<1> DEFINE p == Spell(z)
<1>5. p \in Text /\ p = p \o p
  BY <1>2, <1>3, <1>4
<1> HIDE DEF p
<1>6. Len(p) = Len(p) + Len(p) /\ Len(p) \in Nat
  BY <1>5, PartsIs
<1>7. Len(p) = 0
  BY <1>6
<1>8. p = <<>>
  BY <1>5, <1>7, TextIs
<1> QED
  BY <1>2, <1>8 DEF p, Prose, z

LEMMA ToldNone ==
  ASSUME NEW g \in Carried, NEW german \in BOOLEAN
  PROVE  Told(g, 0, german) = g
<1>1. g.rest \in Text
  BY DEF Carried
<1> DEFINE a == SubSeq(g.rest, 1, 0)
<1>2. 0 \in 0 .. Len(g.rest)
  BY <1>1, TextIs
<1>3. a \in Text /\ Len(a) = 0
  BY <1>1, <1>2, TextFrom
<1> HIDE DEF a
<1>4. a = <<>>
  BY <1>3, TextIs
<1>5. SubSeq(g.rest, 1, 0) = <<>>
  BY <1>4 DEF a
<1> QED
  BY <1>5, ProseNone, TellNone DEF Told

(* A walk that waits is over.                                              *)
LEMMA WalkWaits ==
  ASSUME NEW g \in Carried, NEW w, w.sources \in Nat, w.german \in BOOLEAN, NEW atEnd \in BOOLEAN, Waits(g)
  PROVE  Walk(g, w, atEnd) = g
<1> DEFINE L == Len(g.rest)
<1>1. L \in Nat
  BY TextIs DEF Carried
<1>2. PICK l : Turns(l, g, w, atEnd, L) /\ Walk(g, w, atEnd) = l[L]
  BY WalkIs
<1> HIDE DEF L
<1>3. l[0] = g
  BY <1>1, <1>2, TurnsTyped
<1>4. 0 \in 0 .. L /\ L \in 0 .. L
  BY <1>1
<1>5. Waits(l[0])
  BY <1>3
<1> DEFINE z == 0
<1>6. z \in 0 .. L /\ Waits(l[z]) /\ l[z] = g /\ L \in z .. L
  BY <1>1, <1>3, <1>4, <1>5
<1> HIDE DEF z
<1>7. l[L] = l[z]
  BY <1>1, <1>2, <1>6, TurnsStay
<1> QED
  BY <1>2, <1>6, <1>7

\* Prose that comes out is whole words.
EndsProse(s, n, german) == german => n = 0 \/ s[n] \in Spaces

(* Prose said in two parts, the first of whole words.                      *)
LEMMA ToldTold ==
  ASSUME NEW g \in Carried, NEW n \in 0 .. Len(g.rest), NEW m \in 0 .. Len(g.rest) - n, NEW german \in BOOLEAN,
         EndsProse(g.rest, n, german)
  PROVE  Told(Told(g, n, german), m, german) = Told(g, n + m, german)
<1> DEFINE y == g.rest
           p == SubSeq(y, 1, n)
           z == From(y, n + 1)
           q == SubSeq(z, 1, m)
<1>1. y \in Text /\ Len(y) \in Nat /\ n \in Nat /\ m \in Nat /\ n + m <= Len(y) /\ m \in 0 .. Len(y) - n
  BY TextIs DEF Carried
<1>2. p \in Text /\ Len(p) = n /\ z \in Text /\ Len(z) = Len(y) - n /\ \A k \in 1 .. n : p[k] = y[k]
  BY <1>1, TextFrom
<1>3. q \in Text
  <2> HIDE DEF z
  <2>1. m \in 0 .. Len(z)
    BY <1>1, <1>2
  <2> QED
    BY <1>2, <2>1, TextFrom
<1>4. p \o q = SubSeq(y, 1, n + m)
  <2> HIDE DEF y
  <2> QED
    BY <1>1, BeginningsJoin
<1>5. Prose(p \o q, german) = Prose(p, german) \o Prose(q, german)
  <2>1. CASE german
    <3>1. p = <<>> \/ p[Len(p)] \in Spaces
      <4>1. CASE n = 0
        <5> HIDE DEF p
        <5> QED
          BY <1>2, <4>1, TextIs
      <4>2. CASE n # 0
        <5>1. n \in 1 .. n /\ y[n] \in Spaces
          BY <1>1, <2>1, <4>2 DEF EndsProse
        <5> HIDE DEF p, y
        <5> QED
          BY <1>2, <5>1
      <4> QED
        BY <4>1, <4>2
    <3> HIDE DEF p, q
    <3>2. Spell(p \o q) = Spell(p) \o Spell(q)
      BY <1>2, <1>3, <3>1, SpellApart
    <3> QED
      BY <2>1, <3>2 DEF Prose
  <2>2. CASE ~german
    BY <2>2 DEF Prose
  <2> QED
    BY <2>1, <2>2
<1>6. Prose(p, german) \in Text /\ Prose(q, german) \in Text
  BY <1>2, <1>3, ProseTyped
<1>7. Told(g, n, german).rest = z
  BY <1>2, ToldIs
<1>8. Told(Told(g, n, german), m, german) = Tell(Tell(g, n, Prose(p, german)), m, Prose(q, german))
  BY <1>7 DEF Told
<1>9. Told(g, n + m, german) = Tell(g, n + m, Prose(p, german) \o Prose(q, german))
  BY <1>4, <1>5 DEF Told
<1> DEFINE a == Prose(p, german)
           b == Prose(q, german)
<1>10. Tell(Tell(g, n, a), m, b) = Tell(g, n + m, a \o b)
  <2> HIDE DEF a, b
  <2> QED
    BY <1>1, <1>6, TellTell DEF a, b
<1> QED
  BY <1>8, <1>9, <1>10

(* Where prose ends, behind whole words of it.                             *)
LEMMA ProseEndBehind ==
  ASSUME NEW y \in Text, NEW n \in 0 .. Len(y), NEW w, w.german \in BOOLEAN, NEW atEnd \in BOOLEAN,
         EndsProse(y, n, w.german)
  PROVE  /\ ProseEnd(y, w, atEnd) = n + ProseEnd(From(y, n + 1), w, atEnd)
         /\ ProseEnd(From(y, n + 1), w, atEnd) \in 0 .. Len(y) - n
<1> DEFINE z == From(y, n + 1)
           a == BeforeLastWord(y)
           b == BeforeLastWord(z)
<1>1. /\ Len(y) \in Nat /\ n \in Nat /\ z \in Text /\ Len(z) = Len(y) - n
      /\ \A k \in 1 .. Len(y) - n : z[k] = y[n + k]
  <2>1. Len(y) \in Nat
    BY TextIs
  <2>2. z \in Text /\ Len(z) = Len(y) - n /\ \A k \in 1 .. Len(y) - n : z[k] = y[n + k]
    BY TextFrom
  <2> QED
    BY <2>1, <2>2
<1>2. /\ a \in 0 .. Len(y) /\ (a > 0 => y[a] \in Spaces)
      /\ \A k \in 1 .. Len(y) : y[k] \in Spaces => k <= a
  BY LastBlankIs
<1>3. /\ b \in 0 .. Len(z) /\ (b > 0 => z[b] \in Spaces)
      /\ \A k \in 1 .. Len(z) : z[k] \in Spaces => k <= b
  <2> HIDE DEF z
  <2> QED
    BY <1>1, LastBlankIs
<1> HIDE DEF z, a, b
<1>4. w.german => a = n + b
  <2> SUFFICES ASSUME w.german PROVE a = n + b
    OBVIOUS
  <2>1. n <= a
    <3>1. CASE n = 0
      BY <1>2, <3>1
    <3>2. CASE n # 0
      <4>1. y[n] \in Spaces /\ n \in 1 .. Len(y)
        BY <1>1, <3>2 DEF EndsProse
      <4> QED
        BY <1>2, <4>1
    <3> QED
      BY <3>1, <3>2
  <2>2. n + b <= a
    <3>1. CASE b = 0
      BY <1>1, <2>1, <3>1
    <3>2. CASE b # 0
      <4>1. b > 0 /\ b \in 1 .. Len(y) - n /\ n + b \in 1 .. Len(y)
        BY <1>1, <1>3, <3>2
      <4>2. y[n + b] \in Spaces
        BY <1>1, <1>3, <4>1
      <4> QED
        BY <1>2, <4>1, <4>2
    <3> QED
      BY <3>1, <3>2
  <2>3. a <= n + b
    <3>1. CASE a <= n
      BY <1>1, <1>2, <1>3, <3>1
    <3>2. CASE ~(a <= n)
      <4> DEFINE k == a - n
      <4>1. k \in 1 .. Len(y) - n /\ n + k = a /\ a > 0
        BY <1>1, <1>2, <3>2
      <4> HIDE DEF k
      <4>2. z[k] \in Spaces
        BY <1>1, <1>2, <4>1
      <4>3. k <= b
        BY <1>1, <1>3, <4>1, <4>2
      <4> QED
        BY <1>1, <1>2, <1>3, <4>1, <4>3
    <3> QED
      BY <3>1, <3>2
  <2> QED
    BY <1>1, <1>2, <1>3, <2>2, <2>3
<1>5. ProseEnd(y, w, atEnd) = (IF w.german /\ ~atEnd THEN a ELSE Len(y))
      /\ ProseEnd(z, w, atEnd) = IF w.german /\ ~atEnd THEN b ELSE Len(z)
  BY DEF ProseEnd, a, b
<1>6. CASE w.german /\ ~atEnd
  BY <1>1, <1>3, <1>4, <1>5, <1>6 DEF z
<1>7. CASE ~(w.german /\ ~atEnd)
  BY <1>1, <1>5, <1>7 DEF z
<1> QED
  BY <1>6, <1>7

(* Whole words of prose without a mark may come out first.                 *)
LEMMA ProseResumes ==
  ASSUME NEW g \in Carried, NEW w, w.sources \in Nat, w.german \in BOOLEAN, NEW atEnd \in BOOLEAN,
         ~g.held, ~g.open, NEW n \in 0 .. Len(g.rest), EndsProse(g.rest, n, w.german),
         NextMark(SubSeq(g.rest, 1, n)) = 0
  PROVE  Walk(Told(g, n, w.german), w, atEnd) = Walk(g, w, atEnd)
<1> DEFINE y == g.rest
           p == SubSeq(y, 1, n)
           z == From(y, n + 1)
           k == Told(g, n, w.german)
           j == NextMark(y)
           i == NextMark(z)
           a == ProseEnd(y, w, atEnd)
           b == ProseEnd(z, w, atEnd)
<1>1. y \in Text /\ Len(y) \in Nat /\ n \in Nat /\ n \in 0 .. Len(y)
  BY TextIs DEF Carried
<1>2. p \in Text /\ Len(p) = n /\ z \in Text /\ Len(z) = Len(y) - n /\ y = p \o z
      /\ \A h \in 1 .. Len(y) - n : z[h] = y[n + h]
  BY <1>1, TextFrom
<1>3. k \in Carried /\ k.rest = z /\ k.open = g.open /\ k.held = g.held
  BY ToldIs
<1>4. j = IF i > 0 THEN n + i ELSE 0
  <2>1. FirstOf(p, {"t", "["}) = 0
    BY DEF NextMark
  <2> HIDE DEF p, y, z
  <2>2. FirstOf(p \o z, {"t", "["}) = IF FirstOf(p, {"t", "["}) > 0 THEN FirstOf(p, {"t", "["})
          ELSE IF FirstOf(z, {"t", "["}) > 0 THEN Len(p) + FirstOf(z, {"t", "["}) ELSE 0
    BY <1>2, FirstOfConcat
  <2> QED
    BY <1>2, <2>1, <2>2 DEF NextMark
<1>5. i \in 0 .. Len(z)
  <2> HIDE DEF z
  <2> QED
    BY <1>2, FirstOfIs DEF NextMark
<1>6. a = n + b /\ b \in 0 .. Len(y) - n
  <2> HIDE DEF y
  <2> QED
    BY <1>1, ProseEndBehind DEF y
<1>7. \A m \in 0 .. Len(y) - n : Told(k, m, w.german) = Told(g, n + m, w.german)
  BY ToldTold
<1>8. CASE y = <<>>
  <2>1. n = 0
    <3> HIDE DEF y
    <3> QED
      BY <1>1, <1>8, TextIs
  <2> QED
    BY <2>1, ToldNone
<1>9. CASE y # <<>> /\ z # <<>>
  <2>1. Pass(g, w, atEnd) =
          IF j = 0 THEN Hold(Told(g, a, w.german))
          ELSE IF y[j] = "t" THEN AtTick(Told(g, j - 1, w.german), atEnd)
          ELSE AtBracket(Told(g, j - 1, w.german), w, atEnd)
    BY <1>9, PassIs
  <2>2. Pass(k, w, atEnd) =
          IF i = 0 THEN Hold(Told(k, b, w.german))
          ELSE IF z[i] = "t" THEN AtTick(Told(k, i - 1, w.german), atEnd)
          ELSE AtBracket(Told(k, i - 1, w.german), w, atEnd)
    <3> HIDE DEF k, z
    <3> QED
      BY <1>3, <1>9, PassIs DEF i, b
  <2>3. Pass(k, w, atEnd) = Pass(g, w, atEnd)
    <3> HIDE DEF k, i, j, a, b, y, z, p
    <3>1. CASE i = 0
      <4>1. j = 0
        BY <1>4, <3>1
      <4>2. Told(k, b, w.german) = Told(g, a, w.german)
        BY <1>6, <1>7
      <4> QED
        BY <2>1, <2>2, <3>1, <4>1, <4>2
    <3>2. CASE i # 0
      <4>1. j = n + i /\ j # 0 /\ i \in 1 .. Len(y) - n /\ i - 1 \in 0 .. Len(y) - n /\ n + (i - 1) = j - 1
        BY <1>1, <1>2, <1>4, <1>5, <3>2
      <4>2. z[i] = y[j]
        BY <1>2, <4>1
      <4>3. Told(k, i - 1, w.german) = Told(g, j - 1, w.german)
        BY <1>7, <4>1
      <4> QED
        BY <2>1, <2>2, <3>2, <4>1, <4>2, <4>3
    <3> QED
      BY <3>1, <3>2
  <2>4. Walk(Pass(k, w, atEnd), w, atEnd) = Walk(k, w, atEnd)
    <3> HIDE DEF k
    <3> QED
      BY <1>3, WalkPass
  <2>5. Walk(Pass(g, w, atEnd), w, atEnd) = Walk(g, w, atEnd)
    BY WalkPass
  <2> QED
    BY <2>3, <2>4, <2>5
<1>10. CASE y # <<>> /\ z = <<>>
  <2>1. Len(z) = 0
    <3> HIDE DEF z
    <3> QED
      BY <1>2, <1>10, TextIs
  <2>2. n = Len(y) /\ i = 0 /\ j = 0 /\ a = n
    <3> HIDE DEF z, i, j, a, b, y, p
    <3> QED
      BY <1>1, <1>2, <1>4, <1>5, <1>6, <2>1
  <2>3. Pass(g, w, atEnd) = Hold(k)
    <3>1. Pass(g, w, atEnd) = Hold(Told(g, a, w.german))
      BY <1>10, <2>2, PassIs
    <3> QED
      BY <2>2, <3>1
  <2>4. Hold(k) = k
    <3> HIDE DEF k
    <3>1. /\ Hold(k) \in Carried /\ Hold(k).rest = k.rest /\ Hold(k).out = k.out
          /\ Hold(k).open = k.open /\ Hold(k).order = k.order /\ Hold(k).held = (k.rest # <<>>)
      BY <1>3, HoldIs
    <3>2. k.held = FALSE
      BY <1>3 DEF Carried
    <3>3. Hold(k).held = k.held
      BY <1>3, <1>10, <3>1, <3>2
    <3> QED
      BY <1>3, <3>1, <3>3, CarriedEqual
  <2> QED
    BY <2>3, <2>4, WalkPass
<1> QED
  BY <1>8, <1>9, <1>10

(* At a mark: what one turn leaves, with more behind it, walks on as the     *)
(* whole would have.                                                       *)
LEMMA MarkResumes ==
  ASSUME NEW g \in Carried, NEW x \in Text, NEW w, w.sources \in Nat, w.german \in BOOLEAN, NEW atEnd \in BOOLEAN,
         ~Waits(g), ~g.open, NextMark(g.rest) # 0
  PROVE  Walk(More(g, x), w, atEnd) = Walk(More(Pass(g, w, FALSE), x), w, atEnd)
<1> DEFINE s == g.rest
           y == s \o x
           G == More(g, x)
           j == NextMark(s)
           h == Told(g, j - 1, w.german)
           H == More(h, x)
           z == From(s, (j - 1) + 1)
           At(f, e) == IF f.rest[1] = "t" THEN AtTick(f, e) ELSE AtBracket(f, w, e)
<1>1. s \in Text /\ s # <<>> /\ Len(s) \in Nat /\ g.held = FALSE /\ g.open = FALSE
  BY TextIs DEF Carried, Waits
<1>2. j \in 1 .. Len(s) /\ s[j] \in {"t", "["}
  <2> HIDE DEF s
  <2>1. j \in 0 .. Len(s) /\ (j > 0 => s[j] \in {"t", "["})
    BY <1>1, FirstOfIs DEF NextMark
  <2>2. j # 0
    BY DEF s
  <2> HIDE DEF j
  <2> QED
    BY <1>1, <2>1, <2>2
<1>3. j - 1 \in 0 .. Len(s)
  <2> HIDE DEF j, s
  <2> QED
    BY <1>1, <1>2
<1>4. z \in Text /\ Len(z) = Len(s) - (j - 1) /\ z[1] = s[j]
  <2> DEFINE n == j - 1
  <2> HIDE DEF j, s
  <2>1. n \in 0 .. Len(s) /\ 1 \in 1 .. Len(s) - n /\ n + 1 = j
    BY <1>1, <1>2
  <2> HIDE DEF n
  <2>2. /\ From(s, n + 1) \in Text /\ Len(From(s, n + 1)) = Len(s) - n
        /\ \A k \in 1 .. Len(s) - n : From(s, n + 1)[k] = s[n + k]
    BY <1>1, <2>1, TextFrom
  <2> QED
    BY <2>1, <2>2 DEF n
<1>5. h \in Carried /\ h.rest = z /\ h.open = FALSE /\ h.held = FALSE /\ Told(G, j - 1, w.german) = H
  <2> DEFINE n == j - 1
  <2>1. n \in 0 .. Len(s)
    BY <1>3
  <2> HIDE DEF n
  <2>2. /\ Told(g, n, w.german) \in Carried /\ Told(g, n, w.german).rest = From(s, n + 1)
        /\ Told(g, n, w.german).open = g.open /\ Told(g, n, w.german).held = g.held
        /\ Told(More(g, x), n, w.german) = More(Told(g, n, w.german), x)
    BY <2>1, ToldIs
  <2> QED
    BY <1>1, <2>2 DEF n
<1> HIDE DEF z
<1>6. y \in Text /\ y # <<>> /\ NextMark(y) = j /\ y[j] = s[j]
  <2>1. y \in Text /\ Len(y) = Len(s) + Len(x) /\ Len(x) \in Nat /\ \A k \in 1 .. Len(s) : y[k] = s[k]
    BY <1>1, PartsIs
  <2>2. y # <<>>
    <3> HIDE DEF y, s
    <3> QED
      BY <1>1, <2>1, TextIs
  <2>3. NextMark(y) = j
    <3>1. FirstOf(s, {"t", "["}) > 0
      BY <1>2 DEF NextMark
    <3> HIDE DEF s
    <3> QED
      BY <1>1, <3>1, FirstOfConcat DEF NextMark, s
  <2> HIDE DEF y, j
  <2> QED
    BY <1>2, <2>1, <2>2, <2>3
<1>7. G \in Carried /\ G.rest = y /\ G.open = FALSE /\ G.held = FALSE
  BY <1>1, MoreIs
<1>8. z # <<>> /\ ~Waits(h) /\ z \o x \in Text /\ z \o x # <<>> /\ (z \o x)[1] = z[1] /\ z[1] \in {"t", "["}
  <2> HIDE DEF j, s, h
  <2>1. Len(z) > 0 /\ Len(z) \in Nat
    BY <1>1, <1>2, <1>4
  <2>2. z # <<>>
    BY <1>4, <2>1, TextIs
  <2>3. z \o x \in Text /\ Len(z \o x) = Len(z) + Len(x) /\ Len(x) \in Nat /\ (z \o x)[1] = z[1]
    <3>1. 1 \in 1 .. Len(z)
      BY <2>1
    <3> QED
      BY <1>4, <3>1, PartsIs
  <2>4. z \o x # <<>>
    BY <2>1, <2>3, TextIs
  <2> QED
    BY <1>2, <1>4, <1>5, <2>2, <2>3, <2>4 DEF Waits
<1>9. H \in Carried /\ H.rest = z \o x /\ H.open = FALSE /\ H.held = FALSE
  <2> HIDE DEF h
  <2> QED
    BY <1>5, MoreIs
<1>10. Pass(g, w, FALSE) = At(h, FALSE)
  <2>1. Pass(g, w, FALSE) = IF s[j] = "t" THEN AtTick(h, FALSE) ELSE AtBracket(h, w, FALSE)
    BY <1>1, <1>2, PassIs
  <2> HIDE DEF h, j, s
  <2> QED
    BY <1>4, <1>5, <2>1
<1>11. Pass(G, w, atEnd) = At(H, atEnd)
  <2>1. Pass(G, w, atEnd) = IF y[j] = "t" THEN AtTick(Told(G, j - 1, w.german), atEnd)
                            ELSE AtBracket(Told(G, j - 1, w.german), w, atEnd)
    <3>1. j # 0
      BY <1>2
    <3> HIDE DEF G, y, s, j
    <3> QED
      BY <1>6, <1>7, <3>1, PassIs
  <2> HIDE DEF h, j, s, G, y, H
  <2> QED
    BY <1>4, <1>5, <1>6, <1>8, <1>9, <2>1
<1>12. Walk(At(H, atEnd), w, atEnd) = Walk(G, w, atEnd)
  <2> HIDE DEF G
  <2> QED
    BY <1>7, <1>11, FirstTurn
<1>13. IF At(h, FALSE).held THEN At(h, FALSE) = Hold(h) ELSE At(H, atEnd) = More(At(h, FALSE), x)
  <2> HIDE DEF h, j, s, G, y
  <2>1. CASE z[1] = "t"
    <3>1. At(h, FALSE) = AtTick(h, FALSE) /\ At(H, atEnd) = AtTick(H, atEnd)
      BY <1>5, <1>8, <1>9, <2>1
    <3>2. IF AtTick(h, FALSE).held THEN AtTick(h, FALSE) = Hold(h)
          ELSE AtTick(More(h, x), atEnd) = More(AtTick(h, FALSE), x)
      BY <1>5, <1>8, <2>1, AtTickStays
    <3> QED
      BY <3>1, <3>2
  <2>2. CASE z[1] = "["
    <3>1. At(h, FALSE) = AtBracket(h, w, FALSE) /\ At(H, atEnd) = AtBracket(H, w, atEnd)
      BY <1>5, <1>8, <1>9, <2>2
    <3>2. IF AtBracket(h, w, FALSE).held THEN AtBracket(h, w, FALSE) = Hold(h)
          ELSE AtBracket(More(h, x), w, atEnd) = More(AtBracket(h, w, FALSE), x)
      BY <1>5, <1>8, <2>2, AtBracketStays
    <3> QED
      BY <3>1, <3>2
  <2> QED
    BY <1>8, <2>1, <2>2
<1>14. CASE At(h, FALSE).held
  <2>1. More(At(h, FALSE), x) = H
    <3> HIDE DEF h
    <3> QED
      BY <1>5, <1>13, <1>14, HoldMore
  <2>2. NextMark(H.rest) = 1
    <3> DEFINE r == z \o x
    <3>1. r \in Text /\ 1 \in 1 .. Len(r) /\ r[1] \in {"t", "["}
      <4>1. r \in Text /\ r # <<>> /\ r[1] \in {"t", "["}
        BY <1>8
      <4> HIDE DEF r
      <4>2. Len(r) \in Nat /\ Len(r) # 0
        BY <4>1, TextIs
      <4> QED
        BY <4>1, <4>2
    <3> HIDE DEF r
    <3> DEFINE o == 1
    <3>2. o \in 1 .. Len(r) /\ r[o] \in {"t", "["} /\ \A k \in 1 .. o - 1 : r[k] \notin {"t", "["}
      BY <3>1
    <3> HIDE DEF o
    <3>3. FirstOf(r, {"t", "["}) = o
      BY <3>1, <3>2, FirstOfGiven
    <3> QED
      BY <1>9, <3>3 DEF NextMark, r, o
  <2>3. Pass(H, w, atEnd) = At(H, atEnd)
    <3> DEFINE o == NextMark(H.rest)
               d == o - 1
    <3> HIDE DEF H
    <3>1. H.rest # <<>> /\ o # 0
      BY <1>8, <1>9, <2>2
    <3>2. Pass(H, w, atEnd) = IF H.rest[o] = "t" THEN AtTick(Told(H, d, w.german), atEnd)
                              ELSE AtBracket(Told(H, d, w.german), w, atEnd)
      BY <1>9, <3>1, PassIs
    <3>3. d = 0 /\ o = 1
      BY <2>2
    <3> HIDE DEF d, o
    <3>4. Told(H, d, w.german) = H
      BY <1>9, <3>3, ToldNone
    <3> QED
      BY <3>2, <3>3, <3>4
  <2>4. Walk(At(H, atEnd), w, atEnd) = Walk(H, w, atEnd)
    <3> HIDE DEF H
    <3> QED
      BY <1>9, <2>3, FirstTurn
  <2> HIDE DEF At, h, H
  <2> QED
    BY <1>10, <1>12, <2>1, <2>4
<1>15. CASE ~At(h, FALSE).held
  <2> HIDE DEF At, h, H
  <2> QED
    BY <1>10, <1>12, <1>13, <1>15
<1> QED
  BY <1>14, <1>15

(* One turn, more text, and on: the walk of the whole.                     *)
LEMMA PassResumes ==
  ASSUME NEW g \in Carried, NEW x \in Text, NEW w, w.sources \in Nat, w.german \in BOOLEAN, NEW atEnd \in BOOLEAN
  PROVE  Walk(More(Pass(g, w, FALSE), x), w, atEnd) = Walk(More(g, x), w, atEnd)
<1> DEFINE s == g.rest
           G == More(g, x)
<1>1. s \in Text /\ g.open \in BOOLEAN
  BY DEF Carried
<1>2. CASE Waits(g)
  BY <1>2, PassFits DEF Waits
<1>3. CASE ~Waits(g) /\ g.open
  <2>1. Pass(g, w, FALSE) = InFence(g, FALSE)
    BY <1>3, PassIs DEF Waits
  <2> QED
    BY <1>3, <2>1, FenceResumes
<1>4. CASE ~Waits(g) /\ ~g.open /\ NextMark(s) # 0
  BY <1>4, MarkResumes
<1>5. CASE ~Waits(g) /\ ~g.open /\ NextMark(s) = 0
  <2> DEFINE n == ProseEnd(s, w, FALSE)
             h == Told(g, n, w.german)
  <2>1. Pass(g, w, FALSE) = Hold(h)
    BY <1>5, PassIs DEF Waits
  <2>2. n \in 0 .. Len(s) /\ EndsProse(s, n, w.german)
    <3> HIDE DEF s
    <3>1. /\ BeforeLastWord(s) \in 0 .. Len(s) /\ Len(s) \in Nat
          /\ BeforeLastWord(s) > 0 => s[BeforeLastWord(s)] \in Spaces
      BY <1>1, LastBlankIs, TextIs
    <3>2. n = IF w.german THEN BeforeLastWord(s) ELSE Len(s)
      BY DEF ProseEnd
    <3> HIDE DEF n
    <3> QED
      BY <3>1, <3>2 DEF EndsProse
  <2> HIDE DEF n
  <2>3. h \in Carried /\ Told(G, n, w.german) = More(h, x)
    BY <2>2, ToldIs
  <2>4. G \in Carried /\ G.rest = s \o x /\ G.open = g.open /\ G.held = FALSE
    BY MoreIs
  <2>5. n \in 0 .. Len(G.rest) /\ SubSeq(G.rest, 1, n) = SubSeq(s, 1, n) /\ EndsProse(G.rest, n, w.german)
    <3> DEFINE y == s \o x
    <3> HIDE DEF G, s
    <3>1. Len(y) = Len(s) + Len(x) /\ Len(s) \in Nat /\ Len(x) \in Nat /\ \A k \in 1 .. Len(s) : y[k] = s[k]
      BY <1>1, PartsIs
    <3>2. SubSeq(y, 1, n) = SubSeq(s, 1, n)
      <4>1. s \in Seq(Alphabet) /\ x \in Seq(Alphabet)
        BY <1>1 DEF Text
      <4> QED
        BY <2>2, <4>1, FromConcat
    <3> HIDE DEF y
    <3>3. n \in 0 .. Len(y)
      BY <2>2, <3>1
    <3>4. EndsProse(y, n, w.german)
      <4>1. CASE n = 0
        BY <4>1 DEF EndsProse
      <4>2. CASE n # 0
        <5>1. n \in 1 .. Len(s)
          BY <2>2, <3>1, <4>2
        <5> QED
          BY <2>2, <3>1, <4>2, <5>1 DEF EndsProse
      <4> QED
        BY <4>1, <4>2
    <3> QED
      BY <2>4, <3>2, <3>3, <3>4 DEF y
  <2>6. NextMark(SubSeq(s, 1, n)) = 0
    <3> HIDE DEF s
    <3>1. \A k \in 1 .. Len(s) : s[k] \notin {"t", "["}
      <4>1. FirstOf(s, {"t", "["}) = 0
        BY <1>5 DEF NextMark
      <4> QED
        BY <1>1, <4>1, FirstOfIs
    <3> DEFINE p == SubSeq(s, 1, n)
    <3>2. p \in Text /\ Len(p) = n /\ \A k \in 1 .. n : p[k] = s[k]
      BY <1>1, <2>2, TextFrom
    <3> HIDE DEF p
    <3>3. Len(s) \in Nat
      BY <1>1, TextIs
    <3>4. \A k \in 1 .. Len(p) : p[k] \notin {"t", "["}
      BY <2>2, <3>1, <3>2, <3>3
    <3>5. FirstOf(p, {"t", "["}) = 0
      BY <3>2, <3>4, FirstOfGiven
    <3> QED
      BY <3>5 DEF NextMark, p
  <2>7. Walk(Told(G, n, w.german), w, atEnd) = Walk(G, w, atEnd)
    <3>1. NextMark(SubSeq(G.rest, 1, n)) = 0 /\ ~G.held /\ ~G.open
      BY <1>5, <2>4, <2>5, <2>6
    <3> HIDE DEF G
    <3> QED
      BY <2>4, <2>5, <3>1, ProseResumes
  <2>8. More(Hold(h), x) = More(h, x)
    <3> HIDE DEF h
    <3> QED
      BY <2>3, HoldMore
  <2> QED
    BY <2>1, <2>3, <2>7, <2>8
<1> QED
  BY <1>2, <1>3, <1>4, <1>5

(* A walk, more text, and on: the walk of the whole.                       *)
LEMMA WalkResumes ==
  ASSUME NEW g \in Carried, NEW x \in Text, NEW w, w.sources \in Nat, w.german \in BOOLEAN, NEW atEnd \in BOOLEAN
  PROVE  Walk(More(Walk(g, w, FALSE), x), w, atEnd) = Walk(More(g, x), w, atEnd)
<1> DEFINE L == Len(g.rest)
<1>1. L \in Nat
  BY TextIs DEF Carried
<1>2. PICK m : Turns(m, g, w, FALSE, L) /\ Walk(g, w, FALSE) = m[L]
  BY WalkIs
<1> HIDE DEF L
<1>3. /\ m[0] = g /\ \A i \in 1 .. L : m[i] = Pass(m[i - 1], w, FALSE)
      /\ \A i \in 0 .. L : m[i] \in Carried
  <2> DEFINE e == FALSE
  <2>1. e \in BOOLEAN /\ Turns(m, g, w, e, L)
    BY <1>2
  <2> HIDE DEF e
  <2>2. /\ m[0] = g /\ \A i \in 1 .. L : m[i] = Pass(m[i - 1], w, e)
        /\ \A i \in 0 .. L : m[i] \in Carried /\ (Waits(m[i]) \/ Len(m[i].rest) + i <= Len(g.rest))
    BY <1>1, <2>1, TurnsTyped
  <2> QED
    BY <2>2 DEF e
<1> DEFINE N == {i \in Nat : i <= L => Walk(More(m[i], x), w, atEnd) = Walk(More(g, x), w, atEnd)}
<1>4. 0 \in N
  BY <1>3
<1>5. ASSUME NEW i \in Nat, i \in N
      PROVE  i + 1 \in N
  <2>1. SUFFICES ASSUME i + 1 <= L
                 PROVE  Walk(More(m[i + 1], x), w, atEnd) = Walk(More(g, x), w, atEnd)
    OBVIOUS
  <2>2. i + 1 \in 1 .. L /\ (i + 1) - 1 = i /\ i \in 0 .. L /\ i <= L
    BY <1>1, <2>1
  <2>3. m[i + 1] = Pass(m[i], w, FALSE) /\ m[i] \in Carried
    BY <1>3, <2>2
  <2>4. Walk(More(Pass(m[i], w, FALSE), x), w, atEnd) = Walk(More(m[i], x), w, atEnd)
    BY <2>3, PassResumes
  <2>5. Walk(More(m[i], x), w, atEnd) = Walk(More(g, x), w, atEnd)
    BY <1>5, <2>2
  <2> QED
    BY <2>3, <2>4, <2>5
<1> HIDE DEF N
<1>6. \A i \in Nat : i \in N
  BY <1>4, <1>5, CountInduction
<1>7. L \in N
  BY <1>1, <1>6
<1>8. L <= L => Walk(More(m[L], x), w, atEnd) = Walk(More(g, x), w, atEnd)
  BY <1>7 DEF N
<1>9. L <= L
  BY <1>1
<1> QED
  BY <1>2, <1>8, <1>9

-----------------------------------------------------------------------------
(* The stream.                                                             *)

(* What feed hands to decide, behind what is out already.                  *)
LEMMA BeginBehind ==
  ASSUME NEW g \in Carried, NEW x \in Text
  PROVE  /\ Begin(g.rest \o x, g.open, g.order) \in Carried
         /\ Behind(g.out, Begin(g.rest \o x, g.open, g.order)) = More(g, x)
<1>1. g.rest \in Text /\ g.out \in Text /\ g.open \in BOOLEAN /\ g.order \in Seq(Int)
  BY DEF Carried
<1> DEFINE y == g.rest \o x
           b == Begin(y, g.open, g.order)
<1>2. y \in Text
  BY <1>1, PartsIs
<1>3. /\ b \in Carried
      /\ b.rest = y /\ b.out = <<>> /\ b.open = g.open /\ b.order = g.order /\ b.held = FALSE
  <2> HIDE DEF y
  <2> QED
    BY <1>1, <1>2, SymbolsAreText DEF Begin, Carried
<1> HIDE DEF b
<1>4. /\ Behind(g.out, b) \in Carried
      /\ Behind(g.out, b).rest = b.rest /\ Behind(g.out, b).out = g.out \o b.out
      /\ Behind(g.out, b).open = b.open /\ Behind(g.out, b).order = b.order /\ Behind(g.out, b).held = b.held
  BY <1>1, <1>3, BehindIs
<1>5. g.out \o <<>> = g.out
  <2> DEFINE a == g.out
  <2>1. a \in Text
    BY <1>1
  <2> HIDE DEF a
  <2>2. a \o <<>> = a
    BY <2>1 DEF Text
  <2> QED
    BY <2>2 DEF a
<1>6. /\ More(g, x) \in Carried
      /\ More(g, x).rest = y /\ More(g, x).out = g.out /\ More(g, x).open = g.open
      /\ More(g, x).order = g.order /\ More(g, x).held = FALSE
  BY MoreIs
<1>7. Behind(g.out, b) = More(g, x)
  <2> HIDE DEF y
  <2> QED
    BY <1>3, <1>4, <1>5, <1>6, CarriedEqual
<1> QED
  BY <1>3, <1>7 DEF b

LEMMA NothingMore ==
  ASSUME NEW s \in Text
  PROVE  s \o <<>> = s /\ <<>> \o s = s
BY DEF Text

\* What has come of the text s, at any way to go on.
Stands(g, s, w) ==
  \A x \in Text : \A e \in BOOLEAN :
    Walk(Begin(s \o x, FALSE, <<>>), w, e) = Walk(More(g, x), w, e)

LEMMA BeginStands ==
  ASSUME NEW w
  PROVE  Begin(<<>>, FALSE, <<>>) \in Carried /\ Stands(Begin(<<>>, FALSE, <<>>), <<>>, w)
<1> DEFINE z == <<>>
           g == Begin(z, FALSE, z)
<1>1. z \in Text /\ z \in Seq(Int) /\ FALSE \in BOOLEAN
  BY SymbolsAreText
<1>2. g \in Carried /\ g.rest = z /\ g.out = <<>> /\ g.open = FALSE /\ g.order = z
  <2> HIDE DEF z
  <2> QED
    BY <1>1, SymbolsAreText DEF Begin, Carried
<1>3. ASSUME NEW x \in Text
      PROVE  Begin(z \o x, FALSE, z) = More(g, x)
  <2>1. z \o x = x /\ g.rest \o x = x
    BY <1>2, NothingMore
  <2>2. More(g, x) \in Carried /\ More(g, x).rest = x /\ More(g, x).out = <<>> /\ More(g, x).open = FALSE
        /\ More(g, x).order = z /\ More(g, x).held = FALSE
    BY <1>2, <2>1, MoreIs
  <2> HIDE DEF z
  <2>3. /\ Begin(x, FALSE, z) \in Carried
        /\ Begin(x, FALSE, z).rest = x /\ Begin(x, FALSE, z).out = <<>> /\ Begin(x, FALSE, z).open = FALSE
        /\ Begin(x, FALSE, z).order = z /\ Begin(x, FALSE, z).held = FALSE
    BY <1>1, SymbolsAreText DEF Begin, Carried
  <2> HIDE DEF g
  <2> QED
    BY <2>1, <2>2, <2>3, CarriedEqual
<1> QED
  BY <1>2, <1>3 DEF Stands

(* feed: what has come of a text and a token stands for both.              *)
LEMMA FeedStands ==
  ASSUME NEW w, w.sources \in Nat, w.german \in BOOLEAN, NEW g \in Carried, NEW s \in Text, Stands(g, s, w),
         NEW t \in Text, NEW got, got = Walk(Begin(g.rest \o t, g.open, g.order), w, FALSE),
         NEW h, h = [rest |-> got.rest, out |-> g.out \o got.out, open |-> got.open, order |-> got.order, held |-> FALSE]
  PROVE  h \in Carried /\ Stands(h, s \o t, w)
<1> DEFINE b == Begin(g.rest \o t, g.open, g.order)
<1>1. b \in Carried /\ Behind(g.out, b) = More(g, t) /\ g.out \in Text
  BY BeginBehind DEF Carried
<1> HIDE DEF b
<1>2. got = Walk(b, w, FALSE)
  BY DEF b
<1>3. got \in Carried
  BY <1>1, <1>2, WalkTyped
<1>4. Behind(g.out, got) = Walk(More(g, t), w, FALSE)
  <2>1. Walk(Behind(g.out, b), w, FALSE) = Behind(g.out, Walk(b, w, FALSE))
    BY <1>1, WalkBehind
  <2> QED
    BY <1>1, <1>2, <2>1
<1> DEFINE k == Behind(g.out, got)
<1>5. /\ k \in Carried /\ k.rest = got.rest /\ k.out = g.out \o got.out
      /\ k.open = got.open /\ k.order = got.order
  BY <1>1, <1>3, BehindIs
<1>6. h \in Carried /\ h.rest = k.rest /\ h.out = k.out /\ h.open = k.open /\ h.order = k.order
  <2> HIDE DEF k
  <2>1. h.rest = k.rest /\ h.out = k.out /\ h.open = k.open /\ h.order = k.order /\ h.held = FALSE
    BY <1>5
  <2>2. k.rest \in Text /\ k.out \in Text /\ k.open \in BOOLEAN /\ k.order \in Seq(Int)
    BY <1>5 DEF Carried
  <2>3. h = [rest |-> k.rest, out |-> k.out, open |-> k.open, order |-> k.order, held |-> FALSE]
    BY <1>5
  <2> QED
    BY <2>1, <2>2, <2>3 DEF Carried
<1>7. k = Walk(More(g, t), w, FALSE)
  BY <1>4
<1> HIDE DEF k
<1>8. ASSUME NEW x \in Text, NEW e \in BOOLEAN
      PROVE  Walk(Begin((s \o t) \o x, FALSE, <<>>), w, e) = Walk(More(h, x), w, e)
  <2>1. More(h, x) = More(k, x)
    BY <1>5, <1>6, MoreSame
  <2>2. More(g, t) \in Carried /\ t \o x \in Text
    BY MoreIs, PartsIs
  <2>3. Walk(More(Walk(More(g, t), w, FALSE), x), w, e) = Walk(More(More(g, t), x), w, e)
    <3> DEFINE d == More(g, t)
    <3>1. d \in Carried
      BY <2>2
    <3> HIDE DEF d
    <3>2. Walk(More(Walk(d, w, FALSE), x), w, e) = Walk(More(d, x), w, e)
      BY <3>1, WalkResumes
    <3> QED
      BY <3>2 DEF d
  <2>4. More(More(g, t), x) = More(g, t \o x)
    <3>1. g.rest \in Text
      BY DEF Carried
    <3>2. (g.rest \o t) \o x = g.rest \o (t \o x)
      BY <3>1, ThreeParts
    <3>3. /\ More(g, t).rest = g.rest \o t /\ More(g, t).out = g.out
          /\ More(g, t).open = g.open /\ More(g, t).order = g.order
      BY MoreIs
    <3> DEFINE a == More(More(g, t), x)
               c == More(g, t \o x)
               d == More(g, t)
    <3>4. /\ a \in Carried /\ a.rest = d.rest \o x /\ a.out = d.out /\ a.open = d.open
          /\ a.order = d.order /\ a.held = FALSE
      <4> HIDE DEF d
      <4>1. d \in Carried
        BY <2>2 DEF d
      <4> QED
        BY <4>1, MoreIs DEF a, d
    <3>5. /\ c \in Carried /\ c.rest = g.rest \o (t \o x) /\ c.out = g.out /\ c.open = g.open
          /\ c.order = g.order /\ c.held = FALSE
      BY <2>2, MoreIs
    <3>6. a.rest = c.rest /\ a.out = c.out /\ a.open = c.open /\ a.order = c.order /\ a.held = c.held
      BY <3>2, <3>3, <3>4, <3>5
    <3> HIDE DEF a, c
    <3>7. a = c
      BY <3>4, <3>5, <3>6, CarriedEqual
    <3> QED
      BY <3>7 DEF a, c
  <2>5. Walk(Begin(s \o (t \o x), FALSE, <<>>), w, e) = Walk(More(g, t \o x), w, e)
    BY <2>2 DEF Stands
  <2>6. (s \o t) \o x = s \o (t \o x)
    BY ThreeParts
  <2> QED
    BY <1>7, <2>1, <2>3, <2>4, <2>5, <2>6
<1> QED
  BY <1>6, <1>8 DEF Stands

(* flush: what has come is what one walk over the text gives.              *)
LEMMA EndStands ==
  ASSUME NEW w, w.sources \in Nat, w.german \in BOOLEAN, NEW g \in Carried, NEW s \in Text, Stands(g, s, w),
         NEW got, got = Walk(Begin(g.rest, g.open, g.order), w, TRUE)
  PROVE  LET whole == Walk(Begin(s, FALSE, <<>>), w, TRUE)
         IN  g.out \o got.out = whole.out /\ got.order = whole.order
<1> DEFINE z == <<>>
           b == Begin(g.rest, g.open, g.order)
           whole == Walk(Begin(s, FALSE, <<>>), w, TRUE)
<1>1. z \in Text /\ g.rest \in Text /\ g.out \in Text /\ g.rest \o z = g.rest /\ s \o z = s
  BY SymbolsAreText, NothingMore DEF Carried
<1>2. b \in Carried /\ Behind(g.out, b) = More(g, z)
  <2> HIDE DEF z
  <2>1. Begin(g.rest \o z, g.open, g.order) \in Carried
        /\ Behind(g.out, Begin(g.rest \o z, g.open, g.order)) = More(g, z)
    BY <1>1, BeginBehind
  <2> QED
    BY <1>1, <2>1
<1> HIDE DEF b
<1>3. got = Walk(b, w, TRUE) /\ got \in Carried
  BY <1>2, WalkTyped DEF b
<1>4. Behind(g.out, got) = Walk(More(g, z), w, TRUE)
  <2>1. Walk(Behind(g.out, b), w, TRUE) = Behind(g.out, Walk(b, w, TRUE))
    BY <1>1, <1>2, WalkBehind
  <2> QED
    BY <1>2, <1>3, <2>1
<1>5. Walk(Begin(s \o z, FALSE, <<>>), w, TRUE) = Walk(More(g, z), w, TRUE)
  <2> HIDE DEF z
  <2> QED
    BY <1>1 DEF Stands
<1>6. whole = Behind(g.out, got)
  BY <1>1, <1>4, <1>5
<1>7. Behind(g.out, got).out = g.out \o got.out /\ Behind(g.out, got).order = got.order
  BY <1>1, <1>3, BehindIs
<1> HIDE DEF whole
<1> QED
  BY <1>6, <1>7 DEF whole

(* What the reader has got starts whatever the whole text gives.           *)
LEMMA OutStarts ==
  ASSUME NEW w, w.sources \in Nat, w.german \in BOOLEAN, NEW g \in Carried, NEW s \in Text, Stands(g, s, w),
         NEW x \in Text
  PROVE  IsPrefix(g.out, Walk(Begin(s \o x, FALSE, <<>>), w, TRUE).out)
<1> DEFINE b == Begin(g.rest \o x, g.open, g.order)
           got == Walk(b, w, TRUE)
<1>1. b \in Carried /\ Behind(g.out, b) = More(g, x) /\ g.out \in Text
  BY BeginBehind DEF Carried
<1> HIDE DEF b
<1>2. got \in Carried /\ Walk(Behind(g.out, b), w, TRUE) = Behind(g.out, got)
  BY <1>1, WalkTyped, WalkBehind
<1> HIDE DEF got
<1>3. Walk(Begin(s \o x, FALSE, <<>>), w, TRUE) = Behind(g.out, got)
  BY <1>1, <1>2 DEF Stands
<1>4. Behind(g.out, got).out = g.out \o got.out /\ got.out \in Text
  BY <1>1, <1>2, BehindIs DEF Carried
<1> DEFINE p == g.out
           q == got.out
<1>5. p \in Text /\ q \in Text
  BY <1>1, <1>4
<1> HIDE DEF p, q
<1>6. /\ Len(p \o q) = Len(p) + Len(q) /\ Len(p) \in Nat /\ Len(q) \in Nat /\ p \o q \in Text
      /\ \A i \in 1 .. Len(p) : (p \o q)[i] = p[i]
  BY <1>5, PartsIs
<1>7. IsPrefix(p, p \o q)
  <2> DEFINE r == SubSeq(p \o q, 1, Len(p))
             n == Len(p)
  <2>1. n \in 0 .. Len(p \o q) /\ n = Len(p)
    BY <1>6
  <2> HIDE DEF n
  <2>2. SubSeq(p \o q, 1, n) \in Text /\ Len(SubSeq(p \o q, 1, n)) = n
        /\ \A i \in 1 .. n : SubSeq(p \o q, 1, n)[i] = (p \o q)[i]
    BY <1>6, <2>1, TextFrom
  <2>3. r \in Text /\ Len(r) = Len(p) /\ \A i \in 1 .. Len(p) : r[i] = p[i]
    BY <1>6, <2>1, <2>2
  <2> HIDE DEF r
  <2>4. r = p
    BY <1>5, <2>3, SeqEqual DEF Text
  <2>5. SubSeq(p \o q, 1, Len(p)) = p /\ Len(p) <= Len(p \o q)
    BY <1>6, <2>4 DEF r
  <2>6. SubSeq(p, 1, Len(p)) = p
    BY <1>5 DEF Text
  <2> QED
    BY <2>5, <2>6 DEF IsPrefix
<1> QED
  BY <1>3, <1>4, <1>7 DEF p, q

(* A token joins what has arrived.                                         *)
LEMMA TokenJoins ==
  ASSUME NEW y \in Text, NEW f \in 0 .. Len(y), NEW n \in Nat, n >= 1, f + n <= Len(y)
  PROVE  /\ SubSeq(y, f + 1, f + n) \in Text
         /\ SubSeq(y, 1, f) \o SubSeq(y, f + 1, f + n) = SubSeq(y, 1, f + n)
<1>1. Len(y) \in Nat /\ f \in Nat
  BY TextIs
<1> DEFINE p == f + 1
           q == f + n
           t == SubSeq(y, p, q)
           z == From(y, f + 1)
           u == SubSeq(z, 1, n)
<1>2. p \in 1 .. Len(y) /\ q \in p .. Len(y) /\ q - p + 1 = n /\ \A i \in 1 .. n : p + i - 1 = f + i
  BY <1>1
<1> HIDE DEF p, q
<1>3. t \in Text /\ Len(t) = n /\ \A i \in 1 .. n : t[i] = y[f + i]
  <2>1. t \in Text /\ Len(t) = q - p + 1 /\ \A i \in 1 .. q - p + 1 : t[i] = y[p + i - 1]
    BY <1>2, PartIs
  <2> HIDE DEF t
  <2> QED
    BY <1>2, <2>1
<1>4. z \in Text /\ Len(z) = Len(y) - f /\ \A i \in 1 .. Len(y) - f : z[i] = y[f + i]
  BY TextFrom
<1> HIDE DEF z, t
<1>5. n \in 0 .. Len(z) /\ n <= Len(y) - f
  BY <1>1, <1>4
<1>6. u \in Text /\ Len(u) = n /\ \A i \in 1 .. n : u[i] = z[i]
  BY <1>4, <1>5, TextFrom
<1> HIDE DEF u
<1>7. ASSUME NEW i \in 1 .. Len(t)
      PROVE  t[i] = u[i]
  <2>1. i \in 1 .. n /\ i \in 1 .. Len(y) - f
    BY <1>1, <1>3, <1>5
  <2> QED
    BY <1>3, <1>4, <1>6, <2>1
<1>8. t = u
  BY <1>3, <1>6, <1>7, SeqEqual DEF Text
<1>9. SubSeq(y, 1, f) \o u = SubSeq(y, 1, f + n)
  BY <1>1, BeginningsJoin DEF u, z
<1> QED
  BY <1>3, <1>8, <1>9 DEF t, p, q

-----------------------------------------------------------------------------
\* What feed carries from one token to the next.
Now == [rest |-> undecided, out |-> emitted, open |-> open, order |-> order, held |-> FALSE]

(* The inductive invariant of the stream: what is kept stands for all that  *)
(* has arrived, at any way the text can go on or end.                      *)
StreamInv ==
  /\ written \in Answers /\ fed \in 0 .. Len(written.text)
  /\ streaming \in {"open", "stored", "failed"}
  /\ streaming = "open" => Now \in Carried /\ Stands(Now, Arrived, written)
  /\ streaming \in {"stored", "failed"} => emitted = Whole(Arrived).out /\ order = Whole(Arrived).order

LEMMA AnswerIs ==
  ASSUME NEW a \in Answers
  PROVE  a.text \in Text /\ a.sources \in Nat /\ a.german \in BOOLEAN /\ Len(a.text) \in Nat
<1>1. a \in [text : Seq(Alphabet), sources : Nat, german : BOOLEAN]
  BY AnswersAssumption
<1>2. a.text \in Text /\ a.sources \in Nat /\ a.german \in BOOLEAN
  BY <1>1 DEF Text
<1> DEFINE s == a.text
<1>3. s \in Text
  BY <1>2
<1> HIDE DEF s
<1>4. Len(s) \in Nat
  BY <1>3, TextIs
<1> QED
  BY <1>2, <1>4 DEF s

(* What has arrived, and what is still to come.                            *)
LEMMA ArrivedIs ==
  ASSUME NEW y \in Text, NEW f \in 0 .. Len(y)
  PROVE  SubSeq(y, 1, f) \in Text /\ From(y, f + 1) \in Text /\ y = SubSeq(y, 1, f) \o From(y, f + 1)
BY TextFrom

LEMMA StreamBegins ==
  ASSUME StreamInit
  PROVE  StreamInv
<1>1. written \in Answers /\ fed = 0 /\ undecided = <<>> /\ open = FALSE /\ order = <<>> /\ emitted = <<>>
      /\ streaming = "open"
  BY DEF StreamInit
<1>2. written.text \in Text /\ Len(written.text) \in Nat
  BY <1>1, AnswerIs
<1> DEFINE y == written.text
           a == SubSeq(y, 1, 0)
<1>3. a = <<>>
  <2>1. y \in Text /\ 0 \in 0 .. Len(y)
    BY <1>2
  <2> HIDE DEF y
  <2>2. a \in Text /\ Len(a) = 0
    BY <2>1, TextFrom
  <2> HIDE DEF a
  <2> QED
    BY <2>2, TextIs
<1>4. Now = Begin(<<>>, FALSE, <<>>)
  BY <1>1 DEF Now, Begin
<1>5. Arrived = <<>>
  BY <1>1, <1>3 DEF Arrived
<1>6. Now \in Carried /\ Stands(Now, Arrived, written)
  BY <1>4, <1>5, BeginStands
<1>7. fed \in 0 .. Len(written.text)
  BY <1>1, <1>2
<1> QED
  BY <1>1, <1>6, <1>7 DEF StreamInv

(* A token keeps the invariant.                                            *)
LEMMA FeedKeeps ==
  ASSUME StreamInv, FeedToken
  PROVE  StreamInv'
<1>1. /\ streaming = "open" /\ written' = written /\ streaming' = "open"
      /\ written \in Answers /\ fed \in 0 .. Len(written.text) /\ Now \in Carried /\ Stands(Now, Arrived, written)
  BY DEF StreamInv, FeedToken
<1>2. PICK n \in 1 .. MaxToken :
        /\ fed + n <= Len(written.text) /\ fed' = fed + n
        /\ Take(Walk(Begin(undecided \o SubSeq(written.text, fed + 1, fed + n), open, order), written, FALSE))
  BY DEF FeedToken
<1> DEFINE t == SubSeq(written.text, fed + 1, fed + n)
           got == Walk(Begin(undecided \o t, open, order), written, FALSE)
           h == [rest |-> got.rest, out |-> emitted \o got.out, open |-> got.open, order |-> got.order, held |-> FALSE]
<1>3. written.text \in Text /\ written.sources \in Nat /\ written.german \in BOOLEAN /\ Len(written.text) \in Nat
  BY <1>1, AnswerIs
<1>4. n \in Nat /\ n >= 1 /\ fed \in Nat
  BY <1>1, <1>3, AnswersAssumption
<1>5. t \in Text /\ Arrived \in Text /\ Arrived' = Arrived \o t /\ fed' \in 0 .. Len(written'.text)
  <2>1. t \in Text /\ SubSeq(written.text, 1, fed) \o t = SubSeq(written.text, 1, fed + n)
    BY <1>1, <1>2, <1>3, <1>4, TokenJoins
  <2>2. SubSeq(written.text, 1, fed) \in Text
    BY <1>1, <1>3, ArrivedIs
  <2>3. fed' \in 0 .. Len(written'.text)
    BY <1>1, <1>2, <1>3, <1>4
  <2> QED
    BY <1>1, <1>2, <2>1, <2>2, <2>3 DEF Arrived
<1>6. Now.rest = undecided /\ Now.out = emitted /\ Now.open = open /\ Now.order = order
  BY DEF Now
<1> HIDE DEF t
<1>7. h \in Carried /\ Stands(h, Arrived \o t, written)
  <2>1. /\ got = Walk(Begin(Now.rest \o t, Now.open, Now.order), written, FALSE)
        /\ h = [rest |-> got.rest, out |-> Now.out \o got.out, open |-> got.open, order |-> got.order, held |-> FALSE]
    BY <1>6
  <2> HIDE DEF got, h
  <2> QED
    BY <1>1, <1>3, <1>5, <2>1, FeedStands
<1>8. Now' = h
  <2>1. Take(got)
    BY <1>2 DEF t
  <2> HIDE DEF got
  <2>2. emitted' = emitted \o got.out /\ undecided' = got.rest /\ open' = got.open /\ order' = got.order
    BY <2>1 DEF Take
  <2> QED
    BY <2>2 DEF Now
<1> HIDE DEF h
<1>9. Now' \in Carried /\ Stands(Now, Arrived, written)'
  <2>1. Stands(Now', Arrived', written')
    BY <1>1, <1>5, <1>7, <1>8
  <2> QED
    BY <1>7, <1>8, <2>1 DEF Stands
<1> QED
  BY <1>1, <1>5, <1>9 DEF StreamInv, Carried

(* The end of the stream keeps the invariant.                              *)
LEMMA EndKeeps ==
  ASSUME StreamInv, EndStream
  PROVE  StreamInv'
<1>1. /\ streaming = "open" /\ written' = written /\ fed' = fed /\ streaming' \in {"stored", "failed"}
      /\ written \in Answers /\ fed \in 0 .. Len(written.text) /\ Now \in Carried /\ Stands(Now, Arrived, written)
      /\ Take(Walk(Begin(undecided, open, order), written, TRUE))
  <2>1. streaming' \in {"stored", "failed"}
    BY DEF EndStream
  <2> QED
    BY <2>1 DEF StreamInv, EndStream
<1> DEFINE got == Walk(Begin(undecided, open, order), written, TRUE)
<1>2. written.text \in Text /\ written.sources \in Nat /\ written.german \in BOOLEAN
  BY <1>1, AnswerIs
<1>3. Arrived \in Text
  BY <1>1, <1>2, ArrivedIs DEF Arrived
<1>4. Now.rest = undecided /\ Now.out = emitted /\ Now.open = open /\ Now.order = order
  BY DEF Now
<1>5. emitted \o got.out = Whole(Arrived).out /\ got.order = Whole(Arrived).order
  <2>1. got = Walk(Begin(Now.rest, Now.open, Now.order), written, TRUE)
    BY <1>4
  <2> HIDE DEF got
  <2>2. LET whole == Walk(Begin(Arrived, FALSE, <<>>), written, TRUE)
        IN  Now.out \o got.out = whole.out /\ got.order = whole.order
    BY <1>1, <1>2, <1>3, <2>1, EndStands
  <2> QED
    BY <1>4, <2>2 DEF Whole
<1>6. emitted' = emitted \o got.out /\ order' = got.order
  BY <1>1 DEF Take
<1> HIDE DEF got
<1>7. Arrived' = Arrived /\ Whole(Arrived)' = Whole(Arrived)
  <2>1. Arrived' = Arrived
    BY <1>1 DEF Arrived
  <2> QED
    BY <1>1, <2>1 DEF Whole
<1>8. emitted' = Whole(Arrived)'.out /\ order' = Whole(Arrived)'.order
  BY <1>5, <1>6, <1>7
<1>9. streaming' # "open"
  BY <1>1
<1> QED
  BY <1>1, <1>8, <1>9 DEF StreamInv

(* The invariant holds the property: the rest of the text is one way on.   *)
LEMMA StreamInvHolds ==
  ASSUME StreamInv
  PROVE  StreamIsWhole
<1>1. CASE streaming = "open"
  <2>1. /\ written \in Answers /\ fed \in 0 .. Len(written.text)
        /\ Now \in Carried /\ Stands(Now, Arrived, written)
    BY <1>1 DEF StreamInv
  <2>2. written.text \in Text /\ written.sources \in Nat /\ written.german \in BOOLEAN
    BY <2>1, AnswerIs
  <2>3. /\ Arrived \in Text /\ From(written.text, fed + 1) \in Text
        /\ written.text = Arrived \o From(written.text, fed + 1)
    BY <2>1, <2>2, ArrivedIs DEF Arrived
  <2>4. IsPrefix(Now.out, Walk(Begin(Arrived \o From(written.text, fed + 1), FALSE, <<>>), written, TRUE).out)
    BY <2>1, <2>2, <2>3, OutStarts
  <2>5. IsPrefix(emitted, Whole(written.text).out)
    <3>1. Now.out = emitted
      BY DEF Now
    <3> QED
      BY <2>3, <2>4, <3>1 DEF Whole
  <2>6. streaming \notin {"stored", "failed"}
    BY <1>1
  <2> QED
    BY <2>5, <2>6 DEF StreamIsWhole
<1>2. CASE streaming \in {"stored", "failed"}
  BY <1>2 DEF StreamInv, StreamIsWhole
<1> QED
  BY <1>1, <1>2 DEF StreamInv

(* Wherever the tokens are cut, the reader gets what one pass over the whole *)
(* text gives, and what was shown is never taken back (StreamIsWhole), for  *)
(* any text, any tokens, any sources, in German or not.                     *)
THEOREM StreamStaysWhole == StreamSpec => []StreamIsWhole
<1>1. StreamInit => StreamInv
  BY StreamBegins
<1>2. StreamInv /\ [StreamNext]_streamVars => StreamInv'
  <2> SUFFICES ASSUME StreamInv, [StreamNext]_streamVars
               PROVE  StreamInv'
    OBVIOUS
  <2>1. CASE FeedToken
    BY <2>1, FeedKeeps
  <2>2. CASE EndStream
    BY <2>2, EndKeeps
  <2>3. CASE UNCHANGED streamVars
    BY <2>3 DEF streamVars, StreamInv, Now, Arrived, Whole, Stands
  <2> QED
    BY <2>1, <2>2, <2>3 DEF StreamNext
<1>3. StreamInv => StreamIsWhole
  BY StreamInvHolds
<1> QED
  BY <1>1, <1>2, <1>3, PTL DEF StreamSpec

(* denseOf, decide: the reader's numbers.  An order is sound when each of   *)
(* its places names a source and no two name the same one.                 *)
Listed(k, n) ==
  /\ \A d \in 1 .. Len(k) : k[d] \in 1 .. n
  /\ \A d, e \in 1 .. Len(k) : k[d] = k[e] => d = e

LEMMA MintLists ==
  ASSUME NEW known \in Seq(Int), NEW X, NEW nums \in Seq(X), NEW n \in Nat, Listed(known, n)
  PROVE  Listed(Mint(known, nums, n), n)
<1> DEFINE S == {i \in DOMAIN nums : /\ nums[i] \in 1 .. n /\ ~Contains(known, nums[i])
                                     /\ \A j \in 1 .. i - 1 : nums[j] # nums[i]}
           r == Picked(nums, S)
           a == Len(known)
           c == Cardinality(S)
<1>1. DOMAIN nums = 1 .. Len(nums) /\ Len(nums) \in Nat /\ S \in SUBSET (1 .. Len(nums))
      /\ DOMAIN known = 1 .. a /\ a \in Nat
  OBVIOUS
<1>2. Mint(known, nums, n) = known \o r
  BY DEF Mint
<1>3. \A i \in S : nums[i] \in 1 .. n /\ \A d \in 1 .. a : known[d] # nums[i]
  BY <1>1 DEF Contains
<1>4. ASSUME NEW i \in S, NEW j \in S, nums[i] = nums[j]
      PROVE  i = j
  <2>1. i \in Int /\ j \in Int /\ i >= 1 /\ j >= 1
    BY <1>1
  <2>2. ~(i < j)
    <3>1. i < j => i \in 1 .. j - 1
      BY <2>1
    <3> QED
      BY <1>4, <3>1
  <2>3. ~(j < i)
    <3>1. j < i => j \in 1 .. i - 1
      BY <2>1
    <3> QED
      BY <1>4, <3>1
  <2> QED
    BY <2>1, <2>2, <2>3
<1>5. /\ r \in Seq(X) /\ Len(r) = c /\ c \in Nat
      /\ \A i \in S : PlaceIn(S, i) \in 1 .. c /\ r[PlaceIn(S, i)] = nums[i]
      /\ \A m \in 1 .. c : \E i \in S : PlaceIn(S, i) = m
  <2>1. S \in SUBSET (1 .. Len(nums))
    BY <1>1
  <2> HIDE DEF S
  <2> QED
    BY <2>1, PickedIs
<1> HIDE DEF S, r
<1>6. \A m \in 1 .. c : r[m] \in 1 .. n /\ \A d \in 1 .. a : known[d] # r[m]
  BY <1>3, <1>5
<1>7. \A m, l \in 1 .. c : r[m] = r[l] => m = l
  BY <1>4, <1>5
<1> DEFINE k == known \o r
<1>8. Len(k) = a + c /\ \A d \in 1 .. a + c : k[d] = IF d <= a THEN known[d] ELSE r[d - a]
  <2>1. \A m \in 1 .. Len(r) : r[m] \in Int
    BY <1>5, <1>6
  <2>2. r \in Seq(Int)
    <3> DEFINE l == Len(r)
    <3>1. l \in Nat /\ r = [m \in 1 .. l |-> r[m]]
      BY <1>5
    <3> HIDE DEF l
    <3>2. [m \in 1 .. l |-> r[m]] \in Seq(Int)
      BY <2>1, <3>1, IsASeq DEF l
    <3> QED
      BY <3>1, <3>2
  <2> DEFINE u == known \o r
  <2>3. /\ Len(u) = Len(known) + Len(r)
        /\ \A d \in 1 .. Len(known) + Len(r) : u[d] = IF d <= Len(known) THEN known[d] ELSE r[d - Len(known)]
    BY <2>2, ConcatProperties
  <2> HIDE DEF u
  <2> QED
    BY <1>5, <2>3 DEF u
<1> HIDE DEF k, a, c
<1>9. a \in Nat /\ c \in Nat
  BY <1>1, <1>5
<1>10. \A d \in 1 .. a + c : /\ d <= a => d \in 1 .. a
                             /\ ~(d <= a) => d - a \in 1 .. c
  BY <1>9
<1>11. \A d \in 1 .. a : known[d] \in 1 .. n
  BY DEF Listed, a
<1>12. \A d, e \in 1 .. a : known[d] = known[e] => d = e
  BY DEF Listed, a
<1>13. \A d \in 1 .. Len(k) : k[d] \in 1 .. n
  BY <1>6, <1>8, <1>10, <1>11
<1>14. ASSUME NEW d \in 1 .. Len(k), NEW e \in 1 .. Len(k), k[d] = k[e]
       PROVE  d = e
  <2>1. d \in 1 .. a + c /\ e \in 1 .. a + c
    BY <1>8
  <2>2. CASE d <= a /\ e <= a
    BY <1>8, <1>10, <1>12, <1>14, <2>1, <2>2
  <2>3. CASE d <= a /\ ~(e <= a)
    BY <1>6, <1>8, <1>10, <1>14, <2>1, <2>3
  <2>4. CASE ~(d <= a) /\ e <= a
    BY <1>6, <1>8, <1>10, <1>14, <2>1, <2>4
  <2>5. CASE ~(d <= a) /\ ~(e <= a)
    <3>1. d - a = e - a
      BY <1>7, <1>8, <1>10, <1>14, <2>1, <2>5
    <3> QED
      BY <1>9, <2>1, <3>1
  <2> QED
    BY <2>2, <2>3, <2>4, <2>5
<1> QED
  BY <1>2, <1>13, <1>14 DEF Listed, k

LEMMA OpenedMintsNothing ==
  ASSUME NEW g \in Carried, NEW b
  PROVE  Opened(g, b).order = g.order
BY DEF Opened, Carried

(* Only a marker mints; the other turns of the loop leave the order alone.  *)
LEMMA FenceMintsNothing ==
  ASSUME NEW g \in Carried, NEW atEnd \in BOOLEAN
  PROVE  InFence(g, atEnd).order = g.order
<1> DEFINE s == g.rest
           f == FirstFence(s)
           n == IF atEnd THEN Len(s) ELSE Len(s) - Ticks(s)
<1>1. s \in Text /\ Len(s) \in Nat
  BY TextIs DEF Carried
<1>2. f > 0 => f + 2 \in 0 .. Len(s)
  <2>1. f \in 0 .. Len(s) /\ (f > 0 => f \in 1 .. Len(s) - 2)
    BY <1>1, FirstFenceIs
  <2> QED
    BY <1>1, <2>1
<1>3. n \in 0 .. Len(s)
  BY <1>1, TicksAre
<1>4. InFence(g, atEnd) = IF f > 0 THEN Opened(Said(g, f + 2), FALSE) ELSE Hold(Said(g, n))
  BY InFenceIs
<1> HIDE DEF f, n
<1>5. CASE f > 0
  <2>1. Said(g, f + 2) \in Carried /\ Said(g, f + 2).order = g.order
    BY <1>2, <1>5, SaidIs
  <2> QED
    BY <1>4, <1>5, <2>1, OpenedMintsNothing
<1>6. CASE ~(f > 0)
  <2>1. Said(g, n) \in Carried /\ Said(g, n).order = g.order
    BY <1>3, SaidIs
  <2> QED
    BY <1>4, <1>6, <2>1, HoldIs
<1> QED
  BY <1>5, <1>6

LEMMA TickMintsNothing ==
  ASSUME NEW g \in Carried, g.rest # <<>>, NEW atEnd \in BOOLEAN
  PROVE  AtTick(g, atEnd).order = g.order
<1> DEFINE s == g.rest
           head == HeadOf(s)
           span == SpanOf(s)
<1>1. s \in Text /\ Len(s) \in Nat /\ Len(s) > 0
  BY TextIs DEF Carried
<1>2. /\ IsPrefix(Fence, s) => 3 \in 1 .. Len(s)
      /\ head \in 1 .. Len(s) /\ span \in 1 .. Len(s) /\ 1 \in 1 .. Len(s)
  BY <1>1, TickPlaces
<1>3. \A n \in 1 .. Len(s) : /\ Said(g, n) \in Carried /\ Said(g, n).order = g.order
                             /\ Opened(Said(g, n), TRUE).order = g.order
  <2>1. \A n \in 1 .. Len(s) : n \in 0 .. Len(g.rest)
    BY <1>1
  <2> QED
    BY <2>1, SaidIs, OpenedMintsNothing
<1>4. Hold(g).order = g.order
  BY HoldIs
<1>5. \/ AtTick(g, atEnd) \in {Hold(g), Said(g, span), Said(g, 1), Opened(Said(g, head), TRUE)}
      \/ IsPrefix(Fence, s) /\ AtTick(g, atEnd) = Opened(Said(g, 3), TRUE)
  BY AtTickIs
<1> HIDE DEF head, span, s
<1> QED
  BY <1>2, <1>3, <1>4, <1>5

LEMMA BracketLists ==
  ASSUME NEW g \in Carried, g.rest # <<>>, NEW w, w.sources \in Nat, NEW atEnd \in BOOLEAN,
         Listed(g.order, w.sources)
  PROVE  Listed(AtBracket(g, w, atEnd).order, w.sources)
<1> DEFINE s == g.rest
           e == ChainEnd(s)
           c == SubSeq(s, 1, e)
           new == RewriteChain(c, w.sources, g.order)
           b == <<"[">>
<1>1. s \in Text /\ Len(s) \in Nat /\ Len(s) > 0 /\ g.order \in Seq(Int)
  BY TextIs DEF Carried
<1>2. e \in 0 .. Len(s) /\ c \in Text
  BY <1>1, ChainEndIs, TextFrom
<1>3. new.out \in Text /\ new.order \in Seq(Int)
  <2> HIDE DEF c
  <2> QED
    BY <1>1, <1>2, RewriteTyped
<1>4. Listed(new.order, w.sources)
  <2>1. Numbers(c) \in Seq({NumberAt(c, p) : p \in RunStarts(c)})
    <3> HIDE DEF c
    <3> QED
      BY <1>2, NumbersAre
  <2>2. Listed(Mint(g.order, Numbers(c), w.sources), w.sources)
    <3> DEFINE X == {NumberAt(c, p) : p \in RunStarts(c)}
               nums == Numbers(c)
    <3>1. nums \in Seq(X)
      BY <2>1
    <3> HIDE DEF X, nums
    <3>2. Listed(Mint(g.order, nums, w.sources), w.sources)
      BY <1>1, <3>1, MintLists
    <3> QED
      BY <3>2 DEF nums
  <2>3. new.order = Mint(g.order, Numbers(c), w.sources)
    BY DEF RewriteChain
  <2> QED
    BY <2>2, <2>3
<1> DEFINE c1 == ~atEnd /\ MayGrow(From(s, e + 1))
           c2 == ~atEnd /\ HalfMarker(s)
<1>5. AtBracket(g, w, atEnd) =
        IF e > 0 THEN IF c1 THEN Hold(g) ELSE Ordered(Tell(g, e, new.out), new.order)
        ELSE IF c2 THEN Hold(g) ELSE Tell(g, 1, b)
  BY AtBracketIs
<1>6. b \in Text
  BY SymbolsAreText DEF Alphabet
<1>7. 1 \in 0 .. Len(g.rest)
  BY <1>1
<1>8. Hold(g).order = g.order
  BY HoldIs
<1> HIDE DEF e, c, new, b, c1, c2
<1>9. Tell(g, 1, b).order = g.order
  BY <1>6, <1>7, TellIs
<1>10. Ordered(Tell(g, e, new.out), new.order).order = new.order
  BY <1>2, <1>3, TellIs, OrderedIs
<1> QED
  BY <1>4, <1>5, <1>8, <1>9, <1>10

LEMMA PassLists ==
  ASSUME NEW g \in Carried, NEW w, w.sources \in Nat, w.german \in BOOLEAN, NEW atEnd \in BOOLEAN,
         Listed(g.order, w.sources)
  PROVE  Listed(Pass(g, w, atEnd).order, w.sources)
<1> DEFINE s == g.rest
           j == NextMark(s)
           n == ProseEnd(s, w, atEnd)
<1>1. s \in Text /\ Len(s) \in Nat
  BY TextIs DEF Carried
<1>2. CASE g.held \/ s = <<>>
  BY <1>2, PassFits
<1>3. CASE ~(g.held \/ s = <<>>)
  <2>1. Pass(g, w, atEnd) =
           IF g.open THEN InFence(g, atEnd)
           ELSE IF j = 0 THEN Hold(Told(g, n, w.german))
           ELSE IF s[j] = "t" THEN AtTick(Told(g, j - 1, w.german), atEnd)
           ELSE AtBracket(Told(g, j - 1, w.german), w, atEnd)
    BY <1>3, PassIs
  <2>2. j \in 0 .. Len(s)
    BY <1>1, FirstOfIs DEF NextMark
  <2>3. n \in 0 .. Len(s)
    BY <1>1, LastBlankIs DEF ProseEnd
  <2> DEFINE c == s[j] = "t"
  <2> HIDE DEF j, n, c
  <2>4. CASE g.open
    BY <2>1, <2>4, FenceMintsNothing
  <2>5. CASE ~g.open /\ j = 0
    <3>1. Told(g, n, w.german) \in Carried /\ Told(g, n, w.german).order = g.order
      BY <2>3, ToldIs
    <3> QED
      BY <2>1, <2>5, <3>1, HoldIs
  <2>6. CASE ~g.open /\ j # 0
    <3> DEFINE t == Told(g, j - 1, w.german)
    <3>1. j - 1 \in 0 .. Len(s) /\ Len(s) - (j - 1) > 0
      BY <1>1, <2>2, <2>6
    <3>2. t \in Carried /\ Len(t.rest) = Len(s) - (j - 1) /\ t.order = g.order
      BY <3>1, ToldIs
    <3>3. Pass(g, w, atEnd) = IF c THEN AtTick(t, atEnd) ELSE AtBracket(t, w, atEnd)
      BY <2>1, <2>6 DEF c
    <3> HIDE DEF t
    <3>4. t.rest # <<>>
      <4>1. t.rest \in Text
        BY <3>2 DEF Carried
      <4> QED
        BY <3>1, <3>2, <4>1, TextIs
    <3>5. AtTick(t, atEnd).order = g.order
      BY <3>2, <3>4, TickMintsNothing
    <3>6. Listed(AtBracket(t, w, atEnd).order, w.sources)
      BY <3>2, <3>4, BracketLists
    <3> QED
      BY <3>3, <3>5, <3>6
  <2> QED
    BY <2>4, <2>5, <2>6
<1> QED
  BY <1>2, <1>3

LEMMA WalkLists ==
  ASSUME NEW g \in Carried, NEW w, w.sources \in Nat, w.german \in BOOLEAN, NEW atEnd \in BOOLEAN,
         Listed(g.order, w.sources)
  PROVE  Listed(Walk(g, w, atEnd).order, w.sources)
<1> DEFINE n == Len(g.rest)
<1>1. n \in Nat
  BY TextIs DEF Carried
<1>2. PICK m : Turns(m, g, w, atEnd, n) /\ Walk(g, w, atEnd) = m[n]
  BY WalkIs
<1> HIDE DEF n
<1>3. /\ m[0] = g /\ \A i \in 1 .. n : m[i] = Pass(m[i - 1], w, atEnd)
      /\ \A i \in 0 .. n : m[i] \in Carried
  BY <1>1, <1>2, TurnsTyped
<1> DEFINE N == {i \in Nat : i <= n => Listed(m[i].order, w.sources)}
<1>4. 0 \in N
  BY <1>3
<1>5. ASSUME NEW i \in Nat, i \in N
      PROVE  i + 1 \in N
  <2>1. SUFFICES ASSUME i + 1 <= n
                 PROVE  Listed(m[i + 1].order, w.sources)
    OBVIOUS
  <2>2. i \in 0 .. n /\ i <= n /\ i + 1 \in 1 .. n /\ (i + 1) - 1 = i
    BY <1>1, <2>1
  <2>3. Listed(m[i].order, w.sources)
    BY <1>5, <2>2
  <2>4. m[i] \in Carried /\ m[i + 1] = Pass(m[i], w, atEnd)
    BY <1>3, <2>2
  <2> QED
    BY <2>3, <2>4, PassLists
<1> HIDE DEF N
<1>6. n \in N
  BY <1>1, <1>4, <1>5, CountInduction
<1> QED
  BY <1>1, <1>2, <1>6 DEF N

(* What the order of the record must be, whatever was streamed so far.     *)
CitationsAreOne == IsInjective(order) /\ Range(order) \subseteq 1 .. written.sources

LEMMA TakingLists ==
  ASSUME StreamInv, streaming = "open", Listed(order, written.sources),
         NEW t \in Text, NEW atEnd \in BOOLEAN,
         Take(Walk(Begin(undecided \o t, open, order), written, atEnd)), written' = written
  PROVE  Listed(order, written.sources)'
<1> DEFINE b == Begin(undecided \o t, open, order)
<1>1. written \in Answers /\ Now \in Carried
  BY DEF StreamInv
<1>2. written.sources \in Nat /\ written.german \in BOOLEAN
  BY <1>1, AnswerIs
<1>3. b \in Carried /\ b.order = order
  <2>1. undecided \in Text /\ open \in BOOLEAN /\ order \in Seq(Int)
    BY <1>1 DEF Now, Carried
  <2>2. undecided \o t \in Text
    BY <2>1, PartsIs
  <2>3. <<>> \in Text
    BY DEF Text
  <2> QED
    BY <2>1, <2>2, <2>3 DEF Begin, Carried
<1> HIDE DEF b
<1>4. Listed(Walk(b, written, atEnd).order, written.sources)
  BY <1>2, <1>3, WalkLists
<1>5. order' = Walk(b, written, atEnd).order
  BY DEF Take, b
<1>6. Listed(order', written'.sources)
  BY <1>4, <1>5
<1> QED
  BY <1>6 DEF Listed

(* Under every number the reader sees there is one source, and no source    *)
(* goes under two numbers (NumbersCount's first clause, and not only once    *)
(* the answer is stored).                                                  *)
THEOREM CitationsStayOne == StreamSpec => []CitationsAreOne
<1> DEFINE Inv == StreamInv /\ order \in Seq(Int) /\ Listed(order, written.sources)
<1>1. StreamInit => Inv
  <2>1. ASSUME StreamInit
        PROVE  order \in Seq(Int) /\ Listed(order, written.sources)
    <3>1. order = <<>> /\ Len(order) = 0
      BY <2>1 DEF StreamInit
    <3> QED
      BY <3>1 DEF Listed
  <2> QED
    BY <2>1, StreamBegins
<1>2. Inv /\ [StreamNext]_streamVars => Inv'
  <2> SUFFICES ASSUME Inv, [StreamNext]_streamVars
               PROVE  Inv'
    OBVIOUS
  <2>1. CASE FeedToken
    <3>1. PICK n \in 1 .. MaxToken :
        /\ fed + n <= Len(written.text)
        /\ Take(Walk(Begin(undecided \o SubSeq(written.text, fed + 1, fed + n), open, order), written, FALSE))
      BY <2>1 DEF FeedToken
    <3> DEFINE t == SubSeq(written.text, fed + 1, fed + n)
    <3>2. /\ StreamInv' /\ streaming = "open" /\ written' = written /\ written \in Answers
          /\ streaming' = "open" /\ fed \in 0 .. Len(written.text)
      BY <2>1, FeedKeeps DEF FeedToken, StreamInv
    <3>3. t \in Text
      <4>1. written.text \in Text /\ Len(written.text) \in Nat /\ n \in Nat /\ n >= 1 /\ fed \in Nat
        BY <3>2, AnswerIs, AnswersAssumption
      <4> QED
        BY <3>1, <3>2, <4>1, TokenJoins
    <3> HIDE DEF t
    <3>4. Listed(order, written.sources)'
      BY <3>1, <3>2, <3>3, TakingLists DEF t
    <3>5. (order \in Seq(Int))'
      <4>1. Now' \in Carried
        BY <3>2 DEF StreamInv, Carried
      <4> QED
        BY <4>1 DEF Now, Carried
    <3> QED
      BY <3>2, <3>4, <3>5
  <2>2. CASE EndStream
    <3>1. StreamInv' /\ streaming = "open" /\ written' = written
          /\ Take(Walk(Begin(undecided, open, order), written, TRUE)) /\ Now \in Carried
      BY <2>2, EndKeeps DEF EndStream, StreamInv
    <3>2. <<>> \in Text /\ undecided \o <<>> = undecided
      <4>1. undecided \in Text
        BY <3>1 DEF Now, Carried
      <4> QED
        BY <4>1, PartsIs, ConcatEmptySeq DEF Text
    <3>3. Listed(order, written.sources)'
      BY <3>1, <3>2, TakingLists
    <3>4. order' \in Seq(Int)
      <4> DEFINE b == Begin(undecided, open, order)
      <4>1. b \in Carried
        BY <3>1, <3>2 DEF Begin, Now, Carried
      <4>2. written.sources \in Nat /\ written.german \in BOOLEAN
        BY AnswerIs DEF StreamInv
      <4> HIDE DEF b
      <4>3. Walk(b, written, TRUE) \in Carried
        BY <4>1, <4>2, WalkTyped
      <4>4. order' = Walk(b, written, TRUE).order
        BY <3>1 DEF Take, b
      <4> QED
        BY <4>3, <4>4 DEF Carried
    <3> QED
      BY <3>1, <3>3, <3>4
  <2>3. CASE UNCHANGED streamVars
    <3>1. /\ written' = written /\ fed' = fed /\ undecided' = undecided /\ open' = open /\ order' = order
          /\ emitted' = emitted /\ streaming' = streaming
      BY <2>3 DEF streamVars
    <3>2. StreamInv'
      BY <3>1 DEF StreamInv, Now, Arrived, Whole, Stands
    <3> QED
      BY <3>1, <3>2 DEF Listed
  <2> QED
    BY <2>1, <2>2, <2>3 DEF StreamNext
<1>3. Inv => CitationsAreOne
  <2> SUFFICES ASSUME Inv
               PROVE  CitationsAreOne
    OBVIOUS
  <2>1. DOMAIN order = 1 .. Len(order)
    OBVIOUS
  <2>2. IsInjective(order)
    BY <2>1 DEF Listed, IsInjective
  <2>3. Range(order) \subseteq 1 .. written.sources
    BY <2>1 DEF Listed, Range
  <2> QED
    BY <2>2, <2>3 DEF CitationsAreOne
<1> QED
  BY <1>1, <1>2, <1>3, PTL DEF StreamSpec
=============================================================================
