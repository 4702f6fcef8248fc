------------------------- MODULE ConversationProofs -------------------------
(***************************************************************************)
(* What holds of a conversation for any number of tabs, threads, messages, *)
(* sharers and crashes: who runs is sound (WhoRunsIsSound), what is public *)
(* stays finished (PublicStaysFrozen), and the rows a reader is shown keep *)
(* the promise of Record (RecordIsKept).  All three rest on one inductive  *)
(* invariant, ConversationInv: the three properties say what must not      *)
(* happen, and the parts below say what every handler between its          *)
(* validation and its last write can rely on although other tabs, deletes, *)
(* failed writes and restarts step in between.                             *)
(***************************************************************************)
EXTENDS Conversation, TLAPS

\* Ids are issued in order; a row belongs to a thread that was created, and a
\* head is a message of the same thread that opened its turn.
RowsShaped ==
  \A i \in Ids :
    /\ i > issued => rows[i] = NoRow
    /\ i <= issued => rows[i].state # "none" /\ rows[i].thread \in used
    /\ rows[i].head # 0 => /\ rows[rows[i].head].thread = rows[i].thread
                           /\ rows[rows[i].head].head = 0

\* No thread exists that was not created, and without a process nobody works.
Grounded == threads \subseteq used /\ (~up => \A t \in Turns : pc[t] = "idle")

\* A request names a thread, a head and a card that belong together.
JobShaped(t) ==
  /\ IF pc[t] = "idle" THEN job[t] = NoJob ELSE job[t].thread \in used
  /\ pc[t] \in {"claim", "resolve"} => job[t].kind = "resume"
  /\ job[t].kind = "resume" => /\ job[t].msg \in Ids /\ rows[job[t].msg].state = "card"
                               /\ rows[job[t].msg].thread = job[t].thread
  /\ job[t].head # 0 => /\ rows[job[t].head].thread = job[t].thread
                        /\ rows[job[t].head].head = 0
JobsShaped == \A t \in Turns : JobShaped(t)

\* A pipeline that runs writes a row of its own, as its question left it.
RunsOwn ==
  \A t \in Turns : pc[t] = "run" =>
    /\ row[t] \in Ids
    /\ rows[row[t]] = [thread |-> job[t].thread, state |-> "open", from |-> 0, head |-> job[t].head]
    /\ \A u \in Turns : pc[u] = "run" /\ row[u] = row[t] => u = t

\* Where a handler has registered its turn.
Registered == {"open", "question", "run", "suggest", "close"}

\* A turn leaves the registry before its end only when it is cancelled.
LiveOrCut == \A t \in Turns : pc[t] \in Registered => t \in live \/ cause[t] # "none"

\* What a link covers, or is about to, is issued and settled, and so is what
\* an earlier process left.
Covers(th, c) == c <= issued /\ \A i \in Ids : rows[i].thread = th /\ i <= c => Settled(i)
CoveredSettled ==
  /\ \A th \in Threads : shares[th].live => Covers(th, shares[th].ceiling)
  /\ \A s \in Sharers : sharing[s] # NotSharing =>
       sharing[s].thread \in Threads /\ Covers(sharing[s].thread, sharing[s].newest)
  /\ marked <= issued

ConversationInv ==
  /\ TypeOK /\ RowsShaped /\ Grounded /\ JobsShaped /\ RunsOwn
  /\ OneHolder /\ LiveOrCut /\ DeletedTurnsStopped
  /\ CoveredSettled /\ OrphansSettled

-----------------------------------------------------------------------------
(* The empty row, request, link and share request have the shape the type  *)
(* invariant asks for.                                                     *)
LEMMA Shapes ==
  /\ NoRow \in Row /\ NoJob \in Job /\ NoShare \in Share /\ NotSharing \in Sharing
  /\ 0 \in 0..MaxRows /\ Ids \subseteq 0..MaxRows
BY RowsAssumption DEF NoRow, Row, States, NoJob, Job, NoShare, Share, NotSharing, Sharing, Ids

(* Message.Head names a message.                                           *)
LEMMA HeadTyped ==
  ASSUME TypeOK, NEW i \in Ids
  PROVE  Head(i) \in Ids
BY RowsAssumption DEF TypeOK, Head, Row, Ids

(* dropThread takes away a thread, never adds one, and what it drops is a  *)
(* thread the request was about.                                           *)
LEMMA DropTyped ==
  ASSUME TypeOK, Grounded, JobsShaped, NEW t \in Turns, Drop(t), pc[t] # "idle"
  PROVE  threads' \subseteq threads /\ dropped' \subseteq Threads /\ job[t].thread \in Threads
BY DEF Drop, TypeOK, JobsShaped, JobShaped

(* Reading the claimed card under its claim leaves every variable typed:   *)
(* the card's head is a message, whether the row is still there or not.    *)
LEMMA ResolveTyped ==
  ASSUME TypeOK, JobsShaped, NEW t \in Turns, ResolveCard(t)
  PROVE  TypeOK'
<1>1. job[t].msg \in Ids
  BY DEF ResolveCard, Goto, JobsShaped, JobShaped
<1> DEFINE h == IF Exists(job[t].msg) THEN Head(job[t].msg) ELSE 0
<1>2. h \in 0..MaxRows
  BY <1>1, HeadTyped, Shapes
<1>3. job' = [job EXCEPT ![t].head = h]
  BY DEF ResolveCard
<1> HIDE DEF h
<1>4. job' \in [Turns -> Job]
  BY <1>2, <1>3 DEF TypeOK, Job
<1> QED
  BY <1>4 DEF ResolveCard, TypeOK, store, ghosts, Goto, Stages

\* What a step does to the rows: a new one may be put behind the last, an
\* unfinished one may be settled, and nothing else.
RowsGrow ==
  /\ issued' \in Nat /\ issued <= issued' /\ used \subseteq used'
  /\ \A th \in threads' : th \in threads \/ th \notin used
  /\ \A i \in Ids : i <= issued =>
       /\ rows'[i].thread = rows[i].thread /\ rows'[i].head = rows[i].head
       /\ Settled(i) => rows'[i] = rows[i]
       /\ rows'[i].state # "none"
  /\ \A i \in Ids : i > issued /\ i <= issued' =>
       \E t \in Turns :
         /\ pc[t] = "question"
         /\ rows'[i] = [thread |-> job[t].thread, state |-> "open", from |-> 0, head |-> job[t].head]
  /\ \A i \in Ids : i > issued' => rows'[i] = NoRow

(* A step that writes no message makes the record grow in the trivial way. *)
LEMMA RowsSame ==
  ASSUME TypeOK, RowsShaped, rows' = rows, issued' = issued, used \subseteq used',
         \A th \in threads' : th \in threads \/ th \notin used
  PROVE  RowsGrow
BY DEF TypeOK, RowsShaped, RowsGrow, Ids

(* The INSERT of AddQuestion puts one open row behind the last id issued   *)
(* and touches no other.                                                   *)
LEMMA RowPut ==
  ASSUME TypeOK, RowsShaped, NEW t \in Turns, Insert(t), used' = used, threads' \subseteq threads
  PROVE  RowsGrow
<1>1. /\ issued \in Nat /\ issued' = issued + 1 /\ issued + 1 \in Ids
      /\ rows'[issued + 1] =
           [thread |-> job[t].thread, state |-> "open", from |-> 0, head |-> job[t].head]
      /\ \A i \in Ids : i # issued + 1 => rows'[i] = rows[i]
  BY RowsAssumption DEF Insert, TypeOK, Ids
<1>2. \A i \in Ids : i <= issued => i # issued + 1 /\ rows'[i] = rows[i]
  BY <1>1 DEF Ids
<1>3. \A i \in Ids : i > issued /\ i <= issued' => i = issued + 1
  BY <1>1 DEF Ids
<1>4. \A i \in Ids : i > issued' => i # issued + 1 /\ rows'[i] = NoRow
  BY <1>1 DEF Ids, RowsShaped
<1> QED
  BY <1>1, <1>2, <1>3, <1>4 DEF RowsGrow, RowsShaped, Insert

(* A pipeline's write touches its own row only, which was open, and keeps  *)
(* its thread and head; a row the cascade took is matched by nothing.      *)
LEMMA RowSettled ==
  ASSUME TypeOK, RowsShaped, RunsOwn, NEW t \in Turns, pc[t] = "run",
         NEW r \in Row, r.thread = job[t].thread, r.head = job[t].head, r.state # "none", Write(t, r),
         issued' = issued, used' = used, threads' = threads
  PROVE  RowsGrow
<1>1. /\ \A i \in Ids : i # row[t] => rows'[i] = rows[i]
      /\ rows'[row[t]] \in {r, rows[row[t]]}
      /\ row[t] \in Ids /\ ~Settled(row[t])
      /\ rows[row[t]] = [thread |-> job[t].thread, state |-> "open", from |-> 0, head |-> job[t].head]
  BY DEF Write, TypeOK, RunsOwn, Settled
<1>2. row[t] <= issued
  BY <1>1 DEF RowsShaped, NoRow, Ids, TypeOK
<1> QED
  BY <1>1, <1>2 DEF RowsGrow, RowsShaped, TypeOK, Ids

\* A row t's handler may write over its question: same thread, same head.
Continues(r, t) ==
  r \in Row /\ r.thread = job[t].thread /\ r.head = job[t].head /\ r.state # "none"

(* Each of the outcomes FinishWithSources, Clarify and Fail write is the   *)
(* question's row continued.                                               *)
LEMMA OpenRow ==
  ASSUME TypeOK, RunsOwn, NEW t \in Turns, pc[t] = "run"
  PROVE  /\ Continues(rows[row[t]], t)
         /\ \A state \in {"card", "failed"} : Continues([rows[row[t]] EXCEPT !.state = state], t)
         /\ Continues([rows[row[t]] EXCEPT !.state = "answered",
                         !.from = IF job[t].kind = "resume" THEN job[t].msg ELSE 0], t)
<1>1. rows[row[t]] \in Row /\ job[t] \in Job
  BY DEF RunsOwn, TypeOK
<1>2. rows[row[t]] = [thread |-> job[t].thread, state |-> "open", from |-> 0, head |-> job[t].head]
  BY DEF RunsOwn
<1>3. /\ rows[row[t]].thread = job[t].thread /\ rows[row[t]].head = job[t].head
      /\ rows[row[t]].state = "open"
  BY <1>1, <1>2 DEF Job
<1>4. (IF job[t].kind = "resume" THEN job[t].msg ELSE 0) \in 0..MaxRows
  BY <1>1, Shapes DEF Job
<1> QED
  BY <1>1, <1>3, <1>4 DEF Row, States, Continues

(* Every step of the conversation, whoever takes it, lets the record grow  *)
(* and does nothing else to it: this is what the invariant's other parts   *)
(* need to know of a step of another tab.                                  *)
LEMMA StepRows ==
  ASSUME ConversationInv, [Next]_vars
  PROVE  RowsGrow
<1> USE DEF store, request
<1>a. TypeOK /\ RowsShaped /\ RunsOwn
  BY DEF ConversationInv
<1>1. CASE UNCHANGED vars
  BY <1>1, RowsSame, <1>a DEF vars
<1>2. ASSUME NEW t \in Turns, Handle(t)
      PROVE  RowsGrow
  <2>1. CASE Claim(t) \/ ResolveCard(t) \/ Refuse(t) \/ Register(t) \/ OpenStream(t)
             \/ BasisGone(t) \/ SuggestFollowups(t) \/ FailLost(t) \/ CloseRecord(t)
    BY <2>1, RowsSame, <1>a DEF Claim, ResolveCard, Refuse, Register, OpenStream, BasisGone,
       SuggestFollowups, FailLost, CloseRecord
  <2>2. CASE OpenStreamFails(t) \/ AddQuestionFails(t)
    BY <2>2, RowsSame, <1>a DEF OpenStreamFails, AddQuestionFails, Drop
  <2>3. CASE AddQuestion(t) \/ AddQuestionCut(t)
    BY <2>3, RowPut, <1>a DEF AddQuestion, AddQuestionCut, Drop
  <2>4. CASE Answer(t) \/ AnswerOnly(t)
    <3> DEFINE r == [rows[row[t]] EXCEPT !.state = "answered",
                       !.from = IF job[t].kind = "resume" THEN job[t].msg ELSE 0]
    <3>1. pc[t] = "run" /\ Write(t, r) /\ UNCHANGED <<threads, used, issued>>
      BY <2>4 DEF Answer, AnswerOnly, Finish, Goto
    <3>2. Continues(r, t)
      BY <3>1, <1>a, OpenRow
    <3> QED
      BY <3>1, <3>2, RowSettled, <1>a DEF Continues
  <2>5. ASSUME NEW state \in {"card", "failed"}, pc[t] = "run",
               Write(t, [rows[row[t]] EXCEPT !.state = state]), UNCHANGED <<threads, used, issued>>
        PROVE  RowsGrow
    <3> DEFINE r == [rows[row[t]] EXCEPT !.state = state]
    <3>1. Continues(r, t)
      BY <2>5, <1>a, OpenRow
    <3> QED
      BY <2>5, <3>1, RowSettled, <1>a DEF Continues
  <2>6. CASE Clarify(t) \/ Fail(t)
    BY <2>5, <2>6 DEF Clarify, Fail, Goto
  <2> QED
    BY <1>2, <2>1, <2>2, <2>3, <2>4, <2>6 DEF Handle
<1>3. ASSUME NEW t \in Turns, NEW th \in Threads, AskNew(t, th) \/ AskInto(t, th)
      PROVE  RowsGrow
  BY <1>3, RowsSame, <1>a DEF AskNew, AskInto, Begin
<1>4. ASSUME NEW t \in Turns, NEW i \in Ids, Retry(t, i) \/ Reexplain(t, i) \/ ReadCard(t, i)
      PROVE  RowsGrow
  BY <1>4, RowsSame, <1>a DEF Retry, Reexplain, ReadCard, Begin
<1>5. ASSUME NEW t \in Turns, Leave(t)
      PROVE  RowsGrow
  BY <1>5, RowsSame, <1>a DEF Leave
<1>6. ASSUME NEW th \in Threads, Delete(th) \/ CancelTurns(th) \/ RevokeShare(th)
      PROVE  RowsGrow
  BY <1>6, RowsSame, <1>a DEF Delete, CancelTurns, RevokeShare
<1>7. ASSUME NEW s \in Sharers, NEW th \in Threads, NEW op \in {"share", "raise"},
             ReadCeiling(s, th, op) \/ WriteCeiling(s)
      PROVE  RowsGrow
  BY <1>7, RowsSame, <1>a DEF ReadCeiling, WriteCeiling
<1>8. ASSUME NEW s \in Sharers, WriteCeiling(s)
      PROVE  RowsGrow
  BY <1>8, RowsSame, <1>a DEF WriteCeiling
<1>9. CASE Crash
  BY <1>9, RowsSame, <1>a DEF Crash
<1>10. CASE Boot
  <2>1. \A i \in Ids : rows'[i] = IF Orphaned(i) THEN [rows[i] EXCEPT !.state = "failed"] ELSE rows[i]
    BY <1>10 DEF Boot
  <2>2. \A i \in Ids :
          /\ rows[i] \in Row
          /\ Orphaned(i) => ~Settled(i) /\ i <= issued /\ rows[i] # NoRow
    BY <1>a DEF Orphaned, Settled, TypeOK, RowsShaped, NoRow, Ids
  <2>3. UNCHANGED <<threads, used, issued>> /\ issued \in Nat
    BY <1>10, <1>a DEF Boot, TypeOK, Ids
  <2>4. \A i \in Ids : i <= issued =>
          /\ rows'[i].thread = rows[i].thread /\ rows'[i].head = rows[i].head
          /\ Settled(i) => rows'[i] = rows[i]
          /\ rows'[i].state # "none"
    BY <2>1, <2>2, <1>a DEF RowsShaped, Row
  <2>5. \A i \in Ids : i > issued => rows'[i] = NoRow
    BY <2>1, <2>2, <2>3, <1>a DEF RowsShaped, Ids
  <2> QED
    BY <2>3, <2>4, <2>5 DEF RowsGrow, Ids
<1> QED
  BY <1>1, <1>2, <1>3, <1>4, <1>5, <1>6, <1>7, <1>8, <1>9, <1>10 DEF Next

(* Ids stay in issue order and heads stay roots of their own thread, also  *)
(* for a question that joins the turn of a message another tab wrote.      *)
LEMMA RowsStep ==
  ASSUME ConversationInv, RowsGrow
  PROVE  RowsShaped'
<1> SUFFICES ASSUME NEW i \in Ids
             PROVE  /\ i > issued' => rows'[i] = NoRow
                    /\ i <= issued' => rows'[i].state # "none" /\ rows'[i].thread \in used'
                    /\ rows'[i].head # 0 => /\ rows'[rows'[i].head].thread = rows'[i].thread
                                            /\ rows'[rows'[i].head].head = 0
  BY DEF RowsShaped
<1>1. issued \in Nat /\ issued' \in Nat /\ i \in Nat /\ used \subseteq used' /\ 0 \notin used
  BY ThreadsAssumption DEF ConversationInv, TypeOK, Ids, RowsGrow
<1>2. \A j \in Ids : rows[j].thread \in used => j <= issued
  BY <1>1 DEF ConversationInv, RowsShaped, NoRow, Ids
<1>3. /\ \A j \in Ids : rows[j].head \in Ids \cup {0}
      /\ \A t \in Turns : job[t].head \in Ids \cup {0}
  BY RowsAssumption DEF ConversationInv, TypeOK, Ids, Row, Job
<1>4. \A h \in Ids : rows[h].thread \in used =>
        rows'[h].thread = rows[h].thread /\ rows'[h].head = rows[h].head
  BY <1>2 DEF RowsGrow
<1>5. CASE i <= issued
  <2>1. /\ rows'[i].thread = rows[i].thread /\ rows'[i].head = rows[i].head
        /\ rows[i].thread \in used /\ rows'[i].state # "none"
    BY <1>5 DEF RowsGrow, ConversationInv, RowsShaped
  <2>2. rows[i].head # 0 => /\ rows[i].head \in Ids
                            /\ rows[rows[i].head].thread = rows[i].thread
                            /\ rows[rows[i].head].head = 0
    BY <1>3 DEF ConversationInv, RowsShaped
  <2> QED
    BY <1>1, <1>4, <1>5, <2>1, <2>2 DEF RowsGrow
<1>6. CASE i > issued /\ i <= issued'
  <2>1. PICK t \in Turns :
          /\ pc[t] = "question"
          /\ rows'[i] = [thread |-> job[t].thread, state |-> "open", from |-> 0, head |-> job[t].head]
    BY <1>6 DEF RowsGrow
  <2>2. /\ job[t].thread \in used
        /\ job[t].head # 0 => /\ rows[job[t].head].thread = job[t].thread
                              /\ rows[job[t].head].head = 0
    BY <2>1 DEF ConversationInv, JobsShaped, JobShaped
  <2>3. job[t] \in Job
    BY DEF ConversationInv, TypeOK
  <2>4. rows'[i].thread = job[t].thread /\ rows'[i].head = job[t].head /\ rows'[i].state = "open"
    BY <2>1, <2>3 DEF Job
  <2>5. job[t].head # 0 => /\ rows'[job[t].head].thread = job[t].thread
                           /\ rows'[job[t].head].head = 0
    BY <1>3, <1>4, <2>2
  <2> QED
    BY <1>1, <1>6, <2>2, <2>4, <2>5
<1>7. CASE i > issued'
  BY <1>1, <1>7 DEF RowsGrow, NoRow
<1> QED
  BY <1>1, <1>5, <1>6, <1>7

\* Covers, after the step, of a ceiling chosen before or in it.
CoversNext(th, c) ==
  /\ c <= issued'
  /\ \A i \in Ids : rows'[i].thread = th /\ i <= c =>
       rows'[i].state \in {"answered", "failed", "card"}

(* The covered part of the invariant, said of the next state.              *)
LEMMA CoversBoth ==
  ASSUME \A th \in Threads : shares'[th].live => CoversNext(th, shares'[th].ceiling),
         \A s \in Sharers : sharing'[s] # NotSharing =>
           sharing'[s].thread \in Threads /\ CoversNext(sharing'[s].thread, sharing'[s].newest),
         marked' <= issued'
  PROVE  CoveredSettled'
BY DEF CoveredSettled, Covers, CoversNext, Settled

(* A ceiling read before other tabs wrote more rows still covers finished  *)
(* rows only, since rows are issued above it and settled ones never change; *)
(* and what FailOrphaned settled at boot stays settled.                    *)
LEMMA CoverStep ==
  ASSUME ConversationInv, [Next]_vars, RowsGrow, TypeOK'
  PROVE  CoveredSettled' /\ OrphansSettled'
<1>1. /\ issued \in Nat /\ issued' \in Nat /\ issued <= issued' /\ marked \in Nat
      /\ 0 \notin used /\ 0 \notin Threads /\ 0 \notin threads
  BY ThreadsAssumption DEF ConversationInv, TypeOK, RowsGrow, Ids
<1>2. \A i \in Ids : i <= issued =>
        /\ rows'[i].thread = rows[i].thread
        /\ Settled(i) => Settled(i)'
        /\ Exists(i)' => Exists(i)
  BY DEF ConversationInv, RowsShaped, RowsGrow, Settled, Exists
<1>3. ASSUME NEW th, NEW c \in 0..MaxRows, Covers(th, c)
      PROVE  CoversNext(th, c)
  BY <1>1, <1>2, <1>3 DEF Covers, CoversNext, Settled, Ids
<1>4. ASSUME UNCHANGED <<up, marked>>
      PROVE  OrphansSettled' /\ marked' <= issued'
  BY <1>1, <1>2, <1>4, RowsAssumption DEF ConversationInv, OrphansSettled, CoveredSettled, TypeOK, Ids
<1>5. ASSUME UNCHANGED <<shares, sharing, up, marked>>
      PROVE  CoveredSettled' /\ OrphansSettled'
  <2>1. /\ \A th \in Threads : shares[th].ceiling \in 0..MaxRows
        /\ \A s \in Sharers : sharing[s].newest \in 0..MaxRows
    BY DEF ConversationInv, TypeOK, Share, Sharing
  <2> QED
    BY <1>3, <1>4, <1>5, <2>1, CoversBoth DEF ConversationInv, CoveredSettled
<1>6. ASSUME NEW s \in Sharers, NEW th \in Threads, NEW op \in {"share", "raise"},
             ReadCeiling(s, th, op)
      PROVE  CoveredSettled' /\ OrphansSettled'
  <2>1. UNCHANGED <<shares, rows, issued, up, marked>>
    BY <1>6 DEF ReadCeiling, store, ghosts
  <2>2. PICK c \in Ids :
          IsCeiling(th, c) /\ sharing' = [sharing EXCEPT ![s] = [op |-> op, thread |-> th, newest |-> c]]
    BY <1>6 DEF ReadCeiling
  <2>3. c <= issued
    BY <1>1, <2>2 DEF IsCeiling, ConversationInv, RowsShaped, NoRow, Ids
  <2>4. Covers(th, c)
    BY <2>2, <2>3 DEF IsCeiling, Covers, Ids
  <2>5. CoversNext(th, c)
    BY <1>3, <2>4, Shapes
  <2>6. /\ sharing'[s].thread = th /\ sharing'[s].newest = c
        /\ \A q \in Sharers \ {s} : sharing'[q] = sharing[q]
    BY <2>2 DEF ConversationInv, TypeOK
  <2>7. \A q \in Sharers : sharing[q].newest \in 0..MaxRows
    BY DEF ConversationInv, TypeOK, Sharing
  <2>8. \A q \in Sharers : sharing'[q] # NotSharing =>
          sharing'[q].thread \in Threads /\ CoversNext(sharing'[q].thread, sharing'[q].newest)
    BY <1>3, <2>5, <2>6, <2>7 DEF ConversationInv, CoveredSettled
  <2>9. \A q \in Threads : shares'[q].live => CoversNext(q, shares'[q].ceiling)
    BY <1>3, <2>1 DEF ConversationInv, CoveredSettled, TypeOK, Share
  <2> QED
    BY <1>4, <2>1, <2>8, <2>9, CoversBoth
<1>7. ASSUME NEW s \in Sharers, WriteCeiling(s)
      PROVE  CoveredSettled' /\ OrphansSettled'
  <2>1. UNCHANGED <<up, marked>>
    BY <1>7 DEF WriteCeiling, ghosts
  <2>2. /\ \A th \in Threads :
             shares'[th] \in {shares[th], [live |-> TRUE, ceiling |-> sharing[s].newest]}
        /\ \A th \in Threads : shares'[th] # shares[th] => th = sharing[s].thread
        /\ \A q \in Sharers : sharing'[q] \in {sharing[q], NotSharing}
        /\ sharing[s] # NotSharing
    BY <1>7 DEF WriteCeiling, ConversationInv, TypeOK
  <2>3. /\ \A th \in Threads : shares[th].ceiling \in 0..MaxRows
        /\ \A q \in Sharers : sharing[q].newest \in 0..MaxRows
    BY DEF ConversationInv, TypeOK, Share, Sharing
  <2>4. \A th \in Threads : shares'[th].live => CoversNext(th, shares'[th].ceiling)
    BY <1>3, <2>2, <2>3 DEF ConversationInv, CoveredSettled
  <2>5. \A q \in Sharers : sharing'[q] # NotSharing =>
          sharing'[q].thread \in Threads /\ CoversNext(sharing'[q].thread, sharing'[q].newest)
    BY <1>3, <2>2, <2>3 DEF ConversationInv, CoveredSettled
  <2> QED
    BY <1>4, <2>1, <2>4, <2>5, CoversBoth
<1>8. ASSUME NEW th \in Threads, RevokeShare(th)
      PROVE  CoveredSettled' /\ OrphansSettled'
  <2>1. UNCHANGED <<sharing, up, marked>>
    BY <1>8 DEF RevokeShare, ghosts
  <2>2. \A q \in Threads : shares'[q].live => shares[q].live /\ shares'[q].ceiling = shares[q].ceiling
    BY <1>8 DEF RevokeShare, ConversationInv, TypeOK, Share
  <2>3. /\ \A q \in Threads : shares[q].ceiling \in 0..MaxRows
        /\ \A s \in Sharers : sharing[s].newest \in 0..MaxRows
    BY DEF ConversationInv, TypeOK, Share, Sharing
  <2> QED
    BY <1>3, <1>4, <2>1, <2>2, <2>3, CoversBoth DEF ConversationInv, CoveredSettled
<1>9. CASE Crash
  <2>1. UNCHANGED <<shares, marked>> /\ up' = FALSE /\ sharing' = [s \in Sharers |-> NotSharing]
    BY <1>9 DEF Crash, store, ghosts
  <2>2. \A q \in Threads : shares[q].ceiling \in 0..MaxRows
    BY DEF ConversationInv, TypeOK, Share
  <2>3. marked' <= issued'
    BY <1>1, <2>1 DEF ConversationInv, CoveredSettled
  <2> QED
    BY <1>3, <2>1, <2>2, <2>3, CoversBoth DEF ConversationInv, CoveredSettled, OrphansSettled
<1>10. CASE Boot
  <2>1. UNCHANGED <<threads, issued, shares, sharing>> /\ marked' = issued
    BY <1>10 DEF Boot
  <2>2. \A i \in Ids : rows'[i] = IF Orphaned(i) THEN [rows[i] EXCEPT !.state = "failed"] ELSE rows[i]
    BY <1>10 DEF Boot
  <2>3. \A i \in Ids : i <= issued /\ Exists(i)' => Settled(i)'
    <3> SUFFICES ASSUME NEW i \in Ids, i <= issued, Exists(i)'
                 PROVE  Settled(i)'
      OBVIOUS
    <3>1. Exists(i) /\ rows[i] \in Row /\ rows[i].state # "none"
      BY <1>2 DEF ConversationInv, TypeOK, RowsShaped
    <3> QED
      BY <2>2, <3>1 DEF Settled, Orphaned, Row, States
  <2>4. 1..marked' \subseteq Ids
    BY <1>1, <2>1, RowsAssumption DEF ConversationInv, TypeOK, Ids
  <2>5. OrphansSettled'
    BY <1>1, <2>1, <2>3, <2>4 DEF OrphansSettled
  <2>6. /\ \A q \in Threads : shares[q].ceiling \in 0..MaxRows
        /\ \A s \in Sharers : sharing[s].newest \in 0..MaxRows
    BY DEF ConversationInv, TypeOK, Share, Sharing
  <2>7. marked' <= issued'
    BY <1>1, <2>1
  <2> QED
    BY <1>3, <2>1, <2>5, <2>6, <2>7, CoversBoth DEF ConversationInv, CoveredSettled
<1>11. ASSUME NEW t \in Turns, Handle(t)
       PROVE  CoveredSettled' /\ OrphansSettled'
  BY <1>5, <1>11 DEF Handle, Claim, ResolveCard, Refuse, Register, OpenStream, OpenStreamFails,
     BasisGone, AddQuestion, AddQuestionCut, AddQuestionFails, Answer, AnswerOnly, Finish,
     SuggestFollowups, Clarify, Fail, FailLost, CloseRecord, Return, store, ghosts
<1>12. ASSUME NEW t \in Turns, NEW th \in Threads, AskNew(t, th) \/ AskInto(t, th)
       PROVE  CoveredSettled' /\ OrphansSettled'
  BY <1>5, <1>12 DEF AskNew, AskInto, Begin, store, ghosts
<1>13. ASSUME NEW t \in Turns, NEW i \in Ids, Retry(t, i) \/ Reexplain(t, i) \/ ReadCard(t, i)
       PROVE  CoveredSettled' /\ OrphansSettled'
  BY <1>5, <1>13 DEF Retry, Reexplain, ReadCard, Begin, store, ghosts
<1>14. ASSUME NEW t \in Turns, Leave(t)
       PROVE  CoveredSettled' /\ OrphansSettled'
  BY <1>5, <1>14 DEF Leave, store, ghosts
<1>15. ASSUME NEW th \in Threads, Delete(th) \/ CancelTurns(th)
       PROVE  CoveredSettled' /\ OrphansSettled'
  BY <1>5, <1>15 DEF Delete, CancelTurns, store, ghosts
<1>16. CASE UNCHANGED vars
  BY <1>5, <1>16 DEF vars, store, ghosts
<1> QED
  BY <1>6, <1>7, <1>8, <1>9, <1>10, <1>11, <1>12, <1>13, <1>14, <1>15, <1>16 DEF Next

(* Every action keeps the type invariant.                                  *)
LEMMA TypeStep == TypeOK /\ Grounded /\ JobsShaped /\ [Next]_vars => TypeOK'
<1> SUFFICES ASSUME TypeOK, Grounded, JobsShaped, [Next]_vars
             PROVE  TypeOK'
  OBVIOUS
<1> USE Shapes DEF TypeOK, store, request, ghosts, Goto, End, Return, Begin
<1>1. ASSUME NEW t \in Turns, Claim(t)
      PROVE  TypeOK'
  <2>1. job[t].msg \in Ids
    BY <1>1 DEF Claim, JobsShaped, JobShaped
  <2>2. held' \subseteq Ids
    BY <1>1, <2>1 DEF Claim
  <2>3. pc' \in [Turns -> Stages]
    BY <1>1 DEF Claim, Stages
  <2> QED
    BY <1>1, <2>2, <2>3 DEF Claim
<1>2. ASSUME NEW t \in Turns,
             Refuse(t) \/ BasisGone(t) \/ CloseRecord(t)
      PROVE  TypeOK'
  <2>1. CASE Refuse(t)
    BY <2>1 DEF Refuse, Stages
  <2>2. CASE BasisGone(t)
    BY <2>2 DEF BasisGone, Stages
  <2>3. CASE CloseRecord(t)
    BY <2>3 DEF CloseRecord, Stages
  <2> QED
    BY <1>2, <2>1, <2>2, <2>3
<1>3. ASSUME NEW t \in Turns,
             Register(t) \/ OpenStream(t) \/ SuggestFollowups(t) \/ Leave(t)
      PROVE  TypeOK'
  <2>1. CASE Register(t)
    BY <2>1 DEF Register, Stages
  <2>2. CASE OpenStream(t)
    BY <2>2 DEF OpenStream, Stages
  <2>3. CASE SuggestFollowups(t)
    BY <2>3 DEF SuggestFollowups, Stages
  <2>4. CASE Leave(t)
    BY <2>4 DEF Leave, Stages
  <2> QED
    BY <1>3, <2>1, <2>2, <2>3, <2>4
<1>4. ASSUME NEW t \in Turns, ResolveCard(t)
      PROVE  TypeOK'
  BY <1>4, ResolveTyped
<1>5. ASSUME NEW t \in Turns, OpenStreamFails(t)
      PROVE  TypeOK'
  <2>1. threads' \subseteq threads /\ dropped' \subseteq Threads
    BY <1>5, DropTyped DEF OpenStreamFails
  <2> QED
    BY <1>5, <2>1 DEF OpenStreamFails, Stages
<1>6. ASSUME NEW t \in Turns, Insert(t)
      PROVE  rows' \in [Ids -> Row] /\ issued' \in 0..MaxRows
  <2>1. [thread |-> job[t].thread, state |-> "open", from |-> 0, head |-> job[t].head] \in Row
    BY DEF Job, Row, States
  <2>2. issued < MaxRows => issued + 1 \in 0..MaxRows
    BY RowsAssumption
  <2> QED
    BY <1>6, <2>1, <2>2 DEF Insert
<1>7. ASSUME NEW t \in Turns, AddQuestion(t)
      PROVE  TypeOK'
  <2>1. issued' \in 0..MaxRows /\ issued' = issued + 1 /\ rows' \in [Ids -> Row]
    BY <1>6, <1>7 DEF AddQuestion, Insert
  <2> QED
    BY <1>7, <2>1 DEF AddQuestion, Stages
<1>8. ASSUME NEW t \in Turns, AddQuestionCut(t)
      PROVE  TypeOK'
  <2>1. /\ issued' \in 0..MaxRows /\ rows' \in [Ids -> Row]
        /\ threads' \subseteq threads /\ dropped' \subseteq Threads
    BY <1>6, <1>8, DropTyped DEF AddQuestionCut, Insert
  <2> QED
    BY <1>8, <2>1 DEF AddQuestionCut, Stages
<1>9. ASSUME NEW t \in Turns, AddQuestionFails(t)
      PROVE  TypeOK'
  <2>1. threads' \subseteq threads /\ dropped' \subseteq Threads
    BY <1>9, DropTyped DEF AddQuestionFails
  <2>2. faults' \in 0..MaxFaults
    BY <1>9, BoundsAssumption DEF AddQuestionFails
  <2> QED
    BY <1>9, <2>1, <2>2 DEF AddQuestionFails, Stages
<1>10. ASSUME NEW t \in Turns, Answer(t) \/ AnswerOnly(t)
       PROVE  TypeOK'
  <2>1. rows[row[t]] \in Row =>
          [rows[row[t]] EXCEPT !.state = "answered",
             !.from = IF job[t].kind = "resume" THEN job[t].msg ELSE 0] \in Row
    BY DEF Row, Job, States
  <2> QED
    BY <1>10, <2>1 DEF Answer, AnswerOnly, Finish, Write, Stages
<1>11. ASSUME NEW t \in Turns, Clarify(t) \/ Fail(t)
       PROVE  TypeOK'
  <2>1. rows[row[t]] \in Row => \A state \in {"card", "failed"} :
          [rows[row[t]] EXCEPT !.state = state] \in Row
    BY DEF Row, States
  <2> QED
    BY <1>11, <2>1 DEF Clarify, Fail, Write, Stages
<1>12. ASSUME NEW t \in Turns, FailLost(t)
       PROVE  TypeOK'
  BY <1>12, BoundsAssumption DEF FailLost, Stages
<1>13. ASSUME NEW t \in Turns, NEW at \in {"register", "claim"}, NEW j \in Job, Begin(t, at, j),
              threads' \subseteq Threads, used' \subseteq Threads
       PROVE  TypeOK'
  BY <1>13 DEF Stages
<1>14. ASSUME NEW t \in Turns, NEW th \in Threads, AskNew(t, th) \/ AskInto(t, th)
       PROVE  TypeOK'
  <2>1. \A created \in BOOLEAN :
          [NoJob EXCEPT !.kind = "ask", !.thread = th, !.created = created] \in Job
    BY DEF NoJob, Job
  <2>2. [NoJob EXCEPT !.kind = "ask", !.thread = th] \in Job
    BY DEF NoJob, Job
  <2> QED
    BY <1>13, <1>14, <2>1, <2>2 DEF AskNew, AskInto
<1>15. ASSUME NEW t \in Turns, NEW i \in Ids, Retry(t, i) \/ Reexplain(t, i) \/ ReadCard(t, i)
       PROVE  TypeOK'
  <2>1. /\ \A kind \in {"ask", "reexplain"} :
             [NoJob EXCEPT !.kind = kind, !.thread = rows[i].thread, !.msg = i, !.head = Head(i)] \in Job
        /\ [NoJob EXCEPT !.kind = "resume", !.thread = rows[i].thread, !.msg = i] \in Job
    BY HeadTyped DEF NoJob, Job, Row
  <2> QED
    BY <1>13, <1>15, <2>1 DEF Retry, Reexplain, ReadCard
<1>16. ASSUME NEW th \in Threads, Delete(th)
       PROVE  TypeOK'
  BY <1>16 DEF Delete
<1>17. ASSUME NEW th \in Threads, CancelTurns(th)
       PROVE  TypeOK'
  BY <1>17 DEF CancelTurns
<1>18. ASSUME NEW th \in Threads, RevokeShare(th)
       PROVE  TypeOK'
  BY <1>18 DEF RevokeShare, Share
<1>19. ASSUME NEW s \in Sharers, NEW th \in Threads, NEW op \in {"share", "raise"},
              ReadCeiling(s, th, op)
       PROVE  TypeOK'
  BY <1>19 DEF ReadCeiling, Sharing
<1>20. ASSUME NEW s \in Sharers, WriteCeiling(s)
       PROVE  TypeOK'
  BY <1>20 DEF WriteCeiling, Sharing, Share
<1>21. CASE Crash
  <2>1. crashes' \in 0..MaxCrashes
    BY <1>21, BoundsAssumption DEF Crash
  <2> QED
    BY <1>21, <2>1 DEF Crash, Stages
<1>22. CASE Boot
  BY <1>22 DEF Boot, Row, States
<1>23. CASE UNCHANGED vars
  BY <1>23 DEF vars
<1> QED
  BY <1>1, <1>2, <1>3, <1>4, <1>5, <1>7, <1>8, <1>9, <1>10, <1>11, <1>12, <1>14, <1>15, <1>16, <1>17,
     <1>18, <1>19, <1>20, <1>21, <1>22, <1>23 DEF Next, Handle

(* A request's or handler's step changes no other handler's variables.     *)
LEMMA Locality ==
  ASSUME TypeOK, NEW t \in Turns,
         \/ Handle(t) \/ Leave(t)
         \/ \E th \in Threads : AskNew(t, th) \/ AskInto(t, th)
         \/ \E i \in Ids : Retry(t, i) \/ Reexplain(t, i) \/ ReadCard(t, i)
  PROVE  \A u \in Turns \ {t} : /\ pc'[u] = pc[u] /\ job'[u] = job[u]
                                /\ row'[u] = row[u] /\ cause'[u] = cause[u]
<1> USE DEF TypeOK, Goto, End, Return
<1>1. CASE \/ Claim(t) \/ ResolveCard(t) \/ Refuse(t) \/ Register(t) \/ OpenStream(t)
           \/ OpenStreamFails(t) \/ BasisGone(t)
  BY <1>1 DEF Claim, ResolveCard, Refuse, Register, OpenStream, OpenStreamFails, BasisGone
<1>2. CASE AddQuestion(t) \/ AddQuestionCut(t) \/ AddQuestionFails(t)
  BY <1>2 DEF AddQuestion, AddQuestionCut, AddQuestionFails
<1>3. CASE \/ Answer(t) \/ AnswerOnly(t) \/ SuggestFollowups(t) \/ Clarify(t) \/ Fail(t)
           \/ FailLost(t) \/ CloseRecord(t)
  BY <1>3 DEF Answer, AnswerOnly, Finish, SuggestFollowups, Clarify, Fail, FailLost, CloseRecord
<1>4. CASE Leave(t)
  BY <1>4 DEF Leave
<1>5. ASSUME NEW th \in Threads, AskNew(t, th) \/ AskInto(t, th)
      PROVE  \A u \in Turns \ {t} : /\ pc'[u] = pc[u] /\ job'[u] = job[u]
                                    /\ row'[u] = row[u] /\ cause'[u] = cause[u]
  BY <1>5 DEF AskNew, AskInto, Begin
<1>6. ASSUME NEW i \in Ids, Retry(t, i) \/ Reexplain(t, i) \/ ReadCard(t, i)
      PROVE  \A u \in Turns \ {t} : /\ pc'[u] = pc[u] /\ job'[u] = job[u]
                                    /\ row'[u] = row[u] /\ cause'[u] = cause[u]
  BY <1>6 DEF Retry, Reexplain, ReadCard, Begin
<1> QED
  BY <1>1, <1>2, <1>3, <1>4, <1>5, <1>6 DEF Handle

(* Threads come from AskNew only, and only Crash, which ends every         *)
(* request, takes the process away.                                        *)
LEMMA GroundedStep ==
  ASSUME ConversationInv, [Next]_vars, RowsGrow
  PROVE  Grounded'
<1>1. threads \subseteq used /\ used \subseteq used' /\ (~up => \A t \in Turns : pc[t] = "idle")
  BY DEF ConversationInv, Grounded, RowsGrow
<1> USE <1>1 DEF Grounded, store, request, ghosts, Goto, End, Return, Drop, Begin, Insert
<1>2. ASSUME NEW t \in Turns, Handle(t) \/ Leave(t)
      PROVE  threads' \subseteq threads /\ up /\ up' = up
  <2>1. up
    BY <1>2 DEF Handle, Leave, Claim, ResolveCard, Refuse, Register, OpenStream, OpenStreamFails,
       BasisGone, AddQuestion, AddQuestionCut, AddQuestionFails, Answer, AnswerOnly, Finish,
       SuggestFollowups, Clarify, Fail, FailLost, CloseRecord
  <2> QED
    BY <1>2, <2>1 DEF Handle, Leave, Claim, ResolveCard, Refuse, Register, OpenStream, OpenStreamFails,
       BasisGone, AddQuestion, AddQuestionCut, AddQuestionFails, Answer, AnswerOnly, Finish,
       SuggestFollowups, Clarify, Fail, FailLost, CloseRecord
<1>3. ASSUME NEW t \in Turns, NEW th \in Threads, AskNew(t, th) \/ AskInto(t, th)
      PROVE  threads' \subseteq used' /\ up /\ up' = up
  BY <1>3 DEF AskNew, AskInto
<1>4. ASSUME NEW t \in Turns, NEW i \in Ids, Retry(t, i) \/ Reexplain(t, i) \/ ReadCard(t, i)
      PROVE  threads' \subseteq used' /\ up /\ up' = up
  BY <1>4 DEF Retry, Reexplain, ReadCard
<1>5. ASSUME NEW th \in Threads, Delete(th) \/ CancelTurns(th) \/ RevokeShare(th)
      PROVE  threads' \subseteq used' /\ up' = up /\ pc' = pc
  BY <1>5 DEF Delete, CancelTurns, RevokeShare
<1>6. ASSUME NEW s \in Sharers, NEW th \in Threads, NEW op \in {"share", "raise"},
             ReadCeiling(s, th, op)
      PROVE  threads' \subseteq used' /\ up' = up /\ pc' = pc
  BY <1>6 DEF ReadCeiling
<1>7. ASSUME NEW s \in Sharers, WriteCeiling(s)
      PROVE  threads' \subseteq used' /\ up' = up /\ pc' = pc
  BY <1>7 DEF WriteCeiling
<1>8. CASE Crash
  BY <1>8 DEF Crash
<1>9. CASE Boot
  BY <1>9 DEF Boot
<1>10. CASE UNCHANGED vars
  BY <1>10 DEF vars
<1> QED
  BY <1>2, <1>3, <1>4, <1>5, <1>6, <1>7, <1>8, <1>9, <1>10 DEF Next

\* A request keeps its thread, its card and its head through whatever the
\* others write.
LEMMA JobKept ==
  ASSUME ConversationInv, RowsGrow, NEW t \in Turns, job'[t] = job[t],
         pc'[t] = "idle" <=> pc[t] = "idle",
         pc'[t] \in {"claim", "resolve"} => job[t].kind = "resume"
  PROVE  JobShaped(t)'
<1>1. JobShaped(t) /\ job[t] \in Job /\ used \subseteq used'
  BY DEF ConversationInv, JobsShaped, TypeOK, RowsGrow
<1>2. \A i \in Ids : rows[i].thread \in used => i <= issued
  BY ThreadsAssumption DEF ConversationInv, RowsShaped, NoRow, TypeOK, Ids
<1>3. \A i \in Ids : rows[i].thread \in used =>
        /\ rows'[i].thread = rows[i].thread /\ rows'[i].head = rows[i].head
        /\ rows[i].state = "card" => rows'[i].state = "card"
  BY <1>2 DEF RowsGrow, Settled
<1>4. pc[t] = "idle" => job[t].kind = "none" /\ job[t].head = 0
  BY <1>1 DEF JobShaped, NoJob
<1>5. pc[t] # "idle" => job[t].thread \in used
  BY <1>1 DEF JobShaped
<1>6. job[t].head # 0 => job[t].head \in Ids
  BY <1>1, RowsAssumption DEF Job, Ids
<1> QED
  BY <1>1, <1>3, <1>4, <1>5, <1>6 DEF JobShaped

(* What a request was validated to be about stays true of it until it is   *)
(* over: the card it resumes is a card of its thread, and the head it      *)
(* joined is a root of its thread.                                         *)
LEMMA JobsStep ==
  ASSUME ConversationInv, [Next]_vars, RowsGrow
  PROVE  JobsShaped'
<1>1. ASSUME UNCHANGED <<pc, job>>
      PROVE  JobsShaped'
  BY <1>1, JobKept DEF JobsShaped, ConversationInv, JobShaped
<1>2. ASSUME NEW t \in Turns, \A u \in Turns \ {t} : pc'[u] = pc[u] /\ job'[u] = job[u], JobShaped(t)'
      PROVE  JobsShaped'
  BY <1>2, JobKept DEF JobsShaped, ConversationInv, JobShaped
<1>3. ASSUME NEW t \in Turns, End(t)
      PROVE  JobShaped(t)'
  BY <1>3 DEF End, JobShaped, NoJob, ConversationInv, TypeOK
<1>4. ASSUME NEW t \in Turns, Handle(t) \/ Leave(t)
      PROVE  JobsShaped'
  <2>1. JobShaped(t)'
    <3>1. CASE \/ Refuse(t) \/ OpenStreamFails(t) \/ BasisGone(t) \/ AddQuestionCut(t)
               \/ AddQuestionFails(t) \/ CloseRecord(t)
      BY <1>3, <3>1 DEF Refuse, OpenStreamFails, BasisGone, AddQuestionCut, AddQuestionFails,
         CloseRecord, Return
    <3>2. CASE Claim(t)
      BY <1>3, <3>2, JobKept DEF Claim, request, ConversationInv, JobsShaped, JobShaped, TypeOK
    <3>3. CASE ResolveCard(t)
      <4> DEFINE i == job[t].msg
      <4>1. /\ pc[t] = "resolve" /\ pc'[t] = "register"
            /\ job'[t] = [job[t] EXCEPT !.head = IF Exists(i) THEN Head(i) ELSE 0]
            /\ UNCHANGED <<rows, used>>
        BY <3>3 DEF ResolveCard, Goto, store, ConversationInv, TypeOK
      <4>2. job[t] \in Job /\ JobShaped(t) /\ i \in Ids
        BY <4>1 DEF ConversationInv, TypeOK, JobsShaped, JobShaped
      <4>3. rows[Head(i)].thread = rows[i].thread /\ rows[Head(i)].head = 0
        BY <4>2 DEF ConversationInv, RowsShaped, Head
      <4> QED
        BY <4>1, <4>2, <4>3 DEF JobShaped, Job
    <3>4. CASE Register(t) \/ OpenStream(t) \/ AddQuestion(t) \/ SuggestFollowups(t) \/ FailLost(t)
      BY <3>4, JobKept DEF Register, OpenStream, AddQuestion, Insert, SuggestFollowups, FailLost, Goto,
         ConversationInv, TypeOK
    <3>5. CASE Answer(t) \/ AnswerOnly(t) \/ Clarify(t) \/ Fail(t)
      BY <3>5, JobKept DEF Answer, AnswerOnly, Finish, Clarify, Fail, Goto, ConversationInv, TypeOK
    <3>6. CASE Leave(t)
      BY <3>6, JobKept DEF Leave, ConversationInv, JobsShaped, JobShaped
    <3> QED
      BY <1>4, <3>1, <3>2, <3>3, <3>4, <3>5, <3>6 DEF Handle
  <2> QED
    BY <1>2, <1>4, <2>1, Locality DEF ConversationInv
<1>5. ASSUME NEW t \in Turns, NEW th \in Threads, AskNew(t, th) \/ AskInto(t, th)
      PROVE  JobsShaped'
  <2>1. /\ pc'[t] = "register" /\ th \in used'
        /\ job'[t].kind = "ask" /\ job'[t].thread = th /\ job'[t].head = 0
    <3>1. t \in DOMAIN pc /\ t \in DOMAIN job
      BY DEF ConversationInv, TypeOK
    <3>2. CASE AskNew(t, th)
      BY <3>1, <3>2 DEF AskNew, Begin, Goto, NoJob
    <3>3. CASE AskInto(t, th)
      <4>1. th \in used
        BY <3>3 DEF AskInto, ConversationInv, Grounded
      <4> QED
        BY <3>1, <3>3, <4>1 DEF AskInto, Begin, Goto, NoJob
    <3> QED
      BY <1>5, <3>2, <3>3
  <2>2. JobShaped(t)'
    BY <2>1 DEF JobShaped
  <2> QED
    BY <1>2, <1>5, <2>2, Locality DEF ConversationInv
<1>6. ASSUME NEW t \in Turns, NEW i \in Ids, Retry(t, i) \/ Reexplain(t, i) \/ ReadCard(t, i)
      PROVE  JobsShaped'
  <2>1. /\ rows[i].thread \in used
        /\ rows[Head(i)].thread = rows[i].thread /\ rows[Head(i)].head = 0
    BY <1>6 DEF Retry, Reexplain, ReadCard, ConversationInv, Grounded, Exists, RowsShaped, Head
  <2>2. /\ job'[t].thread = rows[i].thread /\ job'[t].head \in {0, Head(i)} /\ job'[t].msg = i
        /\ IF ReadCard(t, i) THEN pc'[t] = "claim" /\ job'[t].kind = "resume" /\ rows[i].state = "card"
           ELSE pc'[t] = "register" /\ job'[t].kind \in {"ask", "reexplain"}
        /\ rows' = rows /\ used' = used
    <3>1. t \in DOMAIN pc /\ t \in DOMAIN job
      BY DEF ConversationInv, TypeOK
    <3>2. CASE ReadCard(t, i)
      BY <3>1, <3>2 DEF ReadCard, Begin, Goto, NoJob
    <3>3. CASE ~ReadCard(t, i) /\ Retry(t, i)
      BY <3>1, <3>3 DEF Retry, Begin, Goto, NoJob
    <3>4. CASE ~ReadCard(t, i) /\ Reexplain(t, i)
      BY <3>1, <3>4 DEF Reexplain, Begin, Goto, NoJob
    <3> QED
      BY <1>6, <3>2, <3>3, <3>4
  <2>3. JobShaped(t)'
    BY <2>1, <2>2 DEF JobShaped
  <2> QED
    BY <1>2, <1>6, <2>3, Locality DEF ConversationInv
<1>7. CASE Crash
  BY <1>7 DEF Crash, JobsShaped, JobShaped, NoJob
<1>8. CASE Boot \/ UNCHANGED vars
  BY <1>1, <1>8 DEF Boot, vars, request
<1>9. ASSUME NEW th \in Threads, Delete(th) \/ CancelTurns(th) \/ RevokeShare(th)
      PROVE  JobsShaped'
  BY <1>1, <1>9 DEF Delete, CancelTurns, RevokeShare, request
<1>10. ASSUME NEW s \in Sharers, NEW th \in Threads, NEW op \in {"share", "raise"},
              ReadCeiling(s, th, op)
       PROVE  JobsShaped'
  BY <1>1, <1>10 DEF ReadCeiling, request
<1>11. ASSUME NEW s \in Sharers, WriteCeiling(s)
       PROVE  JobsShaped'
  BY <1>1, <1>11 DEF WriteCeiling, request
<1> QED
  BY <1>4, <1>5, <1>6, <1>7, <1>8, <1>9, <1>10, <1>11 DEF Next

(* No two pipelines write one row, and nobody else writes the row of a     *)
(* pipeline that runs.                                                     *)
LEMMA RunsStep ==
  ASSUME ConversationInv, [Next]_vars
  PROVE  RunsOwn'
<1>a. TypeOK /\ RowsShaped /\ RunsOwn
  BY DEF ConversationInv
<1>b. \A t \in Turns : pc[t] = "run" => row[t] \in Ids /\ row[t] <= issued
  <2> SUFFICES ASSUME NEW t \in Turns, pc[t] = "run"
               PROVE  row[t] \in Ids /\ row[t] <= issued
    OBVIOUS
  <2>1. /\ row[t] \in Ids
        /\ rows[row[t]] = [thread |-> job[t].thread, state |-> "open", from |-> 0, head |-> job[t].head]
    BY <1>a DEF RunsOwn
  <2>2. rows[row[t]] # NoRow
    BY <2>1 DEF NoRow
  <2> QED
    BY <1>a, <2>1, <2>2 DEF RowsShaped, TypeOK, Ids
<1>1. ASSUME UNCHANGED <<pc, job, row, rows>>
      PROVE  RunsOwn'
  BY <1>1, <1>a DEF RunsOwn
<1>2. ASSUME NEW t \in Turns, pc'[t] # "run",
             \A u \in Turns \ {t} : pc'[u] = pc[u] /\ job'[u] = job[u] /\ row'[u] = row[u],
             \A u \in Turns \ {t} : pc[u] = "run" => rows'[row[u]] = rows[row[u]]
      PROVE  RunsOwn'
  BY <1>2, <1>a DEF RunsOwn
<1>3. ASSUME NEW t \in Turns, Handle(t)
      PROVE  RunsOwn'
  <2>1. \A u \in Turns \ {t} : pc'[u] = pc[u] /\ job'[u] = job[u] /\ row'[u] = row[u]
    BY <1>3, <1>a, Locality
  <2>2. CASE \/ Claim(t) \/ ResolveCard(t) \/ Refuse(t) \/ Register(t) \/ OpenStream(t)
             \/ OpenStreamFails(t) \/ BasisGone(t) \/ AddQuestionFails(t) \/ SuggestFollowups(t)
             \/ FailLost(t) \/ CloseRecord(t)
    <3>1. pc'[t] # "run" /\ rows' = rows
      BY <2>2, <1>a DEF Claim, ResolveCard, Refuse, Register, OpenStream, OpenStreamFails, BasisGone,
         AddQuestionFails, SuggestFollowups, FailLost, CloseRecord, Return, End, Goto, store, TypeOK
    <3> QED
      BY <1>2, <2>1, <3>1
  <2>3. ASSUME Insert(t)
        PROVE  /\ \A u \in Turns : pc[u] = "run" => row[u] # issued + 1 /\ rows'[row[u]] = rows[row[u]]
               /\ issued + 1 \in Ids
               /\ rows'[issued + 1] =
                    [thread |-> job[t].thread, state |-> "open", from |-> 0, head |-> job[t].head]
    BY <1>a, <1>b, <2>3, RowsAssumption DEF Insert, TypeOK, Ids
  <2>4. CASE AddQuestionCut(t)
    <3>1. Insert(t) /\ pc'[t] # "run"
      BY <2>4, <1>a DEF AddQuestionCut, Return, End, TypeOK
    <3> QED
      BY <1>2, <2>1, <2>3, <3>1
  <2>5. CASE AddQuestion(t)
    <3>1. Insert(t) /\ pc[t] = "question" /\ job' = job /\ row'[t] = issued + 1
      BY <2>5, <1>a DEF AddQuestion, Insert, TypeOK
    <3> QED
      BY <1>a, <2>1, <2>3, <3>1 DEF RunsOwn
  <2>6. CASE Answer(t) \/ AnswerOnly(t) \/ Clarify(t) \/ Fail(t)
    <3>1. pc[t] = "run" /\ pc'[t] # "run" /\ \A i \in Ids \ {row[t]} : rows'[i] = rows[i]
      BY <2>6, <1>a DEF Answer, AnswerOnly, Finish, Clarify, Fail, Goto, Write, TypeOK
    <3>2. \A u \in Turns \ {t} : pc[u] = "run" => row[u] \in Ids \ {row[t]}
      BY <1>a, <3>1 DEF RunsOwn
    <3> QED
      BY <1>2, <2>1, <3>1, <3>2
  <2> QED
    BY <1>3, <2>2, <2>4, <2>5, <2>6 DEF Handle
<1>4. ASSUME NEW t \in Turns, Leave(t)
      PROVE  RunsOwn'
  BY <1>1, <1>4 DEF Leave, store
<1>5. ASSUME NEW t \in Turns, NEW th \in Threads, AskNew(t, th) \/ AskInto(t, th)
      PROVE  RunsOwn'
  <2>1. pc'[t] # "run" /\ rows' = rows
    BY <1>5, <1>a DEF AskNew, AskInto, Begin, Goto, TypeOK
  <2> QED
    BY <1>2, <1>5, <1>a, <2>1, Locality
<1>6. ASSUME NEW t \in Turns, NEW i \in Ids, Retry(t, i) \/ Reexplain(t, i) \/ ReadCard(t, i)
      PROVE  RunsOwn'
  <2>1. pc'[t] # "run" /\ rows' = rows
    BY <1>6, <1>a DEF Retry, Reexplain, ReadCard, Begin, Goto, TypeOK
  <2> QED
    BY <1>2, <1>6, <1>a, <2>1, Locality
<1>7. CASE Crash
  BY <1>7 DEF Crash, RunsOwn
<1>8. CASE Boot
  BY <1>8 DEF Boot, RunsOwn, request, ConversationInv, Grounded
<1>9. ASSUME NEW th \in Threads, Delete(th) \/ CancelTurns(th) \/ RevokeShare(th)
      PROVE  RunsOwn'
  BY <1>1, <1>9 DEF Delete, CancelTurns, RevokeShare, store, request
<1>10. ASSUME NEW s \in Sharers, NEW th \in Threads, NEW op \in {"share", "raise"},
              ReadCeiling(s, th, op)
       PROVE  RunsOwn'
  BY <1>1, <1>10 DEF ReadCeiling, store, request
<1>11. ASSUME NEW s \in Sharers, WriteCeiling(s)
       PROVE  RunsOwn'
  BY <1>1, <1>11 DEF WriteCeiling, request
<1>12. CASE UNCHANGED vars
  BY <1>1, <1>12 DEF vars, store, request
<1> QED
  BY <1>3, <1>4, <1>5, <1>6, <1>7, <1>8, <1>9, <1>10, <1>11, <1>12 DEF Next

(* Claim, the refused claim and the deferred release keep the claims equal *)
(* to the cards being answered, one turn each.                             *)
LEMMA HolderStep ==
  ASSUME ConversationInv, [Next]_vars
  PROVE  OneHolder'
<1>a. TypeOK /\ JobsShaped /\ OneHolder
  BY DEF ConversationInv
<1>1. ASSUME NEW t \in Turns, held' = held, Holding(t)' <=> Holding(t), job'[t].msg = job[t].msg,
             \A u \in Turns \ {t} : pc'[u] = pc[u] /\ job'[u] = job[u]
      PROVE  OneHolder'
  BY <1>1, <1>a DEF OneHolder, Holding
<1>2. ASSUME UNCHANGED <<pc, job, held>>
      PROVE  OneHolder'
  BY <1>2, <1>a DEF OneHolder, Holding
<1>3. ASSUME NEW t \in Turns, held' = held, ~Holding(t), ~Holding(t)',
             \A u \in Turns \ {t} : pc'[u] = pc[u] /\ job'[u] = job[u]
      PROVE  OneHolder'
  BY <1>3, <1>a DEF OneHolder, Holding
<1>4. ASSUME NEW t \in Turns, Return(t), pc[t] \notin {"idle", "claim"},
             \A u \in Turns \ {t} : pc'[u] = pc[u] /\ job'[u] = job[u]
      PROVE  OneHolder'
  <2>1. ~Holding(t)' /\ (Holding(t) <=> job[t].kind = "resume")
    BY <1>4, <1>a DEF Return, End, Holding, NoJob, TypeOK
  <2>2. held' = IF job[t].kind = "resume" THEN held \ {job[t].msg} ELSE held
    BY <1>4 DEF Return
  <2>3. \A u \in Turns \ {t} : (Holding(u)' <=> Holding(u)) /\ job'[u].msg = job[u].msg
    BY <1>4 DEF Holding
  <2> QED
    BY <1>a, <2>1, <2>2, <2>3 DEF OneHolder
<1>5. ASSUME NEW t \in Turns, Handle(t)
      PROVE  OneHolder'
  <2>1. \A u \in Turns \ {t} : pc'[u] = pc[u] /\ job'[u] = job[u]
    BY <1>5, <1>a, Locality
  <2>2. CASE \/ Refuse(t) \/ OpenStreamFails(t) \/ BasisGone(t) \/ AddQuestionCut(t)
             \/ AddQuestionFails(t) \/ CloseRecord(t)
    <3>1. Return(t) /\ pc[t] \notin {"idle", "claim"}
      BY <2>2 DEF Refuse, OpenStreamFails, BasisGone, AddQuestionCut, AddQuestionFails, CloseRecord,
         Insert
    <3> QED
      BY <1>4, <2>1, <3>1
  <2>3. CASE Claim(t)
    <3>1. pc[t] = "claim" /\ ~Holding(t) /\ job[t].kind = "resume" /\ job[t].msg \in Ids
      BY <2>3, <1>a DEF Claim, Holding, JobsShaped, JobShaped
    <3>2. CASE job[t].msg \in held
      <4>1. held' = held /\ ~Holding(t)'
        BY <2>3, <3>2, <1>a DEF Claim, End, Holding, TypeOK
      <4> QED
        BY <1>3, <2>1, <3>1, <4>1
    <3>3. CASE job[t].msg \notin held
      <4>1. held' = held \cup {job[t].msg} /\ Holding(t)' /\ job'[t].msg = job[t].msg
        BY <2>3, <3>1, <3>3, <1>a DEF Claim, Holding, TypeOK
      <4>2. \A u \in Turns \ {t} : (Holding(u)' <=> Holding(u)) /\ job'[u].msg = job[u].msg
        BY <2>1 DEF Holding
      <4> QED
        BY <1>a, <3>1, <3>3, <4>1, <4>2 DEF OneHolder
    <3> QED
      BY <3>2, <3>3
  <2>4. CASE ResolveCard(t)
    <3>1. held' = held /\ (Holding(t)' <=> Holding(t)) /\ job'[t].msg = job[t].msg
      BY <2>4, <1>a DEF ResolveCard, Goto, Holding, TypeOK, Job
    <3> QED
      BY <1>1, <2>1, <3>1
  <2>5. CASE \/ Register(t) \/ OpenStream(t) \/ AddQuestion(t) \/ SuggestFollowups(t)
             \/ FailLost(t) \/ Answer(t) \/ AnswerOnly(t) \/ Clarify(t) \/ Fail(t)
    <3>1. held' = held /\ (Holding(t)' <=> Holding(t)) /\ job'[t].msg = job[t].msg
      BY <2>5, <1>a DEF Register, OpenStream, AddQuestion, Insert, SuggestFollowups, FailLost, Answer,
         AnswerOnly, Finish, Clarify, Fail, Goto, Holding, TypeOK
    <3> QED
      BY <1>1, <2>1, <3>1
  <2> QED
    BY <1>5, <2>2, <2>3, <2>4, <2>5 DEF Handle
<1>6. ASSUME NEW t \in Turns, Leave(t)
      PROVE  OneHolder'
  BY <1>2, <1>6 DEF Leave
<1>7. ASSUME NEW t \in Turns, NEW th \in Threads, AskNew(t, th) \/ AskInto(t, th)
      PROVE  OneHolder'
  <2>1. held' = held /\ ~Holding(t) /\ ~Holding(t)'
    BY <1>7, <1>a DEF AskNew, AskInto, Begin, Goto, Holding, NoJob, TypeOK
  <2> QED
    BY <1>3, <1>7, <1>a, <2>1, Locality
<1>8. ASSUME NEW t \in Turns, NEW i \in Ids, Retry(t, i) \/ Reexplain(t, i) \/ ReadCard(t, i)
      PROVE  OneHolder'
  <2>1. held' = held /\ ~Holding(t) /\ ~Holding(t)'
    BY <1>8, <1>a DEF Retry, Reexplain, ReadCard, Begin, Goto, Holding, NoJob, TypeOK
  <2> QED
    BY <1>3, <1>8, <1>a, <2>1, Locality
<1>9. CASE Crash
  BY <1>9 DEF Crash, OneHolder, Holding, NoJob
<1>10. CASE Boot \/ UNCHANGED vars
  BY <1>2, <1>10 DEF Boot, vars, request
<1>11. ASSUME NEW th \in Threads, Delete(th) \/ CancelTurns(th) \/ RevokeShare(th)
       PROVE  OneHolder'
  BY <1>2, <1>11 DEF Delete, CancelTurns, RevokeShare, request
<1>12. ASSUME NEW s \in Sharers, NEW th \in Threads, NEW op \in {"share", "raise"},
              ReadCeiling(s, th, op)
       PROVE  OneHolder'
  BY <1>2, <1>12 DEF ReadCeiling, request
<1>13. ASSUME NEW s \in Sharers, WriteCeiling(s)
       PROVE  OneHolder'
  BY <1>2, <1>13 DEF WriteCeiling, request
<1> QED
  BY <1>5, <1>6, <1>7, <1>8, <1>9, <1>10, <1>11, <1>12, <1>13 DEF Next

(* A turn leaves the registry only cancelled or over, so the delete of its *)
(* thread finds it; and the foreign key keeps a question from starting a   *)
(* pipeline in a thread whose cancel has already gone by.                  *)
LEMMA LiveStep ==
  ASSUME ConversationInv, [Next]_vars
  PROVE  LiveOrCut' /\ DeletedTurnsStopped'
<1>a. TypeOK /\ LiveOrCut /\ DeletedTurnsStopped
  BY DEF ConversationInv
<1>b. \A t \in Turns : pc[t] = "run" => pc[t] \in Registered
  BY DEF Registered
<1>1. ASSUME UNCHANGED <<pc, job, cause, live>>,
             threads \cup doomed \cup dropped \subseteq threads' \cup doomed' \cup dropped'
      PROVE  LiveOrCut' /\ DeletedTurnsStopped'
  BY <1>1, <1>a DEF LiveOrCut, DeletedTurnsStopped
<1>2. ASSUME NEW t \in Turns,
             \A u \in Turns \ {t} : pc'[u] = pc[u] /\ job'[u] = job[u] /\ cause'[u] = cause[u],
             live \ {t} \subseteq live',
             threads \cup doomed \cup dropped \subseteq threads' \cup doomed' \cup dropped',
             pc'[t] \in Registered => t \in live' \/ cause'[t] # "none",
             pc'[t] = "run" /\ job'[t].thread \notin threads' \cup doomed' \cup dropped' =>
               cause'[t] # "none"
      PROVE  LiveOrCut' /\ DeletedTurnsStopped'
  BY <1>2, <1>a DEF LiveOrCut, DeletedTurnsStopped
<1>3. ASSUME NEW t \in Turns, Handle(t)
      PROVE  LiveOrCut' /\ DeletedTurnsStopped'
  <2>1. \A u \in Turns \ {t} : pc'[u] = pc[u] /\ job'[u] = job[u] /\ cause'[u] = cause[u]
    BY <1>3, <1>a, Locality
  <2>2. CASE \/ Refuse(t) \/ OpenStreamFails(t) \/ BasisGone(t) \/ AddQuestionCut(t)
             \/ AddQuestionFails(t) \/ CloseRecord(t)
    <3>1. Return(t) /\ threads \cup dropped \subseteq threads' \cup dropped'
      BY <2>2 DEF Refuse, OpenStreamFails, BasisGone, AddQuestionCut, AddQuestionFails, CloseRecord,
         Drop, store
    <3>2. live' = live \ {t} /\ doomed' = doomed /\ pc'[t] = "idle"
      BY <3>1, <1>a DEF Return, End, TypeOK
    <3> QED
      BY <1>2, <2>1, <3>1, <3>2 DEF Registered
  <2>3. CASE Claim(t) \/ ResolveCard(t)
    <3>1. UNCHANGED <<threads, doomed, dropped, live>> /\ pc'[t] \notin Registered
      BY <2>3, <1>a DEF Claim, ResolveCard, End, Goto, store, ghosts, Registered, TypeOK
    <3> QED
      BY <1>2, <2>1, <3>1 DEF Registered
  <2>4. CASE Register(t)
    <3>1. UNCHANGED <<threads, doomed, dropped>> /\ live' = live \cup {t} /\ pc'[t] = "open"
      BY <2>4, <1>a DEF Register, Goto, store, ghosts, TypeOK
    <3> QED
      BY <1>2, <2>1, <3>1
  <2>5. CASE OpenStream(t) \/ SuggestFollowups(t) \/ FailLost(t) \/ Answer(t) \/ AnswerOnly(t)
             \/ Clarify(t) \/ Fail(t)
    <3>1. /\ UNCHANGED <<threads, doomed, dropped, live, cause>>
          /\ pc[t] \in Registered /\ pc'[t] # "run"
      BY <2>5, <1>a DEF OpenStream, SuggestFollowups, FailLost, Answer, AnswerOnly, Finish, Clarify,
         Fail, Goto, store, ghosts, Registered, TypeOK
    <3> QED
      BY <1>2, <1>a, <2>1, <3>1 DEF LiveOrCut
  <2>6. CASE AddQuestion(t)
    <3>1. /\ UNCHANGED <<threads, doomed, dropped, live, cause, job>>
          /\ pc[t] \in Registered /\ job[t].thread \in threads
      BY <2>6, <1>a DEF AddQuestion, Insert, ghosts, Registered
    <3> QED
      BY <1>2, <1>a, <2>1, <3>1 DEF LiveOrCut
  <2> QED
    BY <1>3, <2>2, <2>3, <2>4, <2>5, <2>6 DEF Handle
<1>4. ASSUME NEW t \in Turns, Leave(t)
      PROVE  LiveOrCut' /\ DeletedTurnsStopped'
  <2>1. UNCHANGED <<threads, doomed, dropped, live>> /\ cause'[t] # "none"
    BY <1>4, <1>a DEF Leave, store, ghosts, TypeOK
  <2> QED
    BY <1>2, <1>4, <1>a, <2>1, Locality
<1>5. ASSUME NEW t \in Turns, NEW th \in Threads, AskNew(t, th) \/ AskInto(t, th)
      PROVE  LiveOrCut' /\ DeletedTurnsStopped'
  <2>1. /\ UNCHANGED <<doomed, dropped, live>> /\ threads \subseteq threads'
        /\ pc'[t] \notin Registered /\ pc'[t] # "run"
    BY <1>5, <1>a DEF AskNew, AskInto, Begin, Goto, ghosts, Registered, TypeOK
  <2> QED
    BY <1>2, <1>5, <1>a, <2>1, Locality
<1>6. ASSUME NEW t \in Turns, NEW i \in Ids, Retry(t, i) \/ Reexplain(t, i) \/ ReadCard(t, i)
      PROVE  LiveOrCut' /\ DeletedTurnsStopped'
  <2>1. /\ UNCHANGED <<doomed, dropped, live, threads>>
        /\ pc'[t] \notin Registered /\ pc'[t] # "run"
    BY <1>6, <1>a DEF Retry, Reexplain, ReadCard, Begin, Goto, ghosts, Registered, TypeOK
  <2> QED
    BY <1>2, <1>6, <1>a, <2>1, Locality
<1>7. CASE Crash
  BY <1>7 DEF Crash, LiveOrCut, DeletedTurnsStopped, Registered
<1>8. CASE Boot \/ UNCHANGED vars
  BY <1>1, <1>8 DEF Boot, vars, request, ghosts, store
<1>9. ASSUME NEW th \in Threads, CancelTurns(th)
      PROVE  LiveOrCut' /\ DeletedTurnsStopped'
  <2>1. /\ UNCHANGED <<pc, job, threads, dropped>> /\ doomed' = doomed \ {th}
        /\ \A t \in Turns : t \in live /\ t \notin live' => job[t].thread = th
        /\ \A t \in Turns : cause[t] # "none" => cause'[t] # "none"
        /\ \A t \in live : job[t].thread = th => cause'[t] # "none"
    BY <1>9, <1>a DEF CancelTurns, store, ghosts, TypeOK
  <2>2. LiveOrCut'
    BY <1>a, <2>1 DEF LiveOrCut, TypeOK
  <2> QED
    BY <1>a, <1>b, <2>1, <2>2 DEF LiveOrCut, DeletedTurnsStopped
<1>10. ASSUME NEW th \in Threads, Delete(th) \/ RevokeShare(th)
       PROVE  LiveOrCut' /\ DeletedTurnsStopped'
  BY <1>1, <1>10 DEF Delete, RevokeShare, request, ghosts
<1>11. ASSUME NEW s \in Sharers, NEW th \in Threads, NEW op \in {"share", "raise"},
              ReadCeiling(s, th, op)
       PROVE  LiveOrCut' /\ DeletedTurnsStopped'
  BY <1>1, <1>11 DEF ReadCeiling, request, ghosts, store
<1>12. ASSUME NEW s \in Sharers, WriteCeiling(s)
       PROVE  LiveOrCut' /\ DeletedTurnsStopped'
  BY <1>1, <1>12 DEF WriteCeiling, request, ghosts
<1> QED
  BY <1>3, <1>4, <1>5, <1>6, <1>7, <1>8, <1>9, <1>10, <1>11, <1>12 DEF Next

(* The empty store satisfies the invariant.                                *)
LEMMA ConversationInit == Init => ConversationInv
<1> SUFFICES ASSUME Init PROVE ConversationInv
  OBVIOUS
<1>1. TypeOK
  BY Shapes, RowsAssumption, BoundsAssumption DEF Init, TypeOK, Stages
<1>2. RowsShaped /\ Grounded
  BY Shapes, <1>1 DEF Init, RowsShaped, Grounded, NoRow, Ids
<1>3. JobsShaped /\ RunsOwn /\ LiveOrCut /\ DeletedTurnsStopped
  BY DEF Init, JobsShaped, JobShaped, NoJob, RunsOwn, LiveOrCut, Registered, DeletedTurnsStopped
<1>4. OneHolder
  BY DEF Init, OneHolder, Holding
<1>5. CoveredSettled /\ OrphansSettled
  BY DEF Init, CoveredSettled, NoShare, OrphansSettled, Ids
<1> QED
  BY <1>1, <1>2, <1>3, <1>4, <1>5 DEF ConversationInv

(* Every step keeps the invariant.                                         *)
LEMMA ConversationStep == ConversationInv /\ [Next]_vars => ConversationInv'
<1> SUFFICES ASSUME ConversationInv, [Next]_vars
             PROVE  ConversationInv'
  OBVIOUS
<1>1. RowsGrow
  BY StepRows
<1>2. TypeOK'
  BY TypeStep DEF ConversationInv
<1>3. RowsShaped' /\ Grounded' /\ JobsShaped'
  BY <1>1, RowsStep, GroundedStep, JobsStep
<1>4. RunsOwn' /\ OneHolder' /\ LiveOrCut' /\ DeletedTurnsStopped'
  BY RunsStep, HolderStep, LiveStep
<1>5. CoveredSettled' /\ OrphansSettled'
  BY <1>1, <1>2, CoverStep
<1> QED
  BY <1>2, <1>3, <1>4, <1>5 DEF ConversationInv

(* The inductive invariant holds in every reachable state of every         *)
(* conversation.                                                           *)
THEOREM ConversationHolds == Spec => []ConversationInv
<1> QED
  BY ConversationInit, ConversationStep, PTL DEF Spec

(* handleAsk, handleDeleteThread, turns, claims: however many tabs ask,    *)
(* delete and choose cards at once, a deleted thread's pipelines are       *)
(* stopped and a card is answered by one turn at a time.                   *)
THEOREM WhoRunsIsSound == Spec => []TurnsSound
<1>1. ConversationInv => TurnsSound
  BY DEF ConversationInv, TurnsSound
<1> QED
  BY <1>1, ConversationHolds, PTL

(* ceilingFor, FailOrphaned: what a public link covers, and what an        *)
(* earlier process left behind, is finished, whatever is streaming.        *)
THEOREM PublicStaysFrozen == Spec => []RecordFrozen
<1>1. ConversationInv => RecordFrozen
  BY DEF ConversationInv, TypeOK, RecordFrozen, SharedFrozen, CoveredSettled, Covers
<1> QED
  BY <1>1, ConversationHolds, PTL

-----------------------------------------------------------------------------
(* The refinement.  Each step of the conversation is a step of Record, or  *)
(* changes nothing a reader is shown.                                      *)

\* The record a reader is shown.
Told == [i \in Ids |-> Shown(i)]

(* A new store shows an empty record.                                      *)
LEMMA RecordStarts == Init => Kept!RecordInit
BY DEF Init, Kept!RecordInit, Shown, NoRow, Kept!Unseen

(* A step that writes no row and changes no row's thread shows nothing new. *)
LEMMA NothingTold ==
  ASSUME rows' = rows, \A i \in Ids : rows[i].state # "none" => (Exists(i)' <=> Exists(i))
  PROVE  Told' = Told
BY DEF Told, Shown, Exists

\* The row an insert leaves, and the ones it leaves alone.
LEMMA Inserted ==
  ASSUME ConversationInv, NEW t \in Turns, Insert(t)
  PROVE  /\ issued + 1 \in Ids /\ rows[issued + 1] = NoRow
         /\ rows'[issued + 1].thread = job[t].thread /\ rows'[issued + 1].state = "open"
         /\ rows'[issued + 1] =
              [thread |-> job[t].thread, state |-> "open", from |-> 0, head |-> job[t].head]
         /\ \A i \in Ids : i # issued + 1 => rows'[i] = rows[i]
         /\ \A i \in Ids : i < issued + 1 => rows[i].state # "none"
         /\ job[t].thread \in threads
<1>1. job[t] \in Job /\ rows \in [Ids -> Row] /\ issued \in Nat /\ issued + 1 \in Ids
  BY RowsAssumption DEF ConversationInv, TypeOK, Insert, Ids
<1> QED
  BY <1>1 DEF Insert, ConversationInv, RowsShaped, Ids, Job

(* AddQuestion is Record's Put: a new open message behind the last, whose  *)
(* head is a root of its thread.                                           *)
LEMMA PutTold ==
  ASSUME ConversationInv, NEW t \in Turns, Insert(t), threads' = threads
  PROVE  Kept!RecordNext
<1>0. PICK i \in Ids : i = issued + 1
  BY Inserted
<1>1. /\ i \in Ids /\ rows[i] = NoRow /\ \A j \in Ids : j # i => rows'[j] = rows[j]
      /\ rows'[i] = [thread |-> job[t].thread, state |-> "open", from |-> 0, head |-> job[t].head]
      /\ rows'[i].thread = job[t].thread
      /\ \A j \in Ids : j < i => rows[j].state # "none"
      /\ job[t].thread \in threads /\ threads \subseteq Threads
  BY <1>0, Inserted DEF ConversationInv, TypeOK
<1>2. \A j \in Ids \ {i} : Shown(j)' = Shown(j)
  BY <1>1 DEF Shown, Exists
<1>3. Shown(i) = Kept!Unseen
  BY <1>1 DEF Shown, NoRow, Kept!Unseen
<1>4. Shown(i)' = [thread |-> job[t].thread, state |-> "open", from |-> 0, head |-> job[t].head]
  BY <1>1 DEF Shown, Exists
<1>5. \A j \in Ids : j < i => Shown(j) # Kept!Unseen
  BY <1>1 DEF Shown, GoneRow, NoRow, Kept!Unseen
<1>6. /\ job[t].head \in Ids \cup {0}
      /\ job[t].head # 0 => Shown(job[t].head).thread = job[t].thread /\ Shown(job[t].head).head = 0
  <2>1. job[t].head \in Ids \cup {0}
    BY RowsAssumption DEF ConversationInv, TypeOK, Job, Ids
  <2>2. job[t].head # 0 => /\ rows[job[t].head].thread = job[t].thread
                           /\ rows[job[t].head].head = 0
    BY DEF ConversationInv, JobsShaped, JobShaped
  <2> QED
    BY <1>1, <2>1, <2>2 DEF Shown, Exists
<1>7. Kept!Put(i, job[t].thread, job[t].head)
  BY <1>1, <1>2, <1>3, <1>4, <1>5, <1>6 DEF Kept!Put, Kept!NextId, Kept!In
<1> QED
  BY <1>1, <1>6, <1>7 DEF Kept!RecordNext

(* A delete, or dropThread, is Record's Forget.                            *)
LEMMA ForgetTold ==
  ASSUME ConversationInv, NEW th \in Threads, threads' = threads \ {th}, rows' = rows
  PROVE  Kept!RecordNext
<1>1. /\ 0 \notin Threads /\ threads \subseteq Threads
      /\ GoneRow = Kept!Gone /\ GoneRow.thread = 0
  BY ThreadsAssumption DEF ConversationInv, TypeOK, GoneRow, NoRow, Kept!Gone
<1>2. \A i \in Ids : Shown(i)' = IF Shown(i).thread = th THEN Kept!Gone ELSE Shown(i)
  <2> SUFFICES ASSUME NEW i \in Ids
               PROVE  Shown(i)' = IF Shown(i).thread = th THEN Kept!Gone ELSE Shown(i)
    OBVIOUS
  <2>1. rows[i].state = "none" => rows[i].thread = 0
    BY DEF ConversationInv, RowsShaped, NoRow, TypeOK, Ids
  <2> QED
    BY <1>1, <2>1 DEF Shown, Exists
<1>3. Kept!Forget(th, {})
  BY <1>2 DEF Kept!Forget, Kept!In
<1> QED
  BY <1>3 DEF Kept!RecordNext

(* A question whose row landed in a thread dropThread then deletes is      *)
(* Record's Forget too, with that late message among the forgotten.        *)
LEMMA ForgetLateTold ==
  ASSUME ConversationInv, NEW t \in Turns, Insert(t), threads' = threads \ {job[t].thread}
  PROVE  Kept!RecordNext
<1>0. PICK i \in Ids, th \in Threads : i = issued + 1 /\ th = job[t].thread
  BY Inserted DEF ConversationInv, TypeOK
<1>1. /\ i \in Ids /\ rows[i] = NoRow /\ \A j \in Ids : j # i => rows'[j] = rows[j]
      /\ rows'[i].thread = th /\ rows'[i].state = "open"
      /\ \A j \in Ids : j < i => rows[j].state # "none"
      /\ th \in threads /\ threads \subseteq Threads /\ threads' = threads \ {th}
  BY <1>0, Inserted DEF ConversationInv, TypeOK
<1>2. 0 \notin Threads /\ GoneRow = Kept!Gone /\ GoneRow.thread = 0
  BY ThreadsAssumption DEF GoneRow, NoRow, Kept!Gone
<1>3. Shown(i) = Kept!Unseen /\ Shown(i)' = Kept!Gone
  BY <1>1, <1>2 DEF Shown, Exists, NoRow, Kept!Unseen
<1>4. \A j \in Ids : j < i => Shown(j) # Kept!Unseen
  BY <1>1 DEF Shown, GoneRow, NoRow, Kept!Unseen
<1>5. \A j \in Ids \ {i} : Shown(j)' = IF Shown(j).thread = th THEN Kept!Gone ELSE Shown(j)
  <2> SUFFICES ASSUME NEW j \in Ids \ {i}
               PROVE  Shown(j)' = IF Shown(j).thread = th THEN Kept!Gone ELSE Shown(j)
    OBVIOUS
  <2>1. rows[j].state = "none" => rows[j].thread = 0
    BY DEF ConversationInv, RowsShaped, NoRow, TypeOK, Ids
  <2> QED
    BY <1>1, <1>2, <2>1 DEF Shown, Exists
<1>6. Kept!Forget(th, {i})
  BY <1>1, <1>3, <1>4, <1>5 DEF Kept!Forget, Kept!In, Kept!NextId
<1> QED
  BY <1>1, <1>6 DEF Kept!RecordNext

(* A pipeline's outcome is Record's Settle of its own message, or, once    *)
(* the thread is gone, nothing.                                            *)
LEMMA SettleTold ==
  ASSUME ConversationInv, NEW t \in Turns, pc[t] = "run", threads' = threads,
         NEW outcome \in Kept!Outcomes, NEW card \in Ids \cup {0},
         Write(t, [rows[row[t]] EXCEPT !.state = outcome, !.from = card]),
         card # 0 => outcome = "answered" /\ job[t].kind = "resume" /\ card = job[t].msg
  PROVE  Kept!RecordNext \/ Told' = Told
<1>0. PICK i \in Ids : i = row[t]
  BY DEF ConversationInv, RunsOwn
<1>1. /\ rows[i] = [thread |-> job[t].thread, state |-> "open", from |-> 0, head |-> job[t].head]
      /\ job[t] \in Job /\ job[t].thread \in used
  BY <1>0 DEF ConversationInv, RunsOwn, TypeOK, JobsShaped, JobShaped
<1>2. CASE ~Exists(i)
  BY <1>0, <1>2 DEF Write, Told, Shown, Exists
<1>3. CASE Exists(i)
  <2>1. rows' = [rows EXCEPT ![i] = [rows[i] EXCEPT !.state = outcome, !.from = card]]
    BY <1>0, <1>3 DEF Write
  <2>2. \A j \in Ids \ {i} : Shown(j)' = Shown(j)
    BY <2>1 DEF Shown, Exists, ConversationInv, TypeOK
  <2>3. /\ Shown(i) = rows[i] /\ rows[i].state = "open"
        /\ rows[i].thread = job[t].thread /\ job[t].thread \in threads
    BY <1>1, <1>3 DEF Shown, Exists, Job
  <2>4. rows'[i] = [rows[i] EXCEPT !.state = outcome, !.from = card]
    BY <1>1, <2>1 DEF ConversationInv, TypeOK
  <2>5. rows'[i].thread = rows[i].thread
    BY <1>1, <2>4
  <2>6. Shown(i)' = [Shown(i) EXCEPT !.state = outcome, !.from = card]
    BY <2>3, <2>4, <2>5 DEF Shown, Exists
  <2>7. card # 0 => Shown(card).thread = Shown(i).thread /\ Shown(card).state = "card"
    BY <1>1, <2>3 DEF ConversationInv, JobsShaped, JobShaped, Shown, Exists
  <2>8. Kept!Settle(i, outcome, card)
    BY <1>1, <2>2, <2>3, <2>6, <2>7 DEF Kept!Settle, Kept!Open, Kept!In
  <2> QED
    BY <1>1, <2>8 DEF Kept!RecordNext
<1> QED
  BY <1>2, <1>3

(* Every step of a handler is a step of Record or shows nothing new.       *)
LEMMA HandlerTold ==
  ASSUME ConversationInv, NEW t \in Turns, Handle(t)
  PROVE  Kept!RecordNext \/ Told' = Told
<1>a. TypeOK /\ 0 \in Ids \cup {0}
  BY DEF ConversationInv
<1>1. ASSUME UNCHANGED <<threads, rows>>
      PROVE  Told' = Told
  BY <1>1 DEF Told, Shown, Exists
<1>2. CASE \/ Claim(t) \/ ResolveCard(t) \/ Refuse(t) \/ Register(t) \/ OpenStream(t) \/ BasisGone(t)
           \/ SuggestFollowups(t) \/ FailLost(t) \/ CloseRecord(t)
  BY <1>1, <1>2 DEF Claim, ResolveCard, Refuse, Register, OpenStream, BasisGone, SuggestFollowups,
     FailLost, CloseRecord, store
<1>3. CASE OpenStreamFails(t) \/ AddQuestionFails(t)
  <2>1. pc[t] # "idle" /\ Drop(t) /\ rows' = rows
    BY <1>3 DEF OpenStreamFails, AddQuestionFails
  <2>2. job[t].thread \in Threads
    BY <2>1, DropTyped DEF ConversationInv
  <2>3. CASE job[t].created
    BY <2>1, <2>2, <2>3, ForgetTold DEF Drop
  <2>4. CASE ~job[t].created
    BY <1>1, <2>1, <2>4 DEF Drop
  <2> QED
    BY <2>3, <2>4
<1>4. CASE AddQuestion(t)
  BY <1>4, PutTold DEF AddQuestion
<1>5. CASE AddQuestionCut(t)
  BY <1>5, PutTold, ForgetLateTold DEF AddQuestionCut, Drop
<1>6. CASE Answer(t) \/ AnswerOnly(t)
  <2> DEFINE card == IF job[t].kind = "resume" THEN job[t].msg ELSE 0
  <2>1. /\ pc[t] = "run" /\ threads' = threads
        /\ Write(t, [rows[row[t]] EXCEPT !.state = "answered", !.from = card])
    BY <1>6 DEF Answer, AnswerOnly, Finish, Goto
  <2>2. card \in Ids \cup {0} /\ "answered" \in Kept!Outcomes
    BY DEF ConversationInv, JobsShaped, JobShaped, Kept!Outcomes
  <2>3. card # 0 => job[t].kind = "resume" /\ card = job[t].msg
    OBVIOUS
  <2> HIDE DEF card
  <2> QED
    BY <2>1, <2>2, <2>3, SettleTold
<1>7. ASSUME NEW state \in {"card", "failed"}, pc[t] = "run", threads' = threads,
             Write(t, [rows[row[t]] EXCEPT !.state = state])
      PROVE  Kept!RecordNext \/ Told' = Told
  <2>1. rows[row[t]] = [thread |-> job[t].thread, state |-> "open", from |-> 0, head |-> job[t].head]
    BY <1>7 DEF ConversationInv, RunsOwn
  <2>2. \A r \in Row : r.from = 0 =>
          [r EXCEPT !.state = state] = [r EXCEPT !.state = state, !.from = 0]
    BY DEF Row
  <2>3. rows[row[t]].from = 0 /\ rows[row[t]] \in Row
    BY <1>7, <2>1 DEF ConversationInv, RunsOwn, TypeOK
  <2>4. [rows[row[t]] EXCEPT !.state = state] = [rows[row[t]] EXCEPT !.state = state, !.from = 0]
    BY <2>2, <2>3
  <2>5. Write(t, [rows[row[t]] EXCEPT !.state = state, !.from = 0])
    BY <1>7, <2>4 DEF Write
  <2> QED
    BY <1>7, <1>a, <2>5, SettleTold DEF Kept!Outcomes
<1>8. CASE Clarify(t) \/ Fail(t)
  BY <1>7, <1>8 DEF Clarify, Fail, Goto
<1> QED
  BY <1>2, <1>3, <1>4, <1>5, <1>6, <1>8 DEF Handle

(* So is every step of the conversation; FailOrphaned is Record's          *)
(* SettleAll.                                                              *)
LEMMA StepTold ==
  ASSUME ConversationInv, [Next]_vars
  PROVE  Kept!RecordNext \/ Told' = Told
<1>1. ASSUME UNCHANGED <<threads, rows>>
      PROVE  Told' = Told
  BY <1>1 DEF Told, Shown, Exists
<1>2. ASSUME NEW t \in Turns, Handle(t) \/ Leave(t)
      PROVE  Kept!RecordNext \/ Told' = Told
  BY <1>1, <1>2, HandlerTold DEF Leave, store
<1>3. ASSUME NEW t \in Turns, NEW th \in Threads, AskNew(t, th)
      PROVE  Told' = Told
  <2>1. threads' = threads \cup {th} /\ th \notin used /\ rows' = rows
    BY <1>3 DEF AskNew, Begin
  <2>2. \A i \in Ids : rows[i].state # "none" => rows[i].thread \in used
    BY DEF ConversationInv, RowsShaped, NoRow, TypeOK, Ids
  <2> QED
    BY <2>1, <2>2, NothingTold DEF Exists
<1>4. ASSUME NEW t \in Turns, NEW th \in Threads, AskInto(t, th)
      PROVE  Told' = Told
  BY <1>1, <1>4 DEF AskInto, Begin
<1>5. ASSUME NEW t \in Turns, NEW i \in Ids, Retry(t, i) \/ Reexplain(t, i) \/ ReadCard(t, i)
      PROVE  Told' = Told
  BY <1>1, <1>5 DEF Retry, Reexplain, ReadCard, Begin
<1>6. ASSUME NEW th \in Threads, Delete(th)
      PROVE  Kept!RecordNext
  BY <1>6, ForgetTold DEF Delete
<1>7. ASSUME NEW th \in Threads, CancelTurns(th) \/ RevokeShare(th)
      PROVE  Told' = Told
  BY <1>1, <1>7 DEF CancelTurns, RevokeShare, store
<1>8. ASSUME NEW s \in Sharers, NEW th \in Threads, NEW op \in {"share", "raise"},
             ReadCeiling(s, th, op)
      PROVE  Told' = Told
  BY <1>1, <1>8 DEF ReadCeiling, store
<1>9. ASSUME NEW s \in Sharers, WriteCeiling(s)
      PROVE  Told' = Told
  BY <1>1, <1>9 DEF WriteCeiling
<1>10. CASE Crash \/ UNCHANGED vars
  BY <1>1, <1>10 DEF Crash, vars, store
<1>11. CASE Boot
  <2>1. /\ threads' = threads
        /\ \A i \in Ids : rows'[i] = IF Orphaned(i) THEN [rows[i] EXCEPT !.state = "failed"] ELSE rows[i]
    BY <1>11 DEF Boot
  <2>2. \A i \in Ids : rows[i] \in Row
    BY DEF ConversationInv, TypeOK
  <2>3. \A i \in Ids : Shown(i)' = IF Shown(i).state = "open" THEN [Shown(i) EXCEPT !.state = "failed"]
                                   ELSE Shown(i)
    <3> SUFFICES ASSUME NEW i \in Ids
                 PROVE  Shown(i)' = IF Shown(i).state = "open" THEN [Shown(i) EXCEPT !.state = "failed"]
                                    ELSE Shown(i)
      OBVIOUS
    <3>1. rows[i].state = "open" => rows'[i].thread = rows[i].thread
      BY <2>1, <2>2 DEF Row
    <3> QED
      BY <2>1, <2>2, <3>1 DEF Shown, Exists, Orphaned, GoneRow, NoRow, Row
  <2>4. Kept!SettleAll
    BY <2>3 DEF Kept!SettleAll, Kept!Open
  <2> QED
    BY <2>4 DEF Kept!RecordNext
<1> QED
  BY <1>2, <1>3, <1>4, <1>5, <1>6, <1>7, <1>8, <1>9, <1>10, <1>11 DEF Next

(* The threads store under its handlers implements Record: a reader sees   *)
(* messages that are never rewritten once settled, heads that are roots,   *)
(* cards closed by answers of their own thread only, and deletes that      *)
(* leave nothing.                                                          *)
THEOREM RecordIsKept == Spec => KeepsRecord
<1>1. ConversationInv /\ [Next]_vars => [Kept!RecordNext]_[i \in Ids |-> Shown(i)]
  BY StepTold DEF Told
<1> QED
  BY <1>1, RecordStarts, ConversationHolds, PTL DEF Spec, KeepsRecord, Kept!RecordSpec
=============================================================================
