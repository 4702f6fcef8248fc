---------------------------- MODULE Conversation ----------------------------
(***************************************************************************)
(* A conversation's record and the turns that write it: httpapi's handlers *)
(* (handleAsk, handleReexplain, handleDeleteThread, the share actions) over *)
(* the threads store.  Turns of several tabs run at once; each is a        *)
(* handler that validates, claims the card it resumes, registers itself so *)
(* that a delete can cancel it, opens its stream, records its question and *)
(* only then runs the pipeline.  Readers leave, delete and share between   *)
(* any two of those steps, writes fail, and the process can die.           *)
(*                                                                         *)
(* A message is its row number; AUTOINCREMENT never issues one twice, and  *)
(* the cascade of a deleted thread makes its rows unreadable for good.     *)
(***************************************************************************)
EXTENDS Integers, FiniteSets

CONSTANTS
  Threads,     \* thread row ids
  Turns,       \* requests that may be in flight at once
  Sharers,     \* share requests that may be in flight at once
  MaxRows,     \* bound: messages recorded, by the requests in flight included
  MaxFaults,   \* bound: database writes that fail
  MaxCrashes   \* bound: crashes

ASSUME RowsAssumption == MaxRows \in Nat
ASSUME BoundsAssumption == MaxFaults \in Nat /\ MaxCrashes \in Nat

VARIABLES
  threads,     \* threads that exist
  used,        \* thread ids AUTOINCREMENT has issued
  rows,        \* rows[i]: message i
  issued,      \* message ids issued so far
  shares,      \* shared_threads, by thread
  up,          \* whether the process runs
  pc,          \* where each turn's handler is
  job,         \* what each turn was asked to do
  row,         \* row[t]: the message turn t records
  cause,       \* why t's context was cancelled; the first cause stands
  live,        \* turns.live: registered turns
  held,        \* claims.held: cards being answered
  doomed,      \* threads deleted whose turns are still to be cancelled
  sharing,     \* share requests between reading the ceiling and writing it
  faults, crashes,
  marked,      \* ghost: message ids issued when the process last booted
  dropped      \* ghost: threads dropThread deleted

store == <<threads, used, rows, issued, shares>>
request == <<pc, job, row, cause>>
ghosts == <<marked, dropped>>
vars == <<store, request, up, live, held, doomed, sharing, faults, crashes, ghosts>>

Ids == 1..MaxRows
States == {"none", "open", "answered", "failed", "card"}
\* from is the card the row answers, head the message that opened the turn.
Row == [thread : Threads \cup {0}, state : States, from : 0..MaxRows, head : 0..MaxRows]
Job == [kind : {"none", "ask", "resume", "reexplain"}, thread : Threads \cup {0},
        msg : 0..MaxRows, head : 0..MaxRows, created : BOOLEAN]

NoRow == [thread |-> 0, state |-> "none", from |-> 0, head |-> 0]
NoJob == [kind |-> "none", thread |-> 0, msg |-> 0, head |-> 0, created |-> FALSE]
NoShare == [live |-> FALSE, ceiling |-> 0]
NotSharing == [op |-> "none", thread |-> 0, newest |-> 0]

ASSUME ThreadsAssumption == 0 \notin Threads

Exists(i) == rows[i].thread \in threads
Settled(i) == rows[i].state \in {"answered", "failed", "card"}

\* Mutant: the head of a continuation is the row it continues.
HeadNearest(i) == i

\* Message.Head: one hop, because a head is stored as the root.
Head(i) == IF rows[i].head # 0 THEN rows[i].head ELSE i

\* clarificationsFor asks the messages whether the card was answered.
Answered(c) == \E i \in Ids : Exists(i) /\ rows[i].from = c

\* Mutant: the ceiling is the newest finished row, whatever is open below it.
IsCeilingNewest(th, c) ==
  /\ rows[c].thread = th /\ Settled(c)
  /\ \A d \in Ids : rows[d].thread = th /\ d > c => ~Settled(d)

\* ceilingFor: the newest finished row below the oldest unfinished one.
IsCeiling(th, c) ==
  /\ rows[c].thread = th
  /\ \A j \in Ids : rows[j].thread = th /\ j <= c => Settled(j)
  /\ \A d \in Ids : rows[d].thread = th /\ d > c =>
       \E j \in Ids : rows[j].thread = th /\ j <= d /\ ~Settled(j)

-----------------------------------------------------------------------------
Init ==
  /\ threads = {} /\ used = {} /\ rows = [i \in Ids |-> NoRow] /\ issued = 0
  /\ shares = [th \in Threads |-> NoShare]
  /\ up = TRUE
  /\ pc = [t \in Turns |-> "idle"] /\ job = [t \in Turns |-> NoJob]
  /\ row = [t \in Turns |-> 0] /\ cause = [t \in Turns |-> "none"]
  /\ live = {} /\ held = {} /\ doomed = {}
  /\ sharing = [s \in Sharers |-> NotSharing]
  /\ faults = 0 /\ crashes = 0
  /\ marked = 0 /\ dropped = {}

Goto(t, here, there) == pc[t] = here /\ pc' = [pc EXCEPT ![t] = there]

Begin(t, at, j) ==
  /\ up /\ Goto(t, "idle", at)
  /\ issued + Cardinality({u \in Turns : pc[u] # "idle"}) < MaxRows
  /\ job' = [job EXCEPT ![t] = j]
  /\ UNCHANGED <<rows, issued, shares, row, cause, up, live, held, doomed, sharing, faults,
                 crashes, ghosts>>

\* The request is over, and its handler's variables with it.
End(t) ==
  /\ pc' = [pc EXCEPT ![t] = "idle"]
  /\ job' = [job EXCEPT ![t] = NoJob]
  /\ row' = [row EXCEPT ![t] = 0]
  /\ cause' = [cause EXCEPT ![t] = "none"]

\* The handler returns: its deferred calls take the turn off the registry
\* and release the card it holds.
Return(t) ==
  /\ End(t)
  /\ live' = live \ {t}
  /\ held' = IF job[t].kind = "resume" THEN held \ {job[t].msg} ELSE held
  /\ UNCHANGED <<up, doomed, sharing, crashes, marked>>

\* dropThread: a refused turn deletes the thread it created, and nothing more:
\* no turn is cancelled.
Drop(t) ==
  IF job[t].created
  THEN /\ threads' = threads \ {job[t].thread}
       /\ dropped' = dropped \cup {job[t].thread}
  ELSE UNCHANGED <<threads, dropped>>

-----------------------------------------------------------------------------
(* The requests.  What a handler validates before it writes anything is    *)
(* the guard: a request it refuses changes nothing.                        *)

AskNew(t, th) ==
  /\ th \notin used
  /\ Begin(t, "register", [NoJob EXCEPT !.kind = "ask", !.thread = th, !.created = TRUE])
  /\ threads' = threads \cup {th} /\ used' = used \cup {th}

AskInto(t, th) ==
  /\ th \in threads
  /\ Begin(t, "register", [NoJob EXCEPT !.kind = "ask", !.thread = th])
  /\ UNCHANGED <<threads, used>>

\* A retry joins the turn of the message it names.
Retry(t, i) ==
  /\ Exists(i)
  /\ Begin(t, "register", [NoJob EXCEPT !.kind = "ask", !.thread = rows[i].thread,
                                        !.msg = i, !.head = Head(i)])
  /\ UNCHANGED <<threads, used>>

Reexplain(t, i) ==
  /\ Exists(i)
  /\ Begin(t, "register", [NoJob EXCEPT !.kind = "reexplain", !.thread = rows[i].thread,
                                        !.msg = i, !.head = Head(i)])
  /\ UNCHANGED <<threads, used>>

\* Whether the card is answered is read here, before the claim is taken.
ReadCard(t, i) ==
  /\ Exists(i) /\ rows[i].state = "card" /\ ~Answered(i)
  /\ Begin(t, "claim", [NoJob EXCEPT !.kind = "resume", !.thread = rows[i].thread, !.msg = i])
  /\ UNCHANGED <<threads, used>>

Claim(t) ==
  /\ pc[t] = "claim"
  /\ IF job[t].msg \in held
     THEN End(t) /\ UNCHANGED held
     ELSE /\ pc' = [pc EXCEPT ![t] = "resolve"] /\ held' = held \cup {job[t].msg}
          /\ UNCHANGED <<job, row, cause>>
  /\ UNCHANGED <<store, up, live, doomed, sharing, faults, crashes, ghosts>>

\* The card's own row, read under the claim; a row that is gone leaves the
\* resumed turn without a head.
ResolveCard(t) ==
  /\ Goto(t, "resolve", "register")
  /\ job' = [job EXCEPT ![t].head = IF Exists(job[t].msg) THEN Head(job[t].msg) ELSE 0]
  /\ UNCHANGED <<store, row, cause, up, live, held, doomed, sharing, faults, crashes, ghosts>>

\* A read between the claim and the registration fails the request.
Refuse(t) ==
  /\ pc[t] \in {"resolve", "register"} /\ ~job[t].created
  /\ Return(t)
  /\ UNCHANGED <<store, faults, dropped>>

-----------------------------------------------------------------------------
(* From the registration to the question's row.                            *)

Register(t) ==
  /\ Goto(t, "register", "open")
  /\ live' = live \cup {t}
  /\ UNCHANGED <<store, job, row, cause, up, held, doomed, sharing, faults, crashes, ghosts>>

OpenStream(t) ==
  /\ Goto(t, "open", "question")
  /\ job[t].kind = "reexplain" =>
       Exists(job[t].msg) /\ rows[job[t].msg].state = "answered"
  /\ UNCHANGED <<store, job, row, cause, up, live, held, doomed, sharing, faults, crashes, ghosts>>

OpenStreamFails(t) ==
  /\ pc[t] = "open"
  /\ Drop(t) /\ Return(t)
  /\ UNCHANGED <<used, rows, issued, shares, faults>>

\* The sources a re-explain would answer from are gone: nothing is written.
BasisGone(t) ==
  /\ pc[t] = "open" /\ job[t].kind = "reexplain"
  /\ Return(t)
  /\ UNCHANGED <<store, faults, dropped>>

\* Mutant: the foreign key is not enforced.
InsertUnchecked(t) ==
  /\ pc[t] = "question" /\ cause[t] = "none"
  /\ issued < MaxRows
  /\ issued' = issued + 1
  /\ rows' = [rows EXCEPT ![issued + 1] =
       [thread |-> job[t].thread, state |-> "open", from |-> 0, head |-> job[t].head]]

\* The INSERT of AddQuestion: the foreign key refuses a thread that is gone.
Insert(t) ==
  /\ pc[t] = "question" /\ cause[t] = "none"
  /\ job[t].thread \in threads /\ issued < MaxRows
  /\ issued' = issued + 1
  /\ rows' = [rows EXCEPT ![issued + 1] =
       [thread |-> job[t].thread, state |-> "open", from |-> 0, head |-> job[t].head]]

AddQuestion(t) ==
  /\ Insert(t)
  /\ pc' = [pc EXCEPT ![t] = "run"]
  /\ row' = [row EXCEPT ![t] = issued + 1]
  /\ UNCHANGED <<threads, used, shares, job, cause, up, live, held, doomed, sharing, faults,
                 crashes, ghosts>>

\* The row landed and reading it back did not: the reader left, or the thread
\* was deleted, between the two statements.  The handler takes that for a
\* question that was never recorded.
AddQuestionCut(t) ==
  /\ Insert(t)
  /\ Drop(t) /\ Return(t)
  /\ UNCHANGED <<used, shares, faults>>

AddQuestionFails(t) ==
  /\ pc[t] = "question"
  /\ \/ (cause[t] # "none" \/ job[t].thread \notin threads) /\ UNCHANGED faults
     \/ faults < MaxFaults /\ faults' = faults + 1
  /\ Drop(t) /\ Return(t)
  /\ UNCHANGED <<used, rows, issued, shares>>

-----------------------------------------------------------------------------
(* The pipeline's outcome.  The record is written on a context nothing     *)
(* cancels; writes to a row the cascade took match nothing.                *)

Write(t, r) ==
  rows' = IF Exists(row[t]) THEN [rows EXCEPT ![row[t]] = r] ELSE rows

\* FinishWithSources: the answer, its sources and the card's link in one write.
Finish(t, next) ==
  /\ Goto(t, "run", next)
  /\ Write(t, [rows[row[t]] EXCEPT !.state = "answered",
                 !.from = IF job[t].kind = "resume" THEN job[t].msg ELSE 0])
  /\ UNCHANGED <<threads, used, issued, shares, job, row, cause, up, live, held, doomed, sharing,
                 faults, crashes, ghosts>>

\* Follow-ups are suggested for an answer that landed with sources, unless its
\* thread is known to be deleted.
Answer(t) == pc[t] = "run" /\ Exists(row[t]) /\ cause[t] # "deleted" /\ Finish(t, "suggest")
AnswerOnly(t) == Finish(t, "close")

\* The suggestion call ends, or the delete of the thread cancels it.
SuggestFollowups(t) ==
  /\ Goto(t, "suggest", "close")
  /\ UNCHANGED <<store, job, row, cause, up, live, held, doomed, sharing, faults, crashes, ghosts>>

\* Only Ask.Run asks back; a resumed or re-explained turn answers or fails.
Clarify(t) ==
  /\ Goto(t, "run", "close")
  /\ job[t].kind = "ask" /\ Exists(row[t])
  /\ Write(t, [rows[row[t]] EXCEPT !.state = "card"])
  /\ UNCHANGED <<threads, used, issued, shares, job, row, cause, up, live, held, doomed, sharing,
                 faults, crashes, ghosts>>

\* Mutant: the failure is written on the request's own context, which may be over.
FailOnRequest(t) ==
  /\ Goto(t, "run", "close")
  /\ IF cause[t] = "none" THEN Write(t, [rows[row[t]] EXCEPT !.state = "failed"])
                          ELSE UNCHANGED rows
  /\ UNCHANGED <<threads, used, issued, shares, job, row, cause, up, live, held, doomed, sharing,
                 faults, crashes, ghosts>>

\* An error, an empty answer, or an answer or card that could not be stored.
Fail(t) ==
  /\ Goto(t, "run", "close")
  /\ Write(t, [rows[row[t]] EXCEPT !.state = "failed"])
  /\ UNCHANGED <<threads, used, issued, shares, job, row, cause, up, live, held, doomed, sharing,
                 faults, crashes, ghosts>>

\* The failure itself cannot be stored: logged, and the row stays unfinished.
FailLost(t) ==
  /\ Goto(t, "run", "close")
  /\ faults < MaxFaults /\ faults' = faults + 1
  /\ UNCHANGED <<store, job, row, cause, up, live, held, doomed, sharing, crashes, ghosts>>

CloseRecord(t) ==
  /\ pc[t] = "close"
  /\ Return(t)
  /\ UNCHANGED <<store, faults, dropped>>

-----------------------------------------------------------------------------
(* What readers do meanwhile.                                              *)

\* The request's context ends, or its stream closes under the turn.
Leave(t) ==
  /\ pc[t] \in {"register", "open", "question", "run", "suggest"}
  /\ cause[t] = "none"
  /\ cause' = [cause EXCEPT ![t] = "left"]
  /\ UNCHANGED <<store, pc, job, row, up, live, held, doomed, sharing, faults, crashes, ghosts>>

Delete(th) ==
  /\ up /\ th \in threads
  /\ threads' = threads \ {th} /\ doomed' = doomed \cup {th}
  /\ UNCHANGED <<used, rows, issued, shares, request, up, live, held, sharing, faults, crashes,
                 ghosts>>

\* turns.cancel, once the delete has gone through.
CancelTurns(th) ==
  LET cut == {t \in live : job[t].thread = th}
  IN  /\ th \in doomed /\ doomed' = doomed \ {th}
      /\ live' = live \ cut
      /\ cause' = [t \in Turns |-> IF t \in cut /\ cause[t] = "none"
                                   THEN "deleted" ELSE cause[t]]
      /\ UNCHANGED <<store, pc, job, row, up, held, sharing, faults, crashes, ghosts>>

\* Share and RaiseShare read the ceiling in one statement ...
ReadCeiling(s, th, op) ==
  /\ up /\ th \in threads /\ sharing[s] = NotSharing
  /\ \E c \in Ids :
       /\ IsCeiling(th, c)
       /\ sharing' = [sharing EXCEPT ![s] = [op |-> op, thread |-> th, newest |-> c]]
  /\ UNCHANGED <<store, request, up, live, held, doomed, faults, crashes, ghosts>>

\* ... and write it in another: Share creates or un-revokes the link, RaiseShare
\* only moves one that is live.
WriteCeiling(s) ==
  LET q == sharing[s]
      lands == q.thread \in threads /\ (q.op = "share" \/ shares[q.thread].live)
  IN  /\ q # NotSharing
      /\ shares' = IF lands THEN [shares EXCEPT ![q.thread] = [live |-> TRUE, ceiling |-> q.newest]]
                   ELSE shares
      /\ sharing' = [sharing EXCEPT ![s] = NotSharing]
      /\ UNCHANGED <<threads, used, rows, issued, request, up, live, held, doomed, faults, crashes,
                     ghosts>>

RevokeShare(th) ==
  /\ up /\ th \in threads /\ shares[th].live
  /\ shares' = [shares EXCEPT ![th].live = FALSE]
  /\ UNCHANGED <<threads, used, rows, issued, request, up, live, held, doomed, sharing, faults,
                 crashes, ghosts>>

-----------------------------------------------------------------------------
(* The process.                                                            *)

Crash ==
  /\ up /\ crashes < MaxCrashes
  /\ crashes' = crashes + 1 /\ up' = FALSE
  /\ pc' = [t \in Turns |-> "idle"] /\ job' = [t \in Turns |-> NoJob]
  /\ row' = [t \in Turns |-> 0] /\ cause' = [t \in Turns |-> "none"]
  /\ live' = {} /\ held' = {} /\ doomed' = {}
  /\ sharing' = [s \in Sharers |-> NotSharing]
  /\ UNCHANGED <<store, faults, ghosts>>

\* FailOrphaned: every unfinished row is failed before the server listens.
Orphaned(i) == Exists(i) /\ rows[i].state = "open"

Boot ==
  /\ ~up /\ up' = TRUE
  /\ rows' = [i \in Ids |-> IF Orphaned(i) THEN [rows[i] EXCEPT !.state = "failed"] ELSE rows[i]]
  /\ marked' = issued
  /\ UNCHANGED <<threads, used, issued, shares, request, live, held, doomed, sharing, faults,
                 crashes, dropped>>

Handle(t) ==
  \/ Claim(t) \/ ResolveCard(t) \/ Refuse(t) \/ Register(t)
  \/ OpenStream(t) \/ OpenStreamFails(t) \/ BasisGone(t)
  \/ AddQuestion(t) \/ AddQuestionCut(t) \/ AddQuestionFails(t)
  \/ Answer(t) \/ AnswerOnly(t) \/ SuggestFollowups(t) \/ Clarify(t) \/ Fail(t) \/ FailLost(t)
  \/ CloseRecord(t)

Next ==
  \/ \E t \in Turns : Handle(t) \/ Leave(t)
  \/ \E t \in Turns, th \in Threads : AskNew(t, th) \/ AskInto(t, th)
  \/ \E t \in Turns, i \in Ids : Retry(t, i) \/ Reexplain(t, i) \/ ReadCard(t, i)
  \/ \E th \in Threads : Delete(th) \/ CancelTurns(th) \/ RevokeShare(th)
  \/ \E s \in Sharers, th \in Threads, op \in {"share", "raise"} : ReadCeiling(s, th, op)
  \/ \E s \in Sharers : WriteCeiling(s)
  \/ Crash \/ Boot

Spec == Init /\ [][Next]_vars

\* Every call a handler makes is bounded by a timeout, and a process manager
\* restarts what died.
FairSpec == Spec /\ (\A t \in Turns : WF_vars(Handle(t))) /\ WF_vars(Boot)

-----------------------------------------------------------------------------
(* Properties.                                                             *)

Share == [live : BOOLEAN, ceiling : 0..MaxRows]
Sharing == [op : {"none", "share", "raise"}, thread : Threads \cup {0}, newest : 0..MaxRows]
Stages == {"idle", "claim", "resolve", "register", "open", "question", "run", "suggest", "close"}

(* Every variable has its type: no handler leaves a row, a request or a    *)
(* link of another shape.                                                  *)
TypeOK ==
  /\ threads \subseteq Threads /\ used \subseteq Threads
  /\ rows \in [Ids -> Row] /\ issued \in 0..MaxRows
  /\ shares \in [Threads -> Share] /\ up \in BOOLEAN
  /\ pc \in [Turns -> Stages] /\ job \in [Turns -> Job]
  /\ row \in [Turns -> 0..MaxRows] /\ cause \in [Turns -> {"none", "left", "deleted"}]
  /\ live \subseteq Turns /\ held \subseteq Ids /\ doomed \subseteq Threads
  /\ sharing \in [Sharers -> Sharing]
  /\ faults \in 0..MaxFaults /\ crashes \in 0..MaxCrashes
  /\ marked \in 0..MaxRows /\ dropped \subseteq Threads

(* A public link never covers a turn still being written: every row at or  *)
(* below the ceiling ceilingFor chose is finished, whatever other tabs     *)
(* were streaming when the link was made or raised.                        *)
SharedFrozen ==
  \A th \in threads : shares[th].live =>
    \A i \in Ids : rows[i].thread = th /\ i <= shares[th].ceiling => Settled(i)

(* Deleting a thread stops every pipeline running into it, also one that   *)
(* registered while the delete was under way: registering comes before the *)
(* question's row, and the foreign key refuses the row once the thread is  *)
(* gone.  (A thread dropThread took back is not the reader's delete.)      *)
DeletedTurnsStopped ==
  \A t \in Turns :
    pc[t] = "run" /\ job[t].thread \notin threads \cup doomed \cup dropped => cause[t] # "none"

Holding(t) == job[t].kind = "resume" /\ pc[t] \notin {"idle", "claim"}

(* Two turns never answer one card at the same time: the claim is taken    *)
(* from the choice to the handler's return, a refused claim releases       *)
(* nothing, and no card stays claimed without a turn answering it.         *)
OneHolder ==
  /\ \A t, u \in Turns : Holding(t) /\ Holding(u) /\ job[t].msg = job[u].msg => t = u
  /\ \A c \in Ids : c \in held <=> \E t \in Turns : Holding(t) /\ job[t].msg = c

(* Who runs is sound: every variable keeps its shape, a deleted thread's   *)
(* turns are stopped, and a card has one turn answering it at most.        *)
TurnsSound == TypeOK /\ DeletedTurnsStopped /\ OneHolder

\* What a reader of message i gets: a deleted thread's rows are no rows.
GoneRow == [NoRow EXCEPT !.state = "gone"]
Shown(i) == IF rows[i].state # "none" /\ ~Exists(i) THEN GoneRow ELSE rows[i]

Kept == INSTANCE Record WITH Ids <- Ids, Threads <- Threads, record <- [i \in Ids |-> Shown(i)]

(* The thread is a record: whatever turns, failures, retries, cards and    *)
(* restarts do to the rows, a reader sees Record's promise kept.  No turn  *)
(* rewrites a message that has its answer, its error or its card; a head   *)
(* is the root of its turn, however continuations of continuations are     *)
(* chained (Message.Head takes one hop); only an answer closes a card, and *)
(* one of its own thread; and a delete leaves no message behind.           *)
KeepsRecord == Kept!RecordSpec

(* No row of an earlier process still reads as streaming: FailOrphaned     *)
(* settled them all before the server listened.                            *)
OrphansSettled == up => \A i \in 1..marked : Exists(i) => Settled(i)

(* What is public, and what an earlier process left, is finished.          *)
RecordFrozen == SharedFrozen /\ OrphansSettled

\* A pipeline is writing row i.
Running(i) == \E t \in Turns : pc[t] = "run" /\ row[t] = i

(* A turn whose pipeline runs ends with its row settled, by its handler    *)
(* or, if the process dies, by the next boot; a write that fails can leave *)
(* the row unfinished until that boot, and never the turn running.         *)
TurnSettles ==
  \A i \in Ids : Running(i) ~> (Exists(i) => Settled(i) \/ (faults > 0 /\ ~Running(i)))

(* A claimed card is always released again, so it can be retried.          *)
CardFreed == \A c \in Ids : (c \in held) ~> (c \notin held)

(* What a turn takes it gives back: TurnSettles and CardFreed.             *)
TurnsFinish == TurnSettles /\ CardFreed

-----------------------------------------------------------------------------
(* What a comment in the source says and the code does not keep.           *)

(* turns.go, claims: the claim closes the window in which a second choice  *)
(* would "link both rows to the card".                                     *)
AnsweredOnce ==
  \A i, j \in Ids : rows[i].from # 0 /\ rows[i].from = rows[j].from => i = j

=============================================================================
