------------------------------ MODULE LLMCalls ------------------------------
(***************************************************************************)
(* The model calls of one turn (internal/llm): one retry while nothing was *)
(* delivered, the turn's token ceiling and the mark a failed retry leaves  *)
(* on the turn's meter.  Calls may run at once: naming fires one per       *)
(* candidate.  The endpoint may answer, answer nothing, break off          *)
(* mid-stream, refuse, rate-limit or stay silent until a window closes.    *)
(*                                                                         *)
(* Tokens are counted in units; a call never reports more than CallMax,    *)
(* its prompt and its completion cap.                                      *)
(***************************************************************************)
EXTENDS Integers, FiniteSets

CONSTANTS
  Calls,          \* the calls of the turn
  TurnMaxTokens,  \* Config.TurnMaxTokens, the ceiling
  CallMax         \* the most one request can be billed

ASSUME CallsAssumption == IsFiniteSet(Calls)
ASSUME CeilingAssumption == TurnMaxTokens \in Nat \ {0} /\ CallMax \in Nat \ {0}

VARIABLES
  call,         \* call[c]: where call c is
  spent,        \* Meter.Total
  retryFailed,  \* Meter.retryFailed
  cancelled,    \* the turn's context is over
  shown,        \* shown[c]: the attempts of c whose text reached the caller
  late          \* ghost: calls begun after retryFailed was set

vars == <<call, spent, retryFailed, cancelled, shown, late>>

Kinds == {"complete", "stream", "tools"}

\* The classes retriable tells apart.  "none" is a clean stop; "empty" one that
\* reported no completion; "spent" one that did; "finish" a FinishError;
\* "transient" an upstream, idle, malformed or connection failure; "window" the
\* attempt's own deadline; "limited" a rate limit that fits under the cap and
\* the deadline; "refused" everything the list refuses.
Errors == {"none", "empty", "spent", "finish", "transient", "window", "limited", "refused",
           "cancelled"}

Call == [pc : {"idle", "request", "judge", "wait", "done"}, kind : Kinds, attempt : 0..2,
         err : Errors]

At(pc, kind, attempt, err) == [pc |-> pc, kind |-> kind, attempt |-> attempt, err |-> err]

\* A call that is not under way: only its attempts are of interest.
Idle == At("idle", "complete", 0, "none")
Done(attempts) == At("done", "complete", attempts, "none")

\* retriable, without the context's own check.
Retriable(err) == err \in {"empty", "transient", "window", "limited"}

UnderBudget == spent < TurnMaxTokens

-----------------------------------------------------------------------------
Init ==
  /\ call = [c \in Calls |-> Idle]
  /\ spent = 0 /\ retryFailed = FALSE /\ cancelled = FALSE
  /\ shown = [c \in Calls |-> {}] /\ late = {}

\* Complete, Stream and CallTools read the ceiling before the request.
Begin(c, k) ==
  /\ call[c].pc = "idle"
  /\ call' = [call EXCEPT ![c] = IF UnderBudget
                 THEN At("request", k, 1, "none") ELSE Done(0)]
  /\ late' = IF retryFailed THEN late \cup {c} ELSE late
  /\ UNCHANGED <<spent, retryFailed, cancelled, shown>>

\* What the wire can hand back: text, its error, and what it was billed.  A
\* non-streaming call that fails has no text; a stream may have delivered part
\* of it, and a call that failed before its usage frame records nothing.
Replies ==
  [kind \in Kinds |->
     {r \in [text : BOOLEAN, err : Errors, billed : 0..CallMax] :
        /\ r.err = "none" => r.text
        /\ r.err \in {"empty", "spent", "refused"} => ~r.text
        /\ r.text /\ kind # "stream" => r.err \in {"none", "finish"}
        /\ r.billed > 0 /\ kind # "stream" => r.err \in {"none", "empty", "spent", "finish"}}]

\* Mutant: a stream counts as delivered when it ended well.
DeliveredWell(kind, r) == r.err = "none"

\* delivered: content for a completion, a delta for a stream.
Delivered(kind, r) == r.text

\* Whether this attempt ends the call: it delivered, was the second, or is a
\* tool round, which is never retried.
Ends(c, delivered) == delivered \/ call[c].attempt = 2 \/ call[c].kind = "tools"

\* One attempt comes back.  A second one that delivered nothing marks the turn.
Return(c, r) ==
  LET delivered == Delivered(call[c].kind, r)
  IN  /\ call[c].pc = "request" /\ r \in Replies[call[c].kind]
      /\ cancelled \/ r.err # "cancelled"
      /\ call' = [call EXCEPT ![c] = IF Ends(c, delivered) THEN Done(@.attempt)
                                     ELSE At("judge", @.kind, @.attempt, r.err)]
      /\ spent' = spent + r.billed
      /\ shown' = IF r.text THEN [shown EXCEPT ![c] = @ \cup {call[c].attempt}] ELSE shown
      /\ retryFailed' = (retryFailed \/ (call[c].attempt = 2 /\ ~delivered))
      /\ UNCHANGED <<cancelled, late>>

\* Mutant: worthAnother that does not read the ceiling again.
WorthUnbudgeted(c) == ~cancelled /\ Retriable(call[c].err) /\ ~retryFailed

\* worthAnother, up to the wait.
WorthAnother(c) == ~cancelled /\ Retriable(call[c].err) /\ ~retryFailed /\ UnderBudget

Judge(c) ==
  /\ call[c].pc = "judge"
  /\ call' = [call EXCEPT ![c] = IF WorthAnother(c) THEN At("wait", @.kind, @.attempt, "none")
                                 ELSE Done(@.attempt)]
  /\ UNCHANGED <<spent, retryFailed, cancelled, shown, late>>

\* Mutant: the second attempt is judged like the first.
WakeAgain(c) ==
  /\ call[c].pc = "wait"
  /\ call' = [call EXCEPT ![c] = IF cancelled THEN Done(@.attempt)
                                 ELSE At("request", @.kind, @.attempt, "none")]
  /\ UNCHANGED <<spent, retryFailed, cancelled, shown, late>>

\* The wait is over, or the context ended it.
Wake(c) ==
  /\ call[c].pc = "wait"
  /\ call' = [call EXCEPT ![c] = IF cancelled THEN Done(@.attempt)
                                 ELSE At("request", @.kind, 2, "none")]
  /\ UNCHANGED <<spent, retryFailed, cancelled, shown, late>>

Cancel ==
  /\ ~cancelled /\ cancelled' = TRUE
  /\ UNCHANGED <<call, spent, retryFailed, shown, late>>

Proceed(c) == (\E r \in Replies[call[c].kind] : Return(c, r)) \/ Judge(c) \/ Wake(c)

Next ==
  \/ \E c \in Calls : Proceed(c)
  \/ \E c \in Calls, k \in Kinds : Begin(c, k)
  \/ Cancel

Spec == Init /\ [][Next]_vars

\* llmwire bounds every request by its named timeouts, and a wait is a timer.
FairSpec == Spec /\ \A c \in Calls : WF_vars(Proceed(c))

-----------------------------------------------------------------------------
(* Every call is at one of its stages, with at most two attempts, and the  *)
(* meter is a count.                                                       *)
TypeOK ==
  /\ call \in [Calls -> Call] /\ spent \in Nat
  /\ retryFailed \in BOOLEAN /\ cancelled \in BOOLEAN
  /\ shown \in [Calls -> SUBSET (1..2)] /\ late \subseteq Calls

(* A reader is never shown two answers: once a delta of a stream is out,   *)
(* no second request goes out for it, however the first one broke off.     *)
ShownOnce == \A c \in Calls : Cardinality(shown[c]) <= 1

Outstanding == {c \in Calls : call[c].pc \in {"request", "wait"}}

(* The ceiling is a tripwire with a bounded overrun: whatever runs at once *)
(* and whatever is retried, a turn spends at most one request per call     *)
(* beyond the last token under its ceiling.                                *)
SpendBounded ==
  spent <= TurnMaxTokens - 1 + CallMax * (Cardinality(Calls) - Cardinality(Outstanding))

(* An outage costs a turn its doubled calls once: a call begun after a     *)
(* retry has failed goes out once.                                         *)
LaterCallsOnce == \A c \in late : call[c].attempt <= 1

(* Retrying never shows: TypeOK, ShownOnce and LaterCallsOnce.             *)
RetriesHonest == TypeOK /\ ShownOnce /\ LaterCallsOnce

(* Every call comes back: neither the retry nor its wait repeats for ever. *)
CallEnds == \A c \in Calls : (call[c].pc = "request") ~> (call[c].pc = "done")
=============================================================================
