---------------------------- MODULE QuestionProofs ----------------------------
(***************************************************************************)
(* What a reader's question costs and what it is searched by, for every    *)
(* value of the constants, one section each: the model calls it makes, at  *)
(* once and under one ceiling; the keyword ladder and the substring terms  *)
(* made of its words; the search of the index, beside the poller.          *)
(***************************************************************************)
EXTENDS LLMCalls, QueryTerms, Search, FiniteInduction, SequenceTheorems, FunctionTheorems,
        TLAPS

-----------------------------------------------------------------------------
(* The model calls: the retry rule and the token ceiling, for any number   *)
(* of calls at once, any ceiling and any size of a request.                *)

(* What the proofs need of a reply: its shape and how much it is billed.   *)
LEMMA ReplyShape ==
  ASSUME NEW k \in Kinds, NEW r \in Replies[k]
  PROVE  r.text \in BOOLEAN /\ r.err \in Errors /\ r.billed \in 0..CallMax
BY DEF Replies

(* The places a call can be put in are places of a call.                   *)
LEMMA CallShape ==
  /\ \A p \in {"idle", "request", "judge", "wait", "done"}, k \in Kinds, n \in 0..2, e \in Errors :
       At(p, k, n, e) \in Call
  /\ Idle \in Call
  /\ \A n \in 0..2 : Done(n) \in Call
BY DEF Call, At, Idle, Done, Errors, Kinds

(* A call under way is at its first or its second attempt.                 *)
Started == \A c \in Calls : call[c].pc \in {"request", "judge", "wait"} => call[c].attempt \in 1..2

LEMMA TypeInit == Init => TypeOK
<1>1. Init => call \in [Calls -> Call] /\ spent \in Nat /\ late \subseteq Calls
              /\ shown \in [Calls -> SUBSET (1..2)]
  BY CallShape DEF Init
<1>2. Init => retryFailed \in BOOLEAN /\ cancelled \in BOOLEAN
  BY Zenon DEF Init
<1> QED
  BY <1>1, <1>2, Zenon DEF TypeOK

(* One call moves at a time: what each action leaves in its place.         *)
Moved(c, x) == c \in Calls /\ x \in Call /\ call' = [call EXCEPT ![c] = x]

LEMMA BeginMoves ==
  ASSUME TypeOK, NEW c \in Calls, NEW k \in Kinds, Begin(c, k)
  PROVE  \E x \in Call :
           /\ Moved(c, x) /\ call[c].pc = "idle"
           /\ \/ x.pc = "request" /\ x.attempt = 1 /\ UnderBudget
              \/ x.pc = "done" /\ x.attempt = 0
<1>1. "none" \in Errors
  BY DEF Errors
<1>2. CASE UnderBudget
  <2>1. At("request", k, 1, "none") \in Call
    BY <1>1, CallShape
  <2>2. call' = [call EXCEPT ![c] = At("request", k, 1, "none")]
    BY <1>2 DEF Begin
  <2> QED
    BY <1>2, <2>1, <2>2 DEF Begin, At, Moved
<1>3. CASE ~UnderBudget
  <2>1. Done(0) \in Call
    BY CallShape
  <2>2. call' = [call EXCEPT ![c] = Done(0)]
    BY <1>3 DEF Begin
  <2> QED
    BY <2>1, <2>2 DEF Begin, At, Done, Moved
<1> QED
  BY <1>2, <1>3

LEMMA ReturnMoves ==
  ASSUME TypeOK, NEW c \in Calls, NEW r \in Replies[call[c].kind], Return(c, r)
  PROVE  \E x \in Call :
           /\ Moved(c, x) /\ call[c].pc = "request" /\ x.attempt = call[c].attempt
           /\ \/ x.pc = "done"
              \/ x.pc = "judge" /\ ~r.text
<1>0. call[c] \in Call /\ call[c].attempt \in 0..2 /\ call[c].kind \in Kinds
  BY DEF TypeOK, Call
<1>1. r.err \in Errors
  BY <1>0, ReplyShape
<1>2. CASE Ends(c, Delivered(call[c].kind, r))
  <2>1. Done(call[c].attempt) \in Call
    BY <1>0, CallShape
  <2>2. call' = [call EXCEPT ![c] = Done(call[c].attempt)]
    BY <1>2 DEF Return
  <2> QED
    BY <2>1, <2>2 DEF Return, At, Done, Moved
<1>3. CASE ~Ends(c, Delivered(call[c].kind, r))
  <2>1. At("judge", call[c].kind, call[c].attempt, r.err) \in Call
    BY <1>0, <1>1, CallShape
  <2>2. call' = [call EXCEPT ![c] = At("judge", call[c].kind, call[c].attempt, r.err)]
    BY <1>3 DEF Return
  <2>3. ~r.text
    BY <1>3 DEF Ends, Delivered
  <2> QED
    BY <2>1, <2>2, <2>3 DEF Return, At, Moved
<1> QED
  BY <1>2, <1>3

LEMMA JudgeMoves ==
  ASSUME TypeOK, NEW c \in Calls, Judge(c)
  PROVE  \E x \in Call :
           /\ Moved(c, x) /\ call[c].pc = "judge" /\ x.attempt = call[c].attempt
           /\ \/ x.pc = "done"
              \/ x.pc = "wait" /\ ~retryFailed /\ UnderBudget
<1>0. call[c] \in Call /\ call[c].attempt \in 0..2 /\ call[c].kind \in Kinds
  BY DEF TypeOK, Call
<1>1. "none" \in Errors
  BY DEF Errors
<1>2. CASE WorthAnother(c)
  <2>1. At("wait", call[c].kind, call[c].attempt, "none") \in Call
    BY <1>0, <1>1, CallShape
  <2>2. call' = [call EXCEPT ![c] = At("wait", call[c].kind, call[c].attempt, "none")]
    BY <1>2 DEF Judge
  <2>3. ~retryFailed /\ UnderBudget
    BY <1>2 DEF WorthAnother
  <2> QED
    BY <2>1, <2>2, <2>3 DEF Judge, At, Moved
<1>3. CASE ~WorthAnother(c)
  <2>1. Done(call[c].attempt) \in Call
    BY <1>0, CallShape
  <2>2. call' = [call EXCEPT ![c] = Done(call[c].attempt)]
    BY <1>3 DEF Judge
  <2> QED
    BY <2>1, <2>2 DEF Judge, At, Done, Moved
<1> QED
  BY <1>2, <1>3

LEMMA WakeMoves ==
  ASSUME TypeOK, NEW c \in Calls, Wake(c)
  PROVE  \E x \in Call :
           /\ Moved(c, x) /\ call[c].pc = "wait"
           /\ \/ x.pc = "done" /\ x.attempt = call[c].attempt
              \/ x.pc = "request" /\ x.attempt = 2
<1>0. call[c] \in Call /\ call[c].attempt \in 0..2 /\ call[c].kind \in Kinds
  BY DEF TypeOK, Call
<1>1. "none" \in Errors
  BY DEF Errors
<1>2. CASE cancelled
  <2>1. Done(call[c].attempt) \in Call
    BY <1>0, CallShape
  <2>2. call' = [call EXCEPT ![c] = Done(call[c].attempt)]
    BY <1>2 DEF Wake
  <2> QED
    BY <2>1, <2>2 DEF Wake, At, Done, Moved
<1>3. CASE ~cancelled
  <2>1. At("request", call[c].kind, 2, "none") \in Call
    BY <1>0, <1>1, CallShape
  <2>2. call' = [call EXCEPT ![c] = At("request", call[c].kind, 2, "none")]
    BY <1>3 DEF Wake
  <2> QED
    BY <2>1, <2>2 DEF Wake, At, Moved
<1> QED
  BY <1>2, <1>3

-----------------------------------------------------------------------------
(* Types.                                                                  *)

TypeInv == TypeOK /\ Started

LEMMA TypeInvInit == Init => TypeInv
<1>1. Init => Started
  BY DEF Init, Started, Idle, At
<1> QED
  BY <1>1, TypeInit DEF TypeInv

(* Every step keeps the types: two attempts at most, and a bill that only  *)
(* grows.  Which attempts were shown is of the right type only because a   *)
(* request in flight is the first or the second, which is Started.         *)
LEMMA TypeInvStep == TypeInv /\ [Next]_vars => TypeInv'
<1> SUFFICES ASSUME TypeInv, [Next]_vars
             PROVE  TypeInv'
  OBVIOUS
<1>0. TypeOK /\ Started
  BY DEF TypeInv
<1>a. ASSUME NEW c \in Calls, NEW x \in Call, Moved(c, x),
             x.pc \in {"request", "judge", "wait"} => x.attempt \in 1..2
      PROVE  call' \in [Calls -> Call] /\ Started'
  <2>1. call \in [Calls -> Call]
    BY <1>0 DEF TypeOK
  <2> QED
    BY <1>0, <1>a, <2>1 DEF Moved, Started
<1>1. ASSUME NEW c \in Calls, NEW k \in Kinds, Begin(c, k)
      PROVE  TypeInv'
  <2>1. call' \in [Calls -> Call] /\ Started'
    BY <1>0, <1>1, <1>a, BeginMoves
  <2>2. late' \subseteq Calls
    BY <1>0, <1>1 DEF Begin, TypeOK
  <2> QED
    BY <1>0, <1>1, <2>1, <2>2, Zenon DEF Begin, TypeOK, TypeInv
<1>2. ASSUME NEW c \in Calls, NEW r \in Replies[call[c].kind], Return(c, r)
      PROVE  TypeInv'
  <2>0. call[c].pc = "request" /\ call[c].attempt \in 1..2 /\ call[c].kind \in Kinds
    BY <1>0, <1>2 DEF Return, Started, TypeOK, Call
  <2>1. call' \in [Calls -> Call] /\ Started'
    BY <1>0, <1>2, <1>a, <2>0, ReturnMoves
  <2>2. r.billed \in 0..CallMax
    BY <2>0, ReplyShape
  <2>3. spent' \in Nat
    BY <1>0, <1>2, <2>2, CeilingAssumption DEF Return, TypeOK
  <2>4. shown' \in [Calls -> SUBSET (1..2)]
    <3>1. shown \in [Calls -> SUBSET (1..2)]
      BY <1>0 DEF TypeOK
    <3>2. CASE r.text
      <4>1. shown' = [shown EXCEPT ![c] = @ \cup {call[c].attempt}]
        BY <1>2, <3>2 DEF Return
      <4> QED
        BY <2>0, <3>1, <4>1
    <3>3. CASE ~r.text
      BY <1>2, <3>1, <3>3 DEF Return
    <3> QED
      BY <3>2, <3>3
  <2>5. retryFailed' \in BOOLEAN /\ cancelled' = cancelled /\ late' = late
    BY <1>2, Zenon DEF Return
  <2> QED
    BY <1>0, <2>1, <2>3, <2>4, <2>5, Zenon DEF TypeOK, TypeInv
<1>3. ASSUME NEW c \in Calls, Judge(c)
      PROVE  TypeInv'
  <2>0. call[c].attempt \in 1..2
    BY <1>0, <1>3 DEF Judge, Started
  <2>1. call' \in [Calls -> Call] /\ Started'
    BY <1>0, <1>3, <1>a, <2>0, JudgeMoves
  <2> QED
    BY <1>0, <1>3, <2>1, Zenon DEF Judge, TypeOK, TypeInv
<1>4. ASSUME NEW c \in Calls, Wake(c)
      PROVE  TypeInv'
  <2>1. call' \in [Calls -> Call] /\ Started'
    BY <1>0, <1>4, <1>a, WakeMoves
  <2> QED
    BY <1>0, <1>4, <2>1, Zenon DEF Wake, TypeOK, TypeInv
<1>5. CASE Cancel
  BY <1>0, <1>5, Zenon DEF Cancel, TypeOK, TypeInv, Started
<1>6. CASE UNCHANGED vars
  BY <1>0, <1>6, Zenon DEF vars, TypeOK, TypeInv, Started
<1> QED
  BY <1>1, <1>2, <1>3, <1>4, <1>5, <1>6 DEF Next, Proceed

(* Every variable keeps its type, for any number of calls at once.         *)
THEOREM TypeCorrect == Spec => []TypeOK
<1>1. TypeInv => TypeOK
  BY DEF TypeInv
<1> QED
  BY <1>1, TypeInvInit, TypeInvStep, PTL DEF Spec

LEMMA TypeInvAlways == Spec => []TypeInv
BY TypeInvInit, TypeInvStep, PTL DEF Spec

-----------------------------------------------------------------------------
(* Nothing is shown twice.                                                 *)

(* A call that is still under way has shown nothing: text ends it.         *)
NotYet ==
  \A c \in Calls :
    /\ call[c].pc # "done" => shown[c] = {}
    /\ \E n : shown[c] \subseteq {n}

LEMMA NotYetStep == TypeInv /\ NotYet /\ [Next]_vars => NotYet'
<1> SUFFICES ASSUME TypeInv, NotYet, [Next]_vars
             PROVE  NotYet'
  OBVIOUS
<1>0. TypeOK /\ call \in [Calls -> Call] /\ shown \in [Calls -> SUBSET (1..2)]
  BY DEF TypeInv, TypeOK
<1>a. ASSUME NEW c \in Calls, NEW x \in Call, Moved(c, x), call[c].pc # "done", shown' = shown
      PROVE  NotYet'
  BY <1>0, <1>a DEF Moved, NotYet
<1>1. ASSUME NEW c \in Calls, NEW k \in Kinds, Begin(c, k)
      PROVE  NotYet'
  BY <1>0, <1>1, <1>a, BeginMoves DEF Begin
<1>2. ASSUME NEW c \in Calls, NEW r \in Replies[call[c].kind], Return(c, r)
      PROVE  NotYet'
  <2>1. CASE ~r.text
    BY <1>0, <1>2, <1>a, <2>1, ReturnMoves DEF Return
  <2>2. CASE r.text
    <3>1. shown[c] = {} /\ shown' = [shown EXCEPT ![c] = @ \cup {call[c].attempt}]
      BY <1>2, <2>2 DEF Return, NotYet
    <3>2. PICK x \in Call : Moved(c, x) /\ x.pc = "done"
      BY <1>0, <1>2, <2>2, ReturnMoves
    <3> QED
      BY <1>0, <3>1, <3>2 DEF Moved, NotYet
  <2> QED
    BY <2>1, <2>2
<1>3. ASSUME NEW c \in Calls, Judge(c)
      PROVE  NotYet'
  BY <1>0, <1>3, <1>a, JudgeMoves DEF Judge
<1>4. ASSUME NEW c \in Calls, Wake(c)
      PROVE  NotYet'
  BY <1>0, <1>4, <1>a, WakeMoves DEF Wake
<1>5. CASE Cancel \/ UNCHANGED vars
  BY <1>5 DEF Cancel, vars, NotYet
<1> QED
  BY <1>1, <1>2, <1>3, <1>4, <1>5 DEF Next, Proceed

(* However a stream breaks off, its reader is never shown a second answer. *)
THEOREM NeverShownTwice == Spec => []ShownOnce
<1>1. Init => NotYet
  BY DEF Init, NotYet, Idle, At
<1>2. NotYet => ShownOnce
  <2> SUFFICES ASSUME NotYet, NEW c \in Calls
               PROVE  Cardinality(shown[c]) <= 1
    BY DEF ShownOnce
  <2>1. PICK n : shown[c] \subseteq {n}
    BY DEF NotYet
  <2>2. shown[c] = {} \/ shown[c] = {n}
    BY <2>1
  <2> QED
    BY <2>2, FS_EmptySet, FS_Singleton
<1> QED
  BY <1>1, <1>2, NotYetStep, TypeInvAlways, PTL DEF Spec

-----------------------------------------------------------------------------
(* An outage doubles a turn's calls once.                                  *)

(* A late call exists only once the mark is set, and the mark keeps it     *)
(* from ever waiting for a second attempt.                                 *)
MarkHolds ==
  /\ late # {} => retryFailed
  /\ \A c \in late : call[c].attempt <= 1 /\ call[c].pc \in {"request", "judge", "done"}

LEMMA MarkHoldsStep == TypeInv /\ MarkHolds /\ [Next]_vars => MarkHolds'
<1> SUFFICES ASSUME TypeInv, MarkHolds, [Next]_vars
             PROVE  MarkHolds'
  OBVIOUS
<1>0. TypeOK /\ call \in [Calls -> Call] /\ late \subseteq Calls
  BY DEF TypeInv, TypeOK
<1>1. ASSUME NEW c \in Calls, NEW k \in Kinds, Begin(c, k)
      PROVE  MarkHolds'
  <2>1. PICK x \in Call : Moved(c, x) /\ x.attempt <= 1 /\ x.pc \in {"request", "done"}
    BY <1>0, <1>1, BeginMoves
  <2>2. (late' # {} => retryFailed) /\ retryFailed' = retryFailed /\ late' \subseteq late \cup {c}
    BY <1>1 DEF Begin, MarkHolds
  <2>3. late' # {} => retryFailed'
    BY <2>2, Zenon
  <2> QED
    BY <1>0, <2>1, <2>2, <2>3 DEF Moved, MarkHolds
<1>2. ASSUME NEW c \in Calls, NEW r \in Replies[call[c].kind], Return(c, r)
      PROVE  MarkHolds'
  <2>1. PICK x \in Call : Moved(c, x) /\ x.attempt = call[c].attempt /\ x.pc \in {"judge", "done"}
    BY <1>0, <1>2, ReturnMoves
  <2>2. (retryFailed => retryFailed') /\ late' = late
    BY <1>2, Zenon DEF Return
  <2> QED
    BY <1>0, <2>1, <2>2 DEF Moved, MarkHolds
<1>3. ASSUME NEW c \in Calls, Judge(c)
      PROVE  MarkHolds'
  <2>1. PICK x \in Call : /\ Moved(c, x) /\ x.attempt = call[c].attempt
                          /\ x.pc = "done" \/ (x.pc = "wait" /\ ~retryFailed)
    BY <1>0, <1>3, JudgeMoves
  <2>2. retryFailed' = retryFailed /\ late' = late
    BY <1>3 DEF Judge
  <2>3. c \in late => x.pc = "done"
    BY <2>1 DEF MarkHolds
  <2> QED
    BY <1>0, <2>1, <2>2, <2>3 DEF Moved, MarkHolds
<1>4. ASSUME NEW c \in Calls, Wake(c)
      PROVE  MarkHolds'
  <2>1. PICK x \in Call : Moved(c, x)
    BY <1>0, <1>4, WakeMoves
  <2>2. c \notin late /\ retryFailed' = retryFailed /\ late' = late
    BY <1>4 DEF Wake, MarkHolds
  <2> QED
    BY <1>0, <2>1, <2>2 DEF Moved, MarkHolds
<1>5. CASE Cancel \/ UNCHANGED vars
  BY <1>5 DEF Cancel, vars, MarkHolds
<1> QED
  BY <1>1, <1>2, <1>3, <1>4, <1>5 DEF Next, Proceed

(* Once a retry has come back failing, no call begun after it goes out     *)
(* twice, however many run at once.                                        *)
THEOREM OutageDoublesOnce == Spec => []LaterCallsOnce
<1>1. Init => MarkHolds
  BY DEF Init, MarkHolds
<1>2. MarkHolds => LaterCallsOnce
  BY DEF MarkHolds, LaterCallsOnce
<1> QED
  BY <1>1, <1>2, MarkHoldsStep, TypeInvAlways, PTL DEF Spec

-----------------------------------------------------------------------------
(* The ceiling.                                                            *)

(* The calls still to be billed, as a finite set of calls.                 *)
LEMMA OutstandingFinite ==
  /\ IsFiniteSet(Outstanding) /\ Outstanding \subseteq Calls
  /\ Cardinality(Outstanding) \in Nat /\ Cardinality(Calls) \in Nat
  /\ Cardinality(Outstanding) <= Cardinality(Calls)
<1>1. Outstanding \subseteq Calls
  BY DEF Outstanding
<1> QED
  BY <1>1, CallsAssumption, FS_Subset, FS_CardinalityType

(* What one move does to their number.                                     *)
LEMMA MoveCounts ==
  ASSUME call \in [Calls -> Call], NEW c \in Calls, NEW x \in Call, Moved(c, x)
  PROVE  LET out(pc) == pc \in {"request", "wait"}
         IN  Cardinality(Outstanding') = Cardinality(Outstanding)
               + (IF out(x.pc) /\ ~out(call[c].pc) THEN 1
                  ELSE IF ~out(x.pc) /\ out(call[c].pc) THEN -1 ELSE 0)
<1>0. IsFiniteSet(Outstanding) /\ Cardinality(Outstanding) \in Nat
  BY OutstandingFinite
<1>1. \A d \in Calls : call'[d] = IF d = c THEN x ELSE call[d]
  BY DEF Moved
<1>2. CASE x.pc \in {"request", "wait"} /\ call[c].pc \notin {"request", "wait"}
  <2>1. Outstanding' = Outstanding \cup {c} /\ c \notin Outstanding
    BY <1>1, <1>2 DEF Outstanding
  <2> QED
    BY <1>0, <1>2, <2>1, FS_AddElement
<1>3. CASE x.pc \notin {"request", "wait"} /\ call[c].pc \in {"request", "wait"}
  <2>1. Outstanding' = Outstanding \ {c} /\ c \in Outstanding
    BY <1>1, <1>3 DEF Outstanding
  <2> QED
    BY <1>0, <1>3, <2>1, FS_RemoveElement
<1>4. CASE x.pc \in {"request", "wait"} <=> call[c].pc \in {"request", "wait"}
  <2>1. Outstanding' = Outstanding
    BY <1>1, <1>4 DEF Outstanding
  <2> QED
    BY <1>0, <1>4, <2>1
<1> QED
  BY <1>2, <1>3, <1>4

(* One call fewer outstanding is one request more of room.                 *)
LEMMA Room ==
  ASSUME NEW m \in Nat
  PROVE  /\ CallMax * m \in Nat
         /\ CallMax * (m + 1) = CallMax * m + CallMax
BY CeilingAssumption

LEMMA SpendStep == TypeInv /\ SpendBounded /\ [Next]_vars => SpendBounded'
<1> SUFFICES ASSUME TypeInv, SpendBounded, [Next]_vars
             PROVE  SpendBounded'
  OBVIOUS
<1>0. TypeOK /\ call \in [Calls -> Call] /\ spent \in Nat
  BY DEF TypeInv, TypeOK
<1> DEFINE free == Cardinality(Calls) - Cardinality(Outstanding)
<1>b. free \in Nat /\ free' \in Nat /\ Cardinality(Calls)' = Cardinality(Calls)
  <2>1. Cardinality(Outstanding)' \in Nat /\ Cardinality(Outstanding)' <= Cardinality(Calls)
    <3>1. Outstanding' \subseteq Calls
      BY DEF Outstanding
    <3> QED
      BY <3>1, CallsAssumption, FS_Subset, FS_CardinalityType
  <2> QED
    BY OutstandingFinite, <2>1
<1>c. SpendBounded <=> spent <= TurnMaxTokens - 1 + CallMax * free
  BY DEF SpendBounded
<1>d. SpendBounded' <=> spent' <= TurnMaxTokens - 1 + CallMax * free'
  BY DEF SpendBounded
<1>e. CallMax * free \in Nat /\ CallMax * free' \in Nat
      /\ CallMax * (free + 1) = CallMax * free + CallMax
  BY <1>b, Room
<1>f. UnderBudget => spent <= TurnMaxTokens - 1
  BY <1>0, CeilingAssumption DEF UnderBudget
<1>1. ASSUME NEW c \in Calls, NEW k \in Kinds, Begin(c, k)
      PROVE  SpendBounded'
  <2>0. spent' = spent
    BY <1>1 DEF Begin
  <2>1. CASE UnderBudget
    BY <1>0, <1>d, <1>e, <1>f, <2>0, <2>1, CeilingAssumption
  <2>2. CASE ~UnderBudget
    <3>1. PICK x \in Call : Moved(c, x) /\ x.pc = "done" /\ call[c].pc = "idle"
      BY <1>0, <1>1, <2>2, BeginMoves
    <3>2. free' = free
      BY <1>0, <1>b, <3>1, MoveCounts, OutstandingFinite
    <3> QED
      BY <1>c, <1>d, <2>0, <3>2
  <2> QED
    BY <2>1, <2>2
<1>2. ASSUME NEW c \in Calls, NEW r \in Replies[call[c].kind], Return(c, r)
      PROVE  SpendBounded'
  <2>0. call[c].kind \in Kinds
    BY <1>0 DEF Call
  <2>1. r.billed \in 0..CallMax /\ spent' = spent + r.billed
    BY <1>2, <2>0, ReplyShape DEF Return
  <2>2. PICK x \in Call : Moved(c, x) /\ call[c].pc = "request" /\ x.pc \in {"done", "judge"}
    BY <1>0, <1>2, ReturnMoves
  <2>3. free' = free + 1
    BY <1>0, <1>b, <2>2, MoveCounts, OutstandingFinite
  <2>4. CallMax * free' = CallMax * free + CallMax
    BY <1>e, <2>3
  <2> QED
    BY <1>0, <1>c, <1>d, <1>e, <2>1, <2>4, CeilingAssumption
<1>3. ASSUME NEW c \in Calls, Judge(c)
      PROVE  SpendBounded'
  <2>0. spent' = spent
    BY <1>3 DEF Judge
  <2>1. PICK x \in Call : /\ Moved(c, x) /\ call[c].pc = "judge"
                          /\ x.pc = "done" \/ (x.pc = "wait" /\ UnderBudget)
    BY <1>0, <1>3, JudgeMoves
  <2>2. CASE UnderBudget
    BY <1>0, <1>d, <1>e, <1>f, <2>0, <2>2, CeilingAssumption
  <2>3. CASE x.pc = "done"
    <3>1. free' = free
      BY <1>0, <1>b, <2>1, <2>3, MoveCounts, OutstandingFinite
    <3> QED
      BY <1>c, <1>d, <2>0, <3>1
  <2> QED
    BY <2>1, <2>2, <2>3
<1>4. ASSUME NEW c \in Calls, Wake(c)
      PROVE  SpendBounded'
  <2>0. spent' = spent
    BY <1>4 DEF Wake
  <2>1. PICK x \in Call : Moved(c, x) /\ call[c].pc = "wait" /\ x.pc \in {"done", "request"}
    BY <1>0, <1>4, WakeMoves
  <2>2. free' = free \/ free' = free + 1
    BY <1>0, <1>b, <2>1, MoveCounts, OutstandingFinite
  <2>3. CallMax * free' = CallMax * free \/ CallMax * free' = CallMax * free + CallMax
    BY <1>e, <2>2
  <2> QED
    BY <1>0, <1>c, <1>d, <1>e, <2>0, <2>3, CeilingAssumption
<1>5. CASE Cancel \/ UNCHANGED vars
  BY <1>5 DEF Cancel, vars, SpendBounded, Outstanding
<1> QED
  BY <1>1, <1>2, <1>3, <1>4, <1>5 DEF Next, Proceed

(* The ceiling is a tripwire with a bounded overrun, for any number of     *)
(* calls that run at once and any size of a request.                       *)
THEOREM OverrunBounded == Spec => []SpendBounded
<1>1. Init => SpendBounded
  <2> SUFFICES ASSUME Init PROVE SpendBounded
    OBVIOUS
  <2>1. Cardinality(Calls) - Cardinality(Outstanding) \in Nat
    BY OutstandingFinite
  <2>2. CallMax * (Cardinality(Calls) - Cardinality(Outstanding)) \in Nat
    BY <2>1, Room
  <2> QED
    BY <2>2, CeilingAssumption DEF Init, SpendBounded
<1> QED
  BY <1>1, SpendStep, TypeInvAlways, PTL DEF Spec

(* No answer is shown twice and no outage is paid for twice, for any       *)
(* number of calls at once.                                                *)
THEOREM RetryingHonest == Spec => []RetriesHonest
<1>1. TypeOK /\ ShownOnce /\ LaterCallsOnce => RetriesHonest
  BY DEF RetriesHonest
<1> QED
  BY <1>1, TypeCorrect, NeverShownTwice, OutageDoublesOnce, PTL

-----------------------------------------------------------------------------
(* What a question is searched by.                                         *)

\* The ladder and the terms are the ones of the question asked.
QueryInv ==
  /\ asking \in {"asked", "laddered", "built"}
  /\ question \in Asked
  /\ ladder = IF asking = "asked" THEN <<>> ELSE BuildFTSQueries(question.words)
  /\ asking = "built" => terms = BuildSubstringTerms(question.words, question.codes)

\* On the tokens of W the expression upper finds what lower finds, and more
\* unless it asks for any of one term.
Widens(lower, upper, W) ==
  /\ \A tokens \in SUBSET [word : W, prefix : BOOLEAN] :
       MatchedBy(lower, tokens) => MatchedBy(upper, tokens)
  /\ ~AnyOfOne(upper) =>
       \E tokens \in SUBSET [word : W, prefix : BOOLEAN] :
         MatchedBy(upper, tokens) /\ ~MatchedBy(lower, tokens)

\* The elements of s before its place n.
Earlier(s, n) == {s[j] : j \in 1 .. n - 1}

(* A list cut to n.                                                        *)
LEMMA FirstTermsAre ==
  ASSUME NEW X, NEW s \in Seq(X), NEW n \in Nat
  PROVE  /\ FirstTerms(s, n) \in Seq(X)
         /\ Len(FirstTerms(s, n)) <= n /\ Len(FirstTerms(s, n)) <= Len(s)
         /\ \A i \in 1 .. Len(FirstTerms(s, n)) : FirstTerms(s, n)[i] = s[i]
         /\ \A i \in 1 .. Len(s) : i <= n => i \in 1 .. Len(FirstTerms(s, n))
<1> DEFINE m == IF Len(s) < n THEN Len(s) ELSE n
<1>1. m \in Nat /\ m <= n /\ m <= Len(s) /\ \A i \in 1 .. Len(s) : i <= n => i \in 1 .. m
  OBVIOUS
<1>2. FirstTerms(s, n) = SubSeq(s, 1, m)
  BY DEF FirstTerms
<1> HIDE DEF m
<1>3. FirstTerms(s, n) \in Seq(X) /\ Len(FirstTerms(s, n)) = m
  BY <1>1, <1>2
<1>4. \A i \in 1 .. m : FirstTerms(s, n)[i] = s[i]
  BY <1>1, <1>2
<1> QED
  BY <1>1, <1>3, <1>4

(* Content words are those of the question but the stopwords, in order.    *)
LEMMA ContentIs ==
  ASSUME NEW X, NEW s \in Seq(X)
  PROVE  /\ Content(s) \in Seq(X) /\ Len(Content(s)) \in Nat
         /\ \A n \in 1 .. Len(Content(s)) : \E i \in 1 .. Len(s) :
              Content(s)[n] = s[i] /\ s[i] \notin Stopwords
         /\ \A i \in 1 .. Len(s) : s[i] \notin Stopwords =>
              \E n \in 1 .. Len(Content(s)) : Content(s)[n] = s[i]
         /\ Content(s) # s => \E i \in 1 .. Len(s) : s[i] \in Stopwords
<1> DEFINE C == {i \in DOMAIN s : s[i] \notin Stopwords}
           c == Content(s)
<1>0. Len(s) \in Nat /\ DOMAIN s = 1 .. Len(s) /\ s \in [1 .. Len(s) -> X]
  BY LenProperties
<1>1. C \in SUBSET (1 .. Len(s)) /\ \A i \in 1 .. Len(s) : i \in C <=> s[i] \notin Stopwords
  BY <1>0
<1>2. c = Picked(s, C)
  BY DEF Content
<1> HIDE DEF C, c
<1>3. /\ Cardinality(C) \in Nat /\ c \in Seq(X) /\ Len(c) = Cardinality(C)
      /\ \A i \in C : PlaceIn(C, i) \in 1 .. Len(c) /\ c[PlaceIn(C, i)] = s[i]
      /\ \A n \in 1 .. Len(c) : \E i \in C : PlaceIn(C, i) = n
  BY <1>1, <1>2, PickedIs
<1>4. \A n \in 1 .. Len(c) : \E i \in 1 .. Len(s) : c[n] = s[i] /\ s[i] \notin Stopwords
  BY <1>1, <1>3
<1>5. \A i \in 1 .. Len(s) : s[i] \notin Stopwords => \E n \in 1 .. Len(c) : c[n] = s[i]
  BY <1>1, <1>3
<1>6. ASSUME \A i \in 1 .. Len(s) : s[i] \notin Stopwords
      PROVE  c = s
  <2> DEFINE L == Len(s)
  <2>0. L \in Nat
    BY <1>0
  <2>1. C = 1 .. L
    BY <1>1, <1>6
  <2>2. ASSUME NEW i \in 1 .. L
        PROVE  PlaceIn(C, i) = i
    <3> DEFINE p == i - 1
    <3>1. {j \in C : j < i} = 1 .. p
      BY <2>0, <2>1
    <3>2. p \in Nat /\ i = p + 1
      BY <2>0
    <3> HIDE DEF p
    <3>3. Cardinality(1 .. p) = p
      BY <3>2, FS_Interval
    <3> QED
      BY <3>1, <3>2, <3>3 DEF PlaceIn
  <2> HIDE DEF L
  <2>3. Cardinality(1 .. L) = L
    BY <2>0, FS_Interval
  <2>4. Len(c) = Len(s)
    BY <1>3, <2>1, <2>3 DEF L
  <2>5. \A i \in 1 .. L : c[i] = s[i]
    BY <1>3, <2>1, <2>2
  <2> QED
    BY <1>3, <2>4, <2>5, SeqEqual DEF L
<1> QED
  BY <1>3, <1>4, <1>5, <1>6 DEF c

(* A rung of the ladder and the one above it are two of the four with none *)
(* between them due.                                                       *)
LEMMA NextRung ==
  ASSUME NEW X, NEW s \in Seq(X), NEW S \in SUBSET (1 .. Len(s)),
         NEW i \in 2 .. Len(Picked(s, S))
  PROVE  \E a, b \in S : /\ a < b /\ \A m \in S : ~(a < m /\ m < b)
                         /\ Picked(s, S)[i - 1] = s[a] /\ Picked(s, S)[i] = s[b]
<1>1. /\ Cardinality(S) \in Nat /\ Len(Picked(s, S)) = Cardinality(S)
      /\ \A k \in S : PlaceIn(S, k) \in 1 .. Cardinality(S) /\ Picked(s, S)[PlaceIn(S, k)] = s[k]
      /\ \A n \in 1 .. Cardinality(S) : \E k \in S : PlaceIn(S, k) = n
      /\ \A k, l \in S : k < l <=> PlaceIn(S, k) < PlaceIn(S, l)
  BY PickedIs
<1>2. i \in 1 .. Cardinality(S) /\ i - 1 \in 1 .. Cardinality(S)
  BY <1>1
<1>3. PICK a \in S : PlaceIn(S, a) = i - 1
  BY <1>1, <1>2
<1>4. PICK b \in S : PlaceIn(S, b) = i
  BY <1>1, <1>2
<1>5. a < b
  BY <1>1, <1>2, <1>3, <1>4
<1>6. ASSUME NEW m \in S, a < m, m < b
      PROVE  FALSE
  <2>1. PlaceIn(S, m) \in Int /\ i - 1 < PlaceIn(S, m) /\ PlaceIn(S, m) < i
    BY <1>1, <1>3, <1>4, <1>6
  <2> QED
    BY <1>2, <2>1
<1> QED
  BY <1>1, <1>3, <1>4, <1>5, <1>6

(* What an expression of words finds.                                      *)
LEMMA ExactFinds ==
  ASSUME NEW s, NEW tokens
  PROVE  MatchedBy(Expr(s, Exact, TRUE), tokens) <=> \A i \in 1 .. Len(s) : Exact(s[i]) \in tokens
<1> DEFINE e == Expr(s, Exact, TRUE)
<1>1. e.all = TRUE /\ DOMAIN e.of = 1 .. Len(s) /\ \A i \in 1 .. Len(s) : e.of[i] = Exact(s[i])
  BY DEF Expr
<1> HIDE DEF e
<1>2. \A w : Holds(tokens, Exact(w)) <=> Exact(w) \in tokens
  BY DEF Holds, Exact
<1>3. MatchedBy(e, tokens) <=> \A i \in 1 .. Len(s) : Holds(tokens, Exact(s[i]))
  BY <1>1 DEF MatchedBy
<1> QED
  BY <1>2, <1>3 DEF e

LEMMA PrefixFinds ==
  ASSUME NEW s, NEW tokens
  PROVE  /\ MatchedBy(Expr(s, Prefixed, TRUE), tokens)
              <=> \A i \in 1 .. Len(s) : Holds(tokens, Prefixed(s[i]))
         /\ MatchedBy([Expr(s, Prefixed, TRUE) EXCEPT !.all = FALSE], tokens)
              <=> \E i \in 1 .. Len(s) : Holds(tokens, Prefixed(s[i]))
         /\ AnyOfOne([Expr(s, Prefixed, TRUE) EXCEPT !.all = FALSE])
              <=> \A i, j \in 1 .. Len(s) : Prefixed(s[i]) = Prefixed(s[j])
<1> DEFINE e == Expr(s, Prefixed, TRUE)
           f == [e EXCEPT !.all = FALSE]
<1>1. e = [of |-> [i \in 1 .. Len(s) |-> Prefixed(s[i])], all |-> TRUE]
  BY DEF Expr
<1> HIDE DEF e
<1>2. f.all = FALSE /\ f.of = [i \in 1 .. Len(s) |-> Prefixed(s[i])]
  <2> DEFINE of == [i \in 1 .. Len(s) |-> Prefixed(s[i])]
  <2>1. e = [of |-> of, all |-> TRUE]
    BY <1>1
  <2> HIDE DEF of
  <2>2. f.all = FALSE /\ f.of = of
    BY <2>1
  <2> QED
    BY <2>2 DEF of
<1> HIDE DEF f
<1>3. MatchedBy(e, tokens) <=> \A i \in 1 .. Len(s) : Holds(tokens, Prefixed(s[i]))
  BY <1>1 DEF MatchedBy
<1>4. MatchedBy(f, tokens) <=> \E i \in 1 .. Len(s) : Holds(tokens, Prefixed(s[i]))
  BY <1>2 DEF MatchedBy
<1>5. AnyOfOne(f) <=> \A i, j \in 1 .. Len(s) : Prefixed(s[i]) = Prefixed(s[j])
  <2>1. DOMAIN f.of = 1 .. Len(s) /\ \A i \in 1 .. Len(s) : f.of[i] = Prefixed(s[i])
    BY <1>2
  <2> QED
    BY <1>2, <2>1 DEF AnyOfOne
<1> QED
  BY <1>3, <1>4, <1>5 DEF e, f

(* Leaving a stopword out finds more.                                      *)
LEMMA ContentWidens ==
  ASSUME NEW W, NEW s \in Seq(W), Content(s) # s
  PROVE  Widens(Expr(s, Exact, TRUE), Expr(Content(s), Exact, TRUE), W)
<1> DEFINE c == Content(s)
           T == SUBSET [word : W, prefix : BOOLEAN]
<1>1. /\ c \in Seq(W) /\ Len(c) \in Nat
      /\ \A n \in 1 .. Len(c) : \E i \in 1 .. Len(s) : c[n] = s[i] /\ s[i] \notin Stopwords
      /\ \E i \in 1 .. Len(s) : s[i] \in Stopwords
  BY ContentIs
<1>2. \A n \in 1 .. Len(c) : c[n] \in W
  BY <1>1
<1> HIDE DEF c
<1> DEFINE lower == Expr(s, Exact, TRUE)
           upper == Expr(c, Exact, TRUE)
<1>3. \A tokens : MatchedBy(lower, tokens) <=> \A i \in 1 .. Len(s) : Exact(s[i]) \in tokens
  BY ExactFinds
<1>4. \A tokens : MatchedBy(upper, tokens) <=> \A i \in 1 .. Len(c) : Exact(c[i]) \in tokens
  BY ExactFinds
<1> HIDE DEF lower, upper
<1>5. ASSUME NEW tokens \in T, MatchedBy(lower, tokens)
      PROVE  MatchedBy(upper, tokens)
  BY <1>1, <1>3, <1>4, <1>5
<1> DEFINE enough == {Exact(c[n]) : n \in 1 .. Len(c)}
<1>6. enough \in T
  <2>1. \A n \in 1 .. Len(c) : Exact(c[n]) \in [word : W, prefix : BOOLEAN]
    BY <1>2 DEF Exact
  <2> QED
    BY <2>1
<1>7. MatchedBy(upper, enough)
  BY <1>4
<1>8. ~MatchedBy(lower, enough)
  <2>1. PICK i \in 1 .. Len(s) : s[i] \in Stopwords
    BY <1>1
  <2>2. \A n \in 1 .. Len(c) : c[n] # s[i]
    BY <1>1, <2>1
  <2>3. Exact(s[i]) \notin enough
    BY <2>2 DEF Exact
  <2> QED
    BY <1>3, <2>3
<1> HIDE DEF enough
<1> QED
  BY <1>5, <1>6, <1>7, <1>8 DEF Widens, lower, upper, c

(* A prefix finds more than the word, where one is long enough for it.     *)
LEMMA PrefixWidens ==
  ASSUME NEW W \in SUBSET DOMAIN WordRunes, NEW c \in Seq(W),
         Expr(c, Prefixed, TRUE) # Expr(c, Exact, TRUE)
  PROVE  Widens(Expr(c, Exact, TRUE), Expr(c, Prefixed, TRUE), W)
<1> DEFINE T == SUBSET [word : W, prefix : BOOLEAN]
           lower == Expr(c, Exact, TRUE)
           upper == Expr(c, Prefixed, TRUE)
<1>1. DOMAIN c = 1 .. Len(c) /\ \A n \in 1 .. Len(c) : c[n] \in W
  BY LenProperties
<1>2. \A tokens : MatchedBy(lower, tokens) <=> \A i \in 1 .. Len(c) : Exact(c[i]) \in tokens
  BY ExactFinds
<1>3. \A tokens : MatchedBy(upper, tokens) <=> \A i \in 1 .. Len(c) : Holds(tokens, Prefixed(c[i]))
  BY PrefixFinds
<1>4. PICK k \in 1 .. Len(c) : Prefixed(c[k]) # Exact(c[k])
  <2> SUFFICES ASSUME \A k \in 1 .. Len(c) : Prefixed(c[k]) = Exact(c[k])
               PROVE  lower = upper
    OBVIOUS
  <2>1. [i \in 1 .. Len(c) |-> Prefixed(c[i])] = [i \in 1 .. Len(c) |-> Exact(c[i])]
    OBVIOUS
  <2> QED
    BY <2>1 DEF Expr
<1>5. Prefixed(c[k]) = [word |-> c[k], prefix |-> TRUE]
  <2>1. WordRunes[c[k]] \in Nat /\ MinPrefixRunes \in Nat
    BY <1>1, QuestionsAsked
  <2>2. WordRunes[c[k]] >= MinPrefixRunes
    <3> SUFFICES ASSUME ~(WordRunes[c[k]] >= MinPrefixRunes)
                 PROVE  Prefixed(c[k]) = Exact(c[k])
      BY <1>4
    <3>1. (WordRunes[c[k]] >= MinPrefixRunes) = FALSE
      BY <2>1
    <3> QED
      BY <3>1 DEF Prefixed, Exact
  <2>3. (WordRunes[c[k]] >= MinPrefixRunes) = TRUE
    BY <2>1, <2>2
  <2> QED
    BY <2>3 DEF Prefixed
<1>6. \A w : Prefixed(w).word = w
  BY DEF Prefixed
<1> HIDE DEF lower, upper
<1>7. \A tokens : \A w : Exact(w) \in tokens => Holds(tokens, Prefixed(w))
  BY <1>6 DEF Holds
<1>8. ASSUME NEW tokens \in T, MatchedBy(lower, tokens)
      PROVE  MatchedBy(upper, tokens)
  BY <1>2, <1>3, <1>7, <1>8
<1> DEFINE rest == {n \in 1 .. Len(c) : c[n] # c[k]}
           enough == {Exact(c[n]) : n \in rest} \cup {Prefixed(c[k])}
<1>9. enough \in T
  <2>1. \A n \in 1 .. Len(c) : Exact(c[n]) \in [word : W, prefix : BOOLEAN]
    BY <1>1 DEF Exact
  <2>2. Prefixed(c[k]) \in [word : W, prefix : BOOLEAN]
    BY <1>1, <1>5
  <2> QED
    BY <2>1, <2>2
<1>10. MatchedBy(upper, enough)
  <2>1. Holds(enough, Prefixed(c[k]))
    BY <1>5 DEF Holds
  <2>2. \A n \in rest : Exact(c[n]) \in enough
    OBVIOUS
  <2> HIDE DEF enough
  <2>3. \A n \in 1 .. Len(c) : Holds(enough, Prefixed(c[n]))
    BY <1>7, <2>1, <2>2
  <2> QED
    BY <1>3, <2>3
<1>11. ~MatchedBy(lower, enough)
  <2>1. \A n \in rest : Exact(c[n]) # Exact(c[k])
    BY DEF Exact
  <2>2. Exact(c[k]) # Prefixed(c[k])
    BY <1>4
  <2>3. Exact(c[k]) \notin enough
    BY <2>1, <2>2
  <2> HIDE DEF enough
  <2> QED
    BY <1>2, <2>3
<1> HIDE DEF enough
<1> QED
  BY <1>8, <1>9, <1>10, <1>11 DEF Widens, lower, upper

(* One of several words is found where not all of them are, where they are *)
(* not one word.                                                           *)
LEMMA AnyWidens ==
  ASSUME NEW W, NEW c \in Seq(W), Len(c) > 1
  PROVE  Widens(Expr(c, Prefixed, TRUE), [Expr(c, Prefixed, TRUE) EXCEPT !.all = FALSE], W)
<1> DEFINE T == SUBSET [word : W, prefix : BOOLEAN]
           lower == Expr(c, Prefixed, TRUE)
           upper == [Expr(c, Prefixed, TRUE) EXCEPT !.all = FALSE]
<1>1. 1 \in 1 .. Len(c) /\ \A n \in 1 .. Len(c) : c[n] \in W
  BY LenProperties
<1>2. \A tokens : MatchedBy(lower, tokens) <=> \A i \in 1 .. Len(c) : Holds(tokens, Prefixed(c[i]))
  BY PrefixFinds
<1>3. \A tokens : MatchedBy(upper, tokens) <=> \E i \in 1 .. Len(c) : Holds(tokens, Prefixed(c[i]))
  BY PrefixFinds
<1> HIDE DEF lower, upper
<1>4. ASSUME NEW tokens \in T, MatchedBy(lower, tokens)
      PROVE  MatchedBy(upper, tokens)
  BY <1>1, <1>2, <1>3, <1>4
<1>5. ASSUME ~AnyOfOne(upper)
      PROVE  \E i, j \in 1 .. Len(c) : c[i] # c[j]
  <2>1. AnyOfOne(upper) <=> \A i, j \in 1 .. Len(c) : Prefixed(c[i]) = Prefixed(c[j])
    BY PrefixFinds DEF upper
  <2> QED
    BY <1>5, <2>1
<1>6. ASSUME NEW i \in 1 .. Len(c), NEW j \in 1 .. Len(c), c[i] # c[j]
      PROVE  \E tokens \in T : MatchedBy(upper, tokens) /\ ~MatchedBy(lower, tokens)
  <2> DEFINE enough == {Exact(c[i])}
  <2>1. enough \in T
    BY <1>1 DEF Exact
  <2>2. Holds(enough, Prefixed(c[i]))
    BY DEF Holds, Prefixed
  <2>3. ~Holds(enough, Prefixed(c[j]))
    BY <1>6 DEF Holds, Prefixed, Exact
  <2> HIDE DEF enough
  <2>4. MatchedBy(upper, enough) /\ ~MatchedBy(lower, enough)
    BY <1>2, <1>3, <2>2, <2>3
  <2> QED
    BY <2>1, <2>4
<1> QED
  BY <1>4, <1>5, <1>6 DEF Widens, lower, upper

(* Each rung finds more than the one above it, the any of one term apart.  *)
LEMMA LadderClimbs ==
  ASSUME NEW words, words \in Seq(DOMAIN WordRunes),
         NEW i \in 2 .. Len(BuildFTSQueries(words))
  PROVE  Widens(BuildFTSQueries(words)[i - 1].expr, BuildFTSQueries(words)[i].expr, Range(words))
<1> DEFINE W == Range(words)
           strict == FirstTerms(words, MaxTerms)
           content == Content(strict)
           first == Expr(strict, Exact, TRUE)
           exact == Expr(content, Exact, TRUE)
           wide == Expr(content, Prefixed, TRUE)
           any == [wide EXCEPT !.all = FALSE]
           rungs == <<[name |-> "strict", expr |-> first], [name |-> "content", expr |-> exact],
                      [name |-> "prefix", expr |-> wide], [name |-> "any", expr |-> any]>>
           due == {n \in 1 .. 4 : \/ n = 1
                                  \/ /\ content # <<>>
                                     /\ \/ n = 2 /\ content # strict
                                        \/ n = 3 /\ wide \notin {exact, first}
                                        \/ n = 4 /\ Len(content) > 1}
           Lad == BuildFTSQueries(words)
<1>1. MaxTerms \in Nat
  BY QuestionsAsked
<1>2. words \in Seq(W) /\ DOMAIN words = 1 .. Len(words)
  BY LenProperties DEF Range
<1>3. strict \in Seq(W)
  <2> HIDE DEF W
  <2> QED
    BY <1>1, <1>2, FirstTermsAre
<1>4. content \in Seq(W)
  <2> HIDE DEF strict, W
  <2> QED
    BY <1>3, ContentIs
<1>5. Lad = IF strict = <<>> THEN <<>> ELSE Picked(rungs, due)
  BY DEF BuildFTSQueries
<1> HIDE DEF strict, W
<1>6. content # strict => Widens(first, exact, W)
  BY <1>3, ContentWidens
<1> HIDE DEF content
<1>7. wide # exact => Widens(exact, wide, W)
  <2>1. W \in SUBSET DOMAIN WordRunes
    BY LenProperties DEF W, Range
  <2> QED
    BY <1>4, <2>1, PrefixWidens
<1>8. Len(content) > 1 => Widens(wide, any, W)
  BY <1>4, AnyWidens
<1>9. wide = first => content = strict
  <2> SUFFICES ASSUME wide = first
               PROVE  content = strict
    OBVIOUS
  <2>1. wide.of = first.of
    OBVIOUS
  <2>2. [k \in 1 .. Len(content) |-> Prefixed(content[k])] = [k \in 1 .. Len(strict) |-> Exact(strict[k])]
    BY <2>1 DEF Expr
  <2> DEFINE f == [k \in 1 .. Len(content) |-> Prefixed(content[k])]
             g == [k \in 1 .. Len(strict) |-> Exact(strict[k])]
  <2>3. f = g /\ DOMAIN f = 1 .. Len(content) /\ DOMAIN g = 1 .. Len(strict)
    BY <2>2
  <2>4. Len(content) \in Nat /\ Len(strict) \in Nat
    BY <1>3, <1>4, LenProperties
  <2>5. 1 .. Len(content) = 1 .. Len(strict)
    BY <2>3
  <2>6. Len(content) = Len(strict)
    BY <2>4, <2>5
  <2>7. ASSUME NEW k \in 1 .. Len(content)
        PROVE  content[k] = strict[k]
    <3>1. Prefixed(content[k]) = Exact(strict[k])
      BY <2>2, <2>6
    <3>2. Prefixed(content[k]).word = content[k] /\ Exact(strict[k]).word = strict[k]
      BY DEF Prefixed, Exact
    <3> QED
      BY <3>1, <3>2
  <2> HIDE DEF f, g
  <2> QED
    BY <1>3, <1>4, <2>6, <2>7, SeqEqual
<1>10. content = strict => exact = first
  OBVIOUS
<1> DEFINE Q == {[name |-> "strict", expr |-> first], [name |-> "content", expr |-> exact],
                 [name |-> "prefix", expr |-> wide], [name |-> "any", expr |-> any]}
<1> HIDE DEF first, exact, wide, any
<1>11. 1 \in due /\ due \in SUBSET (1 .. 4)
  OBVIOUS
<1>12. 2 \in due <=> content # <<>> /\ content # strict
  OBVIOUS
<1>13. 3 \in due <=> content # <<>> /\ wide # exact /\ wide # first
  OBVIOUS
<1>14. 4 \in due => content # <<>> /\ Len(content) > 1
  OBVIOUS
<1>15. rungs \in Seq(Q) /\ Len(rungs) = 4
  OBVIOUS
<1>16. rungs[1].expr = first /\ rungs[2].expr = exact /\ rungs[3].expr = wide /\ rungs[4].expr = any
  OBVIOUS
<1>17. strict # <<>> /\ Lad = Picked(rungs, due)
  BY <1>5
<1> HIDE DEF rungs, due, Lad
<1>18. PICK a \in due, b \in due : /\ a < b /\ \A m \in due : ~(a < m /\ m < b)
                                   /\ Lad[i - 1] = rungs[a] /\ Lad[i] = rungs[b]
  <2>1. i \in 2 .. Len(Picked(rungs, due))
    BY <1>17 DEF Lad
  <2>2. due \in SUBSET (1 .. Len(rungs))
    BY <1>11, <1>15
  <2> HIDE DEF Q
  <2>3. \E a, b \in due : /\ a < b /\ \A m \in due : ~(a < m /\ m < b)
                          /\ Picked(rungs, due)[i - 1] = rungs[a] /\ Picked(rungs, due)[i] = rungs[b]
    <3>1. rungs \in Seq(Q)
      BY <1>15
    <3>2. \A n \in 2 .. Len(Picked(rungs, due)) :
            \E a, b \in due : /\ a < b /\ \A m \in due : ~(a < m /\ m < b)
                             /\ Picked(rungs, due)[n - 1] = rungs[a] /\ Picked(rungs, due)[n] = rungs[b]
      BY ONLY <2>2, <3>1, NextRung
    <3> QED
      BY ONLY <2>1, <3>2
  <2> QED
    BY <1>17, <2>3
<1>19. a \in 1 .. 4 /\ b \in 1 .. 4
  BY <1>11
<1>20. CASE b = 2
  <2>1. a = 1
    BY <1>18, <1>19, <1>20
  <2> QED
    BY <1>6, <1>12, <1>16, <1>18, <1>20, <2>1 DEF Lad, W
<1>21. CASE b = 3
  <2>1. a \in {1, 2}
    BY <1>18, <1>19, <1>21
  <2>2. rungs[a].expr = exact
    <3>1. CASE a = 2
      BY <1>16, <3>1
    <3>2. CASE a = 1
      <4>1. 2 \notin due
        BY <1>18, <1>21, <3>2
      <4>2. content = strict
        BY <1>12, <1>13, <1>18, <1>21, <4>1
      <4> QED
        BY <1>10, <1>16, <3>2, <4>2
    <3> QED
      BY <2>1, <3>1, <3>2
  <2> QED
    BY <1>7, <1>13, <1>16, <1>18, <1>21, <2>2 DEF Lad, W
<1>22. CASE b = 4
  <2>0. content # <<>> /\ Len(content) > 1
    BY <1>14, <1>18, <1>22
  <2>1. rungs[a].expr = wide
    <3>1. CASE a = 3
      BY <1>16, <3>1
    <3>2. CASE a \in {1, 2}
      <4>1. 3 \notin due
        BY <1>18, <1>22, <3>2
      <4>2. wide = exact \/ wide = first
        BY <1>13, <2>0, <4>1
      <4>3. CASE a = 1
        <5>1. 2 \notin due
          BY <1>18, <1>22, <4>3
        <5>2. content = strict
          BY <1>12, <2>0, <5>1
        <5> QED
          BY <1>10, <1>16, <4>2, <4>3, <5>2
      <4>4. CASE a = 2
        <5>1. content # strict
          BY <1>12, <1>18, <4>4
        <5>2. wide = exact
          BY <1>9, <4>2, <5>1
        <5> QED
          BY <1>16, <4>4, <5>2
      <4> QED
        BY <3>2, <4>3, <4>4
    <3>3. a \in {1, 2, 3}
      BY <1>18, <1>19, <1>22
    <3> QED
      BY <3>1, <3>2, <3>3
  <2> QED
    BY <1>8, <1>16, <1>18, <1>22, <2>0, <2>1 DEF Lad, W
<1>23. b \in {2, 3, 4}
  BY <1>18, <1>19
<1> QED
  BY <1>20, <1>21, <1>22, <1>23

(* The first place picked comes first.                                     *)
LEMMA FirstPicked ==
  ASSUME NEW X, NEW s \in Seq(X), NEW S \in SUBSET (1 .. Len(s)), 1 \in S
  PROVE  1 \in 1 .. Len(Picked(s, S)) /\ Picked(s, S)[1] = s[1]
<1>1. /\ Len(Picked(s, S)) = Cardinality(S)
      /\ PlaceIn(S, 1) \in 1 .. Cardinality(S) /\ Picked(s, S)[PlaceIn(S, 1)] = s[1]
  BY PickedIs
<1>2. {j \in S : j < 1} = {}
  <2>1. \A j \in S : j \in Int /\ ~(j < 1)
    BY LenProperties
  <2> QED
    BY <2>1
<1>3. Cardinality({}) = 0
  BY FS_EmptySet
<1>4. PlaceIn(S, 1) = 1
  <2>1. PlaceIn(S, 1) = Cardinality({j \in S : j < 1}) + 1
    BY DEF PlaceIn
  <2>2. Cardinality({j \in S : j < 1}) = 0
    BY <1>2, <1>3
  <2> QED
    BY <2>1, <2>2
<1> QED
  BY <1>1, <1>4

(* What is picked before an element was picked from before it.             *)
LEMMA EarlierPicked ==
  ASSUME NEW X, NEW s \in Seq(X), NEW S \in SUBSET (1 .. Len(s)), NEW a \in S
  PROVE  Earlier(Picked(s, S), PlaceIn(S, a)) = {s[b] : b \in {b \in S : b < a}}
<1> DEFINE t == Picked(s, S)
           n == PlaceIn(S, a)
<1>1. /\ Cardinality(S) \in Nat
      /\ \A i \in S : PlaceIn(S, i) \in 1 .. Cardinality(S) /\ t[PlaceIn(S, i)] = s[i]
      /\ \A k \in 1 .. Cardinality(S) : \E i \in S : PlaceIn(S, i) = k
      /\ \A i, j \in S : i < j <=> PlaceIn(S, i) < PlaceIn(S, j)
  BY PickedIs
<1>2. n \in 1 .. Cardinality(S) /\ \A i \in S : i < a <=> PlaceIn(S, i) < n
  BY <1>1
<1> HIDE DEF t, n
<1>3. ASSUME NEW k \in 1 .. n - 1
      PROVE  t[k] \in {s[b] : b \in {b \in S : b < a}}
  <2>1. k \in 1 .. Cardinality(S) /\ k < n
    BY <1>1, <1>2
  <2>2. PICK i \in S : PlaceIn(S, i) = k
    BY <1>1, <2>1
  <2>3. i < a /\ t[k] = s[i]
    BY <1>1, <1>2, <2>1, <2>2
  <2> QED
    BY <2>3
<1>4. ASSUME NEW b \in S, b < a
      PROVE  s[b] \in {t[k] : k \in 1 .. n - 1}
  <2>1. PlaceIn(S, b) \in 1 .. Cardinality(S) /\ PlaceIn(S, b) < n /\ t[PlaceIn(S, b)] = s[b]
    BY <1>1, <1>2, <1>4
  <2>2. PlaceIn(S, b) \in 1 .. n - 1
    BY <1>1, <1>2, <2>1
  <2> QED
    BY <2>1, <2>2
<1>5. Earlier(t, n) = {s[b] : b \in {b \in S : b < a}}
  BY <1>3, <1>4 DEF Earlier
<1> QED
  BY <1>5 DEF t, n

(* What comes before a place is no more than the places before it.         *)
LEMMA EarlierCount ==
  ASSUME NEW X, NEW s \in Seq(X), NEW n \in 1 .. Len(s)
  PROVE  /\ IsFiniteSet(Earlier(s, n)) /\ Cardinality(Earlier(s, n)) \in Nat
         /\ Cardinality(Earlier(s, n)) <= n - 1
<1> DEFINE p == n - 1
           D == 1 .. p
           f == [j \in D |-> s[j]]
           T == {s[j] : j \in 1 .. p}
<1>1. p \in Nat
  BY LenProperties
<1>2. IsFiniteSet(D) /\ Cardinality(D) = p
  <2> HIDE DEF p
  <2> QED
    BY <1>1, FS_Interval
<1>3. f \in Surjection(D, T)
  <2>1. f \in [D -> T] /\ \A x \in T : \E j \in D : f[j] = x
    OBVIOUS
  <2> HIDE DEF f, D, T
  <2> QED
    BY <2>1, Fun_IsSurj
<1>4. IsFiniteSet(T) /\ Cardinality(T) <= Cardinality(D)
  <2> HIDE DEF f, D, T
  <2> QED
    BY <1>2, <1>3, FS_Surjection
<1>5. Cardinality(T) \in Nat
  BY <1>4, FS_CardinalityType
<1> QED
  BY <1>2, <1>4, <1>5 DEF Earlier

(* The first n elements of a list, met once each: an element is among them *)
(* that has fewer than n others before it.                                 *)
LEMMA FirstOnceIs ==
  ASSUME NEW X, NEW s \in Seq(X), NEW n \in Nat
  PROVE  /\ FirstTerms(Once(s), n) \in Seq(X) /\ Len(FirstTerms(Once(s), n)) <= n
         /\ IsInjective(FirstTerms(Once(s), n))
         /\ \A q \in 1 .. Len(s) :
              Cardinality(Earlier(s, q)) < n => s[q] \in Range(FirstTerms(Once(s), n))
         /\ \A x \in Range(FirstTerms(Once(s), n)) :
              \E q \in 1 .. Len(s) : s[q] = x /\ Cardinality(Earlier(s, q)) < n
<1> DEFINE S == {i \in DOMAIN s : \A j \in 1 .. i - 1 : s[j] # s[i]}
           t == Once(s)
           f == FirstTerms(t, n)
<1>0. Len(s) \in Nat /\ DOMAIN s = 1 .. Len(s) /\ s \in [1 .. Len(s) -> X]
  BY LenProperties
<1>1. S \in SUBSET (1 .. Len(s)) /\ t = Picked(s, S)
  BY <1>0 DEF Once
<1>2. \A i \in 1 .. Len(s) : i \in S <=> \A j \in 1 .. i - 1 : s[j] # s[i]
  BY <1>0
<1> HIDE DEF S, t
<1>3. /\ IsFiniteSet(S) /\ Cardinality(S) \in Nat
      /\ t \in Seq(X) /\ Len(t) = Cardinality(S)
      /\ \A i \in S : PlaceIn(S, i) \in 1 .. Len(t) /\ t[PlaceIn(S, i)] = s[i]
      /\ \A k \in 1 .. Len(t) : \E i \in S : PlaceIn(S, i) = k
      /\ \A i, j \in S : i < j <=> PlaceIn(S, i) < PlaceIn(S, j)
  <2>1. s \in Seq(X) /\ S \in SUBSET (1 .. Len(s))
    BY <1>1
  <2>2. /\ IsFiniteSet(S) /\ Cardinality(S) \in Nat /\ Cardinality(S) <= Len(s)
        /\ Picked(s, S) \in Seq(X) /\ Len(Picked(s, S)) = Cardinality(S)
        /\ \A i \in S : PlaceIn(S, i) \in 1 .. Cardinality(S) /\ Picked(s, S)[PlaceIn(S, i)] = s[i]
        /\ \A k \in 1 .. Cardinality(S) : \E i \in S : PlaceIn(S, i) = k
        /\ \A i, j \in S : i < j <=> PlaceIn(S, i) < PlaceIn(S, j)
    BY ONLY <2>1, PickedIs
  <2> QED
    BY <1>1, <2>2
<1>4. /\ f \in Seq(X) /\ Len(f) <= n /\ Len(f) <= Len(t)
      /\ \A i \in 1 .. Len(f) : f[i] = t[i]
      /\ \A i \in 1 .. Len(t) : i <= n => i \in 1 .. Len(f)
  BY <1>3, FirstTermsAre
<1> HIDE DEF f
<1>5. DOMAIN f = 1 .. Len(f) /\ Len(f) \in Nat
  BY <1>4, LenProperties
<1>6. \A k \in 1 .. Len(f) : k \in 1 .. Len(t) /\ k \in Nat
  BY <1>3, <1>4, <1>5
<1>7. ASSUME NEW i \in S, NEW j \in S, s[i] = s[j]
      PROVE  i = j
  <2>1. i \in Nat /\ j \in Nat /\ i \in 1 .. Len(s) /\ j \in 1 .. Len(s) /\ i >= 1 /\ j >= 1
    BY <1>0, <1>1
  <2>2. ~(i < j)
    <3>1. SUFFICES ASSUME i < j PROVE FALSE
      OBVIOUS
    <3>2. i \in 1 .. j - 1
      BY <2>1, <3>1
    <3> QED
      BY <1>2, <1>7, <2>1, <3>2
  <2>3. ~(j < i)
    <3>1. SUFFICES ASSUME j < i PROVE FALSE
      OBVIOUS
    <3>2. j \in 1 .. i - 1
      BY <2>1, <3>1
    <3> QED
      BY <1>2, <1>7, <2>1, <3>2
  <2> QED
    BY <2>1, <2>2, <2>3
<1>8. IsInjective(f)
  <2> SUFFICES ASSUME NEW k \in 1 .. Len(f), NEW l \in 1 .. Len(f), f[k] = f[l]
               PROVE  k = l
    BY <1>5 DEF IsInjective
  <2>1. PICK i \in S : PlaceIn(S, i) = k
    BY <1>3, <1>6
  <2>2. PICK j \in S : PlaceIn(S, j) = l
    BY <1>3, <1>6
  <2>3. s[i] = s[j]
    BY <1>3, <1>4, <2>1, <2>2
  <2> QED
    BY <1>7, <2>1, <2>2, <2>3
\* The elements before the first place of one are as many as the places picked.
<1>9. ASSUME NEW i \in S
      PROVE  Cardinality(Earlier(s, i)) = PlaceIn(S, i) - 1
  <2> DEFINE D == {j \in S : j < i}
             g == [j \in D |-> s[j]]
             E == Earlier(s, i)
  <2>0. i \in Nat /\ i \in 1 .. Len(s) /\ i >= 1
    BY <1>0, <1>1
  <2>1. IsFiniteSet(E)
    BY <2>0, EarlierCount
  <2>2. ASSUME NEW j \in D
        PROVE  s[j] \in E
    <3>1. j \in 1 .. i - 1
      BY <1>0, <1>1, <2>0
    <3> QED
      BY <3>1 DEF Earlier
  <2>3. ASSUME NEW x \in E
        PROVE  \E j \in D : s[j] = x
    <3> DEFINE P == {j \in 1 .. i - 1 : s[j] = x}
    <3>1. P # {} /\ P \in SUBSET Nat
      BY <2>0 DEF Earlier
    <3> HIDE DEF P
    <3>2. PICK k \in P : \A j \in P : k <= j
      BY <3>1, LeastNumber
    <3>3. k \in 1 .. i - 1 /\ s[k] = x /\ k \in Nat
      BY <2>0, <3>2 DEF P
    <3>4. ASSUME NEW j \in 1 .. k - 1
          PROVE  s[j] # s[k]
      <4>1. SUFFICES ASSUME s[j] = s[k] PROVE FALSE
        OBVIOUS
      <4>2. j \in 1 .. i - 1
        BY <2>0, <3>3
      <4>3. j \in P
        BY <3>3, <4>1, <4>2 DEF P
      <4>4. k <= j
        BY <3>2, <4>3
      <4> QED
        BY <3>3, <4>4
    <3>5. k \in 1 .. Len(s)
      BY <1>0, <2>0, <3>3
    <3>6. k \in S /\ k < i
      BY <1>2, <2>0, <3>3, <3>4, <3>5
    <3> QED
      BY <3>3, <3>6
  <2>4. D \subseteq S
    OBVIOUS
  <2>5. g \in [D -> E] /\ \A j \in D : g[j] = s[j]
    BY <2>2
  <2> HIDE DEF D, g, E
  <2>6. g \in Injection(D, E)
    BY <1>7, <2>4, <2>5, Fun_IsInj
  <2>7. g \in Surjection(D, E)
    BY <2>3, <2>5, Fun_IsSurj
  <2>8. Cardinality(D) = Cardinality(E)
    BY <2>1, <2>6, <2>7, FS_Injection
  <2>9. IsFiniteSet(D) /\ Cardinality(D) \in Nat
    BY <1>3, <2>4, FS_Subset, FS_CardinalityType
  <2>10. PlaceIn(S, i) = Cardinality(D) + 1
    BY DEF PlaceIn, D
  <2> QED
    BY <2>8, <2>9, <2>10 DEF E
<1>10. ASSUME NEW q \in 1 .. Len(s), Cardinality(Earlier(s, q)) < n
       PROVE  s[q] \in Range(f)
  <2> DEFINE P == {j \in 1 .. Len(s) : s[j] = s[q]}
  <2>1. P # {} /\ P \in SUBSET Nat
    BY <1>0
  <2> HIDE DEF P
  <2>2. PICK k \in P : \A j \in P : k <= j
    BY <2>1, LeastNumber
  <2>3. k \in 1 .. Len(s) /\ s[k] = s[q] /\ k \in Nat /\ q \in Nat /\ k <= q
    <3>1. q \in P
      BY DEF P
    <3> QED
      BY <1>0, <2>2, <3>1 DEF P
  <2>4. \A j \in 1 .. k - 1 : s[j] # s[k]
    <3> SUFFICES ASSUME NEW j \in 1 .. k - 1, s[j] = s[k]
                 PROVE  FALSE
      OBVIOUS
    <3>1. j \in 1 .. Len(s) /\ j \in Nat /\ j < k
      BY <1>0, <2>3
    <3>2. j \in P
      BY <2>3, <3>1 DEF P
    <3>3. k <= j
      BY <2>2, <3>2
    <3> QED
      BY <2>3, <3>1, <3>3
  <2>5. k \in S
    BY <1>2, <2>3, <2>4
  <2>6. Earlier(s, k) \subseteq Earlier(s, q)
    <3>1. 1 .. k - 1 \subseteq 1 .. q - 1
      BY <2>3
    <3> QED
      BY <3>1 DEF Earlier
  <2>7. IsFiniteSet(Earlier(s, q)) /\ Cardinality(Earlier(s, q)) \in Nat
    BY EarlierCount
  <2>8. Cardinality(Earlier(s, k)) <= Cardinality(Earlier(s, q))
    BY <2>6, <2>7, FS_Subset
  <2>9. PlaceIn(S, k) \in 1 .. Len(t) /\ t[PlaceIn(S, k)] = s[k]
    BY <1>3, <2>5
  <2>10. PlaceIn(S, k) - 1 <= Cardinality(Earlier(s, q))
    BY <1>9, <2>5, <2>8
  <2>11. PlaceIn(S, k) <= n
    BY <1>10, <2>7, <2>9, <2>10
  <2>12. PlaceIn(S, k) \in 1 .. Len(f) /\ f[PlaceIn(S, k)] = s[q]
    BY <1>4, <2>3, <2>9, <2>11
  <2> QED
    BY <1>5, <2>12 DEF Range
<1>11. ASSUME NEW x \in Range(f)
       PROVE  \E q \in 1 .. Len(s) : s[q] = x /\ Cardinality(Earlier(s, q)) < n
  <2>1. PICK k \in 1 .. Len(f) : f[k] = x
    BY <1>5 DEF Range
  <2>2. PICK i \in S : PlaceIn(S, i) = k
    BY <1>3, <1>6
  <2>3. s[i] = x /\ i \in 1 .. Len(s)
    BY <1>1, <1>3, <1>4, <2>1, <2>2
  <2>4. Cardinality(Earlier(s, i)) = k - 1
    BY <1>9, <2>2
  <2>5. k - 1 < n
    BY <1>4, <1>5, <2>1
  <2> QED
    BY <2>3, <2>4, <2>5
<1> QED
  BY <1>4, <1>8, <1>10, <1>11 DEF f, t

(* Terms are sequences of words and separators, whatever they come from.   *)
LEMMA CandidatesTyped ==
  ASSUME NEW A, Separator \in A, NEW words \in Seq(A), NEW codes \in Seq(Seq(A))
  PROVE  /\ Pairs(words, 1, Glued) \in Seq(Seq(A))
         /\ ProseTerms(words) \in Seq(Seq(A))
         /\ \A i \in 1 .. Len(Pairs(words, 1, Glued)) :
              i \in 1 .. Len(ProseTerms(words)) /\ ProseTerms(words)[i] = Pairs(words, 1, Glued)[i]
         /\ Guesses(codes) \in Seq(Seq(A))
         /\ codes # <<>> => 1 \in 1 .. Len(Guesses(codes)) /\ Guesses(codes)[1] = codes[1]
<1> DEFINE X == Seq(A)
<1>1. Len(words) \in Nat /\ \A i \in 1 .. Len(words) : words[i] \in A
  BY LenProperties
<1>2. \A a, b \in A : Glued(a, b) \in X /\ Snake(a, b) \in X
  BY DEF Glued, Snake
<1>3. ASSUME NEW gap \in {1, 2}
      PROVE  Pairs(words, gap, Glued) \in Seq(X) /\ Pairs(words, gap, Snake) \in Seq(X)
  <2> DEFINE n == IF Len(words) > gap THEN Len(words) - gap ELSE 0
  <2>1. n \in Nat /\ \A i \in 1 .. n : i \in 1 .. Len(words) /\ i + gap \in 1 .. Len(words)
    BY <1>1
  <2>2. /\ Pairs(words, gap, Glued) = [i \in 1 .. n |-> Glued(words[i], words[i + gap])]
        /\ Pairs(words, gap, Snake) = [i \in 1 .. n |-> Snake(words[i], words[i + gap])]
    BY DEF Pairs
  <2> HIDE DEF n, X
  <2>3. \A i \in 1 .. n : /\ Glued(words[i], words[i + gap]) \in X
                          /\ Snake(words[i], words[i + gap]) \in X
    BY <1>1, <1>2, <2>1
  <2>4. /\ Pairs(words, gap, Glued) \in [1 .. n -> X]
        /\ Pairs(words, gap, Snake) \in [1 .. n -> X]
    BY <2>2, <2>3
  <2> QED
    BY <2>1, <2>4
<1>4. [i \in 1 .. Len(words) |-> <<words[i]>>] \in Seq(X)
  <2>1. \A i \in 1 .. Len(words) : <<words[i]>> \in X
    BY <1>1
  <2> HIDE DEF X
  <2>2. [i \in 1 .. Len(words) |-> <<words[i]>>] \in [1 .. Len(words) -> X]
    BY <2>1
  <2> QED
    BY <1>1, <2>2
<1>5. /\ ProseTerms(words) \in Seq(X)
      /\ \A i \in 1 .. Len(Pairs(words, 1, Glued)) :
           i \in 1 .. Len(ProseTerms(words)) /\ ProseTerms(words)[i] = Pairs(words, 1, Glued)[i]
  <2> DEFINE a == Pairs(words, 1, Glued)
             b == Pairs(words, 2, Glued)
             c == [i \in 1 .. Len(words) |-> <<words[i]>>]
             d == Pairs(words, 1, Snake)
             e == Pairs(words, 2, Snake)
             ab == a \o b
             abc == ab \o c
             abcd == abc \o d
  <2>1. ProseTerms(words) = abcd \o e
    BY DEF ProseTerms
  <2>2. a \in Seq(X) /\ b \in Seq(X) /\ c \in Seq(X) /\ d \in Seq(X) /\ e \in Seq(X)
    BY <1>3, <1>4
  <2> HIDE DEF a, b, c, d, e, X
  <2>3. ab \in Seq(X) /\ \A i \in 1 .. Len(a) : i \in 1 .. Len(ab) /\ ab[i] = a[i]
    BY <2>2
  <2> HIDE DEF ab
  <2>4. abc \in Seq(X) /\ \A i \in 1 .. Len(a) : i \in 1 .. Len(abc) /\ abc[i] = a[i]
    BY <2>2, <2>3
  <2> HIDE DEF abc
  <2>5. abcd \in Seq(X) /\ \A i \in 1 .. Len(a) : i \in 1 .. Len(abcd) /\ abcd[i] = a[i]
    BY <2>2, <2>4
  <2> HIDE DEF abcd
  <2> DEFINE abcde == abcd \o e
  <2>6. abcde \in Seq(X) /\ \A i \in 1 .. Len(a) : i \in 1 .. Len(abcde) /\ abcde[i] = a[i]
    BY <2>2, <2>5
  <2> QED
    BY <2>1, <2>6 DEF a
<1>6. Len(codes) \in Nat /\ \A k \in 1 .. Len(codes) : codes[k] \in X
  BY LenProperties
<1>7. ASSUME NEW term \in X
      PROVE  FoldTerm(term) \in X
  <2> DEFINE S == {i \in DOMAIN term : term[i] # Separator}
  <2>1. S \in SUBSET (1 .. Len(term)) /\ FoldTerm(term) = Picked(term, S)
    BY LenProperties DEF FoldTerm
  <2> HIDE DEF S
  <2> QED
    BY <2>1, PickedIs
<1> DEFINE G == Guesses(codes)
           m == 2 * Len(codes)
<1>8. m \in Nat
  BY <1>6
<1>9. G = [n \in 1 .. m |-> IF n % 2 = 1 THEN codes[(n + 1) \div 2] ELSE FoldTerm(codes[n \div 2])]
  BY DEF Guesses
<1> HIDE DEF X, G, m
<1>10. ASSUME NEW n \in 1 .. m
       PROVE  (IF n % 2 = 1 THEN codes[(n + 1) \div 2] ELSE FoldTerm(codes[n \div 2])) \in X
  <2>1. CASE n % 2 = 1
    <3>1. (n + 1) \div 2 \in 1 .. Len(codes)
      BY <1>6, <2>1 DEF m
    <3> QED
      BY <1>6, <2>1, <3>1
  <2>2. CASE n % 2 # 1
    <3>1. n \div 2 \in 1 .. Len(codes)
      BY <1>6, <2>2 DEF m
    <3> QED
      BY <1>6, <1>7, <2>2, <3>1
  <2> QED
    BY <2>1, <2>2
<1>11. G \in [1 .. m -> X]
  BY <1>9, <1>10
<1>12. G \in Seq(X) /\ Len(G) = m
  BY <1>8, <1>11
<1>13. codes # <<>> => 1 \in 1 .. Len(G) /\ G[1] = codes[1]
  <2> SUFFICES ASSUME codes # <<>>
               PROVE  1 \in 1 .. Len(G) /\ G[1] = codes[1]
    OBVIOUS
  <2>1. Len(codes) >= 1
    BY <1>6, EmptySeq DEF X
  <2>2. 1 \in 1 .. m
    BY <1>6, <2>1 DEF m
  <2>3. 1 % 2 = 1 /\ (1 + 1) \div 2 = 1
    OBVIOUS
  <2> QED
    BY <1>9, <1>12, <2>2, <2>3
<1> QED
  BY <1>3, <1>5, <1>12, <1>13 DEF X, G

\* The long ones of s before its place a.
LongBefore(s, a) == {s[b] : b \in {b \in 1 .. Len(s) : b < a /\ LongEnough(s[b])}}

(* The long ones of a list.                                                *)
LEMMA LongOnesAre ==
  ASSUME NEW X, NEW s \in Seq(X)
  PROVE  /\ LongOnes(s) \in Seq(X)
         /\ \A a \in 1 .. Len(s) : LongEnough(s[a]) =>
              \E k \in 1 .. Len(LongOnes(s)) :
                /\ LongOnes(s)[k] = s[a]
                /\ Earlier(LongOnes(s), k) = LongBefore(s, a)
         /\ \A k \in 1 .. Len(LongOnes(s)) : \E a \in 1 .. Len(s) :
              /\ LongEnough(s[a]) /\ LongOnes(s)[k] = s[a]
              /\ Earlier(LongOnes(s), k) = LongBefore(s, a)
<1> DEFINE S == {i \in DOMAIN s : LongEnough(s[i])}
           t == LongOnes(s)
<1>1. S \in SUBSET (1 .. Len(s)) /\ t = Picked(s, S) /\ Len(s) \in Nat
  BY LenProperties DEF LongOnes
<1>2. \A i \in 1 .. Len(s) : i \in S <=> LongEnough(s[i])
  BY LenProperties
<1> HIDE DEF S, t
<1>3. /\ t \in Seq(X) /\ Len(t) = Cardinality(S)
      /\ \A i \in S : PlaceIn(S, i) \in 1 .. Len(t) /\ t[PlaceIn(S, i)] = s[i]
      /\ \A k \in 1 .. Len(t) : \E i \in S : PlaceIn(S, i) = k
  BY <1>1, PickedIs
<1>4. ASSUME NEW a \in S
      PROVE  Earlier(t, PlaceIn(S, a)) = LongBefore(s, a)
  <2>1. Earlier(t, PlaceIn(S, a)) = {s[b] : b \in {b \in S : b < a}}
    BY <1>1, EarlierPicked
  <2>2. {b \in S : b < a} = {b \in 1 .. Len(s) : b < a /\ LongEnough(s[b])}
    BY <1>1, <1>2
  <2> QED
    BY <2>1, <2>2 DEF LongBefore
<1>5. ASSUME NEW a \in 1 .. Len(s), LongEnough(s[a])
      PROVE  \E k \in 1 .. Len(t) :
                /\ t[k] = s[a]
                /\ Earlier(t, k) = LongBefore(s, a)
  <2>1. a \in S
    BY <1>2, <1>5
  <2> QED
    BY <1>3, <1>4, <2>1
<1>6. ASSUME NEW k \in 1 .. Len(t)
      PROVE  \E a \in 1 .. Len(s) :
               /\ LongEnough(s[a]) /\ t[k] = s[a]
               /\ Earlier(t, k) = LongBefore(s, a)
  <2>1. PICK a \in S : PlaceIn(S, a) = k
    BY <1>3
  <2>2. a \in 1 .. Len(s) /\ LongEnough(s[a]) /\ t[k] = s[a]
    BY <1>1, <1>2, <1>3, <2>1
  <2> QED
    BY <1>4, <2>1, <2>2
<1> QED
  BY <1>3, <1>5, <1>6 DEF t

(* However many guesses there are and whatever they are, the pairs of the  *)
(* question are among the terms, up to the room the guesses may not take.  *)
LEMMA TermsAreServed ==
  ASSUME NEW words, words \in Seq(DOMAIN WordRunes),
         NEW codes, codes \in Seq(Seq(DOMAIN WordRunes \cup {Separator}))
  PROVE  LET pairs == Once(LongOnes(Pairs(Content(words), 1, Glued)))
             made == BuildSubstringTerms(words, codes)
         IN  /\ Range(FirstTerms(pairs, MaxSubstringTerms - MaxSubstringCodeTerms)) \subseteq Range(made)
             /\ (codes # <<>> /\ LongEnough(codes[1])) => codes[1] \in Range(made)
             /\ Len(made) <= MaxSubstringTerms /\ IsInjective(made)
<1> DEFINE A == DOMAIN WordRunes \cup {Separator}
           X == Seq(A)
           M == MaxSubstringTerms
           most == MaxSubstringCodeTerms
           room == M - most
           c == Content(words)
           P == Pairs(c, 1, Glued)
           T == ProseTerms(c)
           G == Guesses(codes)
           L == LongOnes(P)
           prose == LongOnes(T)
           longG == LongOnes(G)
           guessed == FirstTerms(Once(longG), most)
           all == guessed \o prose
           made == BuildSubstringTerms(words, codes)
           ownOnes == FirstTerms(Once(L), room)
<1>1. M \in Nat /\ most \in Nat /\ most >= 1 /\ room \in Nat /\ most + room = M
  BY QuestionsAsked
<1>2. c \in Seq(A)
  <2> DEFINE C == {i \in DOMAIN words : words[i] \notin Stopwords}
  <2>1. words \in Seq(A)
    OBVIOUS
  <2>2. C \in SUBSET (1 .. Len(words)) /\ c = Picked(words, C)
    BY LenProperties DEF Content
  <2> HIDE DEF C, A, c
  <2> QED
    BY <2>1, <2>2, PickedIs
<1>3. made = FirstTerms(Once(all), M)
  BY DEF BuildSubstringTerms
<1> HIDE DEF M, most, room, c, made
<1>4. /\ P \in Seq(X) /\ T \in Seq(X) /\ G \in Seq(X)
      /\ \A i \in 1 .. Len(P) : i \in 1 .. Len(T) /\ T[i] = P[i]
      /\ codes # <<>> => 1 \in 1 .. Len(G) /\ G[1] = codes[1]
  <2>1. Separator \in A /\ codes \in Seq(Seq(A))
    OBVIOUS
  <2> HIDE DEF A
  <2> QED
    BY <1>2, <2>1, CandidatesTyped
<1> HIDE DEF G, P, T, X
<1>5. L \in Seq(X) /\ prose \in Seq(X) /\ longG \in Seq(X)
  BY <1>4, LongOnesAre
<1> HIDE DEF L, prose, longG
<1>6. guessed \in Seq(X) /\ Len(guessed) <= most /\ Len(guessed) \in Nat
  <2>1. guessed \in Seq(X) /\ Len(guessed) <= most
    BY <1>1, <1>5, FirstOnceIs
  <2> QED
    BY <2>1, LenProperties
<1> HIDE DEF guessed
<1>7. /\ all \in Seq(X) /\ Len(all) = Len(guessed) + Len(prose)
      /\ \A q \in 1 .. Len(guessed) : q \in 1 .. Len(all) /\ all[q] = guessed[q]
      /\ \A q \in 1 .. Len(prose) :
           Len(guessed) + q \in 1 .. Len(all) /\ all[Len(guessed) + q] = prose[q]
  BY <1>5, <1>6
<1> HIDE DEF all
<1>8. /\ Len(made) <= M /\ IsInjective(made)
      /\ \A q \in 1 .. Len(all) : Cardinality(Earlier(all, q)) < M => all[q] \in Range(made)
  BY <1>1, <1>3, <1>7, FirstOnceIs
<1>9. \A x \in Range(ownOnes) :
        \E q \in 1 .. Len(L) : L[q] = x /\ Cardinality(Earlier(L, q)) < room
  BY <1>1, <1>5, FirstOnceIs
<1>10. ASSUME NEW x \in Range(ownOnes)
       PROVE  x \in Range(made)
  <2>1. PICK q \in 1 .. Len(L) : L[q] = x /\ Cardinality(Earlier(L, q)) < room
    BY <1>9
  <2>2. PICK a \in 1 .. Len(P) :
          /\ LongEnough(P[a]) /\ L[q] = P[a]
          /\ Earlier(L, q) = LongBefore(P, a)
    <3>1. \A k \in 1 .. Len(LongOnes(P)) : \E a \in 1 .. Len(P) :
              /\ LongEnough(P[a]) /\ LongOnes(P)[k] = P[a]
              /\ Earlier(LongOnes(P), k) = LongBefore(P, a)
      BY <1>4, LongOnesAre
    <3> QED
      BY <3>1 DEF L
  <2>3. a \in 1 .. Len(T) /\ T[a] = P[a]
    BY <1>4
  <2>4. PICK k \in 1 .. Len(prose) :
          /\ prose[k] = T[a]
          /\ Earlier(prose, k) = LongBefore(T, a)
    <3>1. \A i \in 1 .. Len(T) : LongEnough(T[i]) =>
            \E k \in 1 .. Len(LongOnes(T)) :
              /\ LongOnes(T)[k] = T[i]
              /\ Earlier(LongOnes(T), k) = LongBefore(T, i)
      BY <1>4, LongOnesAre
    <3> QED
      BY <2>2, <2>3, <3>1 DEF prose
  <2>5. Earlier(prose, k) \subseteq Earlier(L, q)
    <3> SUFFICES ASSUME NEW b \in 1 .. Len(T), b < a, LongEnough(T[b])
                 PROVE  T[b] \in Earlier(L, q)
      BY <2>4 DEF LongBefore
    <3>1. Len(P) \in Nat /\ Len(T) \in Nat
      BY <1>4, LenProperties
    <3>2. b \in 1 .. Len(P)
      BY <3>1
    <3>3. T[b] = P[b]
      BY <1>4, <3>2
    <3>4. P[b] \in LongBefore(P, a)
      BY <3>2, <3>3 DEF LongBefore
    <3> QED
      BY <2>2, <3>3, <3>4
  <2> DEFINE p == Len(guessed) + k
  <2>6. p \in 1 .. Len(all) /\ all[p] = x
    BY <1>7, <2>1, <2>2, <2>3, <2>4
  <2>7. Earlier(all, p) \subseteq {guessed[j] : j \in 1 .. Len(guessed)} \cup Earlier(L, q)
    <3> SUFFICES ASSUME NEW j \in 1 .. p - 1
                 PROVE  all[j] \in {guessed[i] : i \in 1 .. Len(guessed)} \cup Earlier(L, q)
      BY DEF Earlier
    <3>0. k \in Nat /\ Len(guessed) \in Nat /\ Len(prose) \in Nat /\ k <= Len(prose) /\ j \in Nat /\ j >= 1
      BY <1>5, <1>6, LenProperties
    <3>1. CASE j \in 1 .. Len(guessed)
      BY <1>7, <3>1
    <3>2. CASE j \notin 1 .. Len(guessed)
      <4> DEFINE i == j - Len(guessed)
      <4>1. i \in 1 .. k - 1 /\ i \in 1 .. Len(prose) /\ j = Len(guessed) + i
        BY <3>0, <3>2
      <4> HIDE DEF i
      <4>2. all[j] = prose[i]
        BY <1>7, <4>1
      <4>3. prose[i] \in Earlier(prose, k)
        BY <4>1 DEF Earlier
      <4> QED
        BY <2>5, <4>2, <4>3
    <3> QED
      BY <3>1, <3>2
  <2> DEFINE g == {guessed[j] : j \in 1 .. Len(guessed)}
             before == Earlier(L, q)
  <2>8. IsFiniteSet(g) /\ Cardinality(g) \in Nat /\ Cardinality(g) <= Len(guessed)
    <3> DEFINE n == Len(guessed)
               D == 1 .. n
               f == [j \in D |-> guessed[j]]
    <3>1. n \in Nat
      BY <1>6
    <3>2. f \in [D -> g] /\ \A y \in g : \E j \in D : f[j] = y
      OBVIOUS
    <3> HIDE DEF n
    <3>3. IsFiniteSet(D) /\ Cardinality(D) = n
      BY <3>1, FS_Interval
    <3> HIDE DEF D, f, g
    <3>4. f \in Surjection(D, g)
      BY <3>2, Fun_IsSurj
    <3>5. IsFiniteSet(g) /\ Cardinality(g) <= n
      BY <3>3, <3>4, FS_Surjection
    <3> QED
      BY <3>5, FS_CardinalityType DEF n
  <2>9. IsFiniteSet(before) /\ Cardinality(before) \in Nat
    BY <1>5, EarlierCount
  <2>10. Cardinality(before) < room
    BY <2>1
  <2> HIDE DEF g, before
  <2>11. /\ IsFiniteSet(g \cup before) /\ Cardinality(g \cup before) \in Nat
         /\ Cardinality(g \cup before) <= Cardinality(g) + Cardinality(before)
    <3>1. /\ IsFiniteSet(g \cup before) /\ IsFiniteSet(g \cap before)
          /\ Cardinality(g \cup before) = Cardinality(g) + Cardinality(before) - Cardinality(g \cap before)
      <4>1. IsFiniteSet(g \cap before)
        BY <2>8, FS_Intersection
      <4> QED
        BY <2>8, <2>9, <4>1, FS_Union
    <3>2. Cardinality(g \cap before) \in Nat /\ Cardinality(g \cup before) \in Nat
      BY <3>1, FS_CardinalityType
    <3> QED
      BY <2>8, <2>9, <3>1, <3>2
  <2>12. Cardinality(Earlier(all, p)) <= Cardinality(g \cup before)
    <3>1. Earlier(all, p) \in SUBSET (g \cup before)
      BY <2>7 DEF g, before
    <3> DEFINE E == Earlier(all, p)
    <3> HIDE DEF E
    <3>2. E \in SUBSET (g \cup before)
      BY <3>1 DEF E
    <3>3. Cardinality(E) <= Cardinality(g \cup before)
      BY <2>11, <3>2, FS_Subset
    <3> QED
      BY <3>3 DEF E
  <2>13. Cardinality(Earlier(all, p)) \in Nat
    BY <1>7, <2>6, EarlierCount
  <2> HIDE DEF p
  <2>14. Cardinality(Earlier(all, p)) < M
    <3>1. Cardinality(g) <= most
      BY <1>1, <1>6, <2>8
    <3>2. Cardinality(g) + Cardinality(before) < M
      BY <1>1, <2>8, <2>9, <2>10, <3>1
    <3>3. Cardinality(g \cup before) < M
      BY <1>1, <2>8, <2>9, <2>11, <3>2
    <3> QED
      BY <1>1, <2>11, <2>12, <2>13, <3>3
  <2> QED
    BY <1>8, <2>6, <2>14
<1>11. ASSUME codes # <<>>, LongEnough(codes[1])
       PROVE  codes[1] \in Range(made)
  <2>1. 1 \in 1 .. Len(G) /\ G[1] = codes[1]
    BY <1>4, <1>11
  <2> DEFINE S == {i \in DOMAIN G : LongEnough(G[i])}
  <2>2. S \in SUBSET (1 .. Len(G)) /\ 1 \in S /\ longG = Picked(G, S)
    BY <1>4, <1>11, <2>1, LenProperties DEF LongOnes, longG
  <2> HIDE DEF S
  <2>3. 1 \in 1 .. Len(longG) /\ longG[1] = codes[1]
    BY <1>4, <2>1, <2>2, FirstPicked
  <2> DEFINE O == {i \in DOMAIN longG : \A j \in 1 .. i - 1 : longG[j] # longG[i]}
  <2>4. O \in SUBSET (1 .. Len(longG)) /\ 1 \in O /\ Once(longG) = Picked(longG, O)
    BY <1>5, <2>3, LenProperties DEF Once
  <2> HIDE DEF O
  <2>5. 1 \in 1 .. Len(Once(longG)) /\ Once(longG)[1] = codes[1] /\ Once(longG) \in Seq(X)
    BY <1>5, <2>3, <2>4, FirstPicked, PickedIs
  <2>6. 1 \in 1 .. Len(guessed) /\ guessed[1] = codes[1]
    BY <1>1, <2>5, FirstTermsAre DEF guessed
  <2>7. 1 \in 1 .. Len(all) /\ all[1] = codes[1]
    BY <1>7, <2>6
  <2>8. Cardinality(Earlier(all, 1)) < M
    <3>1. Earlier(all, 1) = {}
      BY DEF Earlier
    <3>2. Cardinality(Earlier(all, 1)) = 0
      BY <3>1, FS_EmptySet
    <3>3. M \in Nat /\ 0 < M
      BY <1>1
    <3> QED
      BY <3>2, <3>3
  <2> QED
    BY <1>8, <2>7, <2>8
<1> QED
  BY <1>8, <1>10, <1>11 DEF made, ownOnes, L, P, c, M, most, room

(* The ladder and the terms are built from the question.                   *)
LEMMA QueryStarts == QueryInit => QueryInv
  BY DEF QueryInit, QueryInv

LEMMA QuerySteps == QueryInv /\ [QueryNext]_queryVars => QueryInv'
<1> SUFFICES ASSUME QueryInv, [QueryNext]_queryVars
             PROVE  QueryInv'
  OBVIOUS
<1> USE DEF QueryInv
<1>1. CASE BuildLadder
  BY <1>1 DEF BuildLadder
<1>2. CASE BuildTerms
  BY <1>2 DEF BuildTerms
<1>3. CASE UNCHANGED queryVars
  BY <1>3 DEF queryVars
<1> QED
  BY <1>1, <1>2, <1>3 DEF QueryNext

(* Each rung of the ladder finds whatever the one above it finds, and more *)
(* unless it asks for any of one repeated word, and no guess takes the     *)
(* place of what was asked, for every question, list of stopwords and      *)
(* ceilings.                                                               *)
THEOREM QuestionsAreServed == QuerySpec => []QuestionServed
<1>1. QueryInv => QuestionServed
  <2> SUFFICES ASSUME QueryInv
               PROVE  LadderWidens /\ GuessNeverStarves
    BY DEF QuestionServed
  <2>1. /\ question.words \in Seq(DOMAIN WordRunes)
        /\ question.codes \in Seq(Seq(DOMAIN WordRunes \cup {Separator}))
    BY QuestionsAsked DEF QueryInv
  <2> DEFINE words == question.words
             codes == question.codes
  <2>2. words \in Seq(DOMAIN WordRunes) /\ codes \in Seq(Seq(DOMAIN WordRunes \cup {Separator}))
    BY <2>1
  <2>3. LadderWidens
    <3> SUFFICES ASSUME NEW i \in 2 .. Len(ladder)
                 PROVE  Widens(ladder[i - 1].expr, ladder[i].expr, Range(words))
      BY DEF LadderWidens, Widens, TokenSets
    <3>1. CASE asking = "asked"
      <4>1. ladder = <<>>
        BY <3>1 DEF QueryInv
      <4>2. Len(ladder) = 0
        BY <4>1
      <4> QED
        BY <4>2
    <3>2. CASE asking # "asked"
      <4>1. ladder = BuildFTSQueries(words)
        BY <3>2 DEF QueryInv
      <4> HIDE DEF words
      <4> QED
        BY <2>2, <4>1, LadderClimbs
    <3> QED
      BY <3>1, <3>2
  <2>4. GuessNeverStarves
    <3> SUFFICES ASSUME asking = "built"
                 PROVE  LET pairs == Once(LongOnes(Pairs(Content(words), 1, Glued)))
                        IN  /\ Range(FirstTerms(pairs, MaxSubstringTerms - MaxSubstringCodeTerms)) \subseteq Range(terms)
                            /\ (codes # <<>> /\ LongEnough(codes[1])) => codes[1] \in Range(terms)
                            /\ Len(terms) <= MaxSubstringTerms /\ IsInjective(terms)
      BY DEF GuessNeverStarves
    <3>1. terms = BuildSubstringTerms(words, codes)
      BY DEF QueryInv
    <3> HIDE DEF words, codes
    <3> QED
      BY <2>2, <3>1, TermsAreServed
  <2> QED
    BY <2>3, <2>4
<1> QED
  BY QueryStarts, QuerySteps, <1>1, PTL DEF QuerySpec

-----------------------------------------------------------------------------
(* The search.                                                             *)

Stored == UNION Corpora

\* The chunks of a state: finitely many, each under an id and at an address
\* of its own.
Tabled(d) ==
  /\ d \in [DOMAIN d -> Stored]
  /\ IsFiniteSet(DOMAIN d) /\ DOMAIN d \subseteq Nat \ {0}
  /\ \A x, y \in DOMAIN d : Address(d[x]) = Address(d[y]) => x = y

\* The rows a state has, and those a search may meet.
Rows(d) == {[id |-> x, chunk |-> d[x]] : x \in DOMAIN d}
AnyRow == [id : Nat \ {0}, chunk : Stored]

(* What a search is told about a chunk.                                    *)
LEMMA StoredChunk ==
  ASSUME NEW c \in Stored
  PROVE  /\ c.repo \in Nat /\ c.path \in Nat /\ c.line \in Nat
         /\ c.kind \in {"code", "test", "doc"}
         /\ \A q \in Queries : \A t \in Range(q.texts) : c.near[t] \in 0 .. 2 /\ c.words[t] \in 0 .. 3
BY CorporaAssumption DEF Stored

(* What a query is made of.                                                *)
LEMMA QueryShape ==
  ASSUME NEW q \in Queries
  PROVE  /\ q.texts \in Seq(STRING) /\ q.terms \in Seq(STRING)
         /\ K(q) \in Nat \ {0} /\ CutTo(q) \in Nat \ {0} /\ Depth(q) \in Nat \ {0}
         /\ \A i \in DOMAIN q.texts :
              q.ladder[i] \in Seq({"strict", "content", "prefix", "any"}) /\ Len(q.ladder[i]) <= 4
<1>1. {q.texts, q.terms} \subseteq Seq(STRING) /\ q.k \in Int
  BY SearchAssumption
<1>2. LaneCandidates \in Nat \ {0} /\ Pool \in Nat
  BY SearchAssumption
<1>3. K(q) \in Nat \ {0}
  BY <1>1 DEF K
<1>4. CutTo(q) \in Nat \ {0}
  BY <1>2, <1>3 DEF CutTo
<1>5. Depth(q) \in Nat \ {0}
  BY <1>2, <1>4 DEF Depth
<1>6. \A i \in DOMAIN q.texts :
        q.ladder[i] \in Seq({"strict", "content", "prefix", "any"}) /\ Len(q.ladder[i]) <= 4
  BY SearchAssumption
<1> QED
  BY <1>1, <1>3, <1>4, <1>5, <1>6

(* The beginning of a list.                                                *)
LEMMA FirstIs ==
  ASSUME NEW X, NEW s \in Seq(X), NEW n \in Nat
  PROVE  /\ First(s, n) \in Seq(X) /\ Len(First(s, n)) \in Nat
         /\ Len(First(s, n)) = (IF Len(s) < n THEN Len(s) ELSE n)
         /\ \A i \in 1 .. Len(First(s, n)) : i \in 1 .. Len(s) /\ First(s, n)[i] = s[i]
<1>0. Len(s) \in Nat /\ s \in [1 .. Len(s) -> X]
  BY LenProperties
<1> DEFINE m == IF Len(s) < n THEN Len(s) ELSE n
           f == First(s, n)
<1>1. m \in Nat /\ m <= Len(s)
  BY <1>0
<1>2. f = SubSeq(s, 1, m)
  BY DEF First
<1>3. m = (IF Len(s) < n THEN Len(s) ELSE n)
  OBVIOUS
<1> HIDE DEF m, f
<1>4. \A i \in 1 .. m : s[i] \in X
  BY <1>0, <1>1
<1>5. /\ SubSeq(s, 1, m) \in Seq(X)
      /\ Len(SubSeq(s, 1, m)) = IF 1 <= m THEN m - 1 + 1 ELSE 0
      /\ \A i \in 1 .. m - 1 + 1 : SubSeq(s, 1, m)[i] = s[1 + i - 1]
  <2>1. 1 \in Int /\ m \in Int
    BY <1>1
  <2> QED
    BY <1>4, <2>1, SubSeqProperties
<1>6. Len(f) = m
  BY <1>1, <1>2, <1>5
<1>7. \A i \in 1 .. m : f[i] = s[i]
  BY <1>1, <1>2, <1>5
<1>8. \A i \in 1 .. m : i \in 1 .. Len(s)
  BY <1>0, <1>1
<1>9. f \in Seq(X)
  BY <1>2, <1>5
<1>10. Len(f) \in Nat
  BY <1>1, <1>6
<1> QED
  BY <1>3, <1>6, <1>7, <1>8, <1>9, <1>10 DEF f

(* Addresses order what has an address of its own.                         *)
LEMMA AddressOrdered ==
  ASSUME NEW d, Tabled(d), NEW S \in SUBSET DOMAIN d
  PROVE  Orders([x \in S |-> {y \in S : AddressBelow(d[y], d[x])}], S)
<1> DEFINE B == [x \in S |-> {y \in S : AddressBelow(d[y], d[x])}]
<1>1. \A x \in S : B[x] = {y \in S : AddressBelow(d[y], d[x])}
  OBVIOUS
<1>2. B \in [S -> SUBSET S]
  OBVIOUS
<1> HIDE DEF B
<1>3. \A x \in S : d[x].repo \in Nat /\ d[x].path \in Nat /\ d[x].line \in Nat
  BY StoredChunk DEF Tabled
<1>4. \A x, y \in S : x # y =>
        d[x].repo # d[y].repo \/ d[x].path # d[y].path \/ d[x].line # d[y].line
  BY DEF Tabled, Address
<1>5. \A x \in S : x \notin B[x]
  BY <1>1, <1>3 DEF AddressBelow
<1>6. ASSUME NEW x \in S, NEW y \in S, y \in B[x]
      PROVE  B[y] \subseteq B[x]
  <2> SUFFICES ASSUME NEW z \in B[y]
               PROVE  z \in B[x]
    OBVIOUS
  <2>1. z \in S /\ AddressBelow(d[z], d[y]) /\ AddressBelow(d[y], d[x])
    BY <1>1, <1>6
  <2>2. AddressBelow(d[z], d[x])
    BY <1>3, <2>1 DEF AddressBelow
  <2> QED
    BY <1>1, <2>1, <2>2
<1>7. ASSUME NEW x \in S, NEW y \in S, x # y
      PROVE  x \in B[y] \/ y \in B[x]
  <2>1. AddressBelow(d[x], d[y]) \/ AddressBelow(d[y], d[x])
    BY <1>3, <1>4, <1>7 DEF AddressBelow
  <2> QED
    BY <1>1, <2>1
<1>8. Orders(B, S)
  BY <1>2, <1>5, <1>6, <1>7 DEF Orders
<1> QED
  BY <1>8 DEF B

(* What is ordered is listed, each id once.                                *)
LEMMA OrderedLists ==
  ASSUME NEW state, Tabled(state.db), NEW S \in SUBSET DOMAIN state.db, NEW m \in [S -> Int]
  PROVE  Enumerates(Ordered(state, m), S)
<1> DEFINE d == state.db
           B == [x \in S |-> {y \in S : AddressBelow(d[y], d[x])}]
           C == [x \in S |-> {y \in S : m[y] < m[x] \/ (m[y] = m[x] /\ y \in B[x])}]
           A == [x \in S |-> {y \in S : m[y] < m[x] \/ (m[y] = m[x] /\ AddressBelow(d[y], d[x]))}]
<1>1. IsFiniteSet(S)
  BY FS_Subset DEF Tabled
<1>2. Orders(B, S)
  BY AddressOrdered
<1>3. C = A
  <2>1. \A x \in S : C[x] = A[x]
    OBVIOUS
  <2> QED
    BY <2>1
<1>4. Orders(C, S)
  <2> HIDE DEF B
  <2> QED
    BY <1>2, MeasureOrdered
<1>5. Ordered(state, m) = InOrder(A)
  BY DEF Ordered
<1> HIDE DEF A, C
<1>6. Lists(InOrder(A), A, S)
  BY <1>1, <1>3, <1>4, InOrderLists
<1> QED
  BY <1>5, <1>6, ListsEnumerate

(* What is in the scope of a query, and in its matches.                    *)
LEMMA InTheTable ==
  ASSUME NEW state, NEW q
  PROVE  /\ Scoped(state, q) \subseteq DOMAIN state.db
         /\ \A term : Matches(state, q, term) \subseteq DOMAIN state.db
BY DEF Scoped, Matches

(* A semantic lane lists ids of the table.                                 *)
LEMMA SemanticListed ==
  ASSUME NEW state, Tabled(state.db), NEW q \in Queries, NEW t \in Range(q.texts),
         NEW ids \in SemanticLanes(state, q, t)
  PROVE  ids \in Seq(DOMAIN state.db)
<1> DEFINE dist(x) == IF state.db[x].near[t] = 0 THEN 3 ELSE state.db[x].near[t]
<1>1. PICK S \in SUBSET Scoped(state, q) :
        ids = Ordered(state, [x \in {x \in S : dist(x) < 3} |-> dist(x)])
  BY DEF SemanticLanes
<1> DEFINE close == {x \in S : dist(x) < 3}
           m == [x \in close |-> dist(x)]
<1>2. close \in SUBSET DOMAIN state.db
  BY InTheTable
<1>3. \A x \in close : dist(x) \in Int
  <2>1. \A x \in close : state.db[x] \in Stored
    BY <1>2 DEF Tabled
  <2>2. \A x \in close : state.db[x].near[t] \in 0 .. 2
    BY <2>1, StoredChunk
  <2> QED
    BY <2>2
<1>4. m \in [close -> Int]
  BY <1>3
<1>5. ids = Ordered(state, m)
  BY <1>1
<1> HIDE DEF close, m
<1>6. Enumerates(ids, close)
  BY <1>2, <1>4, <1>5, OrderedLists
<1> QED
  BY <1>2, <1>6 DEF Enumerates

(* So does a keyword lane.                                                 *)
LEMMA KeywordListed ==
  ASSUME NEW state, Tabled(state.db), NEW q \in Queries, NEW t \in Range(q.texts), NEW tier
  PROVE  KeywordLane(state, q, t, tier) \in Seq(DOMAIN state.db)
<1> DEFINE reached == {x \in Scoped(state, q) : state.db[x].words[t] >= Rung[tier]}
           m == [x \in reached |-> 0 - state.db[x].words[t]]
           n == Depth(q)
<1>1. reached \in SUBSET DOMAIN state.db
  BY InTheTable
<1>2. \A x \in reached : 0 - state.db[x].words[t] \in Int
  <2>1. \A x \in reached : state.db[x] \in Stored
    BY <1>1 DEF Tabled
  <2>2. \A x \in reached : state.db[x].words[t] \in 0 .. 3
    BY <2>1, StoredChunk
  <2> QED
    BY <2>2
<1>3. m \in [reached -> Int]
  BY <1>2
<1>4. KeywordLane(state, q, t, tier) = First(Ordered(state, m), n)
  BY DEF KeywordLane
<1>5. n \in Nat
  BY QueryShape
<1> HIDE DEF reached, m, n
<1>6. Ordered(state, m) \in Seq(DOMAIN state.db)
  <2>1. Enumerates(Ordered(state, m), reached)
    BY <1>1, <1>3, OrderedLists
  <2> QED
    BY <1>1, <2>1 DEF Enumerates
<1> QED
  BY <1>4, <1>5, <1>6, FirstIs

(* The hits of ids are rows.                                               *)
LEMMA HitsAreRows ==
  ASSUME NEW state, NEW ids \in Seq(DOMAIN state.db)
  PROVE  Hits(state, ids) \in Seq(Rows(state.db))
<1>1. Len(ids) \in Nat /\ \A i \in 1 .. Len(ids) : ids[i] \in DOMAIN state.db
  BY LenProperties, ElementOfSeq
<1>2. \A i \in 1 .. Len(ids) : [id |-> ids[i], chunk |-> state.db[ids[i]]] \in Rows(state.db)
  BY <1>1 DEF Rows
<1>3. Hits(state, ids) \in [1 .. Len(ids) -> Rows(state.db)]
  BY <1>2 DEF Hits
<1> QED
  BY <1>1, <1>3

(* A kept term is one of the query's, and some chunk has it.               *)
LEMMA KeptIs ==
  ASSUME NEW state, NEW q \in Queries
  PROVE  /\ Kept(state, q) \in Seq(STRING)
         /\ \A i \in 1 .. Len(Kept(state, q)) :
              /\ Kept(state, q)[i] \in Range(q.terms)
              /\ Matches(state, q, Kept(state, q)[i]) # {}
<1> DEFINE ts == q.terms
           P == {i \in DOMAIN q.terms :
                   Matches(state, q, q.terms[i]) # {} /\ ~Hub(state, q, q.terms[i])}
           kept == Kept(state, q)
<1>1. ts \in Seq(STRING) /\ DOMAIN ts = 1 .. Len(ts)
  BY QueryShape, LenProperties
<1>2. P \in SUBSET (1 .. Len(ts))
  BY <1>1
<1>3. \A i \in P : Matches(state, q, ts[i]) # {} /\ ts[i] \in Range(q.terms)
  BY DEF Range
<1>4. kept = Picked(ts, P)
  BY DEF Kept
<1> HIDE DEF ts, P, kept
<1>5. /\ kept \in Seq(STRING) /\ Len(kept) = Cardinality(P)
      /\ \A i \in P : PlaceIn(P, i) \in 1 .. Cardinality(P) /\ kept[PlaceIn(P, i)] = ts[i]
      /\ \A n \in 1 .. Cardinality(P) : \E i \in P : PlaceIn(P, i) = n
  BY <1>1, <1>2, <1>4, PickedIs
<1>6. ASSUME NEW n \in 1 .. Len(kept)
      PROVE  kept[n] \in Range(q.terms) /\ Matches(state, q, kept[n]) # {}
  <2>1. PICK i \in P : PlaceIn(P, i) = n
    BY <1>5
  <2>2. kept[n] = ts[i]
    BY <1>5, <2>1
  <2> QED
    BY <1>3, <2>2
<1> QED
  BY <1>5, <1>6 DEF kept

(* A kept term's matches are listed up to the depth, so one at least.      *)
LEMMA TermMatchesListed ==
  ASSUME NEW state, Tabled(state.db), NEW q \in Queries, NEW term, Matches(state, q, term) # {}
  PROVE  /\ TermMatches(state, q, term) \in Seq(Matches(state, q, term))
         /\ Len(TermMatches(state, q, term)) \in Nat \ {0}
<1> DEFINE M == Matches(state, q, term)
           m == [x \in M |-> KindRank(state.db[x])]
           n == Depth(q)
           r == Ordered(state, m)
<1>1. M \in SUBSET DOMAIN state.db
  BY InTheTable
<1>2. \A x \in M : KindRank(state.db[x]) \in Int
  <2>1. \A x \in M : state.db[x] \in Stored
    BY <1>1 DEF Tabled
  <2>2. \A x \in M : state.db[x].kind \in {"code", "test", "doc"}
    BY <2>1, StoredChunk
  <2> QED
    BY <2>2 DEF KindRank
<1>3. m \in [M -> Int]
  BY <1>2
<1>4. TermMatches(state, q, term) = First(r, n)
  BY DEF TermMatches
<1>5. n \in Nat \ {0}
  BY QueryShape
<1>6. M # {}
  OBVIOUS
<1> HIDE DEF M, m, n
<1>7. Enumerates(r, M)
  BY <1>1, <1>3, OrderedLists
<1>8. r \in Seq(M) /\ Len(r) \in Nat /\ Len(r) # 0
  <2>1. PICK x \in M : TRUE
    BY <1>6
  <2>2. \E i \in 1 .. Len(r) : r[i] = x
    BY <1>7, <2>1 DEF Enumerates
  <2>3. r \in Seq(M) /\ Len(r) \in Nat
    BY <1>7 DEF Enumerates
  <2> QED
    BY <2>2, <2>3
<1> HIDE DEF r
<1>9. First(r, n) \in Seq(M) /\ Len(First(r, n)) = (IF Len(r) < n THEN Len(r) ELSE n)
  BY <1>5, <1>8, FirstIs
<1>10. Len(First(r, n)) \in Nat \ {0}
  BY <1>5, <1>8, <1>9
<1> QED
  BY <1>4, <1>9, <1>10 DEF M

(* The rungs due are of the query's texts and of the ladder's tiers.       *)
LEMMA RungsAre ==
  ASSUME NEW q \in Queries
  PROVE  /\ Len(Rungs(q)) \in Nat /\ (Rungs(q) # <<>> => Len(Rungs(q)) # 0)
         /\ \A n \in 1 .. Len(Rungs(q)) :
              /\ Rungs(q)[n].text \in Range(q.texts)
              /\ Rungs(q)[n].tier \in {"strict", "content", "prefix", "any"}
<1> DEFINE P == {p \in (DOMAIN q.texts) \X (1 .. 4) : p[2] <= Len(q.ladder[p[1]])}
           B == [p \in P |-> {r \in P : r[1] < p[1] \/ (r[1] = p[1] /\ r[2] < p[2])}]
           at == InRows(P)
<1>1. DOMAIN q.texts = 1 .. Len(q.texts) /\ Len(q.texts) \in Nat
  BY QueryShape, LenProperties
<1>2. P \subseteq Int \X Int
  BY <1>1
<1>3. IsFiniteSet(P)
  <2>1. IsFiniteSet(DOMAIN q.texts) /\ IsFiniteSet(1 .. 4)
    <3> DEFINE L == Len(q.texts)
    <3>1. L \in Nat
      BY <1>1
    <3> HIDE DEF L
    <3>2. \A n \in Nat : IsFiniteSet(1 .. n)
      BY IntervalFinite
    <3>3. IsFiniteSet(1 .. L) /\ IsFiniteSet(1 .. 4)
      BY <3>1, <3>2
    <3> QED
      BY <1>1, <3>3 DEF L
  <2>2. IsFiniteSet((DOMAIN q.texts) \X (1 .. 4))
    BY <2>1, FS_Product
  <2> QED
    BY <2>2, FS_Subset
<1>4. Orders(B, P)
  <2> HIDE DEF P
  <2> QED
    BY <1>2, RowsOrdered
<1>5. at = InOrder(B)
  BY DEF InRows
<1>6. Lists(at, B, P)
  <2> HIDE DEF P, B, at
  <2> QED
    BY <1>3, <1>4, <1>5, InOrderLists
<1>7. Len(at) \in Nat /\ \A n \in 1 .. Len(at) : at[n] \in P
  <2> HIDE DEF P, B, at
  <2> QED
    BY <1>6, ElementOfSeq DEF Lists
<1>8. Rungs(q) = [n \in 1 .. Len(at) |-> [text |-> q.texts[at[n][1]], tier |-> q.ladder[at[n][1]][at[n][2]]]]
  BY DEF Rungs
<1> HIDE DEF at, B
<1>9. Len(Rungs(q)) = Len(at) /\ (Rungs(q) # <<>> => Len(Rungs(q)) # 0)
  BY <1>7, <1>8
<1>10. ASSUME NEW n \in 1 .. Len(at)
       PROVE  /\ Rungs(q)[n].text \in Range(q.texts)
              /\ Rungs(q)[n].tier \in {"strict", "content", "prefix", "any"}
  <2> DEFINE i == at[n][1]
             j == at[n][2]
  <2>1. i \in DOMAIN q.texts /\ j \in 1 .. 4 /\ j <= Len(q.ladder[i])
    BY <1>7
  <2>2. Rungs(q)[n].text = q.texts[i] /\ Rungs(q)[n].tier = q.ladder[i][j]
    BY <1>8
  <2> HIDE DEF i, j
  <2>3. q.ladder[i] \in Seq({"strict", "content", "prefix", "any"})
    BY <2>1, QueryShape
  <2>4. j \in 1 .. Len(q.ladder[i])
    BY <2>1, <2>3, LenProperties
  <2>5. q.ladder[i][j] \in {"strict", "content", "prefix", "any"}
    BY <2>3, <2>4, ElementOfSeq
  <2>6. q.texts[i] \in Range(q.texts)
    BY <2>1 DEF Range
  <2> QED
    BY <2>2, <2>5, <2>6
<1> QED
  BY <1>7, <1>9, <1>10

(* No keyword lane weighs what the substring lane weighs.                  *)
LEMMA WeightsApart ==
  ASSUME NEW q, NEW t, NEW tier \in {"strict", "content", "prefix", "any"}
  PROVE  Weight(q, t, tier) \in Nat /\ Weight(q, t, tier) # WeightSubstring
BY DEF Weight, WeightSubstring

\* The places of the round robin, and the order they are visited in.
Places(ids, n) == {p \in (1 .. n) \X (1 .. Len(ids)) : p[1] <= Len(ids[p[2]])}
RowOrder(P) == [p \in P |-> {r \in P : r[1] < p[1] \/ (r[1] = p[1] /\ r[2] < p[2])}]
FirstPlaces(ids, n) ==
  {p \in Places(ids, n) : \A r \in Places(ids, n) :
     (r[1] < p[1] \/ (r[1] = p[1] /\ r[2] < p[2])) => ids[r[2]][r[1]] # ids[p[2]][p[1]]}

(* The round robin visits each first place once.                           *)
LEMMA RoundRobinVisits ==
  ASSUME NEW X, NEW ids \in Seq(Seq(X)), NEW n \in Nat
  PROVE  LET F == FirstPlaces(ids, n)
             at == InRows(F)
         IN  /\ F \subseteq Places(ids, n)
             /\ Lists(at, RowOrder(F), F)
             /\ RoundRobin(ids, n) = First([i \in 1 .. Len(at) |-> ids[at[i][2]][at[i][1]]], n)
             /\ [i \in 1 .. Len(at) |-> ids[at[i][2]][at[i][1]]] \in Seq(X)
<1> DEFINE F == FirstPlaces(ids, n)
           at == InRows(F)
           L == Len(ids)
<1>0. L \in Nat /\ \A t \in 1 .. L : ids[t] \in Seq(X)
  BY LenProperties, ElementOfSeq
<1>1. F \subseteq Places(ids, n) /\ Places(ids, n) \subseteq (1 .. n) \X (1 .. L)
  BY DEF FirstPlaces, Places
<1>2. IsFiniteSet((1 .. n) \X (1 .. L))
  <2> DEFINE I == 1 .. n
             J == 1 .. L
  <2> HIDE DEF L
  <2>1. IsFiniteSet(I)
    BY IntervalFinite
  <2>2. IsFiniteSet(J)
    BY <1>0, IntervalFinite
  <2> HIDE DEF I, J
  <2>3. IsFiniteSet(I \X J)
    BY <2>1, <2>2, FS_Product
  <2> QED
    BY <2>3 DEF I, J
<1>3. IsFiniteSet(F)
  <2>1. F \in SUBSET ((1 .. n) \X (1 .. L))
    BY <1>1
  <2> HIDE DEF F, L
  <2> QED
    BY <1>2, <2>1, FS_Subset
<1>4. F \subseteq Int \X Int
  BY <1>0, <1>1
<1>5. RoundRobin(ids, n) = First([i \in 1 .. Len(at) |-> ids[at[i][2]][at[i][1]]], n)
  BY DEF RoundRobin, FirstPlaces, Places
<1>6. at = InOrder(RowOrder(F))
  BY DEF InRows, RowOrder
<1> HIDE DEF F, at
<1>7. Orders(RowOrder(F), F)
  BY <1>4, RowsOrdered DEF RowOrder
<1>8. Lists(at, RowOrder(F), F)
  BY <1>3, <1>6, <1>7, InOrderLists
<1>9. [i \in 1 .. Len(at) |-> ids[at[i][2]][at[i][1]]] \in Seq(X)
  <2>1. Len(at) \in Nat /\ \A i \in 1 .. Len(at) : at[i] \in F
    BY <1>8, ElementOfSeq DEF Lists
  <2>2. ASSUME NEW i \in 1 .. Len(at)
        PROVE  ids[at[i][2]][at[i][1]] \in X
    <3> DEFINE d == at[i][1]
               t == at[i][2]
    <3>1. at[i] \in Places(ids, n)
      BY <1>1, <2>1
    <3>2. d \in 1 .. n /\ t \in 1 .. L /\ d <= Len(ids[t])
      BY <3>1 DEF Places
    <3> HIDE DEF d, t
    <3>3. ids[t] \in Seq(X) /\ Len(ids[t]) \in Nat
      BY <1>0, <3>2, LenProperties
    <3>4. d \in 1 .. Len(ids[t])
      BY <3>2, <3>3
    <3>5. ids[t][d] \in X
      BY <3>3, <3>4, ElementOfSeq
    <3> QED
      BY <3>5 DEF d, t
  <2>3. [i \in 1 .. Len(at) |-> ids[at[i][2]][at[i][1]]] \in [1 .. Len(at) -> X]
    BY <2>2
  <2> QED
    BY <2>1, <2>3
<1> QED
  BY <1>1, <1>5, <1>8, <1>9 DEF F, at

(* It visits places of the lists only.                                     *)
LEMMA RoundRobinStays ==
  ASSUME NEW X, NEW ids \in Seq(Seq(X)), NEW n \in Nat
  PROVE  /\ RoundRobin(ids, n) \in Seq(X) /\ Len(RoundRobin(ids, n)) \in Nat
         /\ \A m \in 1 .. Len(RoundRobin(ids, n)) :
              \E t \in 1 .. Len(ids) : \E d \in 1 .. Len(ids[t]) : RoundRobin(ids, n)[m] = ids[t][d]
<1> DEFINE F == FirstPlaces(ids, n)
           at == InRows(F)
           s == [i \in 1 .. Len(at) |-> ids[at[i][2]][at[i][1]]]
           r == RoundRobin(ids, n)
<1>1. /\ F \subseteq Places(ids, n)
      /\ Lists(at, RowOrder(F), F)
      /\ r = First(s, n) /\ s \in Seq(X)
  BY RoundRobinVisits
<1>2. \A i \in 1 .. Len(at) : s[i] = ids[at[i][2]][at[i][1]]
  OBVIOUS
<1>3. Len(at) \in Nat /\ \A i \in 1 .. Len(at) : at[i] \in Places(ids, n)
  <2> HIDE DEF F, at, s, r
  <2> QED
    BY <1>1, ElementOfSeq DEF Lists
<1>4. Len(s) = Len(at)
  BY <1>3
<1> HIDE DEF F, at, s, r
<1>5. /\ r \in Seq(X) /\ Len(r) \in Nat
      /\ \A i \in 1 .. Len(r) : i \in 1 .. Len(s) /\ r[i] = s[i]
  BY <1>1, FirstIs
<1>6. ASSUME NEW m \in 1 .. Len(r)
      PROVE  \E t \in 1 .. Len(ids) : \E d \in 1 .. Len(ids[t]) : r[m] = ids[t][d]
  <2>1. m \in 1 .. Len(at) /\ r[m] = s[m]
    BY <1>4, <1>5
  <2> DEFINE d == at[m][1]
             t == at[m][2]
  <2>2. r[m] = ids[t][d]
    BY <1>2, <2>1
  <2>3. at[m] \in Places(ids, n)
    BY <1>3, <2>1
  <2>4. d \in 1 .. n /\ t \in 1 .. Len(ids) /\ d <= Len(ids[t])
    BY <2>3 DEF Places
  <2> HIDE DEF d, t
  <2>5. ids[t] \in Seq(X) /\ Len(ids[t]) \in Nat
    BY <2>4, ElementOfSeq, LenProperties
  <2>6. d \in 1 .. Len(ids[t])
    BY <2>4, <2>5
  <2> QED
    BY <2>2, <2>4, <2>6
<1> QED
  BY <1>5, <1>6 DEF r

(* With a place per list, the first of every list is among those visited.  *)
LEMMA RoundRobinServes ==
  ASSUME NEW X, NEW ids \in Seq(Seq(X)), NEW n \in Nat, Len(ids) <= n,
         \A t \in 1 .. Len(ids) : Len(ids[t]) \in Nat \ {0}
  PROVE  \A t \in 1 .. Len(ids) : \E m \in 1 .. Len(RoundRobin(ids, n)) :
           RoundRobin(ids, n)[m] = ids[t][1]
<1> SUFFICES ASSUME NEW t \in 1 .. Len(ids)
             PROVE  \E m \in 1 .. Len(RoundRobin(ids, n)) : RoundRobin(ids, n)[m] = ids[t][1]
  OBVIOUS
<1> DEFINE F == FirstPlaces(ids, n)
           at == InRows(F)
           s == [i \in 1 .. Len(at) |-> ids[at[i][2]][at[i][1]]]
           r == RoundRobin(ids, n)
           T == {u \in 1 .. Len(ids) : ids[u][1] = ids[t][1]}
           u == Min(T)
           p == <<1, u>>
           B == RowOrder(F)
<1>0. Len(ids) \in Nat
  BY LenProperties
<1>1. /\ F \subseteq Places(ids, n)
      /\ Lists(at, B, F)
      /\ r = First(s, n) /\ s \in Seq(X)
  BY RoundRobinVisits
<1>2. u \in T /\ \A w \in T : u <= w
  <2>1. T \subseteq 1 .. Len(ids) /\ t \in T
    OBVIOUS
  <2> HIDE DEF T
  <2>2. T \subseteq Nat /\ T # {}
    BY <1>0, <2>1
  <2> QED
    BY <2>2, LeastOf
<1>3. u \in 1 .. Len(ids) /\ ids[u][1] = ids[t][1]
  BY <1>2
<1>4. \A w \in 1 .. Len(ids) : ids[w][1] = ids[t][1] => u <= w
  BY <1>2
<1> HIDE DEF T, u
<1>5. p \in Places(ids, n)
  <2>1. 1 \in 1 .. n /\ 1 <= Len(ids[u])
    BY <1>0, <1>3
  <2> QED
    BY <1>3, <2>1 DEF Places
<1>6. p[1] = 1 /\ p[2] = u
  OBVIOUS
<1>7. p \in F
  <2>1. ASSUME NEW v \in Places(ids, n), v[1] < p[1] \/ (v[1] = p[1] /\ v[2] < p[2])
        PROVE  ids[v[2]][v[1]] # ids[p[2]][p[1]]
    <3>1. v[1] \in 1 .. n /\ v[2] \in 1 .. Len(ids)
      BY DEF Places
    <3>2. v[1] = 1 /\ v[2] < u
      BY <1>6, <2>1, <3>1
    <3>3. ~(u <= v[2])
      BY <1>0, <1>3, <3>1, <3>2
    <3> QED
      BY <1>3, <1>4, <1>6, <3>1, <3>2, <3>3
  <2> QED
    BY <1>5, <2>1 DEF FirstPlaces
<1>8. \A v \in B[p] : v \in F /\ v[1] = 1 /\ v[2] \in 1 .. u - 1
  <2> SUFFICES ASSUME NEW v \in B[p]
               PROVE  v \in F /\ v[1] = 1 /\ v[2] \in 1 .. u - 1
    OBVIOUS
  <2>1. v \in F /\ (v[1] < p[1] \/ (v[1] = p[1] /\ v[2] < p[2]))
    BY <1>7 DEF RowOrder
  <2>2. v[1] \in 1 .. n /\ v[2] \in 1 .. Len(ids)
    BY <1>1, <2>1 DEF Places
  <2> QED
    BY <1>3, <1>6, <2>1, <2>2
<1>9. Cardinality(B[p]) + 1 \in 1 .. Len(at) /\ at[Cardinality(B[p]) + 1] = p
  BY <1>1, <1>7 DEF Lists
<1>10. Cardinality(B[p]) <= u - 1 /\ IsFiniteSet(B[p])
  <2> DEFINE C == B[p]
             h == [v \in C |-> v[2]]
             k == u - 1
  <2>1. k \in Nat
    BY <1>3
  <2>2. h \in [C -> 1 .. k]
    BY <1>8
  <2>3. \A v, w \in C : h[v] = h[w] => v = w
    <3>1. \A v \in C : v = <<v[1], v[2]>>
      BY <1>1, <1>8 DEF Places
    <3> QED
      BY <1>8, <3>1
  <2> HIDE DEF C, h, k
  <2>4. h \in Injection(C, 1 .. k)
    BY <2>2, <2>3, Fun_IsInj
  <2>5. IsFiniteSet(1 .. k) /\ Cardinality(1 .. k) = k
    BY <2>1, FS_Interval
  <2>6. Cardinality(C) <= Cardinality(1 .. k) /\ IsFiniteSet(C)
    BY <2>4, <2>5, FS_Injection
  <2> QED
    BY <2>5, <2>6 DEF C, k
<1> DEFINE m == Cardinality(B[p]) + 1
<1>11. m \in 1 .. Len(at) /\ m <= n /\ m \in Nat /\ at[m] = p
  <2>1. Len(at) \in Nat
    BY <1>1 DEF Lists
  <2>2. u \in Nat /\ u <= n
    BY <1>0, <1>3
  <2> DEFINE c == Cardinality(B[p])
  <2>3. c + 1 \in 1 .. Len(at) /\ c <= u - 1 /\ at[c + 1] = p /\ m = c + 1
    BY <1>9, <1>10
  <2>4. IsFiniteSet(B[p]) => c \in Nat
    BY FS_CardinalityType
  <2>5. IsFiniteSet(B[p])
    BY <1>10
  <2> HIDE DEF c, m, B, at
  <2> QED
    BY <2>1, <2>2, <2>3, <2>4, <2>5
<1>12. s[m] = ids[t][1]
  <2>1. s[m] = ids[at[m][2]][at[m][1]]
    BY <1>11
  <2> QED
    BY <1>3, <1>6, <1>11, <2>1
<1>13. Len(s) = Len(at) /\ Len(at) \in Nat
  BY <1>1 DEF Lists
<1> HIDE DEF s, at, F, B, m, r
<1>14. /\ Len(r) = (IF Len(s) < n THEN Len(s) ELSE n)
       /\ \A i \in 1 .. Len(r) : r[i] = s[i]
  <2>1. r = First(s, n) /\ s \in Seq(X) /\ n \in Nat
    BY <1>1
  <2>2. /\ Len(First(s, n)) = (IF Len(s) < n THEN Len(s) ELSE n)
        /\ \A i \in 1 .. Len(First(s, n)) : First(s, n)[i] = s[i]
    BY ONLY <2>1, FirstIs
  <2> QED
    BY <2>1, <2>2
<1>15. m \in 1 .. Len(r)
  BY <1>11, <1>13, <1>14
<1> QED
  BY <1>12, <1>14, <1>15 DEF r

\* A lane as the search may have it, the rows of some lanes, and rows of
\* which no two are under one id.
AnyLane == [weight : Nat, hits : Seq(AnyRow)]
HitsOf(ls) == UNION {Range(ls[i].hits) : i \in DOMAIN ls}
OneRow(H) == \A a, b \in H : a.id = b.id => a = b

(* The rows of lanes are rows.                                             *)
LEMMA HitsTyped ==
  ASSUME NEW ls \in Seq(AnyLane)
  PROVE  HitsOf(ls) \subseteq AnyRow
<1> SUFFICES ASSUME NEW i \in DOMAIN ls, NEW h \in Range(ls[i].hits)
             PROVE  h \in AnyRow
  BY DEF HitsOf
<1>1. ls[i] \in AnyLane
  BY LenProperties, ElementOfSeq
<1>2. ls[i].hits \in Seq(AnyRow)
  BY <1>1 DEF AnyLane
<1>3. PICK j \in DOMAIN ls[i].hits : h = ls[i].hits[j]
  BY DEF Range
<1> QED
  BY <1>2, <1>3, LenProperties, ElementOfSeq

(* lessByAddress orders rows of which no two are under one id.             *)
LEMMA HitsOrdered ==
  ASSUME NEW H, H \subseteq AnyRow, OneRow(H)
  PROVE  Orders([b \in H |-> {a \in H : HitBelow(a, b)}], H)
<1> DEFINE B == [b \in H |-> {a \in H : HitBelow(a, b)}]
<1>1. \A b \in H : B[b] = {a \in H : HitBelow(a, b)}
  OBVIOUS
<1>2. B \in [H -> SUBSET H]
  OBVIOUS
<1> HIDE DEF B
<1>3. \A a \in H : /\ a.id \in Nat /\ a.chunk.repo \in Nat
                   /\ a.chunk.path \in Nat /\ a.chunk.line \in Nat
  <2>1. \A a \in H : a.id \in Nat /\ a.chunk \in Stored
    BY DEF AnyRow
  <2> QED
    BY <2>1, StoredChunk
<1>4. \A a, b \in H : HitBelow(a, b) <=>
        \/ a.chunk.repo < b.chunk.repo
        \/ a.chunk.repo = b.chunk.repo /\ a.chunk.path < b.chunk.path
        \/ a.chunk.repo = b.chunk.repo /\ a.chunk.path = b.chunk.path /\ a.chunk.line < b.chunk.line
        \/ /\ a.chunk.repo = b.chunk.repo /\ a.chunk.path = b.chunk.path /\ a.chunk.line = b.chunk.line
           /\ a.id < b.id
  BY DEF HitBelow, AddressBelow, Address
<1>5. \A a \in H : a \notin B[a]
  BY <1>1, <1>3, <1>4
<1>6. ASSUME NEW x \in H, NEW y \in H, y \in B[x]
      PROVE  B[y] \subseteq B[x]
  <2> SUFFICES ASSUME NEW z \in B[y]
               PROVE  z \in B[x]
    OBVIOUS
  <2>1. z \in H /\ HitBelow(z, y) /\ HitBelow(y, x)
    BY <1>1, <1>6
  <2>2. HitBelow(z, x)
    BY <1>3, <1>4, <2>1
  <2> QED
    BY <1>1, <2>1, <2>2
<1>7. ASSUME NEW x \in H, NEW y \in H, x # y
      PROVE  x \in B[y] \/ y \in B[x]
  <2>1. x.id # y.id
    BY <1>7 DEF OneRow
  <2>2. HitBelow(x, y) \/ HitBelow(y, x)
    BY <1>3, <1>4, <2>1
  <2> QED
    BY <1>1, <2>2
<1>8. Orders(B, H)
  BY <1>2, <1>5, <1>6, <1>7 DEF Orders
<1> QED
  BY <1>8 DEF B

(* Rows of which no two are under one id are as many as ids.               *)
LEMMA HitsFinite ==
  ASSUME NEW H, H \subseteq AnyRow, OneRow(H), NEW m \in Nat, \A h \in H : h.id <= m
  PROVE  IsFiniteSet(H)
<1> DEFINE f == [h \in H |-> h.id]
<1>1. f \in [H -> 1 .. m]
  BY DEF AnyRow
<1>2. \A a, b \in H : f[a] = f[b] => a = b
  BY DEF OneRow
<1> HIDE DEF f
<1>3. f \in Injection(H, 1 .. m)
  BY <1>1, <1>2, Fun_IsInj
<1>4. IsFiniteSet(1 .. m)
  BY IntervalFinite
<1> QED
  BY <1>3, <1>4, FS_Injection

(* What a lane adds to a score is a number, and so is the score.           *)
LEMMA ShareIs ==
  ASSUME NEW id, NEW lane \in AnyLane
  PROVE  Share(id, lane) \in Nat
<1>1. lane.weight \in Nat /\ lane.hits \in Seq(AnyRow)
  BY DEF AnyLane
<1>2. DOMAIN lane.hits = 1 .. Len(lane.hits) /\ Len(lane.hits) \in Nat
  BY <1>1, LenProperties
<1> DEFINE at == CHOOSE r \in DOMAIN lane.hits : lane.hits[r].id = id
<1>3. CASE lane.weight > 0 /\ \E r \in DOMAIN lane.hits : lane.hits[r].id = id
  <2>1. at \in DOMAIN lane.hits
    BY <1>3
  <2>2. Share(id, lane) = lane.weight * Reciprocal(at - 1)
    BY <1>3 DEF Share
  <2> HIDE DEF at
  <2>3. at - 1 \in Nat
    BY <1>2, <2>1
  <2>4. \A rank \in Nat : Reciprocal(rank) \in Nat
    BY DEF Reciprocal
  <2>5. \A x, y \in Nat : x * y \in Nat
    OBVIOUS
  <2> QED
    BY <1>1, <2>2, <2>3, <2>4, <2>5
<1>4. CASE ~(lane.weight > 0 /\ \E r \in DOMAIN lane.hits : lane.hits[r].id = id)
  BY <1>4 DEF Share
<1> QED
  BY <1>3, <1>4

(* The score of an id is a sum over the lanes.                             *)
LEMMA LaneSumOf ==
  ASSUME NEW id, NEW ls \in Seq(AnyLane)
  PROVE  /\ LaneSum(id, ls) = SumOf([i \in DOMAIN ls |-> Share(id, ls[i])], DOMAIN ls)
         /\ IsFiniteSet(DOMAIN ls)
         /\ \A i \in DOMAIN ls : ls[i] \in AnyLane /\ Share(id, ls[i]) \in Nat
<1> DEFINE S == DOMAIN ls
           w == [i \in S |-> Share(id, ls[i])]
<1>1. \A s \in SUBSET S : s # {} => w[Pick(s)] = Share(id, ls[Pick(s)])
  BY PickOf
<1>2. \A g : Sums(g, SUBSET S, w) <=>
        g = [s \in SUBSET S |-> IF s = {} THEN 0 ELSE Share(id, ls[Pick(s)]) + g[s \ {Pick(s)}]]
  BY <1>1 DEF Sums
<1>3. (CHOOSE g : Sums(g, SUBSET S, w)) =
      CHOOSE g : g = [s \in SUBSET S |-> IF s = {} THEN 0 ELSE Share(id, ls[Pick(s)]) + g[s \ {Pick(s)}]]
  BY <1>2
<1>4. LaneSum(id, ls) = SumOf(w, S)
  BY <1>3 DEF LaneSum, MapThenSumSet, MapThenFoldSet, SumOf, Pick
<1>5. S = 1 .. Len(ls) /\ Len(ls) \in Nat
  BY LenProperties
<1>6. IsFiniteSet(S)
  BY ONLY <1>5, PlacesFinite
<1>7. \A i \in S : ls[i] \in AnyLane /\ Share(id, ls[i]) \in Nat
  <2>1. \A i \in S : ls[i] \in AnyLane
    BY <1>5, ElementOfSeq
  <2> QED
    BY <2>1, ShareIs
<1> QED
  BY <1>4, <1>6, <1>7

LEMMA LaneSumIs ==
  ASSUME NEW id, NEW ls \in Seq(AnyLane)
  PROVE  LaneSum(id, ls) \in Nat
<1> DEFINE S == DOMAIN ls
           w == [i \in S |-> Share(id, ls[i])]
<1>1. /\ LaneSum(id, ls) = SumOf(w, S) /\ IsFiniteSet(S)
      /\ \A i \in S : w[i] \in Nat
  BY LaneSumOf
<1> HIDE DEF S, w
<1>2. SumOf(w, S) \in Nat
  BY <1>1, SumTyped
<1> QED
  BY <1>1, <1>2

\* What the fusion of lanes ranks, by which score, and before what.
FusedRows(ls) == UNION {Range(ls[i].hits) : i \in {i \in DOMAIN ls : ls[i].weight > 0}}
Score(ls, h) == LaneSum(h.id, ls) * Decay(h.chunk)
FusedOrder(ls) ==
  [b \in FusedRows(ls) |->
     {a \in FusedRows(ls) : \/ Score(ls, a) > Score(ls, b)
                            \/ Score(ls, a) = Score(ls, b) /\ HitBelow(a, b)}]

(* The fusion lists its rows in that order.                                *)
LEMMA FuseIs ==
  ASSUME NEW ls \in Seq(AnyLane), OneRow(HitsOf(ls)), IsFiniteSet(HitsOf(ls)), NEW k \in Nat
  PROVE  /\ FusedRows(ls) \subseteq HitsOf(ls) /\ HitsOf(ls) \subseteq AnyRow
         /\ IsFiniteSet(FusedRows(ls)) /\ Orders(FusedOrder(ls), FusedRows(ls))
         /\ Fuse(ls, k) = First(InOrder(FusedOrder(ls)), k)
<1> DEFINE H == FusedRows(ls)
           A == FusedOrder(ls)
           low == [h \in H |-> 0 - Score(ls, h)]
           B == [b \in H |-> {a \in H : HitBelow(a, b)}]
           C == [x \in H |-> {y \in H : low[y] < low[x] \/ (low[y] = low[x] /\ y \in B[x])}]
<1>1. H \subseteq HitsOf(ls)
  BY DEF HitsOf, FusedRows
<1>2. HitsOf(ls) \subseteq AnyRow
  BY HitsTyped
<1>3. Fuse(ls, k) = First(InOrder(A), k)
  <2> DEFINE score == [h \in H |-> LaneSum(h.id, ls) * Decay(h.chunk)]
             D == [b \in H |-> {a \in H : \/ score[a] > score[b]
                                          \/ score[a] = score[b] /\ HitBelow(a, b)}]
  <2>1. Fuse(ls, k) = First(InOrder(D), k)
    BY DEF Fuse, FusedRows
  <2>2. \A h \in H : score[h] = Score(ls, h)
    BY DEF Score
  <2>3. D = A
    <3> HIDE DEF H, score
    <3>1. \A b \in H : D[b] = {a \in H : \/ Score(ls, a) > Score(ls, b)
                                         \/ Score(ls, a) = Score(ls, b) /\ HitBelow(a, b)}
      BY <2>2
    <3>2. A = [b \in H |-> {a \in H : \/ Score(ls, a) > Score(ls, b)
                                      \/ Score(ls, a) = Score(ls, b) /\ HitBelow(a, b)}]
      BY DEF FusedOrder, H
    <3>3. DOMAIN D = H
      OBVIOUS
    <3> QED
      BY <3>1, <3>2, <3>3
  <2> QED
    BY <2>1, <2>3
<1> HIDE DEF H
<1>4. H \subseteq AnyRow /\ OneRow(H) /\ IsFiniteSet(H)
  BY <1>1, <1>2, FS_Subset DEF OneRow
<1>5. Orders(B, H)
  BY <1>4, HitsOrdered
<1>6. \A h \in H : Score(ls, h) \in Int
  <2>1. \A h \in H : LaneSum(h.id, ls) \in Nat
    BY LaneSumIs
  <2>2. \A c : Decay(c) \in Nat
    BY DEF Decay
  <2>3. \A x, y \in Nat : x * y \in Int
    OBVIOUS
  <2> QED
    BY <2>1, <2>2, <2>3 DEF Score
<1>7. \A a, b \in H : B[b] = {z \in H : HitBelow(z, b)}
  OBVIOUS
<1>8. low \in [H -> Int] /\ \A h \in H : low[h] = 0 - Score(ls, h)
  BY <1>6
<1> HIDE DEF low
<1>9. Orders(C, H)
  <2> HIDE DEF B
  <2> QED
    BY <1>5, <1>8, MeasureOrdered
<1>10. \A a, b \in H : /\ low[a] < low[b] <=> Score(ls, a) > Score(ls, b)
                       /\ low[a] = low[b] <=> Score(ls, a) = Score(ls, b)
  BY <1>6, <1>8
<1>11. C = A
  <2>1. ASSUME NEW x \in H
        PROVE  C[x] = {y \in H : \/ Score(ls, y) > Score(ls, x)
                                 \/ Score(ls, y) = Score(ls, x) /\ HitBelow(y, x)}
    <3>1. C[x] = {y \in H : low[y] < low[x] \/ (low[y] = low[x] /\ y \in B[x])}
      OBVIOUS
    <3>2. B[x] = {z \in H : HitBelow(z, x)}
      BY <1>7
    <3> HIDE DEF A, B, C
    <3> QED
      BY <1>10, <3>1, <3>2
  <2>2. A = [x \in H |-> {y \in H : \/ Score(ls, y) > Score(ls, x)
                                    \/ Score(ls, y) = Score(ls, x) /\ HitBelow(y, x)}]
    BY DEF FusedOrder, H
  <2>3. C = [x \in H |-> C[x]]
    OBVIOUS
  <2> HIDE DEF A, B, C
  <2> QED
    BY <2>1, <2>2, <2>3
<1>12. Orders(A, H)
  BY <1>9, <1>11
<1> QED
  BY <1>1, <1>2, <1>3, <1>4, <1>12 DEF H

(* The fused list holds no row twice.                                      *)
LEMMA FusedOnce ==
  ASSUME NEW ls \in Seq(AnyLane), OneRow(HitsOf(ls)),
         NEW m \in Nat, \A h \in HitsOf(ls) : h.id <= m, NEW k \in Nat
  PROVE  /\ Fuse(ls, k) \in Seq(AnyRow) /\ Len(Fuse(ls, k)) \in Nat
         /\ \A i, j \in 1 .. Len(Fuse(ls, k)) : Fuse(ls, k)[i] = Fuse(ls, k)[j] => i = j
<1> DEFINE H == FusedRows(ls)
           A == FusedOrder(ls)
           r == InOrder(A)
           f == Fuse(ls, k)
<1>1. HitsOf(ls) \subseteq AnyRow
  BY HitsTyped
<1>2. IsFiniteSet(HitsOf(ls))
  BY <1>1, HitsFinite
<1>3. /\ H \subseteq AnyRow /\ IsFiniteSet(H) /\ Orders(A, H)
      /\ f = First(r, k)
  BY <1>1, <1>2, FuseIs
<1> HIDE DEF H, A, f
<1>4. Enumerates(r, H)
  BY <1>3, InOrderLists, ListsEnumerate
<1> HIDE DEF r
<1>5. r \in Seq(AnyRow) /\ \A i, j \in 1 .. Len(r) : r[i] = r[j] => i = j
  BY <1>3, <1>4 DEF Enumerates
<1>6. /\ f \in Seq(AnyRow) /\ Len(f) \in Nat
      /\ \A i \in 1 .. Len(f) : i \in 1 .. Len(r) /\ f[i] = r[i]
  BY <1>3, <1>5, FirstIs
<1>7. \A i, j \in 1 .. Len(f) : f[i] = f[j] => i = j
  BY <1>5, <1>6
<1> QED
  BY <1>6, <1>7 DEF f

\* Some pick names the place n.
Named(picks, n) == \E j \in DOMAIN picks : picks[j] = n

\* g of the places of s are named and come first, the others behind them in
\* order, and f is as much of that as fits k.
Reranked(f, s, picks, k, at, g) ==
  /\ g \in 0 .. Len(s)
  /\ at \in [1 .. Len(s) -> 1 .. Len(s)]
  /\ \A i, j \in 1 .. Len(s) : at[i] = at[j] => i = j
  /\ \A n \in 1 .. Len(s) : \E i \in 1 .. Len(s) : at[i] = n
  /\ \A i \in 1 .. Len(s) : i <= g <=> Named(picks, at[i])
  /\ \A i, j \in 1 .. Len(s) : g < i /\ i < j => at[i] < at[j]
  /\ Len(f) = (IF Len(s) < k THEN Len(s) ELSE k)
  /\ DOMAIN f = 1 .. Len(f)
  /\ \A i \in 1 .. Len(f) : f[i] = s[at[i]]

(* The good picks name each named place once.                              *)
LEMMA GoodPicks ==
  ASSUME NEW L \in Nat, NEW picks \in Seq(Int)
  PROVE  LET good == {i \in DOMAIN picks : /\ picks[i] \in 1 .. L
                                           /\ \A j \in 1 .. i - 1 : picks[j] # picks[i]}
         IN  /\ good \in SUBSET (1 .. Len(picks))
             /\ \A i, j \in good : picks[i] = picks[j] => i = j
             /\ \A n \in 1 .. L : Named(picks, n) <=> \E i \in good : picks[i] = n
<1> DEFINE good == {i \in DOMAIN picks : /\ picks[i] \in 1 .. L
                                         /\ \A j \in 1 .. i - 1 : picks[j] # picks[i]}
<1>1. DOMAIN picks = 1 .. Len(picks) /\ Len(picks) \in Nat
  BY LenProperties
<1>2. good \in SUBSET (1 .. Len(picks))
  BY <1>1
<1>3. ASSUME NEW i \in good, NEW j \in good, picks[i] = picks[j]
      PROVE  i = j
  <2>1. i \in 1 .. Len(picks) /\ j \in 1 .. Len(picks)
    BY <1>2
  <2>2. ~(i < j)
    BY <1>1, <1>3, <2>1
  <2>3. ~(j < i)
    BY <1>1, <1>3, <2>1
  <2> QED
    BY <1>1, <2>1, <2>2, <2>3
<1>4. ASSUME NEW n \in 1 .. L, Named(picks, n)
      PROVE  \E i \in good : picks[i] = n
  <2> DEFINE T == {j \in DOMAIN picks : picks[j] = n}
             i == Min(T)
  <2>1. T \subseteq Nat /\ T # {}
    BY <1>1, <1>4 DEF Named
  <2>2. i \in T /\ \A j \in T : i <= j
    <3> HIDE DEF T
    <3> QED
      BY <2>1, LeastOf
  <2> HIDE DEF i
  <2>3. i \in 1 .. Len(picks) /\ picks[i] = n
    BY <1>1, <2>2
  <2>4. \A j \in 1 .. i - 1 : j \in DOMAIN picks /\ ~(i <= j)
    BY <1>1, <2>3
  <2>5. \A j \in 1 .. i - 1 : picks[j] # n
    BY <2>2, <2>4
  <2>6. i \in good
    BY <1>1, <2>3, <2>5
  <2> QED
    BY <2>3, <2>6
<1>5. \A n \in 1 .. L : (\E i \in good : picks[i] = n) => Named(picks, n)
  BY DEF Named
<1> QED
  BY <1>2, <1>3, <1>4, <1>5

(* Reranking puts the named places first and keeps the rest in order.      *)
LEMMA RerankIs ==
  ASSUME NEW X, NEW s \in Seq(X), NEW picks \in Seq(Int), NEW k \in Nat
  PROVE  \E at, g : Reranked(Rerank(s, picks, k), s, picks, k, at, g)
<1> DEFINE L == Len(s)
           good == {i \in DOMAIN picks : /\ picks[i] \in 1 .. L
                                         /\ \A j \in 1 .. i - 1 : picks[j] # picks[i]}
           rest == {n \in 1 .. L : \A i \in good : picks[i] # n}
           a == Cardinality(good)
           b == Cardinality(rest)
           head == Picked(picks, good)
           tail == Picked(s, rest)
           front == [i \in 1 .. Len(head) |-> s[head[i]]]
           f == Rerank(s, picks, k)
<1>1. L \in Nat /\ DOMAIN s = 1 .. L /\ s \in [1 .. L -> X]
  BY LenProperties
<1>2. /\ good \in SUBSET (1 .. Len(picks))
      /\ \A i, j \in good : picks[i] = picks[j] => i = j
      /\ \A n \in 1 .. L : Named(picks, n) <=> \E i \in good : picks[i] = n
  <2> DEFINE l == L
  <2>1. l \in Nat
    BY <1>1
  <2>2. l = L
    OBVIOUS
  <2> HIDE DEF l
  <2>3. LET gd == {i \in DOMAIN picks : /\ picks[i] \in 1 .. l
                                        /\ \A j \in 1 .. i - 1 : picks[j] # picks[i]}
        IN  /\ gd \in SUBSET (1 .. Len(picks))
            /\ \A i, j \in gd : picks[i] = picks[j] => i = j
            /\ \A n \in 1 .. l : Named(picks, n) <=> \E i \in gd : picks[i] = n
    BY <2>1, GoodPicks
  <2> QED
    BY <2>2, <2>3
<1>3. \A i \in good : picks[i] \in 1 .. L
  OBVIOUS
<1>4. rest \in SUBSET (1 .. L) /\ \A n \in rest : \A i \in good : picks[i] # n
  OBVIOUS
<1>5. \A n \in 1 .. L : n \in rest <=> ~Named(picks, n)
  BY <1>2
<1>6. f = First(front \o tail, k)
  BY <1>1 DEF Rerank
<1> HIDE DEF good, rest
<1>7. a \in Nat /\ head \in Seq(Int) /\ Len(head) = a
  BY <1>2, PickedAt
<1>8. PICK headAt :
        /\ headAt \in [1 .. a -> good]
        /\ \A n \in 1 .. a : head[n] = picks[headAt[n]]
        /\ \A i \in good : \E n \in 1 .. a : headAt[n] = i
        /\ \A m, n \in 1 .. a : m < n => headAt[m] < headAt[n]
  <2>1. PICK h : PlacedAt(head, picks, good, h)
    BY <1>2, PickedAt
  <2> QED
    BY <2>1 DEF PlacedAt
<1>9. b \in Nat /\ tail \in Seq(X) /\ Len(tail) = b
  BY <1>4, PickedAt
<1>10. PICK restAt :
         /\ restAt \in [1 .. b -> rest]
         /\ \A n \in 1 .. b : tail[n] = s[restAt[n]]
         /\ \A i \in rest : \E n \in 1 .. b : restAt[n] = i
         /\ \A m, n \in 1 .. b : m < n => restAt[m] < restAt[n]
  <2>1. PICK h : PlacedAt(tail, s, rest, h)
    BY <1>4, PickedAt
  <2> QED
    BY <2>1 DEF PlacedAt
<1> DEFINE at == [i \in 1 .. a + b |-> IF i <= a THEN picks[headAt[i]] ELSE restAt[i - a]]
<1> HIDE DEF a, b, head, tail
<1>11. \A i \in 1 .. a : i \in 1 .. a + b /\ at[i] = picks[headAt[i]] /\ headAt[i] \in good
  BY <1>7, <1>8, <1>9
<1>12. \A i \in 1 .. a + b : i \notin 1 .. a =>
         i - a \in 1 .. b /\ ~(i <= a) /\ at[i] = restAt[i - a] /\ at[i] \in rest
  BY <1>7, <1>9, <1>10
<1> HIDE DEF at
<1>13. \A i \in 1 .. a + b : at[i] \in 1 .. L
  BY <1>3, <1>4, <1>11, <1>12
<1>14. at \in [1 .. a + b -> 1 .. L]
  BY <1>13 DEF at
<1>15. ASSUME NEW i \in 1 .. a + b, NEW j \in 1 .. a + b, at[i] = at[j]
       PROVE  i = j
  <2>1. CASE i \in 1 .. a /\ j \in 1 .. a
    <3>1. headAt[i] = headAt[j]
      <4>1. headAt[i] \in good /\ headAt[j] \in good /\ picks[headAt[i]] = picks[headAt[j]]
        BY <1>11, <1>15, <2>1
      <4> QED
        BY <1>2, <4>1
    <3>2. ~(i < j) /\ ~(j < i)
      <4>1. headAt[i] \in Int /\ headAt[j] \in Int
        <5>1. headAt[i] \in good /\ headAt[j] \in good
          BY <1>11, <2>1
        <5>2. \A x \in good : x \in Int
          <6>1. \A x \in 1 .. Len(picks) : x \in Int
            BY LenProperties
          <6> QED
            BY <1>2, <6>1
        <5> QED
          BY <5>1, <5>2
      <4> QED
        BY <1>8, <2>1, <3>1, <4>1
    <3> QED
      BY <1>7, <2>1, <3>2
  <2>2. CASE i \notin 1 .. a /\ j \notin 1 .. a
    <3>1. /\ i - a \in 1 .. b /\ j - a \in 1 .. b
          /\ restAt[i - a] = restAt[j - a]
      BY <1>12, <1>15, <2>2
    <3>2. restAt[i - a] \in Int /\ restAt[j - a] \in Int
      <4>1. restAt[i - a] \in rest /\ restAt[j - a] \in rest
        BY <1>10, <3>1
      <4>2. \A x \in rest : x \in Int
        <5>1. \A x \in 1 .. L : x \in Int
          BY <1>1
        <5> QED
          BY <1>4, <5>1
      <4> QED
        BY <4>1, <4>2
    <3>3. ~(i - a < j - a) /\ ~(j - a < i - a)
      BY <1>10, <3>1, <3>2
    <3> QED
      BY <1>7, <1>9, <3>3
  <2>3. CASE i \in 1 .. a /\ j \notin 1 .. a
    <3>1. headAt[i] \in good /\ at[i] = picks[headAt[i]] /\ at[j] \in rest
      BY <1>11, <1>12, <2>3
    <3>2. \A n \in rest : \A m \in good : picks[m] # n
      BY <1>4
    <3>3. at[i] # at[j]
      BY <3>1, <3>2
    <3> QED
      BY <1>15, <3>3
  <2>4. CASE i \notin 1 .. a /\ j \in 1 .. a
    <3>1. headAt[j] \in good /\ at[j] = picks[headAt[j]] /\ at[i] \in rest
      BY <1>11, <1>12, <2>4
    <3>2. \A n \in rest : \A m \in good : picks[m] # n
      BY <1>4
    <3>3. at[j] # at[i]
      BY <3>1, <3>2
    <3> QED
      BY <1>15, <3>3
  <2> QED
    BY <2>1, <2>2, <2>3, <2>4
<1>16. ASSUME NEW n \in 1 .. L
       PROVE  \E i \in 1 .. a + b : at[i] = n
  <2>1. CASE n \in rest
    <3>1. PICK m \in 1 .. b : restAt[m] = n
      BY <1>10, <2>1
    <3>2. /\ m + a \in 1 .. a + b /\ m + a \notin 1 .. a /\ (m + a) - a = m
      BY <1>7, <1>9, <3>1
    <3>3. at[m + a] = n
      BY <1>12, <3>1, <3>2
    <3> QED
      BY <3>2, <3>3
  <2>2. CASE n \notin rest
    <3>1. PICK j \in good : picks[j] = n
      BY <1>2, <1>5, <2>2
    <3>2. PICK m \in 1 .. a : headAt[m] = j
      BY <1>8
    <3>3. m \in 1 .. a + b /\ at[m] = n
      BY <1>11, <3>1, <3>2
    <3> QED
      BY <3>3
  <2> QED
    BY <2>1, <2>2
<1>17. a + b = L
  <2> DEFINE N == a + b
             l == L
  <2>1. N \in Nat /\ l \in Nat
    BY <1>1, <1>7, <1>9
  <2>2. /\ at \in [1 .. N -> 1 .. l]
        /\ \A i, j \in 1 .. N : at[i] = at[j] => i = j
        /\ \A n \in 1 .. l : \E i \in 1 .. N : at[i] = n
    BY <1>14, <1>15, <1>16
  <2> HIDE DEF N, l
  <2>3. at \in Bijection(1 .. N, 1 .. l)
    BY <2>2, Fun_IsBij
  <2>4. ExistsBijection(1 .. N, 1 .. l)
    BY <2>3 DEF ExistsBijection
  <2>5. IsFiniteSet(1 .. N) /\ Cardinality(1 .. N) = N /\ Cardinality(1 .. l) = l
    BY <2>1, FS_Interval
  <2>6. Cardinality(1 .. l) = Cardinality(1 .. N)
    BY <2>4, <2>5, FS_Bijection
  <2>7. N = l
    BY <2>5, <2>6
  <2> QED
    BY <2>7 DEF N, l
<1>18. /\ front \in Seq(X) /\ Len(front) = a
       /\ \A i \in 1 .. a : front[i] = s[at[i]]
  <2>1. \A i \in 1 .. a : head[i] = at[i] /\ at[i] \in 1 .. L
    BY <1>8, <1>11, <1>13
  <2>2. \A i \in 1 .. a : s[head[i]] \in X
    BY <1>1, <2>1
  <2>3. front \in [1 .. a -> X]
    BY <1>7, <2>2
  <2>4. front \in Seq(X) /\ Len(front) = a
    BY <1>7, <2>3
  <2> QED
    BY <1>7, <2>1, <2>4
<1> HIDE DEF front
<1> DEFINE all == front \o tail
<1>19. /\ all \in Seq(X) /\ Len(all) = a + b
       /\ \A i \in 1 .. a + b : all[i] = IF i <= a THEN front[i] ELSE tail[i - a]
  BY <1>9, <1>18, ConcatProperties
<1>20. \A i \in 1 .. a + b : all[i] = s[at[i]]
  <2> SUFFICES ASSUME NEW i \in 1 .. a + b
               PROVE  all[i] = s[at[i]]
    OBVIOUS
  <2>1. CASE i \in 1 .. a
    <3>1. i <= a
      BY <1>7, <2>1
    <3> QED
      BY <1>18, <1>19, <2>1, <3>1
  <2>2. CASE i \notin 1 .. a
    <3>1. i - a \in 1 .. b /\ ~(i <= a) /\ at[i] = restAt[i - a]
      BY <1>12, <2>2
    <3> QED
      BY <1>10, <1>19, <3>1
  <2> QED
    BY <2>1, <2>2
<1> HIDE DEF all
<1>21. /\ f \in Seq(X) /\ Len(f) = (IF Len(all) < k THEN Len(all) ELSE k)
       /\ \A i \in 1 .. Len(f) : i \in 1 .. Len(all) /\ f[i] = all[i]
  <2>1. f = First(all, k)
    BY <1>6 DEF all
  <2> HIDE DEF f
  <2> QED
    BY <1>19, <2>1, FirstIs
<1> HIDE DEF f
<1>22. Len(f) = (IF L < k THEN L ELSE k) /\ DOMAIN f = 1 .. Len(f)
  BY <1>17, <1>19, <1>21, LenProperties
<1>23. \A i \in 1 .. Len(f) : f[i] = s[at[i]]
  BY <1>19, <1>20, <1>21
<1>24. ASSUME NEW i \in 1 .. L
       PROVE  i <= a <=> Named(picks, at[i])
  <2>1. CASE i \in 1 .. a
    <3>1. headAt[i] \in good /\ at[i] = picks[headAt[i]] /\ at[i] \in 1 .. L /\ i <= a
      BY <1>7, <1>11, <1>13, <2>1
    <3>2. \E j \in good : picks[j] = at[i]
      BY <3>1
    <3> QED
      BY <1>2, <3>1, <3>2
  <2>2. CASE i \notin 1 .. a
    <3>1. i \in 1 .. a + b
      BY <1>17
    <3>2. ~(i <= a) /\ at[i] \in rest
      BY <1>12, <2>2, <3>1
    <3> QED
      BY <1>4, <1>5, <3>2
  <2> QED
    BY <2>1, <2>2
<1>25. ASSUME NEW i \in 1 .. L, NEW j \in 1 .. L, a < i, i < j
       PROVE  at[i] < at[j]
  <2>1. i \in 1 .. a + b /\ j \in 1 .. a + b /\ i \notin 1 .. a /\ j \notin 1 .. a
    BY <1>1, <1>7, <1>17, <1>25
  <2>2. i - a \in 1 .. b /\ j - a \in 1 .. b /\ at[i] = restAt[i - a] /\ at[j] = restAt[j - a]
    BY <1>12, <2>1
  <2>3. i - a < j - a
    BY <1>1, <1>7, <1>25
  <2> QED
    BY <1>10, <2>2, <2>3
<1>26. a \in 0 .. L
  BY <1>1, <1>7, <1>9, <1>17
<1>27. /\ at \in [1 .. L -> 1 .. L]
       /\ \A i, j \in 1 .. L : at[i] = at[j] => i = j
       /\ \A n \in 1 .. L : \E i \in 1 .. L : at[i] = n
  BY <1>14, <1>15, <1>16, <1>17
<1>28. Reranked(f, s, picks, k, at, a)
  BY <1>22, <1>23, <1>24, <1>25, <1>26, <1>27 DEF Reranked
<1> QED
  BY <1>28 DEF f

(* A list cut without any pick is one reranked without any.                *)
LEMMA UnpickedIs ==
  ASSUME NEW X, NEW s \in Seq(X), NEW k \in Nat
  PROVE  \E at, g : Reranked(First(s, k), s, <<>>, k, at, g)
<1> DEFINE at == [i \in 1 .. Len(s) |-> i]
           f == First(s, k)
<1>1. Len(s) \in Nat
  BY LenProperties
<1>2. at \in [1 .. Len(s) -> 1 .. Len(s)] /\ \A i \in 1 .. Len(s) : at[i] = i
  OBVIOUS
<1>3. /\ f \in Seq(X) /\ Len(f) = (IF Len(s) < k THEN Len(s) ELSE k)
      /\ \A i \in 1 .. Len(f) : i \in 1 .. Len(s) /\ f[i] = s[i]
  BY FirstIs
<1> HIDE DEF at, f
<1>4. DOMAIN f = 1 .. Len(f)
  BY <1>3, LenProperties
<1>5. \A n : ~Named(<<>>, n)
  BY DEF Named
<1>6. 0 \in 0 .. Len(s) /\ \A i \in 1 .. Len(s) : ~(i <= 0)
  BY <1>1
<1>7. \A i \in 1 .. Len(f) : f[i] = s[at[i]]
  BY <1>2, <1>3
<1>8. Reranked(f, s, <<>>, k, at, 0)
  BY <1>2, <1>3, <1>4, <1>5, <1>6, <1>7 DEF Reranked
<1> QED
  BY <1>8 DEF f

\* The list f of s loses nothing: RerankLosesNothing of the lists it is about.
NothingLost(f, s, picks, k) ==
  LET place(h) == CHOOSE i \in DOMAIN s : s[i] = h
      good(i)  == \E j \in DOMAIN picks : picks[j] = i
  IN  /\ Len(f) = (IF Len(s) < k THEN Len(s) ELSE k)
      /\ Range(f) \subseteq Range(s) /\ IsInjective(f)
      /\ \A i, j \in DOMAIN f : i < j =>
           \/ good(place(f[i]))
           \/ ~good(place(f[j])) /\ place(f[i]) < place(f[j])
      /\ \A n \in DOMAIN s : good(n) =>
           \/ s[n] \in Range(f)
           \/ \A i \in DOMAIN f : good(place(f[i]))

(* A reranked list loses nothing.                                          *)
LEMMA RerankedComplete ==
  ASSUME NEW X, NEW s \in Seq(X), \A i, j \in 1 .. Len(s) : s[i] = s[j] => i = j,
         NEW picks, NEW k \in Nat, NEW f, NEW at, NEW g, Reranked(f, s, picks, k, at, g)
  PROVE  NothingLost(f, s, picks, k)
<1> DEFINE L == Len(s)
           place(h) == CHOOSE i \in DOMAIN s : s[i] = h
<1>1. L \in Nat /\ DOMAIN s = 1 .. L
  BY LenProperties
<1>2. /\ g \in 0 .. L
      /\ \A i \in 1 .. L : at[i] \in 1 .. L
      /\ \A i, j \in 1 .. L : at[i] = at[j] => i = j
      /\ \A n \in 1 .. L : \E i \in 1 .. L : at[i] = n
  BY DEF Reranked
<1>3. \A i \in 1 .. L : i <= g <=> Named(picks, at[i])
  BY DEF Reranked
<1>4. \A i, j \in 1 .. L : g < i /\ i < j => at[i] < at[j]
  BY DEF Reranked
<1>5. /\ Len(f) = (IF L < k THEN L ELSE k) /\ DOMAIN f = 1 .. Len(f)
      /\ \A i \in 1 .. Len(f) : f[i] = s[at[i]]
  BY DEF Reranked
<1>6. Len(f) \in Nat /\ \A i \in 1 .. Len(f) : i \in 1 .. L
  BY <1>1, <1>5, LenProperties
<1>7. \A n \in 1 .. L : place(s[n]) = n
  BY <1>1
<1> HIDE DEF place
<1>8. ASSUME NEW i \in 1 .. Len(f)
      PROVE  place(f[i]) = at[i]
  <2>1. i \in 1 .. L /\ f[i] = s[at[i]]
    BY <1>5, <1>6
  <2>2. at[i] \in 1 .. L
    BY <1>2, <2>1
  <2>3. place(s[at[i]]) = at[i]
    BY <1>7, <2>2
  <2> QED
    BY <2>1, <2>3
<1>9. Range(f) \subseteq Range(s)
  <2> SUFFICES ASSUME NEW i \in 1 .. Len(f)
               PROVE  f[i] \in Range(s)
    BY <1>5 DEF Range
  <2>1. f[i] = s[at[i]] /\ at[i] \in DOMAIN s
    BY <1>1, <1>2, <1>5, <1>6
  <2> QED
    BY <2>1 DEF Range
<1>10. IsInjective(f)
  <2> SUFFICES ASSUME NEW i \in 1 .. Len(f), NEW j \in 1 .. Len(f), f[i] = f[j]
               PROVE  i = j
    BY <1>5 DEF IsInjective
  <2>1. i \in 1 .. L /\ j \in 1 .. L /\ f[i] = s[at[i]] /\ f[j] = s[at[j]]
    BY <1>5, <1>6
  <2>2. at[i] \in 1 .. L /\ at[j] \in 1 .. L
    BY <1>2, <2>1
  <2>3. at[i] = at[j]
    BY <2>1, <2>2
  <2> QED
    BY <1>2, <2>1, <2>3
<1>11. ASSUME NEW i \in DOMAIN f, NEW j \in DOMAIN f, i < j
       PROVE  \/ Named(picks, place(f[i]))
              \/ ~Named(picks, place(f[j])) /\ place(f[i]) < place(f[j])
  <2>1. i \in 1 .. L /\ j \in 1 .. L /\ place(f[i]) = at[i] /\ place(f[j]) = at[j]
    BY <1>5, <1>6, <1>8
  <2>2. CASE i <= g
    BY <1>3, <2>1, <2>2
  <2>3. CASE ~(i <= g)
    <3>1. g < i /\ ~(j <= g)
      <4>1. i \in Int /\ j \in Int /\ g \in Int
        BY <1>1, <1>2, <2>1
      <4> QED
        BY <1>11, <2>3, <4>1
    <3>2. at[i] < at[j]
      BY <1>4, <1>11, <2>1, <3>1
    <3> QED
      BY <1>3, <2>1, <3>1, <3>2
  <2> QED
    BY <2>2, <2>3
<1>12. ASSUME NEW n \in DOMAIN s, Named(picks, n)
       PROVE  \/ s[n] \in Range(f)
              \/ \A i \in DOMAIN f : Named(picks, place(f[i]))
  <2>1. PICK m \in 1 .. L : at[m] = n
    BY <1>1, <1>2
  <2>2. m <= g
    BY <1>3, <1>12, <2>1
  <2>3. CASE m \in 1 .. Len(f)
    <3>1. f[m] = s[n] /\ m \in DOMAIN f
      BY <1>5, <2>1, <2>3
    <3> QED
      BY <3>1 DEF Range
  <2>4. CASE m \notin 1 .. Len(f)
    <3>1. \A i \in 1 .. Len(f) : i <= g
      BY <1>1, <1>2, <1>6, <2>1, <2>2, <2>4
    <3>2. \A i \in 1 .. Len(f) : Named(picks, at[i])
      BY <1>3, <1>6, <3>1
    <3> QED
      BY <1>5, <1>8, <3>2
  <2> QED
    BY <2>3, <2>4
<1>13. Len(f) = (IF Len(s) < k THEN Len(s) ELSE k)
  BY <1>5
<1>14. \A h : place(h) = CHOOSE i \in DOMAIN s : s[i] = h
  BY DEF place
<1>15. \A n : Named(picks, n) <=> \E j \in DOMAIN picks : picks[j] = n
  BY DEF Named
<1>16. \A i, j \in DOMAIN f : i < j =>
         \/ \E l \in DOMAIN picks : picks[l] = place(f[i])
         \/ ~(\E l \in DOMAIN picks : picks[l] = place(f[j])) /\ place(f[i]) < place(f[j])
  BY <1>11, <1>15
<1>17. \A n \in DOMAIN s : (\E l \in DOMAIN picks : picks[l] = n) =>
         \/ s[n] \in Range(f)
         \/ \A i \in DOMAIN f : \E l \in DOMAIN picks : picks[l] = place(f[i])
  BY <1>12, <1>15
<1> QED
  BY <1>9, <1>10, <1>13, <1>16, <1>17 DEF NothingLost, place

\* Every row the search has or may come to have: the table's, those of the
\* read transaction, its lanes'.
Seen == Rows(db) \cup Rows(snapshot.db) \cup HitsOf(lanes)

\* An id names one row, however often its file is written again, and none is
\* above the table's last.
SeenOnce == OneRow(Seen)
SeenIssued == \A h \in Seen : \E x \in DOMAIN db : h.id <= x

\* A text, and a rung of a ladder, is due at the steps that read one.
LaneDue ==
  /\ searching.at = "semantic" => searching.n \in 1 .. Len(query.texts)
  /\ searching.at = "keyword" => searching.n \in 1 .. Len(Rungs(query))

\* The substring lane is the last, and what it is made of is read in one
\* transaction.
NoSubstringYet ==
  searching.at \in {"embed", "semantic", "keyword", "count", "scan", "fetch"} =>
    \A i \in DOMAIN lanes : lanes[i].weight # WeightSubstring

TermsScanned ==
  searching.at = "fetch" =>
    perTerm = [i \in 1 .. Len(Kept(snapshot, query)) |->
                 TermMatches(snapshot, query, Kept(snapshot, query)[i])]

\* The model is asked about rows it is shown once, and once.
RerankDue ==
  /\ searching.at = "rerank" =>
       /\ fused \in Seq(AnyRow)
       /\ \A i, j \in 1 .. Len(fused) : fused[i] = fused[j] => i = j
  /\ searching.at \notin {"done", "failed"} => picked = <<>>

SearchInv ==
  /\ query \in Queries
  /\ Tabled(db) /\ Tabled(snapshot.db)
  /\ lanes \in Seq(AnyLane)
  /\ SeenOnce /\ SeenIssued
  /\ LaneDue /\ NoSubstringYet /\ TermsScanned /\ RerankDue
  /\ TermsServed /\ RerankLosesNothing

-----------------------------------------------------------------------------
(* Rows are the rows of a table.                                           *)
LEMMA RowsAre ==
  ASSUME NEW d, Tabled(d)
  PROVE  Rows(d) \subseteq AnyRow
BY DEF Tabled, Rows, AnyRow

(* Rows of lists are rows; so are those of their lanes.                    *)
LEMMA RangeOf ==
  ASSUME NEW X, NEW s \in Seq(X)
  PROVE  Range(s) \subseteq X /\ DOMAIN s = 1 .. Len(s) /\ Len(s) \in Nat
<1>1. DOMAIN s = 1 .. Len(s) /\ Len(s) \in Nat /\ \A i \in 1 .. Len(s) : s[i] \in X
  BY LenProperties, ElementOfSeq
<1> QED
  BY <1>1 DEF Range

\* more is ls and one lane, of which the rows are R's.
OneMore(more, ls, lane, R) ==
  /\ more \in Seq(AnyLane)
  /\ HitsOf(more) \subseteq HitsOf(ls) \cup R
  /\ \A i \in DOMAIN more : (i \in DOMAIN ls /\ more[i] = ls[i]) \/ more[i] = lane

(* One more lane.                                                          *)
LEMMA OneMoreLane ==
  ASSUME NEW ls \in Seq(AnyLane), NEW w \in Nat, NEW R, R \subseteq AnyRow, NEW h \in Seq(R),
         NEW lane, lane = [weight |-> w, hits |-> h], NEW more, more = Append(ls, lane)
  PROVE  OneMore(more, ls, lane, R)
<1>1. h \in Seq(AnyRow) /\ Range(h) \subseteq R
  <2>1. h \in [1 .. Len(h) -> AnyRow] /\ Len(h) \in Nat
    BY LenProperties
  <2> QED
    BY <2>1, RangeOf
<1>2. lane \in AnyLane /\ lane.hits = h
  BY <1>1 DEF AnyLane
<1>4. /\ more \in Seq(AnyLane) /\ Len(ls) \in Nat /\ DOMAIN ls = 1 .. Len(ls)
      /\ DOMAIN more = 1 .. Len(ls) + 1
      /\ \A i \in 1 .. Len(ls) : more[i] = ls[i]
      /\ more[Len(ls) + 1] = lane
  <2>1. Len(ls) \in Nat /\ DOMAIN ls = 1 .. Len(ls)
    BY LenProperties
  <2>2. more \in Seq(AnyLane) /\ Len(more) = Len(ls) + 1
    BY <1>2
  <2>3. DOMAIN more = 1 .. Len(ls) + 1
    BY <2>2, LenProperties
  <2> QED
    BY <1>2, <2>1, <2>2, <2>3
<1>5. \A i \in DOMAIN more : (i \in DOMAIN ls /\ more[i] = ls[i]) \/ more[i] = lane
  <2> SUFFICES ASSUME NEW i \in 1 .. Len(ls) + 1
               PROVE  (i \in DOMAIN ls /\ more[i] = ls[i]) \/ more[i] = lane
    BY <1>4
  <2>1. i \in 1 .. Len(ls) \/ i = Len(ls) + 1
    BY <1>4
  <2> QED
    BY <1>4, <2>1
<1>6. HitsOf(more) \subseteq HitsOf(ls) \cup R
  <2> SUFFICES ASSUME NEW i \in DOMAIN more, NEW x \in Range(more[i].hits)
               PROVE  x \in HitsOf(ls) \cup R
    BY DEF HitsOf
  <2>1. CASE i \in DOMAIN ls /\ more[i] = ls[i]
    BY <2>1 DEF HitsOf
  <2>2. CASE more[i] = lane
    BY <1>1, <1>2, <2>2
  <2> QED
    BY <1>5, <2>1, <2>2
<1> QED
  BY <1>4, <1>5, <1>6 DEF OneMore

\* fh are rows of the state, each of a term of q, and the first match of each
\* list of pt is among them where there is a place per list.
Serves(fh, state, q, pt) ==
  /\ fh \in Seq(Rows(state.db))
  /\ \A h \in Range(fh) : h.chunk.holds \cap Range(q.terms) # {}
  /\ Len(pt) <= Depth(q) => \A t \in DOMAIN pt : \E h \in Range(fh) : h.id = pt[t][1]

(* What the substring lane fetches is of its terms, and of each of them.   *)
LEMMA FetchServes ==
  ASSUME NEW state, Tabled(state.db), NEW q \in Queries, NEW pt,
         pt = [i \in 1 .. Len(Kept(state, q)) |-> TermMatches(state, q, Kept(state, q)[i])]
  PROVE  Serves(Fetched(state, RoundRobin(pt, Depth(q))), state, q, pt)
<1> DEFINE kept == Kept(state, q)
           n == Depth(q)
           X == {x \in DOMAIN state.db : state.db[x].holds \cap Range(q.terms) # {}}
           r == RoundRobin(pt, n)
           fh == Fetched(state, r)
<1>1. /\ Len(kept) \in Nat
      /\ \A i \in 1 .. Len(kept) : kept[i] \in Range(q.terms) /\ Matches(state, q, kept[i]) # {}
  BY KeptIs, LenProperties
<1>2. n \in Nat /\ n # 0
  BY QueryShape
<1>3. ASSUME NEW i \in 1 .. Len(kept)
      PROVE  pt[i] \in Seq(X) /\ Len(pt[i]) \in Nat \ {0}
  <2> DEFINE M == Matches(state, q, kept[i])
  <2>1. TermMatches(state, q, kept[i]) \in Seq(M) /\ Len(TermMatches(state, q, kept[i])) \in Nat \ {0}
    BY <1>1, TermMatchesListed
  <2>2. M \subseteq X
    BY <1>1, InTheTable DEF Matches
  <2>3. pt[i] = TermMatches(state, q, kept[i])
    OBVIOUS
  <2> HIDE DEF M, X
  <2>4. pt[i] \in Seq(M) /\ Len(pt[i]) \in Nat \ {0}
    BY <2>1, <2>3
  <2>5. pt[i] \in [1 .. Len(pt[i]) -> X]
    BY <2>2, <2>4, LenProperties, ElementOfSeq
  <2> QED
    BY <2>4, <2>5
<1>4. pt \in Seq(Seq(X)) /\ Len(pt) = Len(kept) /\ DOMAIN pt = 1 .. Len(kept)
  <2>1. DOMAIN pt = 1 .. Len(kept)
    OBVIOUS
  <2>2. pt \in [1 .. Len(kept) -> Seq(X)]
    <3>1. pt = [i \in 1 .. Len(kept) |-> pt[i]]
      OBVIOUS
    <3> HIDE DEF kept, X
    <3> QED
      BY <1>3, <3>1
  <2> HIDE DEF kept, X
  <2> QED
    BY <1>1, <2>1, <2>2
<1> HIDE DEF kept, n
<1>5. /\ r \in Seq(X) /\ Len(r) \in Nat
  <2> HIDE DEF X
  <2> QED
    BY <1>2, <1>4, RoundRobinStays
<1>6. Len(pt) <= n => \A t \in 1 .. Len(pt) : \E m \in 1 .. Len(r) : r[m] = pt[t][1]
  <2> HIDE DEF X
  <2>1. \A t \in 1 .. Len(pt) : Len(pt[t]) \in Nat \ {0}
    BY <1>3, <1>4
  <2> SUFFICES ASSUME Len(pt) <= n
               PROVE  \A t \in 1 .. Len(pt) : \E m \in 1 .. Len(r) : r[m] = pt[t][1]
    OBVIOUS
  <2>2. n \in Nat /\ pt \in Seq(Seq(X)) /\ Len(pt) <= n
    BY <1>2, <1>4
  <2>3. \A t \in 1 .. Len(pt) : \E m \in 1 .. Len(RoundRobin(pt, n)) :
          RoundRobin(pt, n)[m] = pt[t][1]
    BY ONLY <2>1, <2>2, RoundRobinServes
  <2> QED
    BY <2>3
<1>7. \A i \in 1 .. Len(r) : r[i] \in X
  BY <1>5, ElementOfSeq
<1> HIDE DEF r
<1>8. /\ DOMAIN fh = 1 .. Len(r)
      /\ \A i \in 1 .. Len(r) : fh[i] = [id |-> r[i], chunk |-> state.db[r[i]]]
  BY <1>7 DEF Fetched
<1>9. fh = [i \in 1 .. Len(r) |-> fh[i]]
  BY DEF Fetched
<1> HIDE DEF fh
<1>10. fh \in Seq(Rows(state.db))
  <2>1. \A i \in 1 .. Len(r) : fh[i] \in Rows(state.db)
    BY <1>7, <1>8 DEF Rows
  <2>2. fh \in [1 .. Len(r) -> Rows(state.db)]
    BY <1>9, <2>1
  <2> QED
    BY <1>5, <2>2
<1>11. \A h \in Range(fh) : h.chunk.holds \cap Range(q.terms) # {}
  BY <1>7, <1>8 DEF Range
<1>12. Len(pt) <= n => \A t \in DOMAIN pt : \E h \in Range(fh) : h.id = pt[t][1]
  <2> SUFFICES ASSUME Len(pt) <= n, NEW t \in 1 .. Len(pt)
               PROVE  \E h \in Range(fh) : h.id = pt[t][1]
    BY <1>4
  <2>1. PICK m \in 1 .. Len(r) : r[m] = pt[t][1]
    BY <1>6
  <2>2. fh[m] \in Range(fh) /\ fh[m].id = pt[t][1]
    BY <1>8, <2>1 DEF Range
  <2> QED
    BY <2>2
<1> QED
  BY <1>10, <1>11, <1>12 DEF fh, r, n, Serves

\* e is d with some of its chunks under ids above top.
Outgrows(e, d, top) ==
  /\ Tabled(e)
  /\ \A x \in DOMAIN e : (x \in DOMAIN d /\ e[x] = d[x]) \/ (x > top /\ x \notin DOMAIN d)
  /\ \E y \in DOMAIN e : y > top /\ \A x \in DOMAIN e : x <= y

(* A file written again is under new ids, above all there were.            *)
LEMMA Rewritten ==
  ASSUME NEW d, Tabled(d), NEW file \in SUBSET DOMAIN d, file # {},
         NEW top \in DOMAIN d, \A x \in DOMAIN d : x <= top,
         NEW old, old = InOrder([x \in file |-> {y \in file : y < x}]),
         NEW e, e = [x \in (DOMAIN d \ file) \cup (top + 1 .. top + Len(old)) |->
                       IF x \in DOMAIN d THEN d[x] ELSE d[old[x - top]]]
  PROVE  Outgrows(e, d, top)
<1> DEFINE new == top + 1 .. top + Len(old)
           was == [x \in DOMAIN e |-> IF x \in DOMAIN d THEN x ELSE old[x - top]]
<1>1. /\ DOMAIN d \subseteq Nat /\ IsFiniteSet(DOMAIN d) /\ top \in Nat
      /\ \A x \in DOMAIN d : d[x] \in Stored
      /\ \A x, y \in DOMAIN d : Address(d[x]) = Address(d[y]) => x = y
  BY DEF Tabled
<1>2. Lists(old, [x \in file |-> {y \in file : y < x}], file)
  <2>1. IsFiniteSet(file)
    BY <1>1, FS_Subset
  <2>2. Orders([x \in file |-> {y \in file : y < x}], file)
    BY <1>1, NumbersOrdered
  <2> QED
    BY <2>1, <2>2, InOrderLists
<1>3. /\ Len(old) \in Nat /\ \A i \in 1 .. Len(old) : old[i] \in file
      /\ \A i, j \in 1 .. Len(old) : old[i] = old[j] => i = j
      /\ Len(old) # 0
  <2>1. Enumerates(old, file)
    BY <1>2, ListsEnumerate
  <2>2. Len(old) \in Nat /\ old \in Seq(file)
    BY <2>1 DEF Enumerates
  <2>3. \A i \in 1 .. Len(old) : old[i] \in file
    BY <2>2, ElementOfSeq
  <2>4. \A x \in file : \E i \in 1 .. Len(old) : old[i] = x
    BY <2>1 DEF Enumerates
  <2>5. PICK x \in file : TRUE
    OBVIOUS
  <2>6. Len(old) # 0
    BY <2>2, <2>4, <2>5
  <2> QED
    BY <2>1, <2>2, <2>3, <2>6 DEF Enumerates
<1>4. DOMAIN e = (DOMAIN d \ file) \cup new
  OBVIOUS
<1>5. \A x \in new : x \in Nat /\ x > top /\ x \notin DOMAIN d /\ x - top \in 1 .. Len(old)
  BY <1>1, <1>3
<1>6. \A x \in DOMAIN e : /\ x \in DOMAIN d => x \notin file /\ e[x] = d[x]
                          /\ x \notin DOMAIN d => x \in new /\ e[x] = d[old[x - top]]
  BY <1>5
<1>7. \A x \in DOMAIN e : was[x] \in DOMAIN d /\ e[x] = d[was[x]]
  BY <1>3, <1>5, <1>6
<1>8. ASSUME NEW x \in DOMAIN e, NEW y \in DOMAIN e, was[x] = was[y]
      PROVE  x = y
  <2>1. CASE x \in DOMAIN d /\ y \in DOMAIN d
    BY <1>8, <2>1
  <2>2. CASE x \notin DOMAIN d /\ y \notin DOMAIN d
    <3>1. /\ x - top \in 1 .. Len(old) /\ y - top \in 1 .. Len(old) /\ x \in Nat /\ y \in Nat
          /\ old[x - top] = old[y - top]
      BY <1>5, <1>6, <1>8, <2>2
    <3>2. x - top = y - top
      BY <1>3, <3>1
    <3> QED
      BY <1>1, <3>1, <3>2
  <2>3. CASE x \in DOMAIN d /\ y \notin DOMAIN d
    BY <1>3, <1>5, <1>6, <1>8, <2>3
  <2>4. CASE x \notin DOMAIN d /\ y \in DOMAIN d
    BY <1>3, <1>5, <1>6, <1>8, <2>4
  <2> QED
    BY <2>1, <2>2, <2>3, <2>4
<1>9. IsFiniteSet(DOMAIN e)
  <2>1. IsFiniteSet(DOMAIN d \ file)
    BY <1>1, FS_Subset
  <2>2. IsFiniteSet(new)
    <3> DEFINE a == top + 1
               b == top + Len(old)
    <3>1. a \in Int /\ b \in Int
      BY <1>1, <1>3
    <3> HIDE DEF a, b
    <3>2. IsFiniteSet(a .. b)
      BY <3>1, IntervalFinite
    <3> QED
      BY <3>2 DEF a, b
  <2> HIDE DEF new
  <2>3. IsFiniteSet((DOMAIN d \ file) \cup new)
    BY <2>1, <2>2, FS_Union
  <2> QED
    BY <1>4, <2>3
<1>10. DOMAIN e \subseteq Nat \ {0}
  <2>1. DOMAIN d \subseteq Nat \ {0}
    BY DEF Tabled
  <2>2. \A x \in new : x \in Nat \ {0}
    BY <1>1, <1>5
  <2> HIDE DEF new
  <2> QED
    BY <1>4, <2>1, <2>2
<1>11. Tabled(e)
  <2>1. \A x \in DOMAIN e : e[x] \in Stored
    BY <1>1, <1>7
  <2>2. e = [x \in DOMAIN e |-> e[x]]
    OBVIOUS
  <2>3. ASSUME NEW x \in DOMAIN e, NEW y \in DOMAIN e, Address(e[x]) = Address(e[y])
        PROVE  x = y
    <3> HIDE DEF was
    <3>1. /\ was[x] \in DOMAIN d /\ e[x] = d[was[x]]
          /\ was[y] \in DOMAIN d /\ e[y] = d[was[y]]
      BY <1>7
    <3>2. Address(d[was[x]]) = Address(d[was[y]])
      BY <2>3, <3>1
    <3>3. was[x] = was[y]
      BY <1>1, <3>1, <3>2
    <3> QED
      BY <1>8, <3>3
  <2>4. e \in [DOMAIN e -> Stored]
    BY <2>1, <2>2
  <2> QED
    BY <1>9, <1>10, <2>3, <2>4 DEF Tabled
<1>12. \A x \in DOMAIN e : (x \in DOMAIN d /\ e[x] = d[x]) \/ (x > top /\ x \notin DOMAIN d)
  BY <1>5, <1>6
<1>13. \E y \in DOMAIN e : y > top /\ \A x \in DOMAIN e : x <= y
  <2> DEFINE y == top + Len(old)
  <2>1. y \in new /\ y > top /\ y \in Nat
    BY <1>1, <1>3
  <2>2. \A x \in new : x <= y
    BY <1>1, <1>3
  <2>3. \A x \in DOMAIN d : x <= y
    BY <1>1, <1>3
  <2> HIDE DEF y, new
  <2> QED
    BY <1>4, <2>1, <2>2, <2>3
<1> QED
  BY <1>11, <1>12, <1>13 DEF Outgrows

-----------------------------------------------------------------------------
(* What holds at the start.                                                *)
LEMMA SearchStarts == SearchInit => SearchInv
<1> SUFFICES ASSUME SearchInit
             PROVE  SearchInv
  OBVIOUS
<1>1. /\ query \in Queries /\ lanes = <<>> /\ snapshot = NoState
      /\ picked = <<>> /\ searching = [at |-> "embed", n |-> 0]
  BY DEF SearchInit
<1>2. PICK corpus \in Corpora : db \in SetToSeqs(corpus)
  BY DEF SearchInit
<1> DEFINE n == Cardinality(corpus)
<1>3. n \in Nat
  BY CorporaAssumption, FS_CardinalityType
<1>4. db \in [1 .. n -> corpus] /\ \A i, j \in 1 .. n : i # j => db[i] # db[j]
  BY <1>2 DEF SetToSeqs
<1> HIDE DEF n
<1>5. Tabled(db)
  <2>1. DOMAIN db = 1 .. n /\ \A x \in 1 .. n : db[x] \in corpus
    BY <1>4
  <2>2. IsFiniteSet(1 .. n) /\ 1 .. n \subseteq Nat \ {0}
    BY <1>3, IntervalFinite
  <2>3. \A x \in 1 .. n : db[x] \in Stored
    BY <2>1 DEF Stored
  <2>4. db \in [1 .. n -> Stored]
    BY <1>4, <2>3
  <2>5. \A x, y \in 1 .. n : Address(db[x]) = Address(db[y]) => x = y
    <3>1. \A c, e \in corpus : Address(c) = Address(e) => c = e
      BY CorporaAssumption
    <3> QED
      BY <1>4, <2>1, <3>1
  <2> QED
    BY <2>1, <2>2, <2>4, <2>5 DEF Tabled
<1>6. snapshot.db = <<>> /\ Tabled(snapshot.db) /\ Rows(snapshot.db) = {}
  <2>1. snapshot.db = <<>>
    BY <1>1 DEF NoState
  <2>2. DOMAIN <<>> = {} /\ <<>> \in [{} -> Stored]
    OBVIOUS
  <2>3. IsFiniteSet({})
    BY FS_EmptySet
  <2> QED
    BY <2>1, <2>2, <2>3 DEF Tabled, Rows
<1>7. HitsOf(lanes) = {} /\ lanes \in Seq(AnyLane) /\ DOMAIN lanes = {}
  BY <1>1 DEF HitsOf
<1>8. Seen = Rows(db)
  BY <1>6, <1>7 DEF Seen
<1>9. SeenOnce /\ SeenIssued
  <2>1. SeenOnce
    BY <1>8 DEF SeenOnce, OneRow, Rows
  <2>2. SeenIssued
    <3>1. \A x \in DOMAIN db : x <= x
      BY <1>5 DEF Tabled
    <3> QED
      BY <1>8, <3>1 DEF SeenIssued, Rows
  <2> QED
    BY <2>1, <2>2
<1>10. LaneDue /\ NoSubstringYet /\ TermsScanned /\ RerankDue
  BY <1>1, <1>7 DEF LaneDue, NoSubstringYet, TermsScanned, RerankDue
<1>11. TermsServed /\ RerankLosesNothing
  BY <1>1, <1>7 DEF TermsServed, RerankLosesNothing
<1> QED
  BY <1>1, <1>5, <1>6, <1>7, <1>9, <1>10, <1>11 DEF SearchInv

(* The rows only get fewer.                                                *)
LEMMA SeenLess ==
  ASSUME SeenOnce, SeenIssued, db' = db, Seen' \subseteq Seen
  PROVE  SeenOnce' /\ SeenIssued'
BY DEF SeenOnce, SeenIssued, OneRow

LEMMA SearchEmbeds ==
  ASSUME SearchInv, EmbedTexts
  PROVE  SearchInv'
<1>1. /\ searching.at = "embed"
      /\ UNCHANGED <<db, enabled, query, lanes, snapshot, perTerm, fused, found, picked, moves>>
  BY DEF EmbedTexts, SearchAt
<1>2. \/ query.texts = <<>> /\ searching' = [at |-> "done", n |-> 0]
      \/ query.texts # <<>> /\ searching' = [at |-> "semantic", n |-> 1]
  BY DEF EmbedTexts, Goto
<1>3. Seen' = Seen
  BY <1>1 DEF Seen, Rows, HitsOf
<1>4. SeenOnce' /\ SeenIssued'
  BY <1>1, <1>3, SeenLess DEF SearchInv
<1>5. LaneDue'
  <2>1. query.texts \in Seq(STRING) /\ Len(query.texts) \in Nat
    BY QueryShape, LenProperties DEF SearchInv
  <2>2. query.texts # <<>> => 1 \in 1 .. Len(query.texts)
    BY <2>1
  <2> QED
    BY <1>1, <1>2, <2>2 DEF LaneDue
<1>6. NoSubstringYet' /\ TermsScanned'
  BY <1>1, <1>2 DEF SearchInv, NoSubstringYet, TermsScanned
<1>7. RerankDue' /\ TermsServed'
  BY <1>1, <1>2 DEF SearchInv, RerankDue, TermsServed
<1>8. RerankLosesNothing'
  BY <1>1, <1>2 DEF RerankLosesNothing
<1> QED
  BY <1>1, <1>4, <1>5, <1>6, <1>7, <1>8 DEF SearchInv

(* A lane of what the table holds.                                         *)
LEMMA SearchGainsLane ==
  ASSUME SearchInv, NEW w \in Nat, w # WeightSubstring, NEW h \in Seq(Rows(db)),
         lanes' = Append(lanes, [weight |-> w, hits |-> h]),
         UNCHANGED <<db, query, snapshot, perTerm>>
  PROVE  /\ lanes' \in Seq(AnyLane) /\ SeenOnce' /\ SeenIssued' /\ TermsServed'
         /\ (\A i \in DOMAIN lanes : lanes[i].weight # WeightSubstring)
              => \A i \in DOMAIN lanes' : lanes'[i].weight # WeightSubstring
<1> DEFINE lane == [weight |-> w, hits |-> h]
           R == Rows(db)
<1>1. R \subseteq AnyRow /\ lanes \in Seq(AnyLane)
  BY RowsAre DEF SearchInv
<1>2. h \in Seq(R)
  OBVIOUS
<1>3. OneMore(lanes', lanes, lane, R)
  <2> DEFINE more == lanes'
             ls == lanes
  <2>1. /\ ls \in Seq(AnyLane) /\ w \in Nat /\ R \subseteq AnyRow /\ h \in Seq(R)
        /\ lane = [weight |-> w, hits |-> h] /\ more = Append(ls, lane)
    BY <1>1, <1>2
  <2> HIDE DEF R, more, ls, lane
  <2>2. OneMore(more, ls, lane, R)
    BY ONLY <2>1, OneMoreLane
  <2> QED
    BY <2>2 DEF more, ls
<1>4. Seen' \subseteq Seen
  <2>1. Seen' = Rows(db) \cup Rows(snapshot.db) \cup HitsOf(lanes')
    BY DEF Seen, Rows, HitsOf
  <2> QED
    BY <1>3, <2>1 DEF Seen, OneMore
<1>5. SeenOnce' /\ SeenIssued'
  BY <1>4, SeenLess DEF SearchInv
<1>6. \A i \in DOMAIN lanes' : lanes'[i].weight = WeightSubstring =>
        i \in DOMAIN lanes /\ lanes'[i] = lanes[i]
  <2>1. lane.weight # WeightSubstring
    OBVIOUS
  <2> QED
    BY <1>3, <2>1 DEF OneMore
<1>7. TermsServed'
  <2>1. TermsServed /\ query' = query /\ perTerm' = perTerm
    BY DEF SearchInv
  <2>2. Depth(query)' = Depth(query)
    BY <2>1 DEF Depth, CutTo, K
  <2> QED
    BY ONLY <1>6, <2>1, <2>2 DEF TermsServed
<1>8. (\A i \in DOMAIN lanes : lanes[i].weight # WeightSubstring)
        => \A i \in DOMAIN lanes' : lanes'[i].weight # WeightSubstring
  BY <1>6
<1> QED
  BY <1>3, <1>5, <1>7, <1>8 DEF OneMore

LEMMA SearchIsSemantic ==
  ASSUME SearchInv, SearchSemantic
  PROVE  SearchInv'
<1> DEFINE t == query.texts[searching.n]
           w == WeightSemantic
<1>1. /\ searching.at = "semantic"
      /\ UNCHANGED <<db, enabled, query, snapshot, perTerm, fused, found, picked, moves>>
  BY DEF SearchSemantic, SearchAt
<1>2. \/ searching' = [at |-> "semantic", n |-> searching.n + 1] /\ searching.n < Len(query.texts)
      \/ searching' = [at |-> "count", n |-> 0]
      \/ searching' = [at |-> "keyword", n |-> 1] /\ Rungs(query) # <<>>
  BY DEF SearchSemantic, Goto
<1>3. PICK ids \in SemanticLanes(Now, query, t) :
        lanes' = Append(lanes, [weight |-> w, hits |-> Hits(Now, ids)])
  BY DEF SearchSemantic
<1>4. query \in Queries /\ Tabled(db) /\ searching.n \in 1 .. Len(query.texts)
  BY <1>1 DEF SearchInv, LaneDue
<1>5. query.texts \in Seq(STRING) /\ Len(query.texts) \in Nat /\ t \in Range(query.texts)
  <2>1. query.texts \in Seq(STRING)
    BY <1>4, QueryShape
  <2>2. DOMAIN query.texts = 1 .. Len(query.texts) /\ Len(query.texts) \in Nat
    BY <2>1, LenProperties
  <2> QED
    BY <1>4, <2>1, <2>2 DEF Range
<1> HIDE DEF t, w
<1>6. Now.db = db
  BY DEF Now
<1>7. Hits(Now, ids) \in Seq(Rows(db))
  <2>1. Tabled(Now.db)
    BY <1>4, <1>6
  <2>2. ids \in Seq(DOMAIN Now.db)
    BY <1>3, <1>4, <1>5, <2>1, SemanticListed
  <2>3. Hits(Now, ids) \in Seq(Rows(Now.db))
    BY <2>2, HitsAreRows
  <2> QED
    BY <1>6, <2>3
<1>8. w \in Nat /\ w # WeightSubstring
  BY DEF w, WeightSemantic, WeightSubstring
<1>9. /\ lanes' \in Seq(AnyLane) /\ SeenOnce' /\ SeenIssued' /\ TermsServed'
      /\ (\A i \in DOMAIN lanes : lanes[i].weight # WeightSubstring)
           => \A i \in DOMAIN lanes' : lanes'[i].weight # WeightSubstring
  BY <1>1, <1>3, <1>7, <1>8, SearchGainsLane
<1>10. LaneDue'
  <2>1. Rungs(query) # <<>> => 1 \in 1 .. Len(Rungs(query))
    BY <1>4, RungsAre
  <2>2. searching.n < Len(query.texts) => searching.n + 1 \in 1 .. Len(query.texts)
    BY <1>4, <1>5
  <2>3. query' = query /\ Rungs(query)' = Rungs(query)
    BY <1>1
  <2> HIDE DEF t
  <2> QED
    BY <1>2, <2>1, <2>2, <2>3 DEF LaneDue
<1>11. NoSubstringYet'
  <2>1. \A i \in DOMAIN lanes : lanes[i].weight # WeightSubstring
    BY <1>1 DEF SearchInv, NoSubstringYet
  <2> QED
    BY <1>9, <2>1 DEF NoSubstringYet
<1>12. searching'.at \in {"semantic", "count", "keyword"}
  BY <1>2
<1>13. TermsScanned' /\ RerankDue' /\ RerankLosesNothing'
  BY <1>1, <1>12 DEF SearchInv, TermsScanned, RerankDue, RerankLosesNothing
<1> QED
  BY <1>1, <1>9, <1>10, <1>11, <1>13 DEF SearchInv

LEMMA SearchIsKeyword ==
  ASSUME SearchInv, SearchKeyword
  PROVE  SearchInv'
<1> DEFINE rung == Rungs(query)[searching.n]
           ids == KeywordLane(Now, query, rung.text, rung.tier)
           w == Weight(query, rung.text, rung.tier)
<1>1. /\ searching.at = "keyword"
      /\ UNCHANGED <<db, enabled, query, snapshot, perTerm, fused, found, picked, moves>>
  BY DEF SearchKeyword, SearchAt
<1>2. \/ searching' = [at |-> "keyword", n |-> searching.n + 1] /\ searching.n < Len(Rungs(query))
      \/ searching' = [at |-> "count", n |-> 0]
  BY DEF SearchKeyword, Goto
<1>3. lanes' = lanes \/ lanes' = Append(lanes, [weight |-> w, hits |-> Hits(Now, ids)])
  BY DEF SearchKeyword
<1>4. query \in Queries /\ Tabled(db) /\ searching.n \in 1 .. Len(Rungs(query))
  BY <1>1 DEF SearchInv, LaneDue
<1>5. /\ Len(Rungs(query)) \in Nat
      /\ rung.text \in Range(query.texts) /\ rung.tier \in {"strict", "content", "prefix", "any"}
  BY <1>4, RungsAre
<1>6. w \in Nat /\ w # WeightSubstring
  <2> HIDE DEF rung
  <2> QED
    BY <1>5, WeightsApart
<1> HIDE DEF rung, w
<1>7. Now.db = db
  BY DEF Now
<1>8. Hits(Now, ids) \in Seq(Rows(db))
  <2>1. Tabled(Now.db)
    BY <1>4, <1>7
  <2>2. ids \in Seq(DOMAIN Now.db)
    BY <1>4, <1>5, <2>1, KeywordListed
  <2> HIDE DEF ids
  <2>3. Hits(Now, ids) \in Seq(Rows(Now.db))
    BY <2>2, HitsAreRows
  <2> QED
    BY <1>7, <2>3
<1> HIDE DEF ids
<1>9. /\ lanes' \in Seq(AnyLane) /\ SeenOnce' /\ SeenIssued' /\ TermsServed'
      /\ (\A i \in DOMAIN lanes : lanes[i].weight # WeightSubstring)
           => \A i \in DOMAIN lanes' : lanes'[i].weight # WeightSubstring
  <2>1. CASE lanes' = Append(lanes, [weight |-> w, hits |-> Hits(Now, ids)])
    BY <1>1, <1>6, <1>8, <2>1, SearchGainsLane
  <2>2. CASE lanes' = lanes
    <3>1. Seen' = Seen
      BY <1>1, <2>2 DEF Seen, Rows, HitsOf
    <3>2. SeenOnce' /\ SeenIssued'
      BY <1>1, <3>1, SeenLess DEF SearchInv
    <3>3. TermsServed'
      BY <1>1, <2>2 DEF SearchInv, TermsServed
    <3> QED
      BY <2>2, <3>2, <3>3 DEF SearchInv
  <2> QED
    BY <1>3, <2>1, <2>2
<1>10. LaneDue'
  <2>1. searching.n < Len(Rungs(query)) => searching.n + 1 \in 1 .. Len(Rungs(query))
    BY <1>4, <1>5
  <2>2. query' = query /\ Rungs(query)' = Rungs(query)
    BY <1>1
  <2> QED
    BY <1>2, <2>1, <2>2 DEF LaneDue
<1>11. NoSubstringYet'
  <2>1. \A i \in DOMAIN lanes : lanes[i].weight # WeightSubstring
    BY <1>1 DEF SearchInv, NoSubstringYet
  <2> QED
    BY <1>9, <2>1 DEF NoSubstringYet
<1>12. searching'.at \in {"count", "keyword"}
  BY <1>2
<1>13. TermsScanned' /\ RerankDue' /\ RerankLosesNothing'
  BY <1>1, <1>12 DEF SearchInv, TermsScanned, RerankDue, RerankLosesNothing
<1> QED
  BY <1>1, <1>9, <1>10, <1>11, <1>13 DEF SearchInv

LEMMA SearchCounts ==
  ASSUME SearchInv, CountTerms
  PROVE  SearchInv'
<1>1. /\ searching.at = "count"
      /\ UNCHANGED <<db, enabled, query, lanes, perTerm, fused, found, picked, moves>>
  BY DEF CountTerms, SearchAt
<1>2. /\ snapshot' = snapshot \/ snapshot' = Now
      /\ searching' = [at |-> "fuse", n |-> 0] \/ searching' = [at |-> "scan", n |-> 0]
  BY DEF CountTerms, Goto
<1>3. searching'.at \in {"fuse", "scan"}
  BY <1>2
<1>4. snapshot'.db = snapshot.db \/ snapshot'.db = db
  BY <1>2 DEF Now
<1>5. Tabled(snapshot.db)' /\ Seen' \subseteq Seen
  <2>1. Tabled(snapshot'.db) /\ Rows(snapshot'.db) \subseteq Rows(db) \cup Rows(snapshot.db)
    BY <1>4 DEF SearchInv
  <2>2. Seen' = Rows(db) \cup Rows(snapshot'.db) \cup HitsOf(lanes)
    BY <1>1 DEF Seen
  <2>3. Tabled(snapshot.db)'
    BY <2>1
  <2> QED
    BY <2>1, <2>2, <2>3 DEF Seen
<1>6. SeenOnce' /\ SeenIssued'
  BY <1>1, <1>5, SeenLess DEF SearchInv
<1>7. LaneDue' /\ NoSubstringYet' /\ TermsScanned' /\ RerankDue'
  BY <1>1, <1>3 DEF SearchInv, LaneDue, NoSubstringYet, TermsScanned, RerankDue
<1>8. TermsServed'
  BY <1>1 DEF SearchInv, TermsServed
<1>9. RerankLosesNothing'
  BY <1>3 DEF RerankLosesNothing
<1> QED
  BY <1>1, <1>5, <1>6, <1>7, <1>8, <1>9 DEF SearchInv

LEMMA SearchScans ==
  ASSUME SearchInv, ScanTerms
  PROVE  SearchInv'
<1>1. /\ searching.at = "scan" /\ searching' = [at |-> "fetch", n |-> 0]
      /\ perTerm' = [i \in 1 .. Len(Kept(snapshot, query)) |->
                       TermMatches(snapshot, query, Kept(snapshot, query)[i])]
      /\ UNCHANGED <<db, enabled, query, lanes, snapshot, fused, found, picked, moves>>
  BY DEF ScanTerms, SearchAt, Goto
<1>2. searching'.at = "fetch"
  BY <1>1
<1>3. Seen' = Seen
  BY <1>1 DEF Seen
<1>4. SeenOnce' /\ SeenIssued'
  BY <1>1, <1>3, SeenLess DEF SearchInv
<1>5. TermsScanned'
  BY <1>1 DEF TermsScanned
<1>6. LaneDue' /\ NoSubstringYet' /\ RerankDue'
  BY <1>1, <1>2 DEF SearchInv, LaneDue, NoSubstringYet, RerankDue
<1>7. TermsServed'
  <2>1. \A i \in DOMAIN lanes : lanes[i].weight # WeightSubstring
    BY <1>1 DEF SearchInv, NoSubstringYet
  <2> QED
    BY <1>1, <2>1 DEF TermsServed
<1>8. RerankLosesNothing'
  BY <1>2 DEF RerankLosesNothing
<1> QED
  BY <1>1, <1>4, <1>5, <1>6, <1>7, <1>8 DEF SearchInv

LEMMA SearchFetches ==
  ASSUME SearchInv, FetchTerms
  PROVE  SearchInv'
<1> DEFINE r == RoundRobin(perTerm, Depth(query))
           fh == Fetched(snapshot, r)
           lane == [weight |-> WeightSubstring, hits |-> fh]
           R == Rows(snapshot.db)
<1>1. /\ searching.at = "fetch" /\ searching' = [at |-> "fuse", n |-> 0]
      /\ lanes' = Append(lanes, lane)
      /\ UNCHANGED <<db, enabled, query, snapshot, perTerm, fused, found, picked, moves>>
  BY DEF FetchTerms, SearchAt, Goto
<1>2. /\ query \in Queries /\ Tabled(snapshot.db) /\ lanes \in Seq(AnyLane)
      /\ perTerm = [i \in 1 .. Len(Kept(snapshot, query)) |->
                      TermMatches(snapshot, query, Kept(snapshot, query)[i])]
      /\ \A i \in DOMAIN lanes : lanes[i].weight # WeightSubstring
  BY <1>1 DEF SearchInv, TermsScanned, NoSubstringYet
<1>3. Serves(fh, snapshot, query, perTerm)
  BY <1>2, FetchServes
<1>4. R \subseteq AnyRow
  BY <1>2, RowsAre
<1>5. WeightSubstring \in Nat
  BY DEF WeightSubstring
<1> HIDE DEF r, fh
<1>6. OneMore(lanes', lanes, lane, R)
  <2> DEFINE more == lanes'
             ls == lanes
             w == WeightSubstring
  <2>1. /\ ls \in Seq(AnyLane) /\ w \in Nat /\ R \subseteq AnyRow /\ fh \in Seq(R)
        /\ lane = [weight |-> w, hits |-> fh] /\ more = Append(ls, lane)
    BY <1>1, <1>2, <1>3, <1>4, <1>5 DEF Serves
  <2> HIDE DEF R, more, ls, w, lane
  <2>2. OneMore(more, ls, lane, R)
    BY ONLY <2>1, OneMoreLane
  <2> QED
    BY <2>2 DEF more, ls
<1>7. Seen' \subseteq Seen
  <2>1. Seen' = Rows(db) \cup Rows(snapshot.db) \cup HitsOf(lanes')
    BY <1>1 DEF Seen
  <2> QED
    BY <1>6, <2>1 DEF Seen, OneMore
<1>8. SeenOnce' /\ SeenIssued'
  BY <1>1, <1>7, SeenLess DEF SearchInv
<1>9. TermsServed'
  <2>1. \A i \in DOMAIN lanes' : lanes'[i].weight = WeightSubstring => lanes'[i].hits = fh
    BY <1>2, <1>6 DEF OneMore
  <2>2. perTerm' = perTerm /\ query' = query /\ Depth(query)' = Depth(query)
    BY <1>1
  <2> QED
    BY <1>3, <2>1, <2>2 DEF TermsServed, Serves
<1>10. searching'.at = "fuse"
  BY <1>1
<1>11. LaneDue' /\ NoSubstringYet' /\ TermsScanned' /\ RerankDue' /\ RerankLosesNothing'
  BY <1>1, <1>10 DEF SearchInv, LaneDue, NoSubstringYet, TermsScanned, RerankDue, RerankLosesNothing
<1> QED
  BY <1>1, <1>2, <1>6, <1>8, <1>9, <1>11 DEF SearchInv, OneMore

LEMMA SearchFuses ==
  ASSUME SearchInv, FuseLanes
  PROVE  SearchInv'
<1> DEFINE n == CutTo(query)
           f == Fuse(lanes, n)
           k == K(query)
<1>1. /\ searching.at = "fuse" /\ fused' = f
      /\ UNCHANGED <<db, enabled, query, lanes, snapshot, perTerm, picked, moves>>
  BY DEF FuseLanes, SearchAt
<1>2. \/ found' = First(fused', k) /\ searching' = [at |-> "done", n |-> 0]
      \/ searching' = [at |-> "rerank", n |-> 0]
  BY DEF FuseLanes, Goto
<1>3. query \in Queries /\ Tabled(db) /\ lanes \in Seq(AnyLane) /\ picked = <<>>
  BY <1>1 DEF SearchInv, RerankDue
<1>4. n \in Nat /\ k \in Nat
  BY <1>3, QueryShape
<1>5. \E m \in Nat : \A h \in HitsOf(lanes) : h.id <= m
  <2>1. \A h \in HitsOf(lanes) : \E x \in DOMAIN db : h.id <= x
    BY DEF SearchInv, SeenIssued, Seen
  <2>2. CASE DOMAIN db = {}
    <3>1. \A h \in HitsOf(lanes) : h.id <= 0
      BY <2>1, <2>2
    <3> QED
      BY <3>1
  <2>3. CASE DOMAIN db # {}
    <3> DEFINE D == DOMAIN db
               m == Max(D)
    <3>1. D \subseteq Nat /\ IsFiniteSet(D) /\ D # {}
      BY <1>3, <2>3 DEF Tabled
    <3> HIDE DEF D
    <3>2. m \in D /\ \A x \in D : x <= m
      BY <3>1, GreatestOf
    <3> HIDE DEF m
    <3>3. m \in Nat
      BY <3>1, <3>2
    <3>4. \A h \in HitsOf(lanes) : h.id <= m
      <4> SUFFICES ASSUME NEW h \in HitsOf(lanes)
                   PROVE  h.id <= m
        OBVIOUS
      <4>1. PICK x \in D : h.id <= x
        BY <2>1 DEF D
      <4>2. x \in Nat /\ x <= m
        BY <3>1, <3>2
      <4>3. h.id \in Nat
        <5>1. h \in Seen
          BY DEF Seen
        <5>2. PICK i \in DOMAIN lanes : h \in Range(lanes[i].hits)
          BY DEF HitsOf
        <5>3. lanes[i] \in AnyLane
          BY <1>3, <5>2, LenProperties, ElementOfSeq
        <5>4. lanes[i].hits \in Seq(AnyRow)
          BY <5>3 DEF AnyLane
        <5>5. h \in AnyRow
          BY <5>2, <5>4, RangeOf
        <5> QED
          BY <5>5 DEF AnyRow
      <4> QED
        BY <3>3, <4>1, <4>2, <4>3
    <3> QED
      BY <3>3, <3>4
  <2> QED
    BY <2>2, <2>3
<1>6. OneRow(HitsOf(lanes))
  BY DEF SearchInv, SeenOnce, Seen, OneRow
<1>7. /\ f \in Seq(AnyRow)
      /\ \A i, j \in 1 .. Len(f) : f[i] = f[j] => i = j
  <2> PICK m \in Nat : \A h \in HitsOf(lanes) : h.id <= m
    BY <1>5
  <2> HIDE DEF n
  <2> QED
    BY <1>3, <1>4, <1>6, FusedOnce
<1> HIDE DEF f, n, k
<1>8. Seen' = Seen
  BY <1>1 DEF Seen
<1>9. SeenOnce' /\ SeenIssued'
  BY <1>1, <1>8, SeenLess DEF SearchInv
<1>10. searching'.at \in {"done", "rerank"}
  BY <1>2
<1>11. LaneDue' /\ NoSubstringYet' /\ TermsScanned'
  BY <1>10 DEF LaneDue, NoSubstringYet, TermsScanned
<1>12. RerankDue'
  BY <1>1, <1>3, <1>7, <1>10 DEF RerankDue
<1>13. TermsServed'
  BY <1>1 DEF SearchInv, TermsServed
<1>14. RerankLosesNothing'
  <2>1. CASE searching'.at = "rerank"
    BY <2>1 DEF RerankLosesNothing
  <2>2. CASE found' = First(fused', k)
    <3>1. found' = First(f, k)
      BY <1>1, <2>2
    <3>2. PICK at, g : Reranked(First(f, k), f, <<>>, k, at, g)
      BY <1>4, <1>7, UnpickedIs
    <3>3. NothingLost(First(f, k), f, <<>>, k)
      BY <1>4, <1>7, <3>2, RerankedComplete
    <3>4. NothingLost(found', fused', picked', K(query'))
      BY <1>1, <1>3, <3>1, <3>3 DEF k
    <3> QED
      BY <3>4 DEF NothingLost, RerankLosesNothing
  <2> QED
    BY <1>2, <2>1, <2>2
<1> QED
  BY <1>1, <1>3, <1>9, <1>11, <1>12, <1>13, <1>14 DEF SearchInv

LEMMA SearchReranks ==
  ASSUME SearchInv, RerankHits
  PROVE  SearchInv'
<1> DEFINE k == K(query)
           f == Rerank(fused, picked', k)
<1>1. /\ searching.at = "rerank" /\ searching' = [at |-> "done", n |-> 0]
      /\ picked' \in Picks /\ found' = f
      /\ UNCHANGED <<db, enabled, query, lanes, snapshot, perTerm, fused, moves>>
  BY DEF RerankHits, SearchAt, Goto
<1>2. /\ fused \in Seq(AnyRow)
      /\ \A i, j \in 1 .. Len(fused) : fused[i] = fused[j] => i = j
      /\ k \in Nat /\ picked' \in Seq(Int)
  BY <1>1, QueryShape, SearchAssumption DEF SearchInv, RerankDue
<1> HIDE DEF f, k
<1>3. NothingLost(f, fused, picked', k)
  <2> DEFINE p == picked'
             s == fused
  <2>1. /\ s \in Seq(AnyRow) /\ (\A i, j \in 1 .. Len(s) : s[i] = s[j] => i = j)
        /\ p \in Seq(Int) /\ k \in Nat /\ f = Rerank(s, p, k)
    BY <1>2 DEF f
  <2> HIDE DEF p, s
  <2>2. PICK at, g : Reranked(Rerank(s, p, k), s, p, k, at, g)
    BY <2>1, RerankIs
  <2>3. NothingLost(f, s, p, k)
    BY <2>1, <2>2, RerankedComplete
  <2> QED
    BY <2>3 DEF p, s
<1>4. RerankLosesNothing'
  <2>1. NothingLost(found', fused', picked', K(query'))
    BY <1>1, <1>3 DEF k
  <2> QED
    BY <2>1 DEF NothingLost, RerankLosesNothing
<1>5. Seen' = Seen
  BY <1>1 DEF Seen
<1>6. SeenOnce' /\ SeenIssued'
  BY <1>1, <1>5, SeenLess DEF SearchInv
<1>7. searching'.at = "done"
  BY <1>1
<1>8. LaneDue' /\ NoSubstringYet' /\ TermsScanned' /\ RerankDue'
  BY <1>7 DEF LaneDue, NoSubstringYet, TermsScanned, RerankDue
<1>9. TermsServed'
  BY <1>1 DEF SearchInv, TermsServed
<1> QED
  BY <1>1, <1>4, <1>6, <1>8, <1>9 DEF SearchInv

LEMMA SearchStopsShort ==
  ASSUME SearchInv, SearchFails
  PROVE  SearchInv'
<1>1. /\ searching' = [at |-> "failed", n |-> 0]
      /\ UNCHANGED <<db, enabled, query, lanes, snapshot, perTerm, fused, found, picked, moves>>
  BY DEF SearchFails, Goto
<1>2. searching'.at = "failed"
  BY <1>1
<1>3. Seen' = Seen
  BY <1>1 DEF Seen
<1>4. SeenOnce' /\ SeenIssued'
  BY <1>1, <1>3, SeenLess DEF SearchInv
<1>5. LaneDue' /\ NoSubstringYet' /\ TermsScanned' /\ RerankDue' /\ RerankLosesNothing'
  BY <1>2 DEF LaneDue, NoSubstringYet, TermsScanned, RerankDue, RerankLosesNothing
<1>6. TermsServed'
  BY <1>1 DEF SearchInv, TermsServed
<1> QED
  BY <1>1, <1>4, <1>5, <1>6 DEF SearchInv

(* What reranking kept stays while its lists do.                           *)
LEMMA RerankStays ==
  ASSUME RerankLosesNothing, UNCHANGED <<query, fused, found, picked, searching>>
  PROVE  RerankLosesNothing'
<1>1. (Pool > 0 /\ searching.at = "done" /\ query.texts # <<>>)
        => NothingLost(found, fused, picked, K(query))
  BY DEF RerankLosesNothing, NothingLost
<1>2. (Pool > 0 /\ searching'.at = "done" /\ query'.texts # <<>>)
        => NothingLost(found', fused', picked', K(query'))
  BY <1>1
<1> QED
  BY <1>2 DEF RerankLosesNothing, NothingLost

LEMMA SearchOutlivesWrite ==
  ASSUME SearchInv, ReindexFile
  PROVE  SearchInv'
<1>1. PICK id \in DOMAIN db :
        LET file == {x \in DOMAIN db : db[x].repo = db[id].repo /\ db[x].path = db[id].path}
            old  == InOrder([x \in file |-> {y \in file : y < x}])
            top  == CHOOSE m \in DOMAIN db : \A x \in DOMAIN db : x <= m
        IN  db' = [x \in (DOMAIN db \ file) \cup (top + 1 .. top + Len(old)) |->
                     IF x \in DOMAIN db THEN db[x] ELSE db[old[x - top]]]
  BY DEF ReindexFile
<1>2. UNCHANGED <<enabled, query, lanes, snapshot, perTerm, fused, found, picked, searching>>
  BY DEF ReindexFile
<1> DEFINE file == {x \in DOMAIN db : db[x].repo = db[id].repo /\ db[x].path = db[id].path}
           old == InOrder([x \in file |-> {y \in file : y < x}])
           top == CHOOSE m \in DOMAIN db : \A x \in DOMAIN db : x <= m
<1>3. db' = [x \in (DOMAIN db \ file) \cup (top + 1 .. top + Len(old)) |->
               IF x \in DOMAIN db THEN db[x] ELSE db[old[x - top]]]
  BY <1>1
<1>4. file \in SUBSET DOMAIN db /\ id \in file
  OBVIOUS
<1>5. top \in DOMAIN db /\ \A x \in DOMAIN db : x <= top
  <2> DEFINE D == DOMAIN db
  <2>1. D \subseteq Nat /\ IsFiniteSet(D) /\ D # {}
    BY DEF SearchInv, Tabled
  <2>2. \E m \in D : \A x \in D : x <= m
    <3> HIDE DEF D
    <3> QED
      BY <2>1, GreatestOf
  <2> QED
    BY <2>2
<1>6. old = InOrder([x \in file |-> {y \in file : y < x}])
  OBVIOUS
<1> HIDE DEF file, old, top
<1>7. Outgrows(db', db, top)
  <2> DEFINE d == db
             e == db'
  <2>1. /\ Tabled(d) /\ file \in SUBSET DOMAIN d /\ file # {}
        /\ top \in DOMAIN d /\ (\A x \in DOMAIN d : x <= top)
        /\ old = InOrder([x \in file |-> {y \in file : y < x}])
        /\ e = [x \in (DOMAIN d \ file) \cup (top + 1 .. top + Len(old)) |->
                  IF x \in DOMAIN d THEN d[x] ELSE d[old[x - top]]]
    BY <1>3, <1>4, <1>5, <1>6 DEF SearchInv
  <2> HIDE DEF d, e
  <2>2. Outgrows(e, d, top)
    BY ONLY <2>1, Rewritten
  <2> QED
    BY <2>2 DEF d, e
<1>8. Seen' = Rows(db') \cup Rows(snapshot.db) \cup HitsOf(lanes)
  BY <1>2 DEF Seen
<1>9. \A h \in Seen' : h \in Seen \/ (h \in Rows(db') /\ h.id > top)
  <2>1. \A h \in Rows(db') : h \in Rows(db) \/ h.id > top
    BY <1>7 DEF Rows, Outgrows
  <2> QED
    BY <1>8, <2>1 DEF Seen
<1>10. Seen \subseteq AnyRow
  <2>1. \A i \in DOMAIN lanes : Range(lanes[i].hits) \subseteq AnyRow
    <3> SUFFICES ASSUME NEW i \in DOMAIN lanes
                 PROVE  Range(lanes[i].hits) \subseteq AnyRow
      OBVIOUS
    <3>1. lanes[i] \in AnyLane
      BY LenProperties, ElementOfSeq DEF SearchInv
    <3>2. lanes[i].hits \in Seq(AnyRow)
      BY <3>1 DEF AnyLane
    <3> QED
      BY <3>2, RangeOf
  <2>2. Rows(db) \subseteq AnyRow /\ Rows(snapshot.db) \subseteq AnyRow
    BY RowsAre DEF SearchInv
  <2> QED
    BY <2>1, <2>2 DEF Seen, HitsOf
<1>11. /\ top \in Nat
       /\ \A h \in Seen : h.id \in Nat /\ h.id <= top
  <2>1. DOMAIN db \subseteq Nat
    BY DEF SearchInv, Tabled
  <2>2. \A h \in Seen : h.id \in Nat
    BY <1>10 DEF AnyRow
  <2>3. \A h \in Seen : \E x \in DOMAIN db : h.id <= x
    BY DEF SearchInv, SeenIssued
  <2> QED
    BY <1>5, <2>1, <2>2, <2>3
<1>12. SeenOnce'
  <2> SUFFICES ASSUME NEW a \in Seen', NEW b \in Seen', a.id = b.id
               PROVE  a = b
    BY DEF SeenOnce, OneRow
  <2>1. CASE a \in Seen /\ b \in Seen
    BY <2>1 DEF SearchInv, SeenOnce, OneRow
  <2>2. CASE a \notin Seen /\ b \notin Seen
    <3>1. a \in Rows(db') /\ b \in Rows(db')
      BY <1>9, <2>2
    <3> QED
      BY <3>1 DEF Rows
  <2>3. CASE a \in Seen /\ b \notin Seen
    BY <1>9, <1>11, <2>3
  <2>4. CASE a \notin Seen /\ b \in Seen
    BY <1>9, <1>11, <2>4
  <2> QED
    BY <2>1, <2>2, <2>3, <2>4
<1>13. SeenIssued'
  <2>1. PICK y \in DOMAIN db' : y > top /\ \A x \in DOMAIN db' : x <= y
    BY <1>7 DEF Outgrows
  <2>2. y \in Nat
    BY <1>7, <2>1 DEF Tabled, Outgrows
  <2>3. ASSUME NEW h \in Seen'
        PROVE  h.id <= y
    <3>1. CASE h \in Seen
      BY <1>11, <2>1, <2>2, <3>1
    <3>2. CASE h \in Rows(db')
      BY <2>1, <3>2 DEF Rows
    <3> QED
      BY <1>9, <3>1, <3>2
  <2>4. \A h \in Seen' : \E x \in DOMAIN db' : h.id <= x
    BY <2>1, <2>3
  <2> QED
    BY <2>4 DEF SeenIssued
<1>14. LaneDue' /\ NoSubstringYet' /\ TermsScanned' /\ RerankDue'
  <2>1. Rungs(query)' = Rungs(query) /\ Kept(snapshot, query)' = Kept(snapshot, query)
    BY <1>2
  <2> QED
    BY <1>2, <2>1 DEF SearchInv, LaneDue, NoSubstringYet, TermsScanned, RerankDue
<1>15. TermsServed' /\ RerankLosesNothing'
  <2>1. TermsServed'
    BY <1>2 DEF SearchInv, TermsServed
  <2>2. RerankLosesNothing'
    BY <1>2, RerankStays DEF SearchInv
  <2> QED
    BY <2>1, <2>2
<1>16. query' \in Queries /\ Tabled(snapshot.db)' /\ Tabled(db)' /\ lanes' \in Seq(AnyLane)
  BY <1>2, <1>7 DEF SearchInv, Outgrows
<1> QED
  BY <1>12, <1>13, <1>14, <1>15, <1>16 DEF SearchInv

\* All the search reads and writes but which repositories are enabled.
LEMMA SearchStays ==
  ASSUME SearchInv,
         UNCHANGED <<db, query, lanes, snapshot, perTerm, fused, found, picked, searching>>
  PROVE  SearchInv'
<1>1. Seen' = Seen
  BY DEF Seen
<1>2. SeenOnce' /\ SeenIssued'
  BY <1>1, SeenLess DEF SearchInv
<1>3. LaneDue' /\ NoSubstringYet' /\ TermsScanned' /\ RerankDue'
  BY DEF SearchInv, LaneDue, NoSubstringYet, TermsScanned, RerankDue
<1>4. TermsServed'
  BY DEF SearchInv, TermsServed
<1>5. RerankLosesNothing'
  BY RerankStays DEF SearchInv
<1> QED
  BY <1>2, <1>3, <1>4, <1>5 DEF SearchInv

(* What a search has seen and is made of holds through it.                 *)
LEMMA SearchHolds == SearchSpec => []SearchInv
<1>1. SearchInv /\ [SearchNext]_searchVars => SearchInv'
  <2> SUFFICES ASSUME SearchInv, [SearchNext]_searchVars
               PROVE  SearchInv'
    OBVIOUS
  <2>1. CASE EmbedTexts
    BY <2>1, SearchEmbeds
  <2>2. CASE SearchSemantic
    BY <2>2, SearchIsSemantic
  <2>3. CASE SearchKeyword
    BY <2>3, SearchIsKeyword
  <2>4. CASE CountTerms
    BY <2>4, SearchCounts
  <2>5. CASE ScanTerms
    BY <2>5, SearchScans
  <2>6. CASE FetchTerms
    BY <2>6, SearchFetches
  <2>7. CASE FuseLanes
    BY <2>7, SearchFuses
  <2>8. CASE RerankHits
    BY <2>8, SearchReranks
  <2>9. CASE SearchFails
    BY <2>9, SearchStopsShort
  <2>10. CASE ReindexFile
    BY <2>10, SearchOutlivesWrite
  <2>11. CASE ParkRepo
    BY <2>11, SearchStays DEF ParkRepo
  <2>12. CASE UNCHANGED searchVars
    BY <2>12, SearchStays DEF searchVars
  <2> QED
    BY <2>1, <2>2, <2>3, <2>4, <2>5, <2>6, <2>7, <2>8, <2>9, <2>10, <2>11, <2>12 DEF SearchNext
<1> QED
  BY <1>1, SearchStarts, PTL DEF SearchSpec

(* No list a search gives loses a hit it owes, whatever is indexed or       *)
(* parked while it runs: every kept term's best match is in the substring   *)
(* lane, and reranking only reorders.                                       *)
THEOREM ListsAreComplete == SearchSpec => []ListsComplete
<1>1. SearchInv => ListsComplete
  BY DEF SearchInv, ListsComplete
<1> QED
  BY <1>1, SearchHolds, PTL

-----------------------------------------------------------------------------
(* An unchanged corpus.                                                    *)

\* Two states that differ in the ids alone: f renames those of s to those of r.
Alike(f, s, r) ==
  /\ Tabled(s.db) /\ Tabled(r.db) /\ r.on = s.on
  /\ Renames(f, DOMAIN s.db, DOMAIN r.db)
  /\ \A x \in DOMAIN s.db : r.db[f[x]] = s.db[x]

(* They have the same rows in the scope of a query and in its matches.     *)
LEMMA AlikeScoped ==
  ASSUME NEW s, NEW r, NEW f, Alike(f, s, r), NEW q
  PROVE  /\ Scoped(r, q) = Renamed(f, Scoped(s, q))
         /\ \A term : Matches(r, q, term) = Renamed(f, Matches(s, q, term))
<1>1. \A x \in DOMAIN s.db : f[x] \in DOMAIN r.db /\ r.db[f[x]] = s.db[x]
  BY DEF Alike, Renames
<1>2. \A z \in DOMAIN r.db : \E x \in DOMAIN s.db : f[x] = z
  BY DEF Alike, Renames
<1>3. \A x \in DOMAIN s.db : x \in Scoped(s, q) <=> f[x] \in Scoped(r, q)
  <2>1. r.on = s.on
    BY DEF Alike
  <2> QED
    BY <1>1, <2>1 DEF Scoped
<1>4. Scoped(s, q) \subseteq DOMAIN s.db /\ Scoped(r, q) \subseteq DOMAIN r.db
  BY InTheTable
<1>5. Scoped(r, q) = Renamed(f, Scoped(s, q))
  BY <1>2, <1>3, <1>4 DEF Renamed
<1>6. ASSUME NEW term
      PROVE  Matches(r, q, term) = Renamed(f, Matches(s, q, term))
  <2>1. \A x \in DOMAIN s.db : x \in Matches(s, q, term) <=> f[x] \in Matches(r, q, term)
    BY <1>1, <1>3 DEF Matches
  <2>2. Matches(s, q, term) \subseteq DOMAIN s.db /\ Matches(r, q, term) \subseteq DOMAIN r.db
    BY InTheTable
  <2> QED
    BY <1>2, <2>1, <2>2 DEF Renamed
<1> QED
  BY <1>5, <1>6

(* So a term is a hub in both or in neither, and the same terms are kept.  *)
LEMMA AlikeKept ==
  ASSUME NEW s, NEW r, NEW f, Alike(f, s, r), NEW q
  PROVE  Kept(r, q) = Kept(s, q)
<1>1. IsFiniteSet(DOMAIN s.db) /\ Renames(f, DOMAIN s.db, DOMAIN r.db)
  BY DEF Alike, Tabled
<1>2. Cardinality(Scoped(r, q)) = Cardinality(Scoped(s, q))
  <2>1. Scoped(s, q) \in SUBSET DOMAIN s.db /\ Scoped(r, q) = Renamed(f, Scoped(s, q))
    BY AlikeScoped, InTheTable
  <2> QED
    BY <1>1, <2>1, RenamesCount
<1>3. ASSUME NEW term
      PROVE  /\ Cardinality(Matches(r, q, term)) = Cardinality(Matches(s, q, term))
             /\ Matches(r, q, term) # {} <=> Matches(s, q, term) # {}
  <2>1. Matches(s, q, term) \in SUBSET DOMAIN s.db
    BY InTheTable
  <2>2. Matches(r, q, term) = Renamed(f, Matches(s, q, term))
    BY AlikeScoped
  <2>3. Cardinality(Matches(r, q, term)) = Cardinality(Matches(s, q, term))
    BY <1>1, <2>1, <2>2, RenamesCount
  <2>4. Matches(r, q, term) # {} <=> Matches(s, q, term) # {}
    BY <2>2 DEF Renamed
  <2> QED
    BY <2>3, <2>4
<1>4. \A term : Hub(r, q, term) <=> Hub(s, q, term)
  BY <1>2, <1>3 DEF Hub
<1>5. {i \in DOMAIN q.terms : Matches(r, q, q.terms[i]) # {} /\ ~Hub(r, q, q.terms[i])} =
      {i \in DOMAIN q.terms : Matches(s, q, q.terms[i]) # {} /\ ~Hub(s, q, q.terms[i])}
  BY <1>3, <1>4
<1> QED
  BY <1>5 DEF Kept

(* A measure that is of the chunks orders both alike.                      *)
LEMMA OrderedMoves ==
  ASSUME NEW s, NEW r, NEW f, Alike(f, s, r), NEW S \in SUBSET DOMAIN s.db,
         NEW m \in [S -> Int], NEW n \in [Renamed(f, S) -> Int], \A x \in S : n[f[x]] = m[x]
  PROVE  Ordered(r, n) = ListRenamed(f, Ordered(s, m))
<1> DEFINE T == Renamed(f, S)
           A == [x \in S |-> {y \in S : AddressBelow(s.db[y], s.db[x])}]
           B == [x \in S |-> {y \in S : m[y] < m[x] \/ (m[y] = m[x] /\ y \in A[x])}]
           D == [x \in S |-> {y \in S : \/ m[y] < m[x]
                                        \/ m[y] = m[x] /\ AddressBelow(s.db[y], s.db[x])}]
           C == [x \in T |-> {y \in T : \/ n[y] < n[x]
                                        \/ n[y] = n[x] /\ AddressBelow(r.db[y], r.db[x])}]
<1>1. IsFiniteSet(S) /\ Renames(f, S, T) /\ T \in SUBSET DOMAIN r.db
  <2>1. IsFiniteSet(DOMAIN s.db) /\ Renames(f, DOMAIN s.db, DOMAIN r.db)
    BY DEF Alike, Tabled
  <2>2. IsFiniteSet(S)
    BY <2>1, FS_Subset
  <2> QED
    BY <2>1, <2>2, RenamesPart
<1>2. Orders(A, S)
  BY AddressOrdered DEF Alike
<1>3. B = D
  <2>1. \A x \in S : B[x] = D[x]
    OBVIOUS
  <2> QED
    BY <2>1
<1>4. Orders(B, S)
  <2> HIDE DEF A
  <2> QED
    BY <1>2, MeasureOrdered
<1>5. Ordered(s, m) = InOrder(D) /\ Ordered(r, n) = InOrder(C)
  BY DEF Ordered
<1>6. \A x \in S : f[x] \in T /\ r.db[f[x]] = s.db[x] /\ n[f[x]] = m[x]
  BY DEF Alike, Renamed
<1>7. \A x, y \in S : y \in D[x] <=> \/ m[y] < m[x]
                                     \/ m[y] = m[x] /\ AddressBelow(s.db[y], s.db[x])
  OBVIOUS
<1>8. \A x, y \in T : y \in C[x] <=> \/ n[y] < n[x]
                                     \/ n[y] = n[x] /\ AddressBelow(r.db[y], r.db[x])
  OBVIOUS
<1>9. C \in [T -> SUBSET T]
  OBVIOUS
<1> HIDE DEF A, B, C, D, T
<1>10. \A x, y \in S : f[y] \in C[f[x]] <=> y \in D[x]
  BY <1>6, <1>7, <1>8
<1>11. InOrder(C) = ListRenamed(f, InOrder(D))
  BY <1>1, <1>3, <1>4, <1>9, <1>10, InOrderMoves
<1> QED
  BY <1>5, <1>11

(* Lists are renamed place by place.                                       *)
LEMMA MovedIs ==
  ASSUME NEW X, NEW s \in Seq(X), NEW f
  PROVE  /\ Len(ListRenamed(f, s)) = Len(s) /\ Len(s) \in Nat
         /\ DOMAIN ListRenamed(f, s) = 1 .. Len(s)
         /\ \A i \in 1 .. Len(s) : s[i] \in X /\ ListRenamed(f, s)[i] = f[s[i]]
         /\ \A Y : (\A x \in X : f[x] \in Y) => ListRenamed(f, s) \in Seq(Y)
<1> DEFINE l == Len(s)
           t == ListRenamed(f, s)
<1>1. l \in Nat /\ \A i \in 1 .. l : s[i] \in X
  BY LenProperties, ElementOfSeq
<1>2. t = [i \in 1 .. l |-> f[s[i]]]
  BY DEF ListRenamed
<1> HIDE DEF l, t
<1>3. Len(t) = l /\ DOMAIN t = 1 .. l
  BY <1>1, <1>2
<1>4. ASSUME NEW Y, \A x \in X : f[x] \in Y
      PROVE  t \in Seq(Y)
  <2>1. t \in [1 .. l -> Y]
    BY <1>1, <1>2, <1>4
  <2> QED
    BY <1>1, <2>1
<1> QED
  BY <1>1, <1>2, <1>3, <1>4 DEF l, t

LEMMA FirstMoves ==
  ASSUME NEW X, NEW s \in Seq(X), NEW f, NEW n \in Nat
  PROVE  First(ListRenamed(f, s), n) = ListRenamed(f, First(s, n))
<1> DEFINE t == ListRenamed(f, s)
           Y == {f[x] : x \in X}
           a == First(t, n)
           b == First(s, n)
<1>1. /\ Len(t) = Len(s) /\ t \in Seq(Y)
      /\ \A i \in 1 .. Len(s) : t[i] = f[s[i]]
  BY MovedIs
<1> HIDE DEF t, Y
<1>2. /\ Len(b) = (IF Len(s) < n THEN Len(s) ELSE n) /\ Len(b) \in Nat /\ b \in Seq(X)
      /\ \A i \in 1 .. Len(b) : i \in 1 .. Len(s) /\ b[i] = s[i]
  BY FirstIs
<1>3. /\ Len(a) = (IF Len(t) < n THEN Len(t) ELSE n) /\ a \in Seq(Y)
      /\ \A i \in 1 .. Len(a) : a[i] = t[i]
  BY <1>1, FirstIs
<1> HIDE DEF a, b
<1>4. Len(a) = Len(b)
  BY <1>1, <1>2, <1>3
<1>5. \A i \in 1 .. Len(b) : a[i] = f[b[i]]
  BY <1>1, <1>2, <1>3, <1>4
<1>6. a = [i \in 1 .. Len(b) |-> a[i]]
  <2>1. a \in [1 .. Len(a) -> Y]
    BY <1>3, LenProperties
  <2> QED
    BY <1>4, <2>1
<1>7. a = ListRenamed(f, b)
  BY <1>5, <1>6 DEF ListRenamed
<1> QED
  BY <1>7 DEF a, b, t


\* Rows under the ids that f gives theirs.
RowRenamed(f, h) == [id |-> f[h.id], chunk |-> h.chunk]
RowsRenamed(f, hs) == [i \in 1 .. Len(hs) |-> RowRenamed(f, hs[i])]

(* The hits of renamed ids are the renamed hits.                           *)
LEMMA HitsMove ==
  ASSUME NEW s, NEW r, NEW f, Alike(f, s, r), NEW ids \in Seq(DOMAIN s.db)
  PROVE  Hits(r, ListRenamed(f, ids)) = RowsRenamed(f, Hits(s, ids))
<1> DEFINE n == Len(ids)
           js == ListRenamed(f, ids)
           hs == Hits(s, ids)
<1>1. /\ Len(js) = n /\ n \in Nat
      /\ \A i \in 1 .. n : ids[i] \in DOMAIN s.db /\ js[i] = f[ids[i]]
  BY MovedIs
<1>2. \A x \in DOMAIN s.db : r.db[f[x]] = s.db[x]
  BY DEF Alike
<1>3. hs = [i \in 1 .. n |-> [id |-> ids[i], chunk |-> s.db[ids[i]]]]
  BY DEF Hits
<1>4. Hits(r, js) = [i \in 1 .. Len(js) |-> [id |-> js[i], chunk |-> r.db[js[i]]]]
  BY DEF Hits
<1> HIDE DEF n, js, hs
<1>5. Len(hs) = n /\ \A i \in 1 .. n : hs[i] = [id |-> ids[i], chunk |-> s.db[ids[i]]]
  BY <1>1, <1>3
<1>6. \A i \in 1 .. n : RowRenamed(f, hs[i]) = [id |-> js[i], chunk |-> r.db[js[i]]]
  BY <1>1, <1>2, <1>5 DEF RowRenamed
<1>7. RowsRenamed(f, hs) = [i \in 1 .. n |-> RowRenamed(f, hs[i])]
  BY <1>5 DEF RowsRenamed
<1> QED
  BY <1>1, <1>4, <1>6, <1>7 DEF js, hs

(* What one state may give for a text the other may give too, renamed.     *)
LEMMA SemanticMoves ==
  ASSUME NEW s, NEW r, NEW f, Alike(f, s, r), NEW q \in Queries, NEW t \in Range(q.texts),
         NEW ids \in SemanticLanes(s, q, t)
  PROVE  ListRenamed(f, ids) \in SemanticLanes(r, q, t)
<1> DEFINE dist(x) == IF s.db[x].near[t] = 0 THEN 3 ELSE s.db[x].near[t]
           away(x) == IF r.db[x].near[t] = 0 THEN 3 ELSE r.db[x].near[t]
           rows == Scoped(s, q)
           size == IF Cardinality(rows) < Depth(q) THEN Cardinality(rows) ELSE Depth(q)
           there == Scoped(r, q)
           large == IF Cardinality(there) < Depth(q) THEN Cardinality(there) ELSE Depth(q)
<1>1. PICK S \in SUBSET rows :
        /\ Cardinality(S) = size
        /\ \A x \in S, y \in rows \ S : dist(x) <= dist(y)
        /\ ids = Ordered(s, [x \in {x \in S : dist(x) < 3} |-> dist(x)])
  BY DEF SemanticLanes
<1> DEFINE T == Renamed(f, S)
           close == {x \in S : dist(x) < 3}
           near == {x \in T : away(x) < 3}
           m == [x \in close |-> dist(x)]
           n == [x \in near |-> away(x)]
<1>2. /\ IsFiniteSet(DOMAIN s.db) /\ Renames(f, DOMAIN s.db, DOMAIN r.db)
      /\ \A x \in DOMAIN s.db : f[x] \in DOMAIN r.db /\ r.db[f[x]] = s.db[x]
      /\ \A x, y \in DOMAIN s.db : f[x] = f[y] => x = y
  BY DEF Alike, Tabled, Renames
<1>3. rows \in SUBSET DOMAIN s.db /\ S \in SUBSET DOMAIN s.db /\ there = Renamed(f, rows)
  BY <1>1, AlikeScoped, InTheTable
<1>4. Cardinality(there) = Cardinality(rows) /\ Cardinality(T) = Cardinality(S)
  <2> HIDE DEF rows, there
  <2> QED
    BY <1>2, <1>3, RenamesCount
<1>5. T \in SUBSET there /\ Cardinality(T) = large
  <2>1. T \in SUBSET there
    BY <1>1, <1>3 DEF Renamed
  <2> QED
    BY <1>1, <1>4, <2>1
<1>6. \A x \in DOMAIN s.db : away(f[x]) = dist(x)
  BY <1>2
<1>7. \A x \in T, y \in there \ T : away(x) <= away(y)
  <2> SUFFICES ASSUME NEW x \in T, NEW y \in there \ T
               PROVE  away(x) <= away(y)
    OBVIOUS
  <2>1. PICK a \in S : f[a] = x
    BY DEF Renamed
  <2>2. PICK b \in rows : f[b] = y
    BY <1>3 DEF Renamed
  <2>3. b \notin S
    BY <2>2 DEF Renamed
  <2>4. dist(a) <= dist(b)
    BY <1>1, <2>2, <2>3
  <2>5. away(x) = dist(a) /\ away(y) = dist(b)
    BY <1>3, <1>6, <2>1, <2>2
  <2> QED
    BY <2>4, <2>5
<1>8. close \in SUBSET DOMAIN s.db /\ near = Renamed(f, close)
  <2>1. \A x \in S : x \in DOMAIN s.db /\ away(f[x]) = dist(x)
    BY <1>3, <1>6
  <2> HIDE DEF away, dist
  <2> QED
    BY <1>3, <2>1 DEF Renamed
<1>9. \A x \in DOMAIN s.db : dist(x) \in Int
  <2>1. \A x \in DOMAIN s.db : s.db[x] \in Stored
    BY DEF Alike, Tabled
  <2>2. \A x \in DOMAIN s.db : s.db[x].near[t] \in 0 .. 2
    BY <2>1, StoredChunk
  <2> QED
    BY <2>2
<1>10. m \in [close -> Int] /\ n \in [Renamed(f, close) -> Int] /\ \A x \in close : n[f[x]] = m[x]
  <2>1. \A x \in close : m[x] = dist(x) /\ f[x] \in near /\ n[f[x]] = away(f[x])
    BY <1>8 DEF Renamed
  <2>2. \A x \in close : dist(x) \in Int /\ away(f[x]) = dist(x)
    BY <1>6, <1>8, <1>9
  <2>3. \A z \in near : away(z) \in Int
    <3> SUFFICES ASSUME NEW z \in near
                 PROVE  away(z) \in Int
      OBVIOUS
    <3>1. PICK x \in close : z = f[x]
      BY <1>8 DEF Renamed
    <3> QED
      BY <2>2, <3>1
  <2> HIDE DEF away, dist
  <2>4. m \in [close -> Int] /\ n \in [near -> Int]
    <3> HIDE DEF close, near
    <3>1. \A x \in close : dist(x) \in Int
      BY <2>2
    <3> QED
      BY <2>3, <3>1
  <2> QED
    BY <1>8, <2>1, <2>2, <2>4
<1>11. Ordered(r, n) = ListRenamed(f, Ordered(s, m))
  <2> HIDE DEF close, near, m, n
  <2> QED
    BY <1>8, <1>10, OrderedMoves
<1>12. Ordered(r, n) \in SemanticLanes(r, q, t)
  <2>1. SemanticLanes(r, q, t) =
          {Ordered(r, [x \in {x \in U : away(x) < 3} |-> away(x)]) :
             U \in {U \in SUBSET there : /\ Cardinality(U) = large
                                         /\ \A x \in U, y \in there \ U : away(x) <= away(y)}}
    BY DEF SemanticLanes
  <2> HIDE DEF T, there, large, away
  <2> QED
    BY <1>5, <1>7, <2>1
<1>13. ids = Ordered(s, m)
  BY <1>1
<1> QED
  BY <1>11, <1>12, <1>13

(* A keyword lane of one is that of the other, renamed.                    *)
LEMMA KeywordMoves ==
  ASSUME NEW s, NEW r, NEW f, Alike(f, s, r), NEW q \in Queries, NEW t \in Range(q.texts), NEW tier
  PROVE  KeywordLane(r, q, t, tier) = ListRenamed(f, KeywordLane(s, q, t, tier))
<1> DEFINE reached == {x \in Scoped(s, q) : s.db[x].words[t] >= Rung[tier]}
           there == {x \in Scoped(r, q) : r.db[x].words[t] >= Rung[tier]}
           m == [x \in reached |-> 0 - s.db[x].words[t]]
           n == [x \in there |-> 0 - r.db[x].words[t]]
           d == Depth(q)
<1>1. \A x \in DOMAIN s.db : r.db[f[x]] = s.db[x]
  BY DEF Alike
<1>2. Scoped(s, q) \subseteq DOMAIN s.db /\ Scoped(r, q) = Renamed(f, Scoped(s, q))
  BY AlikeScoped, InTheTable
<1>3. reached \in SUBSET DOMAIN s.db /\ there = Renamed(f, reached)
  BY <1>1, <1>2 DEF Renamed
<1>4. \A x \in reached : 0 - s.db[x].words[t] \in Int
  <2>1. \A x \in reached : s.db[x] \in Stored
    BY <1>3 DEF Alike, Tabled
  <2>2. \A x \in reached : s.db[x].words[t] \in 0 .. 3
    BY <2>1, StoredChunk
  <2> QED
    BY <2>2
<1>5. \A z \in there : \E x \in reached : z = f[x] /\ r.db[z] = s.db[x]
  BY <1>1, <1>3 DEF Renamed
<1>6. \A x \in reached : f[x] \in there /\ r.db[f[x]] = s.db[x]
  BY <1>1, <1>3 DEF Renamed
<1>7. KeywordLane(r, q, t, tier) = First(Ordered(r, n), d) /\ KeywordLane(s, q, t, tier) = First(Ordered(s, m), d)
  BY DEF KeywordLane
<1>8. d \in Nat
  BY QueryShape
<1>9. /\ \A x \in reached : m[x] = 0 - s.db[x].words[t]
      /\ \A x \in there : n[x] = 0 - r.db[x].words[t]
      /\ DOMAIN m = reached /\ DOMAIN n = there
      /\ m = [x \in reached |-> m[x]] /\ n = [x \in there |-> n[x]]
  OBVIOUS
<1> HIDE DEF reached, there, m, n, d
<1>10. \A x \in there : n[x] \in Int
  BY <1>4, <1>5, <1>9
<1>11. m \in [reached -> Int] /\ n \in [Renamed(f, reached) -> Int]
  BY <1>3, <1>4, <1>9, <1>10
<1>12. \A x \in reached : n[f[x]] = m[x]
  BY <1>6, <1>9
<1>13. Ordered(r, n) = ListRenamed(f, Ordered(s, m))
  BY <1>3, <1>11, <1>12, OrderedMoves
<1>14. Ordered(s, m) \in Seq(DOMAIN s.db)
  <2>1. Tabled(s.db)
    BY DEF Alike
  <2>2. Enumerates(Ordered(s, m), reached)
    BY <1>3, <1>11, <2>1, OrderedLists
  <2> QED
    BY <1>3, <2>2 DEF Enumerates
<1>15. First(ListRenamed(f, Ordered(s, m)), d) = ListRenamed(f, First(Ordered(s, m), d))
  BY <1>8, <1>14, FirstMoves
<1> QED
  BY <1>7, <1>13, <1>15

(* And so are a term's matches.                                            *)
LEMMA TermMoves ==
  ASSUME NEW s, NEW r, NEW f, Alike(f, s, r), NEW q \in Queries, NEW term
  PROVE  /\ TermMatches(r, q, term) = ListRenamed(f, TermMatches(s, q, term))
         /\ TermMatches(s, q, term) \in Seq(DOMAIN s.db)
<1> DEFINE met == Matches(s, q, term)
           there == Matches(r, q, term)
           m == [x \in met |-> KindRank(s.db[x])]
           n == [x \in there |-> KindRank(r.db[x])]
           d == Depth(q)
<1>1. \A x \in DOMAIN s.db : r.db[f[x]] = s.db[x]
  BY DEF Alike
<1>2. met \in SUBSET DOMAIN s.db /\ there = Renamed(f, met)
  BY AlikeScoped, InTheTable
<1>4. \A x \in met : KindRank(s.db[x]) \in Int
  <2>1. \A x \in met : s.db[x] \in Stored
    BY <1>2 DEF Alike, Tabled
  <2>2. \A x \in met : s.db[x].kind \in {"code", "test", "doc"}
    BY <2>1, StoredChunk
  <2> QED
    BY <2>2 DEF KindRank
<1>7. TermMatches(r, q, term) = First(Ordered(r, n), d) /\ TermMatches(s, q, term) = First(Ordered(s, m), d)
  BY DEF TermMatches
<1>8. d \in Nat
  BY QueryShape
<1>9. /\ \A x \in met : m[x] = KindRank(s.db[x])
      /\ \A x \in there : n[x] = KindRank(r.db[x])
      /\ m = [x \in met |-> m[x]] /\ n = [x \in there |-> n[x]]
  OBVIOUS
<1> HIDE DEF met, there, m, n, d
<1>5. \A z \in there : \E x \in met : z = f[x] /\ r.db[z] = s.db[x]
  BY <1>1, <1>2 DEF Renamed
<1>6. \A x \in met : f[x] \in there /\ r.db[f[x]] = s.db[x]
  BY <1>1, <1>2 DEF Renamed
<1>10. \A x \in there : n[x] \in Int
  BY <1>4, <1>5, <1>9
<1>11. m \in [met -> Int] /\ n \in [Renamed(f, met) -> Int]
  BY <1>2, <1>4, <1>9, <1>10
<1>12. \A x \in met : n[f[x]] = m[x]
  BY <1>6, <1>9
<1>13. Ordered(r, n) = ListRenamed(f, Ordered(s, m))
  BY <1>2, <1>11, <1>12, OrderedMoves
<1>14. Ordered(s, m) \in Seq(DOMAIN s.db)
  <2>1. Tabled(s.db)
    BY DEF Alike
  <2>2. Enumerates(Ordered(s, m), met)
    BY <1>2, <1>11, <2>1, OrderedLists
  <2> QED
    BY <1>2, <2>2 DEF Enumerates
<1>15. /\ First(ListRenamed(f, Ordered(s, m)), d) = ListRenamed(f, First(Ordered(s, m), d))
       /\ First(Ordered(s, m), d) \in Seq(DOMAIN s.db)
  BY <1>8, <1>14, FirstMoves, FirstIs
<1> QED
  BY <1>7, <1>13, <1>15

(* The round robin over renamed lists visits the same places.              *)
LEMMA RoundRobinMoves ==
  ASSUME NEW X, NEW ids \in Seq(Seq(X)), NEW n \in Nat,
         NEW f, \A x, y \in X : f[x] = f[y] => x = y,
         NEW js, js = [t \in 1 .. Len(ids) |-> ListRenamed(f, ids[t])]
  PROVE  RoundRobin(js, n) = ListRenamed(f, RoundRobin(ids, n))
<1> DEFINE Y == {f[x] : x \in X}
           L == Len(ids)
           F == FirstPlaces(ids, n)
           at == InRows(F)
           s == [i \in 1 .. Len(at) |-> ids[at[i][2]][at[i][1]]]
           u == [i \in 1 .. Len(at) |-> js[at[i][2]][at[i][1]]]
<1>1. L \in Nat /\ \A t \in 1 .. L : ids[t] \in Seq(X)
  BY LenProperties, ElementOfSeq
<1>2. /\ Len(js) = L /\ DOMAIN js = 1 .. L
      /\ \A t \in 1 .. L : js[t] = ListRenamed(f, ids[t])
  BY <1>1
<1>3. ASSUME NEW t \in 1 .. L
      PROVE  /\ js[t] \in Seq(Y) /\ Len(js[t]) = Len(ids[t]) /\ Len(ids[t]) \in Nat
             /\ \A d \in 1 .. Len(ids[t]) : ids[t][d] \in X /\ js[t][d] = f[ids[t][d]]
  <2>1. ids[t] \in Seq(X) /\ js[t] = ListRenamed(f, ids[t])
    BY <1>1, <1>2
  <2>2. \A x \in X : f[x] \in Y
    OBVIOUS
  <2> HIDE DEF Y
  <2>3. \A Z : (\A x \in X : f[x] \in Z) => ListRenamed(f, ids[t]) \in Seq(Z)
    BY ONLY <2>1, MovedIs
  <2>4. /\ Len(ListRenamed(f, ids[t])) = Len(ids[t]) /\ Len(ids[t]) \in Nat
        /\ \A d \in 1 .. Len(ids[t]) : ids[t][d] \in X /\ ListRenamed(f, ids[t])[d] = f[ids[t][d]]
    BY ONLY <2>1, MovedIs
  <2> QED
    BY <2>1, <2>2, <2>3, <2>4
<1>4. js \in Seq(Seq(Y))
  <2>1. js = [t \in 1 .. L |-> js[t]] /\ \A t \in 1 .. L : js[t] \in Seq(Y)
    BY <1>2, <1>3
  <2> HIDE DEF Y, L
  <2>2. js \in [1 .. L -> Seq(Y)]
    BY <2>1
  <2> QED
    BY <1>1, <2>2
<1>5. Places(js, n) = Places(ids, n)
  <2>1. \A t \in 1 .. L : Len(js[t]) = Len(ids[t])
    BY <1>3
  <2> QED
    BY <1>2, <2>1 DEF Places
<1>6. \A p \in Places(ids, n) :
        /\ p[2] \in 1 .. L /\ p[1] \in 1 .. Len(ids[p[2]])
        /\ ids[p[2]][p[1]] \in X /\ js[p[2]][p[1]] = f[ids[p[2]][p[1]]]
  <2> SUFFICES ASSUME NEW p \in Places(ids, n)
               PROVE  /\ p[2] \in 1 .. L /\ p[1] \in 1 .. Len(ids[p[2]])
                      /\ ids[p[2]][p[1]] \in X /\ js[p[2]][p[1]] = f[ids[p[2]][p[1]]]
    OBVIOUS
  <2> DEFINE d == p[1]
             t == p[2]
  <2>1. d \in 1 .. n /\ t \in 1 .. L /\ d <= Len(ids[t])
    BY DEF Places
  <2> HIDE DEF d, t
  <2>2. Len(ids[t]) \in Nat
    BY <1>3, <2>1
  <2>3. d \in 1 .. Len(ids[t])
    BY <2>1, <2>2
  <2>4. ids[t][d] \in X /\ js[t][d] = f[ids[t][d]]
    BY <1>3, <2>1, <2>3
  <2> QED
    BY <2>1, <2>3, <2>4 DEF d, t
<1>7. FirstPlaces(js, n) = F
  <2> DEFINE P == Places(ids, n)
  <2>1. ASSUME NEW p \in P, NEW r \in P
        PROVE  js[r[2]][r[1]] # js[p[2]][p[1]] <=> ids[r[2]][r[1]] # ids[p[2]][p[1]]
    <3> DEFINE a == ids[p[2]][p[1]]
               b == ids[r[2]][r[1]]
    <3>1. a \in X /\ js[p[2]][p[1]] = f[a]
      BY <1>6
    <3>2. b \in X /\ js[r[2]][r[1]] = f[b]
      BY <1>6
    <3> HIDE DEF a, b, P
    <3>3. f[a] = f[b] => a = b
      BY <3>1, <3>2
    <3> QED
      BY <3>1, <3>2, <3>3 DEF a, b
  <2>2. FirstPlaces(js, n) =
          {p \in P : \A r \in P :
             (r[1] < p[1] \/ (r[1] = p[1] /\ r[2] < p[2])) => js[r[2]][r[1]] # js[p[2]][p[1]]}
    BY <1>5 DEF FirstPlaces
  <2>3. F =
          {p \in P : \A r \in P :
             (r[1] < p[1] \/ (r[1] = p[1] /\ r[2] < p[2])) => ids[r[2]][r[1]] # ids[p[2]][p[1]]}
    BY DEF FirstPlaces
  <2> HIDE DEF P, F
  <2> QED
    BY <2>1, <2>2, <2>3
<1>8. /\ F \subseteq Places(ids, n) /\ Lists(at, RowOrder(F), F)
      /\ RoundRobin(ids, n) = First(s, n) /\ s \in Seq(X)
  BY RoundRobinVisits
<1>9. RoundRobin(js, n) = First(u, n)
  <2> DEFINE G == FirstPlaces(js, n)
             ut == InRows(G)
  <2> HIDE DEF Y
  <2>0. js \in Seq(Seq(Y)) /\ n \in Nat
    BY <1>4
  <2>1. /\ G \subseteq Places(js, n) /\ Lists(ut, RowOrder(G), G)
        /\ RoundRobin(js, n) = First([i \in 1 .. Len(ut) |-> js[ut[i][2]][ut[i][1]]], n)
        /\ [i \in 1 .. Len(ut) |-> js[ut[i][2]][ut[i][1]]] \in Seq(Y)
    BY ONLY <2>0, RoundRobinVisits
  <2>2. ut = at
    BY <1>7
  <2> HIDE DEF ut, at
  <2> QED
    BY <2>1, <2>2
<1>10. Len(at) \in Nat /\ \A i \in 1 .. Len(at) : at[i] \in Places(ids, n)
  <2> HIDE DEF F, at
  <2> QED
    BY <1>8, ElementOfSeq DEF Lists
<1>11. u = ListRenamed(f, s)
  <2>1. Len(s) = Len(at)
    BY <1>10
  <2>2. \A i \in 1 .. Len(at) : js[at[i][2]][at[i][1]] = f[ids[at[i][2]][at[i][1]]]
    BY <1>6, <1>10
  <2>3. \A i \in 1 .. Len(at) : s[i] = ids[at[i][2]][at[i][1]]
    OBVIOUS
  <2>4. ListRenamed(f, s) = [i \in 1 .. Len(at) |-> f[s[i]]]
    BY <2>1 DEF ListRenamed
  <2>6. \A i \in 1 .. Len(at) : js[at[i][2]][at[i][1]] = f[s[i]]
    BY <2>2, <2>3
  <2>5. u = [i \in 1 .. Len(at) |-> f[s[i]]]
    <3>1. u = [i \in 1 .. Len(at) |-> js[at[i][2]][at[i][1]]]
      OBVIOUS
    <3> HIDE DEF s, at, u
    <3> QED
      BY ONLY <2>6, <3>1
  <2> QED
    BY <2>4, <2>5
<1> HIDE DEF u, s
<1>12. First(ListRenamed(f, s), n) = ListRenamed(f, First(s, n))
  BY <1>8, FirstMoves
<1> QED
  BY <1>8, <1>9, <1>11, <1>12

\* full has the lanes of ls, each once, and beside them lanes without a hit.
Padded(ls, full) ==
  \E g \in [DOMAIN ls -> DOMAIN full] :
    /\ \A i, j \in DOMAIN ls : g[i] = g[j] => i = j
    /\ \A i \in DOMAIN ls : full[g[i]] = ls[i]
    /\ \A j \in DOMAIN full : (\A i \in DOMAIN ls : g[i] # j) => full[j].hits = <<>>

(* A lane without a hit changes nothing in the fused list.                 *)
LEMMA PaddedFuses ==
  ASSUME NEW ls \in Seq(AnyLane), NEW full \in Seq(AnyLane), Padded(ls, full)
  PROVE  /\ HitsOf(full) = HitsOf(ls) /\ FusedRows(full) = FusedRows(ls)
         /\ \A h : Score(full, h) = Score(ls, h)
         /\ FusedOrder(full) = FusedOrder(ls)
<1>1. PICK g \in [DOMAIN ls -> DOMAIN full] :
        /\ \A i, j \in DOMAIN ls : g[i] = g[j] => i = j
        /\ \A i \in DOMAIN ls : full[g[i]] = ls[i]
        /\ \A j \in DOMAIN full : (\A i \in DOMAIN ls : g[i] # j) => full[j].hits = <<>>
  BY DEF Padded
<1>2. \A j \in DOMAIN full : full[j].hits # <<>> => \E i \in DOMAIN ls : g[i] = j /\ ls[i] = full[j]
  BY <1>1
<1>3. Range(<<>>) = {}
  BY DEF Range
<1>4. \A i \in DOMAIN ls : g[i] \in DOMAIN full /\ full[g[i]] = ls[i]
  BY <1>1
<1>5. HitsOf(full) = HitsOf(ls)
  <2>1. \A h \in HitsOf(full) : h \in HitsOf(ls)
    <3> SUFFICES ASSUME NEW j \in DOMAIN full, NEW h \in Range(full[j].hits)
                 PROVE  h \in HitsOf(ls)
      BY DEF HitsOf
    <3>1. full[j].hits # <<>>
      BY <1>3
    <3>2. PICK i \in DOMAIN ls : ls[i] = full[j]
      BY <1>2, <3>1
    <3> QED
      BY <3>2 DEF HitsOf
  <2>2. \A h \in HitsOf(ls) : h \in HitsOf(full)
    <3> SUFFICES ASSUME NEW i \in DOMAIN ls, NEW h \in Range(ls[i].hits)
                 PROVE  h \in HitsOf(full)
      BY DEF HitsOf
    <3> QED
      BY <1>4 DEF HitsOf
  <2> QED
    BY <2>1, <2>2
<1>6. FusedRows(full) = FusedRows(ls)
  <2>1. \A h \in FusedRows(full) : h \in FusedRows(ls)
    <3> SUFFICES ASSUME NEW j \in DOMAIN full, full[j].weight > 0, NEW h \in Range(full[j].hits)
                 PROVE  h \in FusedRows(ls)
      BY DEF FusedRows
    <3>1. full[j].hits # <<>>
      BY <1>3
    <3>2. PICK i \in DOMAIN ls : ls[i] = full[j]
      BY <1>2, <3>1
    <3> QED
      BY <3>2 DEF FusedRows
  <2>2. \A h \in FusedRows(ls) : h \in FusedRows(full)
    <3> SUFFICES ASSUME NEW i \in DOMAIN ls, ls[i].weight > 0, NEW h \in Range(ls[i].hits)
                 PROVE  h \in FusedRows(full)
      BY DEF FusedRows
    <3> QED
      BY <1>4 DEF FusedRows
  <2> QED
    BY <2>1, <2>2
<1>7. ASSUME NEW id
      PROVE  LaneSum(id, full) = LaneSum(id, ls)
  <2> DEFINE S == DOMAIN ls
             T == DOMAIN full
             w == [i \in S |-> Share(id, ls[i])]
             v == [j \in T |-> Share(id, full[j])]
  <2>1. /\ LaneSum(id, ls) = SumOf(w, S) /\ IsFiniteSet(S)
        /\ \A i \in S : Share(id, ls[i]) \in Nat
    BY LaneSumOf
  <2>2. /\ LaneSum(id, full) = SumOf(v, T) /\ IsFiniteSet(T)
        /\ \A j \in T : Share(id, full[j]) \in Nat
    BY LaneSumOf
  <2>3. \A lane : lane.hits = <<>> => Share(id, lane) = 0
    BY DEF Share
  <2>4. \A i \in S : w[i] \in Nat /\ v[g[i]] = w[i]
    BY <1>4, <2>1
  <2>5. \A j \in T : v[j] \in Nat /\ ((\A i \in S : g[i] # j) => v[j] = 0)
    BY <1>1, <2>2, <2>3
  <2>6. g \in [S -> T] /\ \A i, j \in S : g[i] = g[j] => i = j
    BY <1>1
  <2> HIDE DEF S, T, w, v
  <2>7. SumOf(v, T) = SumOf(w, S)
    <3>1. IsFiniteSet(S) /\ IsFiniteSet(T)
      BY <2>1, <2>2
    <3> QED
      BY ONLY <2>4, <2>5, <2>6, <3>1, SumMoves
  <2> QED
    BY <2>1, <2>2, <2>7
<1>8. \A h : Score(full, h) = Score(ls, h)
  BY <1>7 DEF Score
<1>9. FusedOrder(full) = FusedOrder(ls)
  BY <1>6, <1>8 DEF FusedOrder
<1> QED
  BY <1>5, <1>6, <1>8, <1>9

(* A lane more is one in both, or one without a hit in the padded list.    *)
LEMMA PaddedGrows ==
  ASSUME NEW ls \in Seq(AnyLane), NEW full \in Seq(AnyLane), Padded(ls, full), NEW lane \in AnyLane
  PROVE  /\ Padded(Append(ls, lane), Append(full, lane))
         /\ lane.hits = <<>> => Padded(ls, Append(full, lane))
<1> DEFINE n == Len(ls)
           m == Len(full)
           more == Append(ls, lane)
           wide == Append(full, lane)
<1>1. PICK g \in [DOMAIN ls -> DOMAIN full] :
        /\ \A i, j \in DOMAIN ls : g[i] = g[j] => i = j
        /\ \A i \in DOMAIN ls : full[g[i]] = ls[i]
        /\ \A j \in DOMAIN full : (\A i \in DOMAIN ls : g[i] # j) => full[j].hits = <<>>
  BY DEF Padded
<1>2. n \in Nat /\ m \in Nat /\ DOMAIN ls = 1 .. n /\ DOMAIN full = 1 .. m
  BY LenProperties
<1>3. /\ DOMAIN more = 1 .. n + 1 /\ more[n + 1] = lane
      /\ \A i \in 1 .. n : more[i] = ls[i]
  BY AppendProperties
<1>4. /\ DOMAIN wide = 1 .. m + 1 /\ wide[m + 1] = lane
      /\ \A j \in 1 .. m : wide[j] = full[j]
  BY AppendProperties
<1> HIDE DEF n, m, more, wide
<1>5. /\ \A i \in 1 .. n : g[i] \in 1 .. m
      /\ \A i, j \in 1 .. n : g[i] = g[j] => i = j
      /\ \A i \in 1 .. n : full[g[i]] = ls[i]
      /\ \A j \in 1 .. m : (\A i \in 1 .. n : g[i] # j) => full[j].hits = <<>>
  BY <1>1, <1>2
<1>6. Padded(more, wide)
  <2> DEFINE e == [i \in 1 .. n + 1 |-> IF i = n + 1 THEN m + 1 ELSE g[i]]
  <2>1. e[n + 1] = m + 1 /\ \A i \in 1 .. n : e[i] = g[i]
    BY <1>2
  <2>2. \A i \in 1 .. n + 1 : i = n + 1 \/ i \in 1 .. n
    BY <1>2
  <2>3. \A j \in 1 .. m + 1 : j = m + 1 \/ j \in 1 .. m
    BY <1>2
  <2>4. e \in [1 .. n + 1 -> 1 .. m + 1]
    <3>1. \A i \in 1 .. n + 1 : e[i] \in 1 .. m + 1
      BY <1>2, <1>5, <2>1, <2>2
    <3> QED
      BY <3>1
  <2> HIDE DEF e
  <2>5. \A i, j \in 1 .. n + 1 : e[i] = e[j] => i = j
    BY <1>2, <1>5, <2>1, <2>2
  <2>6. \A i \in 1 .. n + 1 : wide[e[i]] = more[i]
    BY <1>3, <1>4, <1>5, <2>1, <2>2
  <2>7. ASSUME NEW j \in 1 .. m + 1, \A i \in 1 .. n + 1 : e[i] # j
        PROVE  wide[j].hits = <<>>
    <3>1. j # m + 1
      BY <1>2, <2>1, <2>7
    <3>2. j \in 1 .. m /\ wide[j] = full[j]
      BY <1>4, <2>3, <3>1
    <3>3. \A i \in 1 .. n : g[i] # j
      BY <1>2, <2>1, <2>7
    <3> QED
      BY <1>5, <3>2, <3>3
  <2>8. /\ e \in [DOMAIN more -> DOMAIN wide]
        /\ \A i, j \in DOMAIN more : e[i] = e[j] => i = j
        /\ \A i \in DOMAIN more : wide[e[i]] = more[i]
        /\ \A j \in DOMAIN wide : (\A i \in DOMAIN more : e[i] # j) => wide[j].hits = <<>>
    BY <1>3, <1>4, <2>4, <2>5, <2>6, <2>7
  <2> QED
    BY ONLY <2>8 DEF Padded
<1>7. ASSUME lane.hits = <<>>
      PROVE  Padded(ls, wide)
  <2>1. g \in [1 .. n -> 1 .. m + 1]
    <3>1. \A i \in 1 .. n : g[i] \in 1 .. m + 1
      BY <1>2, <1>5
    <3> QED
      BY <1>1, <1>2, <3>1
  <2>2. \A i \in 1 .. n : wide[g[i]] = ls[i]
    BY <1>4, <1>5
  <2>3. ASSUME NEW j \in 1 .. m + 1, \A i \in 1 .. n : g[i] # j
        PROVE  wide[j].hits = <<>>
    <3>1. CASE j = m + 1
      BY <1>4, <1>7, <3>1
    <3>2. CASE j # m + 1
      <4>1. j \in 1 .. m /\ wide[j] = full[j]
        BY <1>2, <1>4, <3>2
      <4> QED
        BY <1>5, <2>3, <4>1
    <3> QED
      BY <3>1, <3>2
  <2>4. /\ g \in [DOMAIN ls -> DOMAIN wide]
        /\ \A i, j \in DOMAIN ls : g[i] = g[j] => i = j
        /\ \A i \in DOMAIN ls : wide[g[i]] = ls[i]
        /\ \A j \in DOMAIN wide : (\A i \in DOMAIN ls : g[i] # j) => wide[j].hits = <<>>
    BY <1>2, <1>4, <1>5, <2>1, <2>2, <2>3
  <2> QED
    BY ONLY <2>4 DEF Padded
<1> QED
  BY <1>6, <1>7 DEF more, wide

(* What holds at the start of a search: nothing padded with nothing.       *)
LEMMA PaddedStarts == Padded(<<>>, <<>>)
<1> DEFINE g == [i \in {} |-> 0]
<1>1. DOMAIN <<>> = {}
  OBVIOUS
<1>2. g \in [{} -> {}]
  OBVIOUS
<1> QED
  BY <1>1, <1>2 DEF Padded

\* The lanes a state's rows are in, and such lanes under the ids of f.
RowLane(d) == [weight : Nat, hits : Seq(Rows(d))]
LaneRenamed(f, lane) == [weight |-> lane.weight, hits |-> RowsRenamed(f, lane.hits)]
LanesRenamed(f, ls) == [j \in 1 .. Len(ls) |-> LaneRenamed(f, ls[j])]

(* Lanes of a table's rows hold finitely many, one an id.                  *)
LEMMA RowLanesAre ==
  ASSUME NEW d, Tabled(d), NEW ls \in Seq(RowLane(d))
  PROVE  /\ ls \in Seq(AnyLane) /\ HitsOf(ls) \subseteq Rows(d)
         /\ IsFiniteSet(HitsOf(ls)) /\ OneRow(HitsOf(ls))
<1> DEFINE R == Rows(d)
<1>0. R \subseteq AnyRow
  BY RowsAre
<1>1. Len(ls) \in Nat /\ DOMAIN ls = 1 .. Len(ls) /\ \A i \in 1 .. Len(ls) : ls[i] \in RowLane(d)
  BY LenProperties, ElementOfSeq
<1>2. \A i \in 1 .. Len(ls) : ls[i].hits \in Seq(R)
  BY <1>1 DEF RowLane
<1>3. ASSUME NEW i \in 1 .. Len(ls)
      PROVE  ls[i] \in AnyLane
  <2> DEFINE hs == ls[i].hits
  <2>1. hs \in Seq(R)
    BY <1>2
  <2>2. ls[i] = [weight |-> ls[i].weight, hits |-> hs] /\ ls[i].weight \in Nat
    BY <1>1 DEF RowLane
  <2> HIDE DEF hs, R
  <2>3. hs \in [1 .. Len(hs) -> R] /\ Len(hs) \in Nat
    BY <2>1, LenProperties
  <2>4. hs \in [1 .. Len(hs) -> AnyRow]
    BY <1>0, <2>3
  <2>5. hs \in Seq(AnyRow)
    BY <2>3, <2>4
  <2> QED
    BY <2>2, <2>5 DEF AnyLane
<1>4. ls \in Seq(AnyLane)
  <2>1. ls \in [1 .. Len(ls) -> AnyLane]
    <3>1. ls \in [1 .. Len(ls) -> RowLane(d)]
      BY LenProperties
    <3> QED
      BY <1>3, <3>1
  <2> QED
    BY <1>1, <2>1
<1>5. HitsOf(ls) \subseteq R
  <2> SUFFICES ASSUME NEW i \in DOMAIN ls, NEW h \in Range(ls[i].hits)
               PROVE  h \in R
    BY DEF HitsOf
  <2> HIDE DEF R
  <2>1. ls[i].hits \in Seq(R)
    BY <1>1, <1>2
  <2> QED
    BY <2>1, RangeOf
<1>6. IsFiniteSet(R)
  <2> DEFINE D == DOMAIN d
             g == [x \in D |-> [id |-> x, chunk |-> d[x]]]
  <2>1. IsFiniteSet(D)
    BY DEF Tabled
  <2>2. R = {g[x] : x \in D}
    BY DEF Rows
  <2> HIDE DEF D, g, R
  <2>3. R = Renamed(g, D)
    BY <2>2 DEF Renamed
  <2>4. \A x, y \in D : g[x] = g[y] => x = y
    BY DEF g
  <2>5. Renames(g, D, R)
    BY <2>3, <2>4 DEF Renames, Renamed
  <2>6. IsFiniteSet(Renamed(g, D))
    BY <2>1, <2>5, RenamesCount
  <2> QED
    BY <2>3, <2>6
<1>7. OneRow(R)
  BY DEF OneRow, Rows
<1> HIDE DEF R
<1>8. IsFiniteSet(HitsOf(ls))
  BY <1>5, <1>6, FS_Subset
<1>9. OneRow(HitsOf(ls))
  BY <1>5, <1>7 DEF OneRow
<1> QED
  BY <1>4, <1>5, <1>8, <1>9 DEF R

(* A row's share of a lane is that of the renamed row.                     *)
LEMMA ShareMoves ==
  ASSUME NEW D, NEW f, \A x, y \in D : f[x] = f[y] => x = y,
         NEW X, \A h \in X : h.id \in D, NEW lane, lane.hits \in Seq(X), NEW x \in D
  PROVE  Share(f[x], LaneRenamed(f, lane)) = Share(x, lane)
<1> DEFINE hs == lane.hits
           gs == RowsRenamed(f, hs)
           at == CHOOSE r \in DOMAIN hs : hs[r].id = x
           to == CHOOSE r \in DOMAIN gs : gs[r].id = f[x]
<1>1. Len(hs) \in Nat /\ DOMAIN hs = 1 .. Len(hs) /\ \A r \in 1 .. Len(hs) : hs[r] \in X
  BY LenProperties, ElementOfSeq
<1>2. DOMAIN gs = DOMAIN hs /\ \A r \in DOMAIN hs : gs[r].id = f[hs[r].id]
  BY <1>1 DEF RowsRenamed, RowRenamed
<1>3. \A r \in DOMAIN hs : gs[r].id = f[x] <=> hs[r].id = x
  BY <1>1, <1>2
<1>4. at = to
  <2> HIDE DEF hs, gs
  <2> QED
    BY <1>2, <1>3
<1>5. LaneRenamed(f, lane).weight = lane.weight /\ LaneRenamed(f, lane).hits = gs
  BY DEF LaneRenamed
<1>6. (\E r \in DOMAIN gs : gs[r].id = f[x]) <=> \E r \in DOMAIN hs : hs[r].id = x
  BY <1>2, <1>3
<1>7. Share(f[x], LaneRenamed(f, lane)) =
        IF lane.weight > 0 /\ \E r \in DOMAIN gs : gs[r].id = f[x]
        THEN lane.weight * Reciprocal(to - 1) ELSE 0
  BY <1>5 DEF Share
<1>8. Share(x, lane) =
        IF lane.weight > 0 /\ \E r \in DOMAIN hs : hs[r].id = x
        THEN lane.weight * Reciprocal(at - 1) ELSE 0
  BY DEF Share
<1> HIDE DEF hs, gs, at, to
<1> QED
  BY <1>4, <1>6, <1>7, <1>8

(* Renamed rows are the other table's.                                     *)
LEMMA RowMoves ==
  ASSUME NEW s, NEW r, NEW f, Alike(f, s, r), NEW h \in Rows(s.db)
  PROVE  /\ h.id \in DOMAIN s.db /\ h.chunk = s.db[h.id] /\ h = [id |-> h.id, chunk |-> h.chunk]
         /\ RowRenamed(f, h) \in Rows(r.db)
         /\ RowRenamed(f, h).id = f[h.id] /\ RowRenamed(f, h).chunk = h.chunk
<1>1. h.id \in DOMAIN s.db /\ h.chunk = s.db[h.id] /\ h = [id |-> h.id, chunk |-> h.chunk]
  BY DEF Rows
<1>2. f[h.id] \in DOMAIN r.db /\ r.db[f[h.id]] = h.chunk
  BY <1>1 DEF Alike, Renames
<1> QED
  BY <1>1, <1>2 DEF RowRenamed, Rows

(* So the renamed lanes are lanes of its rows.                             *)
LEMMA LanesMove ==
  ASSUME NEW s, NEW r, NEW f, Alike(f, s, r), NEW ls \in Seq(RowLane(s.db))
  PROVE  /\ LanesRenamed(f, ls) \in Seq(RowLane(r.db))
         /\ Len(ls) \in Nat /\ DOMAIN ls = 1 .. Len(ls) /\ DOMAIN LanesRenamed(f, ls) = 1 .. Len(ls)
         /\ \A j \in 1 .. Len(ls) : /\ ls[j] \in RowLane(s.db)
                                    /\ LanesRenamed(f, ls)[j] = LaneRenamed(f, ls[j])
<1> DEFINE n == Len(ls)
           m == LanesRenamed(f, ls)
<1>1. n \in Nat /\ DOMAIN ls = 1 .. n /\ \A j \in 1 .. n : ls[j] \in RowLane(s.db)
  BY LenProperties, ElementOfSeq
<1>2. m = [j \in 1 .. n |-> LaneRenamed(f, ls[j])]
  BY DEF LanesRenamed
<1>3. ASSUME NEW j \in 1 .. n
      PROVE  LaneRenamed(f, ls[j]) \in RowLane(r.db)
  <2> DEFINE hs == ls[j].hits
             gs == RowsRenamed(f, hs)
  <2>1. ls[j].weight \in Nat /\ hs \in Seq(Rows(s.db))
    BY <1>1 DEF RowLane
  <2>2. gs = [i \in 1 .. Len(hs) |-> RowRenamed(f, hs[i])]
    BY DEF RowsRenamed
  <2>3. LaneRenamed(f, ls[j]) = [weight |-> ls[j].weight, hits |-> gs]
    BY DEF LaneRenamed
  <2> HIDE DEF hs, gs
  <2>4. Len(hs) \in Nat /\ \A i \in 1 .. Len(hs) : hs[i] \in Rows(s.db)
    BY <2>1, LenProperties, ElementOfSeq
  <2>5. \A i \in 1 .. Len(hs) : RowRenamed(f, hs[i]) \in Rows(r.db)
    BY <2>4, RowMoves
  <2>6. gs \in [1 .. Len(hs) -> Rows(r.db)]
    BY <2>2, <2>5
  <2>7. gs \in Seq(Rows(r.db))
    BY <2>4, <2>6
  <2> QED
    BY <2>1, <2>3, <2>7 DEF RowLane
<1> HIDE DEF n, m
<1>4. m \in [1 .. n -> RowLane(r.db)]
  BY <1>2, <1>3
<1>5. m \in Seq(RowLane(r.db))
  BY <1>1, <1>4
<1> QED
  BY <1>1, <1>2, <1>5 DEF n, m

(* Its rows are the renamed rows, and score what they scored.              *)
LEMMA ScoreMoves ==
  ASSUME NEW s, NEW r, NEW f, Alike(f, s, r), NEW ls \in Seq(RowLane(s.db)),
         NEW to, to = [h \in Rows(s.db) |-> RowRenamed(f, h)]
  PROVE  /\ FusedRows(LanesRenamed(f, ls)) = Renamed(to, FusedRows(ls))
         /\ \A h \in Rows(s.db) : Score(LanesRenamed(f, ls), to[h]) = Score(ls, h)
<1> DEFINE n == Len(ls)
           m == LanesRenamed(f, ls)
           X == Rows(s.db)
           D == DOMAIN s.db
<1>1. /\ m \in Seq(RowLane(r.db)) /\ n \in Nat /\ DOMAIN ls = 1 .. n /\ DOMAIN m = 1 .. n
      /\ \A j \in 1 .. n : ls[j] \in RowLane(s.db) /\ m[j] = LaneRenamed(f, ls[j])
  BY LanesMove
<1>2. ls \in Seq(AnyLane) /\ m \in Seq(AnyLane) /\ FusedRows(ls) \subseteq X
  <2>1. Tabled(s.db) /\ Tabled(r.db)
    BY DEF Alike
  <2>2. ls \in Seq(AnyLane) /\ HitsOf(ls) \subseteq X
    BY <2>1, RowLanesAre
  <2>3. m \in Seq(AnyLane)
    <3> HIDE DEF m
    <3> QED
      BY <1>1, <2>1, RowLanesAre
  <2>4. FusedRows(ls) \subseteq HitsOf(ls)
    BY DEF FusedRows, HitsOf
  <2> QED
    BY <2>2, <2>3, <2>4
<1>3. \A h \in X : to[h] = RowRenamed(f, h) /\ h.id \in D /\ to[h].id = f[h.id] /\ to[h].chunk = h.chunk
  BY RowMoves
<1>4. \A j \in 1 .. n : /\ ls[j].hits \in Seq(X) /\ m[j].weight = ls[j].weight
                        /\ m[j].hits = RowsRenamed(f, ls[j].hits)
  BY <1>1 DEF RowLane, LaneRenamed
<1> HIDE DEF n, m, X, D
<1>5. ASSUME NEW j \in 1 .. n
      PROVE  Range(m[j].hits) = Renamed(to, Range(ls[j].hits))
  <2> DEFINE hs == ls[j].hits
             gs == RowsRenamed(f, hs)
  <2>1. hs \in Seq(X) /\ gs = [i \in 1 .. Len(hs) |-> RowRenamed(f, hs[i])]
    BY <1>4 DEF RowsRenamed
  <2>2. Len(hs) \in Nat /\ DOMAIN hs = 1 .. Len(hs) /\ \A i \in 1 .. Len(hs) : hs[i] \in X
    BY <2>1, LenProperties, ElementOfSeq
  <2>3. m[j].hits = gs
    BY <1>4
  <2> HIDE DEF hs, gs
  <2>4. DOMAIN gs = 1 .. Len(hs) /\ \A i \in 1 .. Len(hs) : gs[i] = to[hs[i]]
    BY <1>3, <2>1, <2>2
  <2>5. Range(gs) = Renamed(to, Range(hs))
    <3>1. ASSUME NEW z \in Range(gs)
          PROVE  z \in Renamed(to, Range(hs))
      <4>1. PICK i \in 1 .. Len(hs) : z = gs[i]
        BY <2>4 DEF Range
      <4>2. z = to[hs[i]] /\ hs[i] \in Range(hs)
        BY <2>2, <2>4, <4>1 DEF Range
      <4> QED
        BY <4>2 DEF Renamed
    <3>2. ASSUME NEW h \in Range(hs)
          PROVE  to[h] \in Range(gs)
      <4>1. PICK i \in 1 .. Len(hs) : h = hs[i]
        BY <2>2 DEF Range
      <4> QED
        BY <2>4, <4>1 DEF Range
    <3> QED
      BY <3>1, <3>2 DEF Renamed
  <2> QED
    BY <2>3, <2>5 DEF hs
<1>6. FusedRows(m) = Renamed(to, FusedRows(ls))
  <2>1. ASSUME NEW z \in FusedRows(m)
        PROVE  z \in Renamed(to, FusedRows(ls))
    <3>1. PICK j \in DOMAIN m : m[j].weight > 0 /\ z \in Range(m[j].hits)
      BY DEF FusedRows
    <3>2. j \in 1 .. n /\ j \in DOMAIN ls /\ ls[j].weight > 0 /\ z \in Renamed(to, Range(ls[j].hits))
      BY <1>1, <1>4, <1>5, <3>1
    <3>3. PICK h \in Range(ls[j].hits) : z = to[h]
      BY <3>2 DEF Renamed
    <3>4. h \in FusedRows(ls)
      BY <3>2, <3>3 DEF FusedRows
    <3> QED
      BY <3>3, <3>4 DEF Renamed
  <2>2. ASSUME NEW h \in FusedRows(ls)
        PROVE  to[h] \in FusedRows(m)
    <3>1. PICK j \in DOMAIN ls : ls[j].weight > 0 /\ h \in Range(ls[j].hits)
      BY DEF FusedRows
    <3>2. j \in DOMAIN m /\ m[j].weight > 0 /\ to[h] \in Range(m[j].hits)
      BY <1>1, <1>4, <1>5, <3>1 DEF Renamed
    <3> QED
      BY <3>2 DEF FusedRows
  <2> QED
    BY <2>1, <2>2 DEF Renamed
<1>7. ASSUME NEW x \in D
      PROVE  LaneSum(f[x], m) = LaneSum(x, ls)
  <2> DEFINE v == [j \in DOMAIN m |-> Share(f[x], m[j])]
             w == [j \in DOMAIN ls |-> Share(x, ls[j])]
  <2>1. LaneSum(f[x], m) = SumOf(v, DOMAIN m) /\ LaneSum(x, ls) = SumOf(w, DOMAIN ls)
    BY <1>2, LaneSumOf
  <2>2. ASSUME NEW j \in 1 .. n
        PROVE  Share(f[x], m[j]) = Share(x, ls[j])
    <3> DEFINE lane == ls[j]
    <3>1. lane.hits \in Seq(X) /\ m[j] = LaneRenamed(f, lane)
      BY <1>1, <1>4
    <3>2. \A h \in X : h.id \in D
      BY <1>3
    <3>3. \A a, b \in D : f[a] = f[b] => a = b
      BY DEF Alike, Renames, D
    <3> HIDE DEF lane
    <3>4. Share(f[x], LaneRenamed(f, lane)) = Share(x, lane)
      BY <3>1, <3>2, <3>3, ShareMoves
    <3> QED
      BY <3>1, <3>4 DEF lane
  <2>3. v = w
    BY <1>1, <2>2
  <2> HIDE DEF v, w
  <2> QED
    BY <1>1, <2>1, <2>3
<1>8. ASSUME NEW h \in X
      PROVE  Score(m, to[h]) = Score(ls, h)
  <2>1. LaneSum(to[h].id, m) = LaneSum(h.id, ls)
    BY <1>3, <1>7
  <2>2. to[h].chunk = h.chunk
    BY <1>3
  <2> QED
    BY <2>1, <2>2 DEF Score
<1> QED
  BY <1>6, <1>8 DEF m, X

(* What the renamed lanes fuse to is what the lanes do, renamed.           *)
LEMMA FuseMoves ==
  ASSUME NEW s, NEW r, NEW f, Alike(f, s, r), NEW ls \in Seq(RowLane(s.db)), NEW k \in Nat,
         NEW to, to = [h \in Rows(s.db) |-> RowRenamed(f, h)]
  PROVE  /\ Fuse(ls, k) \in Seq(Rows(s.db))
         /\ Fuse(LanesRenamed(f, ls), k) = ListRenamed(to, Fuse(ls, k))
<1> DEFINE m == LanesRenamed(f, ls)
           X == Rows(s.db)
           S == FusedRows(ls)
           T == FusedRows(m)
           B == FusedOrder(ls)
           C == FusedOrder(m)
<1>1. Tabled(s.db) /\ Tabled(r.db) /\ m \in Seq(RowLane(r.db))
  BY LanesMove DEF Alike
<1>2. /\ ls \in Seq(AnyLane) /\ HitsOf(ls) \subseteq X
      /\ IsFiniteSet(HitsOf(ls)) /\ OneRow(HitsOf(ls))
  BY <1>1, RowLanesAre
<1>3. m \in Seq(AnyLane) /\ IsFiniteSet(HitsOf(m)) /\ OneRow(HitsOf(m))
  <2> HIDE DEF m
  <2> QED
    BY <1>1, RowLanesAre
<1>4. /\ S \subseteq HitsOf(ls) /\ IsFiniteSet(S) /\ Orders(B, S)
      /\ Fuse(ls, k) = First(InOrder(B), k)
  BY <1>2, FuseIs
<1>5. Fuse(m, k) = First(InOrder(C), k)
  <2> HIDE DEF m, C
  <2>1. Fuse(m, k) = First(InOrder(FusedOrder(m)), k)
    BY <1>3, FuseIs
  <2> QED
    BY <2>1 DEF C
<1>6. T = Renamed(to, S) /\ \A h \in X : Score(m, to[h]) = Score(ls, h)
  BY ScoreMoves
<1>7. \A h \in X : /\ h.id \in DOMAIN s.db /\ h.chunk = s.db[h.id] /\ h = [id |-> h.id, chunk |-> h.chunk]
                   /\ to[h].id = f[h.id] /\ to[h].chunk = h.chunk
  BY RowMoves
<1>8. \A b \in T : C[b] = {a \in T : \/ Score(m, a) > Score(m, b)
                                     \/ Score(m, a) = Score(m, b) /\ HitBelow(a, b)}
  BY DEF FusedOrder
<1>9. \A b \in S : B[b] = {a \in S : \/ Score(ls, a) > Score(ls, b)
                                     \/ Score(ls, a) = Score(ls, b) /\ HitBelow(a, b)}
  BY DEF FusedOrder
<1>10. C \in [T -> SUBSET T]
  BY DEF FusedOrder
<1> HIDE DEF m, X, S, T, B, C
<1>11. S \subseteq X
  BY <1>2, <1>4
<1>12. ASSUME NEW a \in X, NEW b \in X
       PROVE  HitBelow(to[a], to[b]) <=> HitBelow(a, b)
  <2>1. AddressBelow(to[a].chunk, to[b].chunk) <=> AddressBelow(a.chunk, b.chunk)
    BY <1>7
  <2>2. Address(to[a].chunk) = Address(to[b].chunk) <=> Address(a.chunk) = Address(b.chunk)
    BY <1>7
  <2>3. Address(a.chunk) = Address(b.chunk) => a.id = b.id
    <3>1. /\ a.id \in DOMAIN s.db /\ a.chunk = s.db[a.id]
          /\ b.id \in DOMAIN s.db /\ b.chunk = s.db[b.id]
      BY <1>7
    <3>2. \A x, y \in DOMAIN s.db : Address(s.db[x]) = Address(s.db[y]) => x = y
      BY <1>1 DEF Tabled
    <3> QED
      BY <3>1, <3>2
  <2>4. a.id \in Nat /\ to[a].id \in Nat
    <3>1. a.id \in DOMAIN s.db /\ to[a].id = f[a.id]
      BY <1>7
    <3>2. f[a.id] \in DOMAIN r.db
      BY <3>1 DEF Alike, Renames
    <3>3. DOMAIN s.db \subseteq Nat \ {0} /\ DOMAIN r.db \subseteq Nat \ {0}
      BY <1>1 DEF Tabled
    <3> QED
      BY <3>1, <3>2, <3>3
  <2>5. a.id = b.id => ~(a.id < b.id) /\ ~(to[a].id < to[b].id)
    <3>1. a.id = b.id => to[a].id = to[b].id
      BY <1>7
    <3>2. \A n \in Nat : ~(n < n)
      OBVIOUS
    <3> QED
      BY <2>4, <3>1, <3>2
  <2> QED
    BY <2>1, <2>2, <2>3, <2>5 DEF HitBelow
<1>13. Renames(to, S, T)
  <2>1. ASSUME NEW a \in S, NEW b \in S, to[a] = to[b]
        PROVE  a = b
    <3>1. f[a.id] = f[b.id] /\ a.id \in DOMAIN s.db /\ b.id \in DOMAIN s.db
      BY <1>7, <1>11, <2>1
    <3>2. a.id = b.id
      BY <3>1 DEF Alike, Renames
    <3> QED
      BY <1>7, <1>11, <3>2
  <2>2. (\A a \in S : to[a] \in T) /\ \A z \in T : \E a \in S : to[a] = z
    BY <1>6 DEF Renamed
  <2> QED
    BY <2>1, <2>2 DEF Renames
<1>14. ASSUME NEW b \in S, NEW a \in S
       PROVE  to[a] \in C[to[b]] <=> a \in B[b]
  <2>1. to[a] \in T /\ to[b] \in T /\ a \in X /\ b \in X
    BY <1>6, <1>11 DEF Renamed
  <2>2. Score(m, to[a]) = Score(ls, a) /\ Score(m, to[b]) = Score(ls, b)
    BY <1>6, <2>1
  <2>3. HitBelow(to[a], to[b]) <=> HitBelow(a, b)
    BY <1>12, <2>1
  <2>4. to[a] \in C[to[b]] <=> \/ Score(m, to[a]) > Score(m, to[b])
                               \/ Score(m, to[a]) = Score(m, to[b]) /\ HitBelow(to[a], to[b])
    BY <1>8, <2>1
  <2>5. a \in B[b] <=> \/ Score(ls, a) > Score(ls, b)
                       \/ Score(ls, a) = Score(ls, b) /\ HitBelow(a, b)
    BY <1>9
  <2> QED
    BY <2>2, <2>3, <2>4, <2>5
<1>15. InOrder(C) = ListRenamed(to, InOrder(B))
  BY <1>4, <1>10, <1>13, <1>14, InOrderMoves
<1>16. InOrder(B) \in Seq(S)
  BY <1>4, InOrderLists DEF Lists
<1>17. InOrder(B) \in Seq(X)
  <2> DEFINE l == InOrder(B)
  <2>1. l \in [1 .. Len(l) -> S] /\ Len(l) \in Nat
    BY <1>16, LenProperties
  <2> HIDE DEF l
  <2>2. l \in [1 .. Len(l) -> X]
    BY <1>11, <2>1
  <2>3. l \in Seq(X)
    BY <2>1, <2>2
  <2> QED
    BY <2>3 DEF l
<1>18. First(ListRenamed(to, InOrder(B)), k) = ListRenamed(to, First(InOrder(B), k))
  BY <1>17, FirstMoves
<1>19. First(InOrder(B), k) \in Seq(X)
  BY <1>17, FirstIs
<1> QED
  BY <1>4, <1>5, <1>15, <1>18, <1>19 DEF m, X

\* The addresses of a list of rows.
AddressesOf(hs) == [i \in 1 .. Len(hs) |-> Address(hs[i].chunk)]

(* So the addresses of the list are the same.                              *)
LEMMA AddressesStay ==
  ASSUME NEW s, NEW r, NEW f, Alike(f, s, r), NEW ls \in Seq(RowLane(s.db)), NEW k \in Nat
  PROVE  AddressesOf(Fuse(LanesRenamed(f, ls), k)) = AddressesOf(Fuse(ls, k))
<1> DEFINE to == [h \in Rows(s.db) |-> RowRenamed(f, h)]
           a == Fuse(ls, k)
           b == Fuse(LanesRenamed(f, ls), k)
<1>1. to = [h \in Rows(s.db) |-> RowRenamed(f, h)]
  OBVIOUS
<1>2. \A h \in Rows(s.db) : to[h].chunk = h.chunk
  BY RowMoves
<1> HIDE DEF to
<1>3. a \in Seq(Rows(s.db)) /\ b = ListRenamed(to, a)
  BY <1>1, FuseMoves
<1> HIDE DEF a, b
<1>4. /\ Len(b) = Len(a) /\ \A i \in 1 .. Len(a) : a[i] \in Rows(s.db) /\ b[i] = to[a[i]]
  BY <1>3, MovedIs
<1>5. \A i \in 1 .. Len(a) : Address(b[i].chunk) = Address(a[i].chunk)
  BY <1>2, <1>4
<1> QED
  BY <1>4, <1>5 DEF AddressesOf, a, b

(* A table with its ids dealt out in the order of the addresses.           *)
LEMMA RenumberedIsAlike ==
  ASSUME NEW d, Tabled(d), NEW on, NEW s, s = [db |-> d, on |-> on], NEW r,
         r = [db |-> InOrder([c \in Range(d) |-> {e \in Range(d) : AddressBelow(e, c)}]), on |-> on]
  PROVE  \E f : Alike(f, s, r)
<1> DEFINE D == DOMAIN d
           A == [x \in D |-> {y \in D : AddressBelow(d[y], d[x])}]
           S == Range(d)
           B == [c \in S |-> {e \in S : AddressBelow(e, c)}]
           l == InOrder(B)
           o == InOrder(A)
           N == Cardinality(D)
           f == [x \in D |-> Cardinality(A[x]) + 1]
<1>1. IsFiniteSet(D) /\ Orders(A, D) /\ \A x, y \in D : d[x] = d[y] => x = y
  BY AddressOrdered DEF Tabled
<1>2. Renames(d, D, S)
  BY <1>1 DEF Renames, Range
<1>3. \A x, y \in D : d[y] \in B[d[x]] <=> y \in A[x]
  BY <1>2 DEF Renames
<1>4. B \in [S -> SUBSET S]
  OBVIOUS
<1>5. s.db = d /\ s.on = on /\ r.db = l /\ r.on = on
  OBVIOUS
<1>6. \A x \in D : f[x] = Cardinality(A[x]) + 1
  OBVIOUS
<1>7. d \in [D -> Stored] /\ \A x, y \in D : Address(d[x]) = Address(d[y]) => x = y
  BY DEF Tabled
<1> HIDE DEF D, A, B, S, l, o, N, f
<1>8. l = ListRenamed(d, o)
  BY <1>1, <1>2, <1>3, <1>4, InOrderMoves DEF l, o
<1>9. /\ o \in Seq(D) /\ Len(o) = N /\ N \in Nat
      /\ \A x \in D : Cardinality(A[x]) + 1 \in 1 .. N /\ o[Cardinality(A[x]) + 1] = x
      /\ \A n \in 1 .. N : o[n] \in D /\ Cardinality(A[o[n]]) = n - 1
  BY <1>1, InOrderLists, FS_CardinalityType DEF Lists, o, N
<1>10. DOMAIN l = 1 .. N /\ \A n \in 1 .. N : l[n] = d[o[n]]
  BY <1>8, <1>9 DEF ListRenamed
<1>11. \A x \in D : f[x] \in 1 .. N /\ o[f[x]] = x
  BY <1>6, <1>9
<1>12. \A n \in 1 .. N : f[o[n]] = n
  BY <1>6, <1>9
<1>13. Renames(f, D, 1 .. N)
  BY <1>9, <1>11, <1>12 DEF Renames
<1>14. \A x \in D : l[f[x]] = d[x]
  BY <1>10, <1>11
<1>15. Tabled(l)
  <2>1. l = [n \in 1 .. N |-> d[o[n]]]
    BY <1>8, <1>9 DEF ListRenamed
  <2>2. \A n \in 1 .. N : d[o[n]] \in Stored
    BY <1>7, <1>9
  <2>3. l \in [1 .. N -> Stored]
    BY <2>1, <2>2
  <2>4. IsFiniteSet(1 .. N)
    BY <1>9, IntervalFinite
  <2>5. 1 .. N \subseteq Nat \ {0}
    BY <1>9
  <2>6. ASSUME NEW m \in 1 .. N, NEW n \in 1 .. N, Address(l[m]) = Address(l[n])
        PROVE  m = n
    <3>1. o[m] \in D /\ o[n] \in D /\ l[m] = d[o[m]] /\ l[n] = d[o[n]]
      BY <1>9, <1>10
    <3>2. o[m] = o[n]
      BY <1>7, <2>6, <3>1
    <3> QED
      BY <1>12, <3>2
  <2> QED
    BY <1>10, <2>3, <2>4, <2>5, <2>6 DEF Tabled
<1>16. Alike(f, s, r)
  BY <1>5, <1>10, <1>13, <1>14, <1>15 DEF Alike, D
<1> QED
  BY <1>16

\* The lanes a search of a state may read: one a text, one a rung, and the
\* substrings'.
SemanticLane(state, ids) == [weight |-> WeightSemantic, hits |-> Hits(state, ids)]
WordLane(state, q, rung) ==
  [weight |-> Weight(q, rung.text, rung.tier),
   hits |-> Hits(state, KeywordLane(state, q, rung.text, rung.tier))]
TermLists(state, q) ==
  [i \in 1 .. Len(Kept(state, q)) |-> TermMatches(state, q, Kept(state, q)[i])]
SubstringLane(state, q) ==
  [weight |-> WeightSubstring, hits |-> Hits(state, RoundRobin(TermLists(state, q), Depth(q)))]

LastText(q) == Len(q.texts)
LastRung(q) == Len(q.texts) + Len(Rungs(q))

LanesAt(state, q, j) ==
  IF j <= LastText(q)
  THEN {SemanticLane(state, ids) : ids \in SemanticLanes(state, q, q.texts[j])}
  ELSE IF j <= LastRung(q) THEN {WordLane(state, q, Rungs(q)[j - LastText(q)])}
                           ELSE {SubstringLane(state, q)}

\* full has the first n of them.
Reads(full, state, q, n) ==
  /\ full \in Seq(RowLane(state.db)) /\ Len(full) = n
  /\ \A j \in 1 .. n : full[j] \in LanesAt(state, q, j)

(* Texts and rungs by their number.                                        *)
LEMMA LaneNumbers ==
  ASSUME NEW q \in Queries
  PROVE  /\ LastText(q) \in Nat /\ LastRung(q) \in Nat /\ Len(Rungs(q)) \in Nat
         /\ LastRung(q) = LastText(q) + Len(Rungs(q))
         /\ \A j \in 1 .. LastText(q) : q.texts[j] \in Range(q.texts)
         /\ \A n \in 1 .. Len(Rungs(q)) :
              /\ Rungs(q)[n].text \in Range(q.texts)
              /\ Rungs(q)[n].tier \in {"strict", "content", "prefix", "any"}
<1>1. q.texts \in Seq(STRING)
  BY QueryShape
<1>2. Len(q.texts) \in Nat /\ DOMAIN q.texts = 1 .. Len(q.texts)
  BY <1>1, LenProperties
<1>3. \A j \in 1 .. Len(q.texts) : q.texts[j] \in Range(q.texts)
  BY <1>2 DEF Range
<1>4. Len(Rungs(q)) \in Nat
  BY RungsAre
<1>5. \A n \in 1 .. Len(Rungs(q)) :
        /\ Rungs(q)[n].text \in Range(q.texts)
        /\ Rungs(q)[n].tier \in {"strict", "content", "prefix", "any"}
  BY RungsAre
<1> QED
  BY <1>2, <1>3, <1>4, <1>5 DEF LastText, LastRung

(* The matches of the kept terms are ids of the table.                     *)
LEMMA TermListsAre ==
  ASSUME NEW s, Tabled(s.db), NEW q \in Queries
  PROVE  /\ TermLists(s, q) \in Seq(Seq(DOMAIN s.db)) /\ Len(TermLists(s, q)) = Len(Kept(s, q))
         /\ RoundRobin(TermLists(s, q), Depth(q)) \in Seq(DOMAIN s.db)
<1> DEFINE kept == Kept(s, q)
           ids == TermLists(s, q)
           n == Depth(q)
<1>1. Len(kept) \in Nat /\ \A i \in 1 .. Len(kept) : Matches(s, q, kept[i]) # {}
  BY KeptIs, LenProperties
<1>2. ids = [i \in 1 .. Len(kept) |-> TermMatches(s, q, kept[i])]
  BY DEF TermLists
<1> HIDE DEF kept, ids
<1>3. ASSUME NEW i \in 1 .. Len(kept)
      PROVE  TermMatches(s, q, kept[i]) \in Seq(DOMAIN s.db)
  <2> DEFINE M == Matches(s, q, kept[i])
             l == TermMatches(s, q, kept[i])
  <2>1. l \in Seq(M)
    BY <1>1, TermMatchesListed
  <2>2. M \subseteq DOMAIN s.db
    BY InTheTable
  <2> HIDE DEF M, l
  <2>3. l \in [1 .. Len(l) -> M] /\ Len(l) \in Nat
    BY <2>1, LenProperties
  <2>4. l \in [1 .. Len(l) -> DOMAIN s.db]
    BY <2>2, <2>3
  <2>5. l \in Seq(DOMAIN s.db)
    BY <2>3, <2>4
  <2> QED
    BY <2>5 DEF l
<1>4. ids \in Seq(Seq(DOMAIN s.db)) /\ Len(ids) = Len(kept)
  <2>1. ids \in [1 .. Len(kept) -> Seq(DOMAIN s.db)]
    BY <1>2, <1>3
  <2> QED
    BY <1>1, <2>1
<1>5. n \in Nat
  BY QueryShape
<1> HIDE DEF n
<1>6. RoundRobin(ids, n) \in Seq(DOMAIN s.db)
  BY <1>4, <1>5, RoundRobinStays
<1> QED
  BY <1>4, <1>6 DEF ids, kept, n

(* A lane of the table's rows.                                             *)
LEMMA RowLaneOf ==
  ASSUME NEW s, NEW ids \in Seq(DOMAIN s.db), NEW w \in Nat
  PROVE  [weight |-> w, hits |-> Hits(s, ids)] \in RowLane(s.db)
BY HitsAreRows DEF RowLane

(* Each lane read is one of the table's rows.                              *)
LEMMA LanesTyped ==
  ASSUME NEW s, Tabled(s.db), NEW q \in Queries, NEW j \in Nat \ {0}, NEW lane \in LanesAt(s, q, j)
  PROVE  lane \in RowLane(s.db)
<1>1. CASE j <= LastText(q)
  <2>1. PICK ids \in SemanticLanes(s, q, q.texts[j]) : lane = SemanticLane(s, ids)
    BY <1>1 DEF LanesAt
  <2>2. q.texts[j] \in Range(q.texts)
    BY <1>1, LaneNumbers
  <2>3. ids \in Seq(DOMAIN s.db)
    BY <2>2, SemanticListed
  <2>4. WeightSemantic \in Nat
    BY DEF WeightSemantic
  <2> QED
    BY <2>1, <2>3, <2>4, RowLaneOf DEF SemanticLane
<1>2. CASE ~(j <= LastText(q)) /\ j <= LastRung(q)
  <2> DEFINE n == j - LastText(q)
             rung == Rungs(q)[n]
             ids == KeywordLane(s, q, rung.text, rung.tier)
             w == Weight(q, rung.text, rung.tier)
  <2>1. lane = [weight |-> w, hits |-> Hits(s, ids)]
    BY <1>2 DEF LanesAt, WordLane
  <2>2. n \in 1 .. Len(Rungs(q))
    BY <1>2, LaneNumbers
  <2>3. rung.text \in Range(q.texts) /\ rung.tier \in {"strict", "content", "prefix", "any"}
    BY <2>2, LaneNumbers
  <2> HIDE DEF rung
  <2>4. ids \in Seq(DOMAIN s.db)
    BY <2>3, KeywordListed
  <2>5. w \in Nat
    BY <2>3, WeightsApart
  <2> HIDE DEF ids, w
  <2> QED
    BY <2>1, <2>4, <2>5, RowLaneOf
<1>3. CASE ~(j <= LastText(q)) /\ ~(j <= LastRung(q))
  <2> DEFINE ids == RoundRobin(TermLists(s, q), Depth(q))
  <2>1. lane = [weight |-> WeightSubstring, hits |-> Hits(s, ids)]
    BY <1>3 DEF LanesAt, SubstringLane
  <2>2. ids \in Seq(DOMAIN s.db)
    BY TermListsAre
  <2>3. WeightSubstring \in Nat
    BY DEF WeightSubstring
  <2> HIDE DEF ids
  <2> QED
    BY <2>1, <2>2, <2>3, RowLaneOf
<1> QED
  BY <1>1, <1>2, <1>3

(* What is read of one state is, renamed, read of the other.               *)
LEMMA LaneMoves ==
  ASSUME NEW s, NEW r, NEW f, Alike(f, s, r), NEW q \in Queries, NEW j \in Nat \ {0},
         NEW lane \in LanesAt(s, q, j)
  PROVE  LaneRenamed(f, lane) \in LanesAt(r, q, j)
<1>0. Tabled(s.db)
  BY DEF Alike
<1>1. CASE j <= LastText(q)
  <2>1. PICK ids \in SemanticLanes(s, q, q.texts[j]) : lane = SemanticLane(s, ids)
    BY <1>1 DEF LanesAt
  <2>2. q.texts[j] \in Range(q.texts)
    BY <1>1, LaneNumbers
  <2>3. ids \in Seq(DOMAIN s.db)
    BY <1>0, <2>2, SemanticListed
  <2>4. ListRenamed(f, ids) \in SemanticLanes(r, q, q.texts[j])
    BY <2>2, SemanticMoves
  <2>5. Hits(r, ListRenamed(f, ids)) = RowsRenamed(f, Hits(s, ids))
    BY <2>3, HitsMove
  <2>6. LaneRenamed(f, lane) = SemanticLane(r, ListRenamed(f, ids))
    BY <2>1, <2>5 DEF LaneRenamed, SemanticLane
  <2> QED
    BY <1>1, <2>4, <2>6 DEF LanesAt
<1>2. CASE ~(j <= LastText(q)) /\ j <= LastRung(q)
  <2> DEFINE n == j - LastText(q)
             rung == Rungs(q)[n]
             ids == KeywordLane(s, q, rung.text, rung.tier)
             js == KeywordLane(r, q, rung.text, rung.tier)
  <2>1. lane = WordLane(s, q, rung) /\ LanesAt(r, q, j) = {WordLane(r, q, rung)}
    BY <1>2 DEF LanesAt
  <2>2. n \in 1 .. Len(Rungs(q))
    BY <1>2, LaneNumbers
  <2>3. rung.text \in Range(q.texts)
    BY <2>2, LaneNumbers
  <2> HIDE DEF rung
  <2>4. ids \in Seq(DOMAIN s.db)
    BY <1>0, <2>3, KeywordListed
  <2>5. js = ListRenamed(f, ids)
    BY <2>3, KeywordMoves
  <2>6. lane = [weight |-> Weight(q, rung.text, rung.tier), hits |-> Hits(s, ids)]
    BY <2>1 DEF WordLane
  <2>7. WordLane(r, q, rung) = [weight |-> Weight(q, rung.text, rung.tier), hits |-> Hits(r, js)]
    BY DEF WordLane
  <2> HIDE DEF ids, js
  <2>8. Hits(r, js) = RowsRenamed(f, Hits(s, ids))
    BY <2>4, <2>5, HitsMove
  <2>9. LaneRenamed(f, lane) = WordLane(r, q, rung)
    BY <2>6, <2>7, <2>8 DEF LaneRenamed
  <2> QED
    BY <2>1, <2>9
<1>3. CASE ~(j <= LastText(q)) /\ ~(j <= LastRung(q))
  <2> DEFINE pt == TermLists(s, q)
             ps == TermLists(r, q)
             n == Depth(q)
             ids == RoundRobin(pt, n)
             js == RoundRobin(ps, n)
             X == DOMAIN s.db
  <2>1. lane = SubstringLane(s, q) /\ LanesAt(r, q, j) = {SubstringLane(r, q)}
    BY <1>3 DEF LanesAt
  <2>2. pt \in Seq(Seq(X)) /\ Len(pt) = Len(Kept(s, q)) /\ ids \in Seq(X)
    BY <1>0, TermListsAre
  <2>3. n \in Nat
    BY QueryShape
  <2>4. Kept(r, q) = Kept(s, q)
    BY AlikeKept
  <2>5. \A i \in 1 .. Len(Kept(s, q)) :
          TermMatches(r, q, Kept(s, q)[i]) = ListRenamed(f, TermMatches(s, q, Kept(s, q)[i]))
    BY TermMoves
  <2>6. ps = [t \in 1 .. Len(pt) |-> ListRenamed(f, pt[t])]
    <3>1. \A t \in 1 .. Len(Kept(s, q)) : pt[t] = TermMatches(s, q, Kept(s, q)[t])
      BY DEF TermLists
    <3>2. ps = [t \in 1 .. Len(Kept(s, q)) |-> TermMatches(r, q, Kept(s, q)[t])]
      BY <2>4 DEF TermLists
    <3> HIDE DEF pt, ps
    <3> QED
      BY <2>2, <2>5, <3>1, <3>2
  <2>7. \A x, y \in X : f[x] = f[y] => x = y
    BY DEF Alike, Renames
  <2>8. SubstringLane(s, q) = [weight |-> WeightSubstring, hits |-> Hits(s, ids)]
    BY DEF SubstringLane
  <2>9. SubstringLane(r, q) = [weight |-> WeightSubstring, hits |-> Hits(r, js)]
    BY DEF SubstringLane
  <2>10. js = ListRenamed(f, ids)
    <3> HIDE DEF pt, ps, n, X
    <3> QED
      BY <2>2, <2>3, <2>6, <2>7, RoundRobinMoves
  <2> HIDE DEF ids, js
  <2>11. Hits(r, js) = RowsRenamed(f, Hits(s, ids))
    BY <2>2, <2>10, HitsMove
  <2>12. LaneRenamed(f, lane) = SubstringLane(r, q)
    BY <2>1, <2>8, <2>9, <2>11 DEF LaneRenamed
  <2> QED
    BY <2>1, <2>12
<1> QED
  BY <1>1, <1>2, <1>3

(* A list of three parts, by its places.                                   *)
LEMMA ThreeParts ==
  ASSUME NEW X, NEW a \in Seq(X), NEW b \in Seq(X), NEW x \in X, NEW full \in Seq(X),
         Len(full) = Len(a) + Len(b) + 1,
         \A i \in 1 .. Len(a) : full[i] = a[i],
         \A i \in 1 .. Len(b) : full[Len(a) + i] = b[i],
         full[Len(full)] = x
  PROVE  a \o b \o <<x>> = full
<1> DEFINE u == a \o b
           v == u \o <<x>>
           l == Len(a)
           m == Len(b)
<1>0. /\ Len(full) = l + m + 1 /\ full[l + m + 1] = x
      /\ \A i \in 1 .. l : full[i] = a[i]
      /\ \A i \in 1 .. m : full[l + i] = b[i]
  OBVIOUS
<1>1. l \in Nat /\ m \in Nat
  BY LenProperties
<1>2. /\ u \in Seq(X) /\ Len(u) = l + m
      /\ \A i \in 1 .. l + m : u[i] = IF i <= l THEN a[i] ELSE b[i - l]
  BY ConcatProperties
<1> HIDE DEF u
<1>3. /\ v \in Seq(X) /\ Len(v) = l + m + 1
      /\ \A i \in 1 .. l + m + 1 : v[i] = IF i <= l + m THEN u[i] ELSE x
  <2>1. <<x>> \in Seq(X) /\ Len(<<x>>) = 1 /\ <<x>>[1] = x
    OBVIOUS
  <2>2. v \in Seq(X) /\ Len(v) = l + m + 1
    BY <1>2, <2>1, ConcatProperties
  <2>3. \A i \in 1 .. Len(u) + Len(<<x>>) :
          (u \o <<x>>)[i] = IF i <= Len(u) THEN u[i] ELSE <<x>>[i - Len(u)]
    BY <1>2, <2>1, ConcatProperties
  <2>4. ASSUME NEW i \in 1 .. l + m + 1
        PROVE  v[i] = IF i <= l + m THEN u[i] ELSE x
    <3>1. i \in 1 .. Len(u) + Len(<<x>>)
      BY <1>2, <2>1
    <3>2. CASE i <= l + m
      BY <1>2, <2>3, <3>1, <3>2
    <3>3. CASE ~(i <= l + m)
      <4>1. i - Len(u) = 1
        BY <1>1, <1>2, <3>3
      <4> QED
        BY <1>2, <2>1, <2>3, <3>1, <3>3, <4>1
    <3> QED
      BY <3>2, <3>3
  <2> QED
    BY <2>2, <2>4
<1> HIDE DEF v, l, m
<1>4. \A i \in 1 .. l + m + 1 : v[i] = full[i]
  <2> SUFFICES ASSUME NEW i \in 1 .. l + m + 1
               PROVE  v[i] = full[i]
    OBVIOUS
  <2>1. CASE i <= l
    <3>1. i \in 1 .. l /\ i \in 1 .. l + m /\ i <= l + m
      BY <1>1, <2>1
    <3>2. v[i] = u[i]
      BY <1>3, <3>1
    <3>3. u[i] = a[i]
      BY <1>2, <2>1, <3>1
    <3>4. full[i] = a[i]
      BY <1>0, <3>1
    <3> QED
      BY <3>2, <3>3, <3>4
  <2>2. CASE ~(i <= l) /\ i <= l + m
    <3>1. i - l \in 1 .. m /\ l + (i - l) = i /\ i \in 1 .. l + m
      BY <1>1, <2>2
    <3>2. full[l + (i - l)] = b[i - l]
      BY <1>0, <3>1
    <3> QED
      BY <1>2, <1>3, <2>2, <3>1, <3>2
  <2>3. CASE ~(i <= l + m)
    <3>1. i = l + m + 1
      BY <1>1, <2>3
    <3> QED
      BY <1>0, <1>3, <2>3, <3>1
  <2> QED
    BY <2>1, <2>2, <2>3
<1>5. v = full
  <2>1. Len(full) = l + m + 1
    BY <1>0
  <2> QED
    BY <1>3, <1>4, <2>1, SeqEqual
<1> QED
  BY <1>5 DEF v, u

\* The lists of ids a search may draw for the texts, and what it then fuses.
Drawn(state, q) ==
  LET near == [i \in 1 .. Len(q.texts) |-> SemanticLanes(state, q, q.texts[i])]
  IN  {f \in [1 .. Len(q.texts) -> UNION Range(near)] : \A i \in DOMAIN f : f[i] \in near[i]}
FusedOf(state, q, f) ==
  Fuse([i \in 1 .. Len(f) |-> SemanticLane(state, f[i])]
         \o [j \in 1 .. Len(Rungs(q)) |-> WordLane(state, q, Rungs(q)[j])]
         \o <<SubstringLane(state, q)>>, CutTo(q))

LEMMA OutcomesAre ==
  ASSUME NEW state, NEW q
  PROVE  Outcomes(state, q) = {AddressesOf(FusedOf(state, q, f)) : f \in Drawn(state, q)}
BY DEF Outcomes, AddressesOf, FusedOf, Drawn, SemanticLane, WordLane, SubstringLane, TermLists

(* What all the lanes of a state fuse to is one of its outcomes.           *)
LEMMA ReadsGiveOutcome ==
  ASSUME NEW s, Tabled(s.db), NEW q \in Queries, NEW full, Reads(full, s, q, LastRung(q) + 1)
  PROVE  AddressesOf(Fuse(full, CutTo(q))) \in Outcomes(s, q)
<1> DEFINE T == LastText(q)
           R == Len(Rungs(q))
           X == RowLane(s.db)
           near(i) == SemanticLanes(s, q, q.texts[i])
           f == [i \in 1 .. T |-> CHOOSE ids \in near(i) : full[i] = SemanticLane(s, ids)]
           a == [i \in 1 .. Len(f) |-> SemanticLane(s, f[i])]
           b == [j \in 1 .. R |-> WordLane(s, q, Rungs(q)[j])]
           x == SubstringLane(s, q)
<1>1. T \in Nat /\ R \in Nat /\ LastRung(q) = T + R
  BY LaneNumbers
<1>2. full \in Seq(X) /\ Len(full) = T + R + 1 /\ \A j \in 1 .. T + R + 1 : full[j] \in LanesAt(s, q, j)
  BY <1>1 DEF Reads
<1>3. \A i \in 1 .. T : \E ids \in near(i) : full[i] = SemanticLane(s, ids)
  <2> SUFFICES ASSUME NEW i \in 1 .. T
               PROVE  \E ids \in near(i) : full[i] = SemanticLane(s, ids)
    OBVIOUS
  <2>1. full[i] \in LanesAt(s, q, i) /\ i <= LastText(q)
    BY <1>1, <1>2
  <2> QED
    BY <2>1 DEF LanesAt
<1>4. \A i \in 1 .. T : f[i] \in near(i) /\ full[i] = SemanticLane(s, f[i])
  BY <1>3
<1>5. DOMAIN f = 1 .. T /\ f = [i \in 1 .. T |-> f[i]]
  OBVIOUS
<1> HIDE DEF T, R, X, f, x
<1>6. f \in Drawn(s, q)
  <2> DEFINE lists == [i \in 1 .. Len(q.texts) |-> SemanticLanes(s, q, q.texts[i])]
  <2>1. T = Len(q.texts)
    BY DEF T, LastText
  <2>2. \A i \in 1 .. T : lists[i] = near(i) /\ f[i] \in lists[i]
    BY <1>4, <2>1
  <2>3. DOMAIN lists = 1 .. T
    BY <2>1
  <2> HIDE DEF lists, near
  <2>4. \A i \in 1 .. T : f[i] \in UNION Range(lists)
    BY <2>2, <2>3 DEF Range
  <2>5. f \in [1 .. T -> UNION Range(lists)]
    BY <1>5, <2>4
  <2>6. f \in {e \in [1 .. T -> UNION Range(lists)] : \A i \in DOMAIN e : e[i] \in lists[i]}
    BY <1>5, <2>2, <2>5
  <2> QED
    BY <2>1, <2>6 DEF Drawn, lists
<1>7. f \in Seq({f[i] : i \in 1 .. T}) /\ Len(f) = T
  <2>1. f \in [1 .. T -> {f[i] : i \in 1 .. T}]
    BY <1>5
  <2> QED
    BY <1>1, <2>1
<1>8. Len(f) = T
  BY <1>7
<1>9. \A i \in 1 .. T + R + 1 : full[i] \in X
  BY <1>2, LenProperties, ElementOfSeq
<1>10. \A i \in 1 .. T : a[i] = full[i] /\ full[i] \in X
  BY <1>1, <1>4, <1>8, <1>9
<1>11. \A j \in 1 .. R : full[T + j] = WordLane(s, q, Rungs(q)[j]) /\ full[T + j] \in X
  <2> SUFFICES ASSUME NEW j \in 1 .. R
               PROVE  full[T + j] = WordLane(s, q, Rungs(q)[j]) /\ full[T + j] \in X
    OBVIOUS
  <2>1. T + j \in 1 .. T + R + 1 /\ ~(T + j <= T) /\ T + j <= T + R /\ (T + j) - T = j
    BY <1>1
  <2>2. full[T + j] \in LanesAt(s, q, T + j) /\ full[T + j] \in X
    BY <1>2, <1>9, <2>1
  <2>3. LanesAt(s, q, T + j) = {WordLane(s, q, Rungs(q)[j])}
    BY <1>1, <2>1 DEF LanesAt, T
  <2> QED
    BY <2>2, <2>3
<1>12. full[T + R + 1] = x /\ x \in X
  <2>1. T + R + 1 \in 1 .. T + R + 1 /\ ~(T + R + 1 <= T) /\ ~(T + R + 1 <= T + R)
    BY <1>1
  <2>2. full[T + R + 1] \in LanesAt(s, q, T + R + 1) /\ full[T + R + 1] \in X
    BY <1>2, <1>9, <2>1
  <2>3. LanesAt(s, q, T + R + 1) = {SubstringLane(s, q)}
    BY <1>1, <2>1 DEF LanesAt, T
  <2> QED
    BY <2>2, <2>3 DEF x
<1>13. DOMAIN a = 1 .. T /\ a \in Seq(X) /\ Len(a) = T
  <2>1. a = [i \in 1 .. T |-> a[i]]
    BY <1>8
  <2> HIDE DEF a
  <2>2. a \in [1 .. T -> X]
    BY <1>10, <2>1
  <2> QED
    BY <1>1, <2>2
<1>14. b \in Seq(X) /\ Len(b) = R /\ \A j \in 1 .. R : b[j] = WordLane(s, q, Rungs(q)[j])
  <2>1. b \in [1 .. R -> X]
    BY <1>11
  <2> HIDE DEF b
  <2>2. b \in Seq(X) /\ Len(b) = R
    BY <1>1, <2>1
  <2> QED
    BY <2>2 DEF b
<1> HIDE DEF a, b
<1>15. a \o b \o <<x>> = full
  <2>1. \A i \in 1 .. Len(a) : full[i] = a[i]
    BY <1>10, <1>13
  <2>2. \A i \in 1 .. Len(b) : full[Len(a) + i] = b[i]
    BY <1>11, <1>13, <1>14
  <2>3. Len(full) = Len(a) + Len(b) + 1 /\ full[Len(full)] = x
    BY <1>2, <1>12, <1>13, <1>14
  <2> QED
    BY <1>2, <1>12, <1>13, <1>14, <2>1, <2>2, <2>3, ThreeParts
<1>16. FusedOf(s, q, f) = Fuse(full, CutTo(q))
  BY <1>15 DEF FusedOf, a, b, x, R
<1> QED
  BY <1>6, <1>16, OutcomesAre

(* All that is read of one state is, renamed, read of the other.           *)
LEMMA ReadsMove ==
  ASSUME NEW s, NEW r, NEW f, Alike(f, s, r), NEW q \in Queries, NEW n, NEW full, Reads(full, s, q, n)
  PROVE  Reads(LanesRenamed(f, full), r, q, n)
<1> DEFINE m == LanesRenamed(f, full)
<1>1. full \in Seq(RowLane(s.db)) /\ Len(full) = n /\ \A j \in 1 .. n : full[j] \in LanesAt(s, q, j)
  BY DEF Reads
<1>2. /\ m \in Seq(RowLane(r.db)) /\ n \in Nat /\ DOMAIN m = 1 .. n
      /\ \A j \in 1 .. n : m[j] = LaneRenamed(f, full[j])
  BY <1>1, LanesMove
<1> HIDE DEF m
<1>3. Len(m) = n
  BY <1>2, LenProperties
<1>4. \A j \in 1 .. n : m[j] \in LanesAt(r, q, j)
  <2> SUFFICES ASSUME NEW j \in 1 .. n
               PROVE  m[j] \in LanesAt(r, q, j)
    OBVIOUS
  <2>1. j \in Nat \ {0} /\ full[j] \in LanesAt(s, q, j)
    BY <1>1, <1>2
  <2>2. LaneRenamed(f, full[j]) \in LanesAt(r, q, j)
    BY <2>1, LaneMoves
  <2> QED
    BY <1>2, <2>2
<1> QED
  BY <1>2, <1>3, <1>4 DEF Reads, m

(* What an undisturbed search fuses, the renumbered corpus may give.       *)
LEMMA OutcomeStays ==
  ASSUME NEW d, Tabled(d), NEW on, NEW s, s = [db |-> d, on |-> on], NEW r,
         r = [db |-> InOrder([c \in Range(d) |-> {e \in Range(d) : AddressBelow(e, c)}]), on |-> on],
         NEW q \in Queries, NEW full, Reads(full, s, q, LastRung(q) + 1),
         NEW ls \in Seq(AnyLane), Padded(ls, full)
  PROVE  AddressesOf(Fuse(ls, CutTo(q))) \in Outcomes(r, q)
<1> DEFINE k == CutTo(q)
           n == LastRung(q) + 1
<1>1. k \in Nat
  BY QueryShape
<1>2. PICK f : Alike(f, s, r)
  BY RenumberedIsAlike
<1>3. full \in Seq(RowLane(s.db)) /\ Tabled(s.db) /\ Tabled(r.db)
  BY <1>2 DEF Reads, Alike
<1>4. full \in Seq(AnyLane) /\ OneRow(HitsOf(full)) /\ IsFiniteSet(HitsOf(full))
  BY <1>3, RowLanesAre
<1> HIDE DEF k, n
<1>5. Fuse(ls, k) = First(InOrder(FusedOrder(ls)), k)
  <2>1. HitsOf(full) = HitsOf(ls)
    BY <1>4, PaddedFuses
  <2> QED
    BY <1>1, <1>4, <2>1, FuseIs
<1>6. Fuse(full, k) = First(InOrder(FusedOrder(full)), k)
  BY <1>1, <1>4, FuseIs
<1>7. FusedOrder(full) = FusedOrder(ls)
  BY <1>4, PaddedFuses
<1>8. Fuse(full, k) = Fuse(ls, k)
  BY <1>5, <1>6, <1>7
<1>9. AddressesOf(Fuse(LanesRenamed(f, full), k)) = AddressesOf(Fuse(full, k))
  BY <1>1, <1>2, <1>3, AddressesStay
<1>10. Reads(LanesRenamed(f, full), r, q, n)
  BY <1>2, ReadsMove DEF n
<1> DEFINE m == LanesRenamed(f, full)
<1> HIDE DEF m
<1>11. AddressesOf(Fuse(m, k)) \in Outcomes(r, q)
  BY <1>3, <1>10, ReadsGiveOutcome DEF n, k, m
<1> QED
  BY <1>8, <1>9, <1>11 DEF k, m

-----------------------------------------------------------------------------
(* A search nothing disturbs.                                              *)

\* Nothing was written or parked since the search began.
Undisturbed == moves = [reindexed |-> 0, parked |-> 0]

\* The lanes ls are the first n a search of the state reads, but for those
\* without a hit that it may leave out.
ReadUpTo(s, q, ls, n) == \E full : Reads(full, s, q, n) /\ Padded(ls, full)

\* Which lanes are read at a step.
ReadAt(s, q, ls, step) ==
  /\ step.at = "embed" => ReadUpTo(s, q, ls, 0)
  /\ step.at = "semantic" => ReadUpTo(s, q, ls, step.n - 1)
  /\ step.at = "keyword" => ReadUpTo(s, q, ls, LastText(q) + step.n - 1)
  /\ step.at \in {"count", "scan", "fetch"} => ReadUpTo(s, q, ls, LastRung(q))
  /\ step.at \in {"fuse", "rerank", "done"} /\ q.texts # <<>> => ReadUpTo(s, q, ls, LastRung(q) + 1)

MovesCounted == moves \in [reindexed : Nat, parked : Nat]
LanesOfNow == ReadAt(Now, query, lanes, searching)
ScanOfNow == searching.at \in {"scan", "fetch"} => snapshot = Now
FusedOfLanes ==
  searching.at \in {"rerank", "done"} /\ query.texts # <<>> => fused = Fuse(lanes, CutTo(query))

OrderInv ==
  /\ MovesCounted
  /\ Undisturbed => LanesOfNow /\ ScanOfNow /\ FusedOfLanes

(* One lane more is read, and is there unless it has no hit.               *)
LEMMA ReadsOneMore ==
  ASSUME NEW s, Tabled(s.db), NEW q \in Queries, NEW n \in Nat, NEW ls \in Seq(AnyLane),
         ReadUpTo(s, q, ls, n), NEW lane \in LanesAt(s, q, n + 1)
  PROVE  /\ ReadUpTo(s, q, Append(ls, lane), n + 1)
         /\ lane.hits = <<>> => ReadUpTo(s, q, ls, n + 1)
<1>1. PICK full : Reads(full, s, q, n) /\ Padded(ls, full)
  BY DEF ReadUpTo
<1> DEFINE X == RowLane(s.db)
           more == Append(full, lane)
<1>2. full \in Seq(X) /\ Len(full) = n /\ \A j \in 1 .. n : full[j] \in LanesAt(s, q, j)
  BY <1>1 DEF Reads
<1>3. lane \in X
  <2>1. n + 1 \in Nat \ {0}
    OBVIOUS
  <2> QED
    BY <2>1, LanesTyped
<1>4. full \in Seq(AnyLane)
  BY <1>2, RowLanesAre
<1>5. lane \in AnyLane
  <2>1. <<lane>> \in Seq(X)
    BY <1>3
  <2>2. <<lane>> \in Seq(AnyLane)
    BY <2>1, RowLanesAre
  <2> QED
    BY <2>2
<1> HIDE DEF X
<1>6. /\ more \in Seq(X) /\ Len(more) = n + 1 /\ more[n + 1] = lane
      /\ \A j \in 1 .. n : more[j] = full[j]
  BY <1>2, <1>3, AppendProperties
<1> HIDE DEF more
<1>7. \A j \in 1 .. n + 1 : more[j] \in LanesAt(s, q, j)
  <2> SUFFICES ASSUME NEW j \in 1 .. n + 1
               PROVE  more[j] \in LanesAt(s, q, j)
    OBVIOUS
  <2>1. j = n + 1 \/ j \in 1 .. n
    OBVIOUS
  <2> QED
    BY <1>2, <1>6, <2>1
<1>8. Reads(more, s, q, n + 1)
  BY <1>6, <1>7 DEF Reads, X
<1>9. /\ Padded(Append(ls, lane), Append(full, lane))
      /\ lane.hits = <<>> => Padded(ls, Append(full, lane))
  BY <1>1, <1>4, <1>5, PaddedGrows
<1> QED
  BY <1>8, <1>9 DEF ReadUpTo, more

(* A search begins with no lane.                                           *)
LEMMA OrderStarts == SearchInit => OrderInv
<1> SUFFICES ASSUME SearchInit
             PROVE  OrderInv
  OBVIOUS
<1>1. /\ lanes = <<>> /\ moves = [reindexed |-> 0, parked |-> 0]
      /\ searching = [at |-> "embed", n |-> 0]
  BY DEF SearchInit
<1>2. Reads(<<>>, Now, query, 0)
  BY DEF Reads
<1>3. ReadUpTo(Now, query, <<>>, 0)
  BY <1>2, PaddedStarts DEF ReadUpTo
<1>4. searching.at = "embed"
  BY <1>1
<1>5. LanesOfNow
  BY <1>1, <1>3, <1>4 DEF LanesOfNow, ReadAt
<1>6. MovesCounted /\ ScanOfNow /\ FusedOfLanes
  BY <1>1, <1>4 DEF MovesCounted, ScanOfNow, FusedOfLanes
<1> QED
  BY <1>5, <1>6 DEF OrderInv

(* Neither does embedding the texts read one.                              *)
LEMMA OrderEmbeds ==
  ASSUME SearchInv, OrderInv, EmbedTexts
  PROVE  OrderInv'
<1>1. /\ searching.at = "embed"
      /\ UNCHANGED <<db, enabled, query, lanes, snapshot, perTerm, fused, found, picked, moves>>
  BY DEF EmbedTexts, SearchAt
<1>2. \/ query.texts = <<>> /\ searching' = [at |-> "done", n |-> 0]
      \/ query.texts # <<>> /\ searching' = [at |-> "semantic", n |-> 1]
  BY DEF EmbedTexts, Goto
<1>3. MovesCounted'
  BY <1>1 DEF OrderInv, MovesCounted
<1>4. ASSUME Undisturbed'
      PROVE  LanesOfNow' /\ ScanOfNow' /\ FusedOfLanes'
  <2>1. Undisturbed
    BY <1>1, <1>4 DEF Undisturbed
  <2>2. ReadUpTo(Now, query, lanes, 0)
    BY <1>1, <2>1 DEF OrderInv, LanesOfNow, ReadAt
  <2>3. Now' = Now /\ query' = query /\ lanes' = lanes
    BY <1>1 DEF Now
  <2>4. CASE query.texts = <<>> /\ searching' = [at |-> "done", n |-> 0]
    <3>1. searching'.at = "done" /\ query'.texts = <<>>
      BY <2>3, <2>4
    <3> QED
      BY <3>1 DEF LanesOfNow, ReadAt, ScanOfNow, FusedOfLanes
  <2>5. CASE searching' = [at |-> "semantic", n |-> 1]
    <3>1. searching'.at = "semantic" /\ searching'.n - 1 = 0
      BY <2>5
    <3>2. ReadAt(Now', query', lanes', searching')
      BY <2>2, <2>3, <3>1 DEF ReadAt
    <3> QED
      BY <3>1, <3>2 DEF LanesOfNow, ScanOfNow, FusedOfLanes
  <2> QED
    BY <1>2, <2>4, <2>5
<1> QED
  BY <1>3, <1>4 DEF OrderInv

LEMMA OrderIsSemantic ==
  ASSUME SearchInv, OrderInv, SearchSemantic
  PROVE  OrderInv'
<1> DEFINE k == searching.n
           T == LastText(query)
<1>1. /\ searching.at = "semantic"
      /\ UNCHANGED <<db, enabled, query, snapshot, perTerm, fused, found, picked, moves>>
  BY DEF SearchSemantic, SearchAt
<1>2. \/ k < T /\ searching' = [at |-> "semantic", n |-> k + 1]
      \/ ~(k < T) /\ Rungs(query) = <<>> /\ searching' = [at |-> "count", n |-> 0]
      \/ ~(k < T) /\ searching' = [at |-> "keyword", n |-> 1]
  BY DEF SearchSemantic, Goto, LastText
<1>3. PICK ids \in SemanticLanes(Now, query, query.texts[k]) :
        lanes' = Append(lanes, SemanticLane(Now, ids))
  BY DEF SearchSemantic, SemanticLane
<1>4. query \in Queries /\ Tabled(Now.db) /\ lanes \in Seq(AnyLane) /\ k \in 1 .. T /\ T \in Nat
  BY <1>1, LaneNumbers DEF SearchInv, LaneDue, Now, LastText
<1>5. MovesCounted'
  BY <1>1 DEF OrderInv, MovesCounted
<1>6. ASSUME Undisturbed'
      PROVE  LanesOfNow' /\ ScanOfNow' /\ FusedOfLanes'
  <2>1. Undisturbed
    BY <1>1, <1>6 DEF Undisturbed
  <2>2. ReadUpTo(Now, query, lanes, k - 1)
    BY <1>1, <2>1 DEF OrderInv, LanesOfNow, ReadAt
  <2>3. Now' = Now /\ query' = query
    BY <1>1 DEF Now
  <2>4. SemanticLane(Now, ids) \in LanesAt(Now, query, k)
    BY <1>4 DEF LanesAt
  <2> HIDE DEF k, T
  <2>5. k - 1 \in Nat /\ (k - 1) + 1 = k
    BY <1>4
  <2>6. ReadUpTo(Now, query, lanes', k)
    <3> DEFINE lane == SemanticLane(Now, ids)
               m == k - 1
    <3>1. lane \in LanesAt(Now, query, m + 1) /\ m \in Nat /\ ReadUpTo(Now, query, lanes, m)
      BY <2>2, <2>4, <2>5
    <3> HIDE DEF lane, m
    <3>2. ReadUpTo(Now, query, Append(lanes, lane), m + 1)
      BY <1>4, <3>1, ReadsOneMore
    <3> QED
      BY <1>3, <2>5, <3>2 DEF lane, m
  <2>7. CASE k < T /\ searching' = [at |-> "semantic", n |-> k + 1]
    <3>1. searching'.at = "semantic" /\ searching'.n - 1 = k
      BY <1>4, <2>7
    <3>2. ReadAt(Now', query', lanes', searching')
      BY <2>3, <2>6, <3>1 DEF ReadAt
    <3> QED
      BY <3>1, <3>2 DEF LanesOfNow, ScanOfNow, FusedOfLanes
  <2>8. CASE ~(k < T) /\ Rungs(query) = <<>> /\ searching' = [at |-> "count", n |-> 0]
    <3>1. searching'.at = "count" /\ LastRung(query) = k
      <4>1. Len(Rungs(query)) = 0
        BY <2>8
      <4>2. LastRung(query) = T + Len(Rungs(query))
        BY <1>4, LaneNumbers DEF T
      <4> QED
        BY <1>4, <2>8, <4>1, <4>2
    <3>2. ReadAt(Now', query', lanes', searching')
      BY <2>3, <2>6, <3>1 DEF ReadAt
    <3> QED
      BY <3>1, <3>2 DEF LanesOfNow, ScanOfNow, FusedOfLanes
  <2>9. CASE ~(k < T) /\ searching' = [at |-> "keyword", n |-> 1]
    <3>1. searching'.at = "keyword" /\ LastText(query) + searching'.n - 1 = k
      BY <1>4, <2>9 DEF T
    <3>2. ReadAt(Now', query', lanes', searching')
      BY <2>3, <2>6, <3>1 DEF ReadAt
    <3> QED
      BY <3>1, <3>2 DEF LanesOfNow, ScanOfNow, FusedOfLanes
  <2> QED
    BY <1>2, <2>7, <2>8, <2>9
<1> QED
  BY <1>5, <1>6 DEF OrderInv

LEMMA OrderIsKeyword ==
  ASSUME SearchInv, OrderInv, SearchKeyword
  PROVE  OrderInv'
<1> DEFINE k == searching.n
           T == LastText(query)
           R == Len(Rungs(query))
           rung == Rungs(query)[k]
           ids == KeywordLane(Now, query, rung.text, rung.tier)
           lane == WordLane(Now, query, rung)
<1>1. /\ searching.at = "keyword"
      /\ UNCHANGED <<db, enabled, query, snapshot, perTerm, fused, found, picked, moves>>
  BY DEF SearchKeyword, SearchAt
<1>2. \/ k < R /\ searching' = [at |-> "keyword", n |-> k + 1]
      \/ ~(k < R) /\ searching' = [at |-> "count", n |-> 0]
  BY DEF SearchKeyword, Goto
<1>3. (ids = <<>> /\ lanes' = lanes) \/ lanes' = Append(lanes, lane)
  BY DEF SearchKeyword, WordLane
<1>4. /\ query \in Queries /\ Tabled(Now.db) /\ lanes \in Seq(AnyLane)
      /\ k \in 1 .. R /\ R \in Nat /\ T \in Nat /\ LastRung(query) = T + R
  BY <1>1, LaneNumbers DEF SearchInv, LaneDue, Now
<1>5. MovesCounted'
  BY <1>1 DEF OrderInv, MovesCounted
<1>6. lane.hits = Hits(Now, ids)
  BY DEF WordLane
<1>7. ids = <<>> => lane.hits = <<>>
  <2>1. Hits(Now, <<>>) = <<>>
    BY DEF Hits
  <2> QED
    BY <1>6, <2>1
<1>8. ASSUME Undisturbed'
      PROVE  LanesOfNow' /\ ScanOfNow' /\ FusedOfLanes'
  <2>1. Undisturbed
    BY <1>1, <1>8 DEF Undisturbed
  <2>2. ReadUpTo(Now, query, lanes, T + k - 1)
    BY <1>1, <2>1 DEF OrderInv, LanesOfNow, ReadAt
  <2>3. Now' = Now /\ query' = query
    BY <1>1 DEF Now
  <2>4. lane \in LanesAt(Now, query, T + k)
    <3> HIDE DEF lane
    <3>1. ~(T + k <= T) /\ T + k <= T + R /\ (T + k) - T = k
      BY <1>4
    <3> QED
      BY <1>4, <3>1 DEF LanesAt, lane
  <2> HIDE DEF k, T, R, rung, ids, lane
  <2>5. T + k - 1 \in Nat /\ (T + k - 1) + 1 = T + k
    BY <1>4
  <2>6. ReadUpTo(Now, query, lanes', T + k)
    <3> DEFINE m == T + k - 1
    <3>1. lane \in LanesAt(Now, query, m + 1) /\ m \in Nat /\ ReadUpTo(Now, query, lanes, m)
      BY <2>2, <2>4, <2>5
    <3> HIDE DEF m
    <3>2. /\ ReadUpTo(Now, query, Append(lanes, lane), m + 1)
          /\ lane.hits = <<>> => ReadUpTo(Now, query, lanes, m + 1)
      BY <1>4, <3>1, ReadsOneMore
    <3> QED
      BY <1>3, <1>7, <2>5, <3>2 DEF m
  <2>7. CASE k < R /\ searching' = [at |-> "keyword", n |-> k + 1]
    <3>1. searching'.at = "keyword" /\ LastText(query) + searching'.n - 1 = T + k
      BY <1>4, <2>7 DEF T
    <3>2. ReadAt(Now', query', lanes', searching')
      BY <2>3, <2>6, <3>1 DEF ReadAt
    <3> QED
      BY <3>1, <3>2 DEF LanesOfNow, ScanOfNow, FusedOfLanes
  <2>8. CASE ~(k < R) /\ searching' = [at |-> "count", n |-> 0]
    <3>1. searching'.at = "count" /\ LastRung(query) = T + k
      BY <1>4, <2>8
    <3>2. ReadAt(Now', query', lanes', searching')
      BY <2>3, <2>6, <3>1 DEF ReadAt
    <3> QED
      BY <3>1, <3>2 DEF LanesOfNow, ScanOfNow, FusedOfLanes
  <2> QED
    BY <1>2, <2>7, <2>8
<1> QED
  BY <1>5, <1>8 DEF OrderInv

(* Without a list the round robin visits no place.                         *)
LEMMA RoundRobinNone ==
  ASSUME NEW X, NEW ids \in Seq(Seq(X)), NEW n \in Nat, Len(ids) = 0
  PROVE  Len(RoundRobin(ids, n)) = 0
<1> DEFINE F == FirstPlaces(ids, n)
           at == InRows(F)
           s == [i \in 1 .. Len(at) |-> ids[at[i][2]][at[i][1]]]
<1>1. /\ F \subseteq Places(ids, n) /\ Lists(at, RowOrder(F), F)
      /\ RoundRobin(ids, n) = First(s, n) /\ s \in Seq(X)
  BY RoundRobinVisits
<1>2. Places(ids, n) = {}
  BY DEF Places
<1>3. F = {} /\ Cardinality({}) = 0
  BY <1>1, <1>2, FS_EmptySet
<1> HIDE DEF F
<1>4. Len(at) = 0
  BY <1>1, <1>3 DEF Lists
<1> HIDE DEF at
<1>5. Len(s) = 0
  BY <1>4
<1> HIDE DEF s
<1>6. Len(First(s, n)) = (IF Len(s) < n THEN Len(s) ELSE n)
  BY <1>1, FirstIs
<1> QED
  BY <1>1, <1>5, <1>6

(* Without a kept term the substring lane has no hit.                      *)
LEMMA NothingKept ==
  ASSUME NEW s, Tabled(s.db), NEW q \in Queries, q.terms = <<>> \/ Kept(s, q) = <<>>
  PROVE  SubstringLane(s, q).hits = <<>>
<1> DEFINE kept == Kept(s, q)
           pt == TermLists(s, q)
           n == Depth(q)
           ids == RoundRobin(pt, n)
<1>1. Len(kept) = 0
  <2>1. Len(kept) \in Nat /\ \A i \in 1 .. Len(kept) : kept[i] \in Range(q.terms)
    BY KeptIs, LenProperties
  <2>2. CASE q.terms = <<>>
    <3>1. Range(q.terms) = {}
      BY <2>2 DEF Range
    <3> HIDE DEF kept
    <3>2. ~(1 \in 1 .. Len(kept))
      BY <2>1, <3>1
    <3> QED
      BY <2>1, <3>2
  <2>3. CASE kept = <<>>
    BY <2>3
  <2> QED
    BY <2>2, <2>3
<1>2. pt \in Seq(Seq(DOMAIN s.db)) /\ Len(pt) = 0 /\ n \in Nat
  BY <1>1, TermListsAre, QueryShape
<1> HIDE DEF pt, n
<1>4. Len(ids) = 0
  BY <1>2, RoundRobinNone
<1> HIDE DEF ids
<1>5. Hits(s, ids) = <<>>
  BY <1>4 DEF Hits
<1> QED
  BY <1>5 DEF SubstringLane, ids, pt, n

LEMMA OrderCounts ==
  ASSUME SearchInv, OrderInv, CountTerms
  PROVE  OrderInv'
<1> DEFINE n == LastRung(query)
           lane == SubstringLane(Now, query)
<1>1. /\ searching.at = "count"
      /\ UNCHANGED <<db, enabled, query, lanes, perTerm, fused, found, picked, moves>>
  BY DEF CountTerms, SearchAt
<1>2. \/ searching' = [at |-> "fuse", n |-> 0] /\ (query.terms = <<>> \/ Kept(Now, query) = <<>>)
      \/ searching' = [at |-> "scan", n |-> 0] /\ snapshot' = Now
  BY DEF CountTerms, Goto
<1>3. query \in Queries /\ Tabled(Now.db) /\ lanes \in Seq(AnyLane) /\ n \in Nat
  BY LaneNumbers DEF SearchInv, Now
<1>4. MovesCounted'
  BY <1>1 DEF OrderInv, MovesCounted
<1>5. ASSUME Undisturbed'
      PROVE  LanesOfNow' /\ ScanOfNow' /\ FusedOfLanes'
  <2>1. Undisturbed
    BY <1>1, <1>5 DEF Undisturbed
  <2>2. ReadUpTo(Now, query, lanes, n)
    BY <1>1, <2>1 DEF OrderInv, LanesOfNow, ReadAt
  <2>3. Now' = Now /\ query' = query /\ lanes' = lanes
    BY <1>1 DEF Now
  <2>4. CASE searching' = [at |-> "fuse", n |-> 0] /\ (query.terms = <<>> \/ Kept(Now, query) = <<>>)
    <3>1. lane.hits = <<>>
      BY <1>3, <2>4, NothingKept
    <3>2. lane \in LanesAt(Now, query, n + 1)
      <4> HIDE DEF lane
      <4>1. ~(n + 1 <= LastText(query)) /\ ~(n + 1 <= LastRung(query))
        BY <1>3, LaneNumbers
      <4> QED
        BY <4>1 DEF LanesAt, lane
    <3> HIDE DEF lane, n
    <3>3. ReadUpTo(Now, query, lanes, n + 1)
      BY <1>3, <2>2, <3>1, <3>2, ReadsOneMore
    <3>4. searching'.at = "fuse"
      BY <2>4
    <3>5. ReadAt(Now', query', lanes', searching')
      BY <2>3, <3>3, <3>4 DEF ReadAt, n
    <3> QED
      BY <3>4, <3>5 DEF LanesOfNow, ScanOfNow, FusedOfLanes
  <2>5. CASE searching' = [at |-> "scan", n |-> 0] /\ snapshot' = Now
    <3>1. searching'.at = "scan"
      BY <2>5
    <3>2. ReadAt(Now', query', lanes', searching')
      BY <2>2, <2>3, <3>1 DEF ReadAt
    <3> QED
      BY <2>3, <2>5, <3>1, <3>2 DEF LanesOfNow, ScanOfNow, FusedOfLanes
  <2> QED
    BY <1>2, <2>4, <2>5
<1> QED
  BY <1>4, <1>5 DEF OrderInv

LEMMA OrderScans ==
  ASSUME SearchInv, OrderInv, ScanTerms
  PROVE  OrderInv'
<1>1. /\ searching.at = "scan" /\ searching' = [at |-> "fetch", n |-> 0]
      /\ UNCHANGED <<db, enabled, query, lanes, snapshot, fused, found, picked, moves>>
  BY DEF ScanTerms, SearchAt, Goto
<1>2. searching'.at = "fetch" /\ Now' = Now /\ query' = query /\ lanes' = lanes
  BY <1>1 DEF Now
<1>3. MovesCounted'
  BY <1>1 DEF OrderInv, MovesCounted
<1>4. ASSUME Undisturbed'
      PROVE  LanesOfNow' /\ ScanOfNow' /\ FusedOfLanes'
  <2>1. Undisturbed
    BY <1>1, <1>4 DEF Undisturbed
  <2>2. ReadUpTo(Now, query, lanes, LastRung(query)) /\ snapshot = Now
    BY <1>1, <2>1 DEF OrderInv, LanesOfNow, ReadAt, ScanOfNow
  <2>3. ReadAt(Now', query', lanes', searching')
    BY <1>2, <2>2 DEF ReadAt
  <2> QED
    BY <1>1, <1>2, <2>2, <2>3 DEF LanesOfNow, ScanOfNow, FusedOfLanes
<1> QED
  BY <1>3, <1>4 DEF OrderInv

LEMMA OrderFetches ==
  ASSUME SearchInv, OrderInv, FetchTerms
  PROVE  OrderInv'
<1> DEFINE n == LastRung(query)
           r == RoundRobin(perTerm, Depth(query))
           lane == SubstringLane(Now, query)
<1>1. /\ searching.at = "fetch" /\ searching' = [at |-> "fuse", n |-> 0]
      /\ lanes' = Append(lanes, [weight |-> WeightSubstring, hits |-> Fetched(snapshot, r)])
      /\ UNCHANGED <<db, enabled, query, snapshot, perTerm, fused, found, picked, moves>>
  BY DEF FetchTerms, SearchAt, Goto
<1>2. query \in Queries /\ Tabled(Now.db) /\ lanes \in Seq(AnyLane) /\ n \in Nat
  BY LaneNumbers DEF SearchInv, Now
<1>3. MovesCounted'
  BY <1>1 DEF OrderInv, MovesCounted
<1>4. ASSUME Undisturbed'
      PROVE  LanesOfNow' /\ ScanOfNow' /\ FusedOfLanes'
  <2>1. Undisturbed
    BY <1>1, <1>4 DEF Undisturbed
  <2>2. ReadUpTo(Now, query, lanes, n) /\ snapshot = Now
    BY <1>1, <2>1 DEF OrderInv, LanesOfNow, ReadAt, ScanOfNow
  <2>3. Now' = Now /\ query' = query
    BY <1>1 DEF Now
  <2>4. perTerm = TermLists(Now, query)
    BY <1>1, <2>2 DEF SearchInv, TermsScanned, TermLists
  <2>5. r = RoundRobin(TermLists(Now, query), Depth(query)) /\ r \in Seq(DOMAIN Now.db)
    BY <1>2, <2>4, TermListsAre
  <2>6. Fetched(Now, r) = Hits(Now, r)
    <3> HIDE DEF r
    <3>1. \A i \in 1 .. Len(r) : r[i] \in DOMAIN Now.db
      BY <2>5, LenProperties, ElementOfSeq
    <3> QED
      BY <3>1 DEF Fetched, Hits
  <2>7. lanes' = Append(lanes, lane)
    BY <1>1, <2>2, <2>5, <2>6 DEF SubstringLane
  <2>8. lane \in LanesAt(Now, query, n + 1)
    <3> HIDE DEF lane
    <3>1. ~(n + 1 <= LastText(query)) /\ ~(n + 1 <= LastRung(query))
      BY <1>2, LaneNumbers
    <3> QED
      BY <3>1 DEF LanesAt, lane
  <2> HIDE DEF lane, n, r
  <2>9. ReadUpTo(Now, query, lanes', n + 1)
    BY <1>2, <2>2, <2>7, <2>8, ReadsOneMore
  <2>10. searching'.at = "fuse"
    BY <1>1
  <2>11. ReadAt(Now', query', lanes', searching')
    BY <2>3, <2>9, <2>10 DEF ReadAt, n
  <2> QED
    BY <2>10, <2>11 DEF LanesOfNow, ScanOfNow, FusedOfLanes
<1> QED
  BY <1>3, <1>4 DEF OrderInv

LEMMA OrderFuses ==
  ASSUME SearchInv, OrderInv, FuseLanes
  PROVE  OrderInv'
<1>1. /\ searching.at = "fuse" /\ fused' = Fuse(lanes, CutTo(query))
      /\ UNCHANGED <<db, enabled, query, lanes, snapshot, perTerm, picked, moves>>
  BY DEF FuseLanes, SearchAt
<1>2. searching'.at \in {"rerank", "done"}
  BY DEF FuseLanes, Goto
<1>3. Now' = Now /\ query' = query /\ lanes' = lanes
  BY <1>1 DEF Now
<1>4. MovesCounted'
  BY <1>1 DEF OrderInv, MovesCounted
<1>5. ASSUME Undisturbed'
      PROVE  LanesOfNow' /\ ScanOfNow' /\ FusedOfLanes'
  <2>1. Undisturbed
    BY <1>1, <1>5 DEF Undisturbed
  <2>2. query.texts # <<>> => ReadUpTo(Now, query, lanes, LastRung(query) + 1)
    BY <1>1, <2>1 DEF OrderInv, LanesOfNow, ReadAt
  <2>3. ReadAt(Now', query', lanes', searching')
    BY <1>2, <1>3, <2>2 DEF ReadAt
  <2>4. fused' = Fuse(lanes', CutTo(query'))
    BY <1>1, <1>3
  <2> QED
    BY <1>2, <2>3, <2>4 DEF LanesOfNow, ScanOfNow, FusedOfLanes
<1> QED
  BY <1>4, <1>5 DEF OrderInv

LEMMA OrderReranks ==
  ASSUME SearchInv, OrderInv, RerankHits
  PROVE  OrderInv'
<1>1. /\ searching.at = "rerank" /\ searching' = [at |-> "done", n |-> 0]
      /\ UNCHANGED <<db, enabled, query, lanes, snapshot, perTerm, fused, moves>>
  BY DEF RerankHits, SearchAt, Goto
<1>2. searching'.at = "done"
  BY <1>1
<1>3. Now' = Now /\ query' = query /\ lanes' = lanes /\ fused' = fused
  BY <1>1 DEF Now
<1>4. MovesCounted'
  BY <1>1 DEF OrderInv, MovesCounted
<1>5. ASSUME Undisturbed'
      PROVE  LanesOfNow' /\ ScanOfNow' /\ FusedOfLanes'
  <2>1. Undisturbed
    BY <1>1, <1>5 DEF Undisturbed
  <2>2. query.texts # <<>> => ReadUpTo(Now, query, lanes, LastRung(query) + 1)
    BY <1>1, <2>1 DEF OrderInv, LanesOfNow, ReadAt
  <2>3. ReadAt(Now', query', lanes', searching')
    BY <1>2, <1>3, <2>2 DEF ReadAt
  <2>4. query.texts # <<>> => fused = Fuse(lanes, CutTo(query))
    BY <1>1, <2>1 DEF OrderInv, FusedOfLanes
  <2> QED
    BY <1>2, <1>3, <2>3, <2>4 DEF LanesOfNow, ScanOfNow, FusedOfLanes
<1> QED
  BY <1>4, <1>5 DEF OrderInv

LEMMA OrderStopsShort ==
  ASSUME OrderInv, SearchFails
  PROVE  OrderInv'
<1>1. /\ searching' = [at |-> "failed", n |-> 0]
      /\ UNCHANGED <<db, enabled, query, lanes, snapshot, perTerm, fused, found, picked, moves>>
  BY DEF SearchFails, Goto
<1>2. searching'.at = "failed"
  BY <1>1
<1>3. LanesOfNow' /\ ScanOfNow' /\ FusedOfLanes'
  BY <1>2 DEF LanesOfNow, ReadAt, ScanOfNow, FusedOfLanes
<1>4. MovesCounted'
  BY <1>1 DEF OrderInv, MovesCounted
<1> QED
  BY <1>3, <1>4 DEF OrderInv

(* Once the poller has moved, the search is disturbed for good.            *)
LEMMA MovesDisturb ==
  ASSUME OrderInv,
         \/ moves' = [moves EXCEPT !.reindexed = @ + 1]
         \/ moves' = [moves EXCEPT !.parked = @ + 1]
  PROVE  OrderInv'
<1>1. moves.reindexed \in Nat /\ moves.parked \in Nat
  BY DEF OrderInv, MovesCounted
<1>2. moves \in [reindexed : Nat, parked : Nat]
  BY DEF OrderInv, MovesCounted
<1>3. MovesCounted'
  BY <1>2 DEF MovesCounted
<1>4. moves'.reindexed = moves.reindexed + 1 \/ moves'.parked = moves.parked + 1
  BY <1>2
<1>5. ~Undisturbed'
  BY <1>1, <1>4 DEF Undisturbed
<1> QED
  BY <1>3, <1>5 DEF OrderInv

LEMMA OrderStays ==
  ASSUME OrderInv, UNCHANGED searchVars
  PROVE  OrderInv'
<1>1. /\ Now' = Now /\ query' = query /\ lanes' = lanes /\ searching' = searching
      /\ moves' = moves /\ fused' = fused /\ snapshot' = snapshot
  BY DEF searchVars, Now
<1>2. MovesCounted'
  BY <1>1 DEF OrderInv, MovesCounted
<1>3. Undisturbed' => Undisturbed
  BY <1>1 DEF Undisturbed
<1>4. LanesOfNow => ReadAt(Now', query', lanes', searching')
  BY <1>1 DEF LanesOfNow
<1>5. LanesOfNow => LanesOfNow'
  BY <1>4 DEF LanesOfNow
<1>6. (ScanOfNow => ScanOfNow') /\ (FusedOfLanes => FusedOfLanes')
  BY <1>1 DEF ScanOfNow, FusedOfLanes
<1> QED
  BY <1>2, <1>3, <1>5, <1>6 DEF OrderInv

(* What an undisturbed search fuses is what the corpus gives with its ids  *)
(* dealt out in another order.                                             *)
LEMMA OrderHolds ==
  ASSUME SearchInv, OrderInv
  PROVE  OrderFromAddresses
<1> SUFFICES ASSUME searching.at \in {"rerank", "done"}, Undisturbed, query.texts # <<>>
             PROVE  AddressesOf(fused) \in Outcomes(Renumbered, query)
  BY DEF OrderFromAddresses, Undisturbed, AddressesOf
<1>1. LanesOfNow /\ FusedOfLanes
  BY DEF OrderInv
<1>2. fused = Fuse(lanes, CutTo(query))
  BY <1>1 DEF FusedOfLanes
<1>3. ReadUpTo(Now, query, lanes, LastRung(query) + 1)
  BY <1>1 DEF LanesOfNow, ReadAt
<1>4. PICK full : Reads(full, Now, query, LastRung(query) + 1) /\ Padded(lanes, full)
  BY <1>3 DEF ReadUpTo
<1>5. query \in Queries /\ Tabled(db) /\ lanes \in Seq(AnyLane)
  BY DEF SearchInv
<1>6. Now = [db |-> db, on |-> enabled]
  BY DEF Now
<1>7. Renumbered =
        [db |-> InOrder([c \in Range(db) |-> {e \in Range(db) : AddressBelow(e, c)}]), on |-> enabled]
  BY DEF Renumbered
<1> DEFINE s == Now
           r == Renumbered
<1> HIDE DEF s, r
<1>8. AddressesOf(Fuse(lanes, CutTo(query))) \in Outcomes(r, query)
  BY <1>4, <1>5, <1>6, <1>7, OutcomeStays DEF s, r
<1> QED
  BY <1>2, <1>8 DEF r

(* An unchanged corpus is ranked the same however often it was indexed: a  *)
(* search nothing disturbs fuses a list that the corpus also gives with    *)
(* its ids dealt out in the order of the addresses.                        *)
THEOREM UnchangedRanksAlike == SearchSpec => []OrderFromAddresses
<1>1. SearchInv /\ OrderInv /\ [SearchNext]_searchVars => OrderInv'
  <2> SUFFICES ASSUME SearchInv, OrderInv, [SearchNext]_searchVars
               PROVE  OrderInv'
    OBVIOUS
  <2>1. CASE EmbedTexts
    BY <2>1, OrderEmbeds
  <2>2. CASE SearchSemantic
    BY <2>2, OrderIsSemantic
  <2>3. CASE SearchKeyword
    BY <2>3, OrderIsKeyword
  <2>4. CASE CountTerms
    BY <2>4, OrderCounts
  <2>5. CASE ScanTerms
    BY <2>5, OrderScans
  <2>6. CASE FetchTerms
    BY <2>6, OrderFetches
  <2>7. CASE FuseLanes
    BY <2>7, OrderFuses
  <2>8. CASE RerankHits
    BY <2>8, OrderReranks
  <2>9. CASE SearchFails
    BY <2>9, OrderStopsShort
  <2>10. CASE ReindexFile
    BY <2>10, MovesDisturb DEF ReindexFile
  <2>11. CASE ParkRepo
    BY <2>11, MovesDisturb DEF ParkRepo
  <2>12. CASE UNCHANGED searchVars
    BY <2>12, OrderStays
  <2> QED
    BY <2>1, <2>2, <2>3, <2>4, <2>5, <2>6, <2>7, <2>8, <2>9, <2>10, <2>11, <2>12 DEF SearchNext
<1>2. SearchInv /\ OrderInv => OrderFromAddresses
  BY OrderHolds
<1>3. SearchSpec => []SearchInv
  BY SearchHolds
<1> QED
  BY <1>1, <1>2, <1>3, OrderStarts, PTL DEF SearchSpec
=============================================================================
