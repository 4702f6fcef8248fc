------------------------------- MODULE Memory -------------------------------
(***************************************************************************)
(* The standing instructions a reader gives in chat: internal/memory's     *)
(* table, the holder a turn carries and the two handlers that change it.   *)
(* Turns of one reader run at once, each under the list it read when it    *)
(* started, while the Memory page forgets rules and repos.yaml renames or  *)
(* parks what a rule is scoped to.                                         *)
(*                                                                         *)
(* A rule's text stands for the sentence up to letter case, a scope for a  *)
(* name up to letter case.  Add is one transaction that opens with a       *)
(* write, so two of them never interleave.                                 *)
(***************************************************************************)
EXTENDS Projects

CONSTANTS
  Readers,     \* user subjects
  Texts,       \* rules a reader may give
  Scoped,      \* names readers limit a rule to
  Groupings,   \* contents repos.yaml may have
  Turns,       \* messages whose turns may run
  MaxRows,     \* memory.MaxRows, the cap
  MaxId,       \* bound: ids issued
  MaxRestarts  \* bound: restarts

ASSUME CapAssumption == MaxRows \in Nat /\ MaxId \in Nat /\ MaxRestarts \in Nat
ASSUME ScopedAssumption == Scoped \subseteq Names
ASSUME GroupingsAssumption == \A g \in Groupings : WellFormed(g)
ASSUME TextsAssumption == None \notin Texts \cup Readers

VARIABLES
  rows,      \* rows[i]: memory i, or NoRow
  issued,    \* ids AUTOINCREMENT has issued
  grouping,  \* what repos.yaml says since the last boot
  turn,      \* turn[t]: the turn answering message t
  links,     \* messages.memory_id
  restarts,
  standing   \* ghost: <<reader, text, scope>> given, acknowledged, not taken back

vars == <<rows, issued, grouping, turn, links, restarts, standing>>

Ids == 1..MaxId
Scopes == Names \cup {None}
Row == [subject : Readers, text : Texts, scope : Scopes]
NoRow == [subject |-> None, text |-> None, scope |-> None]
Listed == [id : Ids, text : Texts, scope : Scopes]

\* holder: the rules the turn sees; seen: ids issued when it read them; added
\* and deleted: what its directive left behind.
Turn == [pc : {"new", "understand", "link", "answer", "done"}, subject : Readers \cup {None},
         holder : SUBSET Listed, seen : 0..MaxId, added : 0..MaxId, deleted : SUBSET Ids]
NewTurn == [pc |-> "new", subject |-> None, holder |-> {}, seen |-> 0, added |-> 0,
            deleted |-> {}]

Mine(s) == {i \in Ids : rows[i].subject = s}

AsListed(i) == [id |-> i, text |-> rows[i].text, scope |-> rows[i].scope]

-----------------------------------------------------------------------------
(* Scopes.                                                                 *)

\* Mutant: resolveScope without its library check: a product's scope covers the
\* libraries it is built on.
ResolveWithLibraries(g, scope) ==
  IF scope \in All(g) THEN [members |-> Members(g, scope), live |-> TRUE]
  ELSE IF scope \in Members(g, Of(g, scope)) THEN [members |-> {scope}, live |-> TRUE]
  ELSE [members |-> {}, live |-> FALSE]

\* resolveScope, for a scope that is a name: a product's own repositories, or
\* the repository or library itself.
ResolveScope(g, scope) ==
  IF scope \in All(g) \ Libraries(g)
  THEN [members |-> Members(g, scope) \ Libraries(g), live |-> TRUE]
  ELSE IF scope \in Members(g, Of(g, scope)) THEN [members |-> {scope}, live |-> TRUE]
  ELSE [members |-> {}, live |-> FALSE]

\* canonicalScope: a name the index does not carry is dropped, and the rule
\* holds everywhere.
CanonicalScope(g, scope) == IF scope \in All(g) \cup Enabled(g) THEN scope ELSE None

\* Applies: on a turn over the repositories known, empty for the whole corpus.
Applies(g, scope, known) ==
  \/ scope = None \/ known = {}
  \/ ~ResolveScope(g, scope).live
  \/ ResolveScope(g, scope).members \cap known # {}

-----------------------------------------------------------------------------
Init ==
  /\ rows = [i \in Ids |-> NoRow] /\ issued = 0
  /\ grouping \in Groupings
  /\ turn = [t \in Turns |-> NewTurn] /\ links = [t \in Turns |-> 0]
  /\ restarts = 0 /\ standing = {}

\* memoryHolder: the rules are read once, at the top of the turn.
StartTurn(t, s) ==
  /\ turn[t].pc = "new"
  /\ turn' = [turn EXCEPT ![t] =
       [pc |-> "understand", subject |-> s, holder |-> {AsListed(i) : i \in Mine(s)},
        seen |-> issued, added |-> 0, deleted |-> {}]]
  /\ UNCHANGED <<rows, issued, grouping, links, restarts, standing>>

\* What the model may read out of the question.  Ids come from the list it was
\* shown, and a stray one may be another reader's.
Directives(t) ==
  LET named == {r.id : r \in turn[t].holder}
                 \cup {i \in Ids : rows[i].subject \in Readers \ {turn[t].subject}}
  IN  {d \in [text : Texts \cup {None}, scope : Scoped \cup {None}, replaces : SUBSET named,
               removes : SUBSET named] :
         d.text = None => d.scope = None /\ d.replaces = {}}

\* standingOnly: a rule the reader's words do not say lasts is not kept, and
\* what it would have replaced stays; forgetting is not gated.
StandingOnly(d, lasts) ==
  IF lasts \/ d.text = None THEN d
  ELSE [d EXCEPT !.text = None, !.scope = None, !.replaces = {}]

\* deleteRows: only ids that are the reader's own.
Gone(s, d) == (d.replaces \cup d.removes) \cap Mine(s)

\* Mutant: two turns count the rows before they write.
FullAtStart(s, kept) == Cardinality(kept) > MaxRows

\* Counted after the INSERT, inside the transaction.
Full(s, kept) == Cardinality(kept) + 1 > MaxRows

\* AUTOINCREMENT.
NextId == issued + 1

\* INSERT ... WHERE NOT EXISTS, over the rows the deletes left.
Same(s, d, i) ==
  rows[i].subject = s /\ rows[i].text = d.text /\ rows[i].scope = CanonicalScope(grouping, d.scope)

\* Holder.Apply: the deleted go, the rule written or found again comes in.
Apply(holder, gone, added) ==
  {r \in holder : r.id \notin gone /\ r.id # added.id} \cup (IF added.id = 0 THEN {} ELSE {added})

\* The rules whose ids the directive named, as the reader saw them.
TakenBack(t, gone) ==
  {<<turn[t].subject, r.text, r.scope>> : r \in {x \in turn[t].holder : x.id \in gone}}

\* remember and Store.Add, for a directive that is not empty.
Add(t, d) ==
  LET s == turn[t].subject
      gone == Gone(s, d)
      kept == Mine(s) \ gone
      scope == CanonicalScope(grouping, d.scope)
      found == {i \in kept : Same(s, d, i)}
      fresh == d.text # None /\ found = {}
      id == IF d.text = None THEN 0 ELSE IF fresh THEN NextId ELSE CHOOSE i \in found : TRUE
      added == [id |-> id, text |-> d.text, scope |-> scope]
  IN  /\ ~(fresh /\ Full(s, kept))
      /\ fresh => NextId \in Ids
      /\ rows' = [i \in Ids |-> IF fresh /\ i = id
                                THEN [subject |-> s, text |-> d.text, scope |-> scope]
                                ELSE IF i \in gone THEN NoRow ELSE rows[i]]
      /\ issued' = IF fresh /\ id > issued THEN id ELSE issued
      /\ links' = [m \in Turns |-> IF links[m] \in gone THEN 0 ELSE links[m]]
      /\ turn' = [turn EXCEPT ![t] =
           [pc |-> IF id # 0 THEN "link" ELSE "answer", subject |-> s,
            holder |-> Apply(turn[t].holder, gone, added),
            seen |-> turn[t].seen, added |-> id, deleted |-> gone]]
      /\ standing' = (standing \ TakenBack(t, gone))
                       \cup (IF id = 0 THEN {} ELSE {<<s, d.text, scope>>})
      /\ UNCHANGED <<grouping, restarts>>

\* Mutant: each statement commits on its own, and the INSERT fails after the deletes.
RefusedHalfway(t, d, only) ==
  /\ turn' = [turn EXCEPT ![t].pc = IF only THEN "done" ELSE "answer"]
  /\ rows' = [i \in Ids |-> IF i \in Gone(turn[t].subject, d) THEN NoRow ELSE rows[i]]
  /\ UNCHANGED <<issued, grouping, links, restarts, standing>>

\* The transaction fails, or the memory is full: the rollback leaves the
\* table, the links and the holder as they were.  (A directive that deletes a
\* rule of its reader's always fits.)
Refused(t, d, only) ==
  LET kept == Mine(turn[t].subject) \ Gone(turn[t].subject, d)
  IN  /\ \/ /\ d.text # None /\ \A i \in kept : ~Same(turn[t].subject, d, i)
            /\ Full(turn[t].subject, kept)
            /\ turn' = [turn EXCEPT ![t].pc = "answer"]
         \/ turn' = [turn EXCEPT ![t].pc = IF only THEN "done" ELSE "answer"]
      /\ UNCHANGED <<rows, issued, grouping, links, restarts, standing>>

\* A turn that was only the instruction carries no question.
Remember(t, d, lasts, only) ==
  LET kept == StandingOnly(d, lasts)
  IN  /\ turn[t].pc = "understand"
      /\ kept.text # None \/ kept.replaces \cup kept.removes # {}
      /\ Add(t, kept) \/ Refused(t, kept, only)

\* No directive: the question runs.
NothingToKeep(t) ==
  /\ turn[t].pc = "understand"
  /\ turn' = [turn EXCEPT ![t].pc = "answer"]
  /\ UNCHANGED <<rows, issued, grouping, links, restarts, standing>>

\* SetMemory: the foreign key refuses a rule forgotten meanwhile.
Link(t) ==
  /\ turn[t].pc = "link"
  /\ links' = IF rows[turn[t].added] # NoRow THEN [links EXCEPT ![t] = turn[t].added] ELSE links
  /\ turn' = [turn EXCEPT ![t].pc = "answer"]
  /\ UNCHANGED <<rows, issued, grouping, restarts, standing>>

\* The answer is written under the holder's rules, or the fixed text of a
\* turn that was only the instruction.
Answer(t) ==
  /\ turn[t].pc = "answer"
  /\ turn' = [turn EXCEPT ![t] = [NewTurn EXCEPT !.pc = "done"]]
  /\ UNCHANGED <<rows, issued, grouping, links, restarts, standing>>

\* handleForgetMemory: the page's x and the undo under an answer.
Forget(s, i) ==
  /\ rows[i].subject = s
  /\ rows' = [rows EXCEPT ![i] = NoRow]
  /\ links' = [m \in Turns |-> IF links[m] = i THEN 0 ELSE links[m]]
  /\ standing' = standing \ {<<s, rows[i].text, rows[i].scope>>}
  /\ UNCHANGED <<issued, grouping, turn, restarts>>

\* A restart under an edited repos.yaml ends the turns that run.
Restart(g) ==
  /\ restarts < MaxRestarts /\ restarts' = restarts + 1
  /\ grouping' = g
  /\ turn' = [t \in Turns |-> IF turn[t].pc = "new" THEN NewTurn
                              ELSE [NewTurn EXCEPT !.pc = "done"]]
  /\ UNCHANGED <<rows, issued, links, standing>>

Next ==
  \/ \E t \in Turns, s \in Readers : StartTurn(t, s)
  \/ \E t \in Turns, lasts, only \in BOOLEAN :
       \E d \in Directives(t) : Remember(t, d, lasts, only)
  \/ \E t \in Turns : NothingToKeep(t) \/ Link(t) \/ Answer(t)
  \/ \E s \in Readers, i \in Ids : Forget(s, i)
  \/ \E g \in Groupings : Restart(g)

Spec == Init /\ [][Next]_vars

-----------------------------------------------------------------------------
(* Every row, turn and link is well formed: a row is whole or gone, and no *)
(* id beyond the ones issued is in use.                                    *)
TypeOK ==
  /\ rows \in [Ids -> Row \cup {NoRow}] /\ issued \in 0..MaxId
  /\ grouping \in Groupings /\ restarts \in 0..MaxRestarts
  /\ turn \in [Turns -> Turn] /\ links \in [Turns -> 0..MaxId]
  /\ standing \subseteq Readers \X Texts \X Scopes

(* A rule said once holds until its reader deletes or contradicts it: no   *)
(* refused directive, full memory, duplicate, stale list or other reader's *)
(* directive makes one disappear.                                          *)
NeverForgotten ==
  \A r \in standing : \E i \in Ids : rows[i] = [subject |-> r[1], text |-> r[2], scope |-> r[3]]

(* However many turns add at once, a reader never holds more than MaxRows  *)
(* rules, and never one rule twice for one scope.                          *)
CapAndOnce ==
  \A s \in Readers :
    /\ Cardinality(Mine(s)) <= MaxRows
    /\ \A i, j \in Mine(s) : rows[i] = rows[j] => i = j

(* The table is one Add could have left alone: TypeOK and CapAndOnce.      *)
TableSound == TypeOK /\ CapAndOnce

(* The answer is written under the reader's own word: every rule that      *)
(* stood when the turn began and still does is in the holder, the rule the *)
(* turn just gave too, and nothing that very turn took back.               *)
HolderCurrent ==
  \A t \in Turns : turn[t].pc = "answer" =>
    /\ \A i \in Mine(turn[t].subject) :
         i <= turn[t].seen \/ i = turn[t].added => AsListed(i) \in turn[t].holder
    /\ \A r \in turn[t].holder : r.id \notin turn[t].deleted

(* A rule stands until it is taken back, and binds while it stands:        *)
(* NeverForgotten and HolderCurrent.                                       *)
RulesStand == NeverForgotten /\ HolderCurrent

(* A rule is never quietly applied nowhere: whatever became of its scope   *)
(* in repos.yaml, some listed repository's turn runs under it.             *)
NeverNowhere ==
  \A i \in Ids : rows[i] # NoRow /\ Enabled(grouping) # {} =>
    \E r \in Enabled(grouping) : Applies(grouping, rows[i].scope, {r})

(* A rule scoped to one product never fires on a turn over another that    *)
(* only shares its libraries.                                              *)
NoLeak ==
  \A i \in Ids, p \in All(grouping) \ Libraries(grouping) :
    /\ rows[i] # NoRow
    /\ rows[i].scope \in All(grouping) \ Libraries(grouping) /\ rows[i].scope # p
    => ~Applies(grouping, rows[i].scope, Members(grouping, p))

(* A scope is neither silent nor leaky, whatever repos.yaml became since   *)
(* the rule was given: NeverNowhere and NoLeak.                            *)
ScopesHonest == NeverNowhere /\ NoLeak
=============================================================================
