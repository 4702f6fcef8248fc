----------------------------- MODULE MemoryProofs -----------------------------
(***************************************************************************)
(* What a reader may rely on of the rules they gave, for any number of     *)
(* readers and turns at once and every repos.yaml the loader accepts.      *)
(***************************************************************************)
EXTENDS Memory, FiniteSetTheorems, TLAPS

Running == {"understand", "link", "answer"}

\* A turn that runs, or holds a rule, has a reader.
TurnsShaped ==
  \A t \in Turns : turn[t].pc \in Running \/ turn[t].holder # {} => turn[t].subject \in Readers

\* No row, turn or holder knows an id that was not issued.
IdsIssued ==
  /\ \A i \in Ids : rows[i] # NoRow => i <= issued
  /\ \A t \in Turns : /\ turn[t].seen <= issued /\ turn[t].added <= issued
                      /\ \A r \in turn[t].holder : r.id <= issued

\* A held rule whose row still stands says what the row says: ids are not
\* issued twice and rows are not rewritten.
HolderTrue ==
  \A t \in Turns : \A r \in turn[t].holder :
    rows[r.id].subject = turn[t].subject => AsListed(r.id) = r

\* What the reader gave before the turn, or in it, is held while it runs.
HolderWhole ==
  \A t \in Turns : turn[t].pc \in Running =>
    /\ \A i \in Mine(turn[t].subject) :
         i <= turn[t].seen \/ i = turn[t].added => AsListed(i) \in turn[t].holder
    /\ \A r \in turn[t].holder : r.id \notin turn[t].deleted

MemoryInv ==
  /\ TypeOK /\ TurnsShaped /\ IdsIssued /\ HolderTrue /\ HolderWhole
  /\ CapAndOnce /\ NeverForgotten

-----------------------------------------------------------------------------
\* What Add is given: the fields of a directive that survived standingOnly.
LEMMA DirectiveShape ==
  ASSUME NEW t \in Turns, NEW d \in Directives(t), NEW lasts \in BOOLEAN
  PROVE  LET kept == StandingOnly(d, lasts)
             named == {r.id : r \in turn[t].holder}
                        \cup {i \in Ids : rows[i].subject \in Readers \ {turn[t].subject}}
         IN  /\ kept.text \in Texts \cup {None} /\ kept.scope \in Scopes
             /\ kept.replaces \cup kept.removes \subseteq named
BY ScopedAssumption DEF Directives, StandingOnly, Scopes

\* Subjects are told apart from no reader.
LEMMA RowsOfReaders ==
  ASSUME TypeOK, NEW i \in Ids
  PROVE  /\ rows[i] = NoRow <=> rows[i].subject = None
         /\ rows[i] # NoRow <=> rows[i].subject \in Readers
         /\ rows[i] # NoRow => AsListed(i) \in Listed
BY TextsAssumption DEF TypeOK, Row, NoRow, AsListed, Listed

\* The rules of one reader are finitely many.
LEMMA MineFinite ==
  ASSUME NEW s
  PROVE  Mine(s) \subseteq Ids /\ IsFiniteSet(Ids) /\ IsFiniteSet(Mine(s))
<1>1. IsFiniteSet(Ids)
  BY FS_Interval, CapAssumption DEF Ids
<1> QED
  BY <1>1, FS_Subset DEF Mine

\* A memory starts empty.
LEMMA MemoryInit == Init => MemoryInv
<1> SUFFICES ASSUME Init PROVE MemoryInv
  OBVIOUS
<1>1. \A s \in Readers : Mine(s) = {}
  BY TextsAssumption DEF Init, Mine, NoRow
<1>2. TypeOK
  BY CapAssumption DEF Init, TypeOK, NewTurn, Turn, Ids, NoRow
<1>3. CapAndOnce
  BY <1>1, FS_EmptySet, CapAssumption DEF CapAndOnce
<1>4. TurnsShaped /\ IdsIssued /\ HolderTrue /\ HolderWhole /\ NeverForgotten
  BY CapAssumption DEF Init, TurnsShaped, Running, IdsIssued, HolderTrue, HolderWhole, NeverForgotten,
     NewTurn
<1> QED
  BY <1>2, <1>3, <1>4 DEF MemoryInv

\* A step that leaves the table alone, and of one turn at most where it is.
LEMMA TurnMoves ==
  ASSUME MemoryInv, NEW t \in Turns, NEW x \in Turn,
         turn' = [turn EXCEPT ![t] = x],
         \/ x.pc \notin Running /\ x.holder = {} /\ x.seen = 0 /\ x.added = 0
         \/ /\ x.pc \in Running => turn[t].pc \in Running
            /\ x.subject = turn[t].subject /\ x.holder = turn[t].holder /\ x.seen = turn[t].seen
            /\ x.added = turn[t].added /\ x.deleted = turn[t].deleted,
         links' \in [Turns -> 0..MaxId],
         UNCHANGED <<rows, issued, grouping, restarts, standing>>
  PROVE  MemoryInv'
<1>1. /\ turn'[t] = x
      /\ \A u \in Turns \ {t} : turn'[u] = turn[u]
  BY DEF MemoryInv, TypeOK
<1>2. /\ \A s : Mine(s)' = Mine(s)
      /\ \A i : AsListed(i)' = AsListed(i)
  BY DEF Mine, AsListed
<1>3. TypeOK'
  BY DEF MemoryInv, TypeOK
<1>4. TurnsShaped'
  BY <1>1 DEF MemoryInv, TurnsShaped
<1>5. IdsIssued'
  BY <1>1, CapAssumption DEF MemoryInv, IdsIssued, TypeOK
<1>6. HolderTrue'
  BY <1>1, <1>2 DEF MemoryInv, HolderTrue
<1>7. HolderWhole'
  BY <1>1, <1>2 DEF MemoryInv, HolderWhole
<1>8. CapAndOnce' /\ NeverForgotten'
  BY <1>2 DEF MemoryInv, CapAndOnce, NeverForgotten
<1> QED
  BY <1>3, <1>4, <1>5, <1>6, <1>7, <1>8 DEF MemoryInv

\* Reading the rules at the top of a turn.
LEMMA StartKeeps ==
  ASSUME MemoryInv, NEW t \in Turns, NEW s \in Readers, StartTurn(t, s)
  PROVE  MemoryInv'
<1> DEFINE x == [pc |-> "understand", subject |-> s, holder |-> {AsListed(i) : i \in Mine(s)},
                 seen |-> issued, added |-> 0, deleted |-> {}]
<1>1. /\ turn'[t] = x
      /\ \A u \in Turns \ {t} : turn'[u] = turn[u]
  BY DEF MemoryInv, TypeOK, StartTurn
<1>2. /\ \A u : Mine(u)' = Mine(u)
      /\ \A i : AsListed(i)' = AsListed(i)
      /\ rows' = rows /\ issued' = issued /\ standing' = standing
  BY DEF Mine, AsListed, StartTurn
<1>3. \A i \in Mine(s) : AsListed(i) \in Listed /\ rows[i] # NoRow /\ rows[i].subject = s
  BY RowsOfReaders, TextsAssumption DEF MemoryInv, Mine
<1>4. x \in Turn
  BY <1>3, CapAssumption DEF Turn, MemoryInv, TypeOK
<1>5. TypeOK'
  BY <1>4 DEF MemoryInv, TypeOK, StartTurn
<1>6. TurnsShaped'
  BY <1>1 DEF MemoryInv, TurnsShaped
<1>7. IdsIssued'
  <2>1. \A r \in x.holder : r.id <= issued
    BY <1>3 DEF MemoryInv, IdsIssued, Mine, AsListed
  <2>2. issued \in Nat
    BY CapAssumption DEF MemoryInv, TypeOK
  <2> QED
    BY <1>1, <1>2, <2>1, <2>2 DEF MemoryInv, IdsIssued
<1>8. HolderTrue'
  <2>1. \A r \in x.holder : AsListed(r.id) = r
    BY DEF AsListed
  <2> QED
    BY <1>1, <1>2, <2>1 DEF MemoryInv, HolderTrue
<1>9. HolderWhole'
  BY <1>1, <1>2 DEF MemoryInv, HolderWhole
<1>10. CapAndOnce' /\ NeverForgotten'
  BY <1>2 DEF MemoryInv, CapAndOnce, NeverForgotten
<1> QED
  BY <1>5, <1>6, <1>7, <1>8, <1>9, <1>10 DEF MemoryInv

\* Steps of a turn that write no rule.
LEMMA QuietKeeps ==
  ASSUME MemoryInv, NEW t \in Turns, NEW d, NEW only,
         \/ Refused(t, d, only) /\ turn[t].pc = "understand"
         \/ NothingToKeep(t) \/ Link(t) \/ Answer(t)
  PROVE  MemoryInv'
<1>1. turn \in [Turns -> Turn] /\ links \in [Turns -> 0..MaxId]
  BY DEF MemoryInv, TypeOK
<1>2. CASE Answer(t)
  <2> DEFINE x == [NewTurn EXCEPT !.pc = "done"]
  <2>1. x \in Turn /\ x.pc \notin Running /\ x.holder = {} /\ x.seen = 0 /\ x.added = 0
    BY CapAssumption DEF NewTurn, Turn, Running
  <2> QED
    BY <1>1, <1>2, <2>1, TurnMoves DEF Answer
<1>3. ASSUME NEW stage \in {"answer", "done"}, turn[t].pc \in Running,
             turn' = [turn EXCEPT ![t].pc = stage], links' \in [Turns -> 0..MaxId],
             UNCHANGED <<rows, issued, grouping, restarts, standing>>
      PROVE  MemoryInv'
  <2> DEFINE x == [turn[t] EXCEPT !.pc = stage]
  <2>1. /\ x \in Turn /\ x.subject = turn[t].subject /\ x.holder = turn[t].holder
        /\ x.seen = turn[t].seen /\ x.added = turn[t].added /\ x.deleted = turn[t].deleted
    BY <1>1 DEF Turn
  <2>2. turn' = [turn EXCEPT ![t] = x]
    BY <1>3
  <2> HIDE DEF x
  <2> QED
    BY <1>3, <2>1, <2>2, TurnMoves
<1>4. CASE Refused(t, d, only) /\ turn[t].pc = "understand"
  BY <1>1, <1>3, <1>4 DEF Refused, Running
<1>5. CASE NothingToKeep(t)
  BY <1>1, <1>3, <1>5 DEF NothingToKeep, Running
<1>6. CASE Link(t)
  <2>1. turn[t].added \in 0..MaxId
    BY <1>1 DEF Turn
  <2>2. links' \in [Turns -> 0..MaxId]
    BY <1>1, <1>6, <2>1 DEF Link
  <2> QED
    BY <1>3, <1>6, <2>2 DEF Link, Running
<1> QED
  BY <1>2, <1>4, <1>5, <1>6

\* Forgetting takes a row away and nothing else.
LEMMA ForgetKeeps ==
  ASSUME MemoryInv, NEW s \in Readers, NEW i \in Ids, Forget(s, i)
  PROVE  MemoryInv'
<1>1. /\ rows'[i] = NoRow /\ \A j \in Ids \ {i} : rows'[j] = rows[j]
      /\ rows' \in [Ids -> Row \cup {NoRow}]
      /\ issued' = issued /\ turn' = turn
  BY DEF Forget, MemoryInv, TypeOK
<1>2. \A u \in Readers : /\ Mine(u)' \subseteq Mine(u)
                         /\ \A j \in Mine(u)' : j # i /\ rows'[j] = rows[j] /\ AsListed(j)' = AsListed(j)
  BY <1>1, TextsAssumption DEF Mine, NoRow, AsListed
<1>3. TypeOK'
  <2>1. links' \in [Turns -> 0..MaxId]
    BY CapAssumption DEF Forget, MemoryInv, TypeOK
  <2>2. standing' \subseteq standing
    BY DEF Forget
  <2> QED
    BY <1>1, <2>1, <2>2 DEF MemoryInv, TypeOK, Forget
<1>4. TurnsShaped'
  BY <1>1 DEF MemoryInv, TurnsShaped
<1>5. IdsIssued'
  BY <1>1 DEF MemoryInv, IdsIssued
<1>6. HolderTrue'
  <2> SUFFICES ASSUME NEW t \in Turns, NEW r \in turn[t].holder, rows'[r.id].subject = turn[t].subject
               PROVE  AsListed(r.id)' = r
    BY <1>1 DEF HolderTrue
  <2>1. r.id \in Ids /\ turn[t].subject \in Readers
    BY DEF MemoryInv, TurnsShaped, TypeOK, Turn, Listed
  <2>2. r.id # i
    BY <1>1, <2>1, TextsAssumption DEF NoRow
  <2>3. AsListed(r.id)' = AsListed(r.id) /\ rows[r.id].subject = turn[t].subject
    BY <1>1, <2>1, <2>2 DEF AsListed
  <2> QED
    BY <2>3 DEF MemoryInv, HolderTrue
<1>7. HolderWhole'
  BY <1>1, <1>2 DEF MemoryInv, HolderWhole, TurnsShaped
<1>8. CapAndOnce'
  <2> SUFFICES ASSUME NEW u \in Readers
               PROVE  /\ Cardinality(Mine(u)') <= MaxRows
                      /\ \A j, k \in Mine(u)' : rows'[j] = rows'[k] => j = k
    BY DEF CapAndOnce
  <2>1. Cardinality(Mine(u)') <= Cardinality(Mine(u)) /\ Cardinality(Mine(u)) \in Nat
        /\ Cardinality(Mine(u)') \in Nat
    BY <1>2, MineFinite, FS_Subset, FS_CardinalityType
  <2> QED
    BY <1>2, <2>1, CapAssumption DEF MemoryInv, CapAndOnce
<1>9. NeverForgotten'
  <2> SUFFICES ASSUME NEW r \in standing'
               PROVE  \E j \in Ids : rows'[j] = [subject |-> r[1], text |-> r[2], scope |-> r[3]]
    BY DEF NeverForgotten
  <2>1. r \in standing /\ r # <<s, rows[i].text, rows[i].scope>>
    BY DEF Forget
  <2>2. PICK j \in Ids : rows[j] = [subject |-> r[1], text |-> r[2], scope |-> r[3]]
    BY <2>1 DEF MemoryInv, NeverForgotten
  <2>3. rows[i].subject = s /\ r = <<r[1], r[2], r[3]>>
    BY <2>1 DEF Forget, MemoryInv, TypeOK
  <2>4. j # i
    BY <2>1, <2>2, <2>3
  <2> QED
    BY <1>1, <2>2, <2>4
<1> QED
  BY <1>3, <1>4, <1>5, <1>6, <1>7, <1>8, <1>9 DEF MemoryInv

\* A restart ends the turns and keeps the table.
LEMMA RestartKeeps ==
  ASSUME MemoryInv, NEW g \in Groupings, Restart(g)
  PROVE  MemoryInv'
<1>1. \A t \in Turns : /\ turn'[t] \in Turn /\ turn'[t].pc \notin Running /\ turn'[t].holder = {}
                       /\ turn'[t].seen = 0 /\ turn'[t].added = 0
  BY CapAssumption DEF Restart, NewTurn, Turn, Running
<1>2. rows' = rows /\ issued' = issued /\ standing' = standing /\ \A s : Mine(s)' = Mine(s)
  BY DEF Restart, Mine
<1>3. TypeOK'
  BY <1>1, CapAssumption DEF MemoryInv, TypeOK, Restart
<1>4. issued \in Nat
  BY CapAssumption DEF MemoryInv, TypeOK
<1>5. TurnsShaped' /\ HolderTrue' /\ HolderWhole'
  BY <1>1 DEF TurnsShaped, HolderTrue, HolderWhole
<1>6. IdsIssued'
  BY <1>1, <1>2, <1>4 DEF MemoryInv, IdsIssued
<1>7. CapAndOnce' /\ NeverForgotten'
  BY <1>2 DEF MemoryInv, CapAndOnce, NeverForgotten
<1> QED
  BY <1>3, <1>5, <1>6, <1>7 DEF MemoryInv

\* Add, one transaction: what it takes away the reader had named, and what it
\* puts in is new, within the cap, and found again if it was there.
LEMMA AddKeeps ==
  ASSUME MemoryInv, NEW t \in Turns, turn[t].pc = "understand",
         NEW d, d.text \in Texts \cup {None}, d.scope \in Scopes,
         d.replaces \cup d.removes \subseteq
           {r.id : r \in turn[t].holder} \cup {i \in Ids : rows[i].subject \in Readers \ {turn[t].subject}},
         Add(t, d)
  PROVE  MemoryInv'
<1>a. PICK s : s = turn[t].subject
  OBVIOUS
<1> DEFINE gone == Gone(s, d)
           kept == Mine(s) \ gone
           scope == CanonicalScope(grouping, d.scope)
           found == {i \in kept : Same(s, d, i)}
           fresh == d.text # None /\ found = {}
<1>b. PICK id : id = IF d.text = None THEN 0 ELSE IF fresh THEN NextId ELSE CHOOSE i \in found : TRUE
  OBVIOUS
<1> DEFINE added == [id |-> id, text |-> d.text, scope |-> scope]
           rule == [subject |-> s, text |-> d.text, scope |-> scope]
           x == [pc |-> IF id # 0 THEN "link" ELSE "answer", subject |-> s,
                 holder |-> Apply(turn[t].holder, gone, added),
                 seen |-> turn[t].seen, added |-> id, deleted |-> gone]
<1>1. /\ ~(fresh /\ Full(s, kept)) /\ (fresh => NextId \in Ids)
      /\ rows' = [i \in Ids |-> IF fresh /\ i = id THEN rule ELSE IF i \in gone THEN NoRow ELSE rows[i]]
      /\ issued' = IF fresh /\ id > issued THEN id ELSE issued
      /\ links' = [m \in Turns |-> IF links[m] \in gone THEN 0 ELSE links[m]]
      /\ turn' = [turn EXCEPT ![t] = x]
      /\ standing' = (standing \ TakenBack(t, gone)) \cup (IF id = 0 THEN {} ELSE {<<s, d.text, scope>>})
      /\ UNCHANGED <<grouping, restarts>>
  BY <1>a, <1>b DEF Add
<1>2. /\ s \in Readers /\ s # None /\ scope \in Scopes /\ gone \subseteq Mine(s)
      /\ Mine(s) \subseteq Ids /\ issued \in 0..MaxId /\ issued \in Nat
      /\ \A r \in turn[t].holder : r \in Listed
  BY <1>a, TextsAssumption, CapAssumption
     DEF MemoryInv, TurnsShaped, Running, CanonicalScope, Scopes, Gone, Mine, TypeOK, Turn
\* The id is 0, that of a rule found, or one never issued.
<1>3. /\ fresh => id = issued + 1 /\ id \in Ids /\ rows[id] = NoRow /\ id \notin Mine(s) /\ issued' = id
      /\ ~fresh => issued' = issued
      /\ ~fresh /\ d.text # None => id \in found
      /\ d.text = None => id = 0
  <2>1. CASE fresh
    <3>1. id = issued + 1 /\ id \in Ids
      BY <1>1, <1>b, <2>1 DEF NextId
    <3>2. rows[id] = NoRow
      BY <3>1, <1>2 DEF MemoryInv, IdsIssued, Ids
    <3> QED
      BY <1>1, <1>2, <2>1, <3>1, <3>2 DEF Mine, NoRow
  <2>2. CASE ~fresh
    BY <1>1, <1>b, <2>2
  <2> QED
    BY <2>1, <2>2
<1>4. /\ id \in 0..MaxId /\ issued' \in 0..MaxId /\ issued <= issued' /\ id <= issued'
      /\ id # 0 <=> d.text # None
      /\ id # 0 => id \in Ids /\ id \notin gone
  <2>1. \A i \in found : i \in Ids /\ i \notin gone /\ i <= issued
    BY <1>2 DEF MemoryInv, IdsIssued, Mine, NoRow
  <2> QED
    BY <1>2, <1>3, <2>1, CapAssumption DEF Ids
\* A row goes if its reader named it, the fresh one comes, all others stay.
<1>5. /\ \A i \in Ids : fresh /\ i = id => rows'[i] = rule
      /\ \A i \in gone : rows'[i] = NoRow
      /\ \A i \in Ids : ~(fresh /\ i = id) /\ i \notin gone => rows'[i] = rows[i]
      /\ rule.subject = s /\ rule.text = d.text /\ rule.scope = scope
  BY <1>1, <1>2, <1>3, <1>4
<1>6. id # 0 => rows'[id] = rule /\ AsListed(id)' = added
  <2>1. CASE fresh
    BY <1>3, <1>5, <2>1 DEF AsListed
  <2>2. CASE ~fresh /\ id # 0
    <3>1. id \in found
      BY <1>3, <1>4, <2>2
    <3>2. rows[id] \in Row /\ rows[id].subject = s /\ rows[id].text = d.text /\ rows[id].scope = scope
      BY <1>2, <3>1, RowsOfReaders DEF MemoryInv, TypeOK, Same, Mine, NoRow
    <3> QED
      BY <1>4, <1>5, <2>2, <3>2 DEF Row, AsListed
  <2> QED
    BY <1>3, <1>4, <2>1, <2>2
<1>7. /\ turn'[t] = x
      /\ \A u \in Turns \ {t} : turn'[u] = turn[u]
  BY <1>1 DEF MemoryInv, TypeOK
<1>8. \A r : r \in x.holder <=>
        (r \in turn[t].holder /\ r.id \notin gone /\ r.id # id) \/ (id # 0 /\ r = added)
  <2>1. x.holder = {r \in turn[t].holder : r.id \notin gone /\ r.id # id}
                     \cup (IF id = 0 THEN {} ELSE {added})
    BY DEF Apply
  <2> HIDE DEF x, added, gone
  <2>2. ASSUME NEW r
        PROVE  r \in x.holder <=>
                 (r \in turn[t].holder /\ r.id \notin gone /\ r.id # id) \/ (id # 0 /\ r = added)
    <3>1. CASE id = 0
      BY <2>1, <3>1
    <3>2. CASE id # 0
      BY <2>1, <3>2
    <3> QED
      BY <3>1, <3>2
  <2> QED
    BY <2>2
<1>9. TypeOK'
  <2>1. rule \in Row \/ d.text = None
    BY <1>2 DEF Row
  <2>2. rows' \in [Ids -> Row \cup {NoRow}]
    BY <1>1, <2>1 DEF MemoryInv, TypeOK
  <2>3. id # 0 => added \in Listed
    BY <1>2, <1>4 DEF Listed
  <2>4. x.holder \subseteq Listed
    BY <1>2, <1>8, <2>3
  <2>5. x \in Turn
    BY <1>2, <1>4, <2>4 DEF Turn, MemoryInv, TypeOK
  <2>6. links' \in [Turns -> 0..MaxId]
    BY <1>1, CapAssumption DEF MemoryInv, TypeOK
  <2>7. standing' \subseteq Readers \X Texts \X Scopes
    BY <1>1, <1>2, <1>4 DEF MemoryInv, TypeOK
  <2> QED
    BY <1>1, <1>4, <2>2, <2>5, <2>6, <2>7 DEF MemoryInv, TypeOK
<1>10. TurnsShaped'
  BY <1>2, <1>7 DEF MemoryInv, TurnsShaped
<1>11. IdsIssued'
  <2>1. \A i \in Ids : rows'[i] # NoRow => i <= issued'
    BY <1>2, <1>4, <1>5 DEF MemoryInv, IdsIssued, Ids
  <2>2. \A r \in x.holder : r.id <= issued'
    BY <1>2, <1>4, <1>8 DEF MemoryInv, IdsIssued, Listed, Ids
  <2>3. \A u \in Turns \ {t} : /\ turn[u].seen <= issued' /\ turn[u].added <= issued'
                             /\ \A r \in turn[u].holder : r.id <= issued'
    BY <1>2, <1>4 DEF MemoryInv, IdsIssued, TypeOK, Turn, Listed, Ids
  <2>4. turn[t].seen <= issued'
    BY <1>2, <1>4 DEF MemoryInv, IdsIssued, TypeOK, Turn
  <2> QED
    BY <1>4, <1>7, <2>1, <2>2, <2>3, <2>4 DEF IdsIssued
\* A held id was issued, so a fresh row is no held rule's.
<1>12. \A u \in Turns : \A r \in turn[u].holder :
         /\ r.id \in Ids /\ ~(fresh /\ r.id = id) /\ turn[u].subject \in Readers
         /\ rows'[r.id].subject = turn[u].subject => AsListed(r.id)' = r
  <2> SUFFICES ASSUME NEW u \in Turns, NEW r \in turn[u].holder
               PROVE  /\ r.id \in Ids /\ ~(fresh /\ r.id = id) /\ turn[u].subject \in Readers
                      /\ rows'[r.id].subject = turn[u].subject => AsListed(r.id)' = r
    OBVIOUS
  <2>1. r.id \in Ids /\ r.id <= issued /\ turn[u].subject \in Readers
    BY DEF MemoryInv, TypeOK, Turn, Listed, IdsIssued, TurnsShaped
  <2>2. ~(fresh /\ r.id = id)
    BY <1>2, <1>3, <2>1 DEF Ids
  <2>3. ASSUME rows'[r.id].subject = turn[u].subject
        PROVE  AsListed(r.id)' = r
    <3>1. r.id \notin gone
      BY <1>5, <2>1, <2>3, TextsAssumption DEF NoRow
    <3>2. rows'[r.id] = rows[r.id]
      BY <1>5, <2>1, <2>2, <3>1
    <3>3. AsListed(r.id) = r
      BY <2>3, <3>2 DEF MemoryInv, HolderTrue
    <3> QED
      BY <3>2, <3>3 DEF AsListed
  <2> QED
    BY <2>1, <2>2, <2>3
<1>13. HolderTrue'
  <2>1. \A r \in x.holder : rows'[r.id].subject = s => AsListed(r.id)' = r
    <3> SUFFICES ASSUME NEW r \in x.holder, rows'[r.id].subject = s
                 PROVE  AsListed(r.id)' = r
      OBVIOUS
    <3>1. CASE id # 0 /\ r = added
      <4>1. r.id = id
        BY <3>1
      <4> QED
        BY <1>6, <3>1, <4>1
    <3>2. CASE r \in turn[t].holder
      BY <1>a, <1>12, <3>2
    <3> QED
      BY <1>8, <3>1, <3>2
  <2> QED
    BY <1>7, <1>12, <2>1 DEF HolderTrue
<1>14. HolderWhole'
  <2>1. ASSUME NEW u \in Turns, u # t, turn[u].pc \in Running
        PROVE  /\ \A i \in Mine(turn[u].subject)' :
                    i <= turn[u].seen \/ i = turn[u].added => AsListed(i)' \in turn[u].holder
               /\ \A r \in turn[u].holder : r.id \notin turn[u].deleted
    <3>1. turn[u].seen <= issued /\ turn[u].added <= issued /\ turn[u].subject \in Readers
      BY <2>1 DEF MemoryInv, IdsIssued, TurnsShaped
    <3>2. ASSUME NEW i \in Mine(turn[u].subject)', i <= turn[u].seen \/ i = turn[u].added
          PROVE  AsListed(i)' \in turn[u].holder
      <4>1. i \in Ids /\ rows'[i].subject = turn[u].subject
        BY <1>7, <2>1, <3>2 DEF Mine
      <4>2. ~(fresh /\ i = id)
        BY <1>2, <1>3, <3>1, <3>2, <4>1 DEF MemoryInv, TypeOK, Turn, Ids
      <4>3. i \notin gone
        BY <1>5, <3>1, <4>1, TextsAssumption DEF NoRow
      <4>4. rows'[i] = rows[i] /\ i \in Mine(turn[u].subject)
        BY <1>5, <4>1, <4>2, <4>3 DEF Mine
      <4>5. AsListed(i) \in turn[u].holder
        BY <2>1, <3>2, <4>4 DEF MemoryInv, HolderWhole
      <4> QED
        BY <4>4, <4>5 DEF AsListed
    <3> QED
      BY <2>1, <3>2 DEF MemoryInv, HolderWhole
  <2>2. ASSUME NEW i \in Mine(s)', i <= turn[t].seen \/ i = id
        PROVE  AsListed(i)' \in x.holder
    <3>1. i \in Ids /\ rows'[i].subject = s
      BY <2>2 DEF Mine
    <3>2. CASE i = id
      <4>1. id # 0
        BY <3>1, <3>2 DEF Ids
      <4> QED
        BY <1>6, <1>8, <3>2, <4>1
    <3>3. CASE i # id
      <4>1. i \notin gone /\ i <= turn[t].seen
        BY <1>2, <1>5, <2>2, <3>1, <3>3 DEF NoRow
      <4>2. rows'[i] = rows[i] /\ i \in Mine(s)
        BY <1>5, <3>1, <3>3, <4>1 DEF Mine
      <4>3. AsListed(i) \in turn[t].holder /\ AsListed(i)' = AsListed(i) /\ AsListed(i).id = i
        BY <1>a, <4>1, <4>2 DEF MemoryInv, HolderWhole, Running, AsListed
      <4> QED
        <5> DEFINE held == AsListed(i)
        <5> HIDE DEF held, x, added, gone
        <5>1. held \in turn[t].holder /\ held.id = i /\ held' = held
          BY <4>3 DEF held
        <5>2. held \in x.holder
          BY <1>8, <3>3, <4>1, <5>1
        <5> QED
          BY <5>1, <5>2 DEF held
    <3> QED
      BY <3>2, <3>3
  <2>3. \A r \in x.holder : r.id \notin gone
    BY <1>4, <1>8
  <2> HIDE DEF gone, added
  <2>4. x.subject = s /\ x.seen = turn[t].seen /\ x.added = id /\ x.deleted = gone
    OBVIOUS
  <2> HIDE DEF x
  <2> QED
    BY <1>7, <2>1, <2>2, <2>3, <2>4 DEF HolderWhole
<1>15. CapAndOnce'
  <2>1. ASSUME NEW u \in Readers, u # s
        PROVE  Mine(u)' = Mine(u) /\ \A i \in Mine(u) : rows'[i] = rows[i]
    BY <1>2, <1>3, <1>5, <2>1, TextsAssumption DEF Mine, NoRow
  <2>2. Mine(s)' = kept \cup (IF fresh THEN {id} ELSE {}) /\ \A i \in kept : rows'[i] = rows[i]
    BY <1>2, <1>3, <1>5 DEF Mine, NoRow
  <2>3. Cardinality(Mine(s)') <= MaxRows
    <3>1. IsFiniteSet(kept) /\ Cardinality(kept) \in Nat
          /\ Cardinality(kept) <= Cardinality(Mine(s)) /\ Cardinality(Mine(s)) \in Nat
      BY MineFinite, FS_Subset, FS_CardinalityType
    <3>2. CASE fresh
      <4>1. Cardinality(kept) + 1 <= MaxRows
        BY <1>1, <3>1, <3>2, CapAssumption DEF Full
      <4>2. Cardinality(kept \cup {id}) = Cardinality(kept) + 1
        BY <1>3, <3>1, <3>2, FS_AddElement
      <4> QED
        BY <2>2, <3>2, <4>1, <4>2
    <3>3. CASE ~fresh
      <4>1. Mine(s)' = kept /\ Cardinality(Mine(s)) <= MaxRows
        BY <1>2, <2>2, <3>3 DEF MemoryInv, CapAndOnce
      <4> HIDE DEF kept
      <4> QED
        BY <3>1, <4>1, CapAssumption
    <3> QED
      BY <3>2, <3>3
  <2>4. ASSUME NEW i \in Mine(s)', NEW j \in Mine(s)', rows'[i] = rows'[j]
        PROVE  i = j
    <3>1. ASSUME fresh, NEW k \in kept
          PROVE  rows[k] # rule
      <4>1. ~Same(s, d, k)
        BY <3>1
      <4> QED
        BY <4>1, <1>5 DEF Same
    <3>2. i \in kept /\ j \in kept => i = j
      BY <1>2, <2>2, <2>4 DEF MemoryInv, CapAndOnce
    <3>3. fresh => rows'[id] = rule
      BY <1>3, <1>5
    <3> QED
      BY <2>2, <2>4, <3>1, <3>2, <3>3
  <2> QED
    BY <2>1, <2>3, <2>4 DEF MemoryInv, CapAndOnce
<1>16. NeverForgotten'
  <2> SUFFICES ASSUME NEW r \in standing'
               PROVE  \E j \in Ids : rows'[j] = [subject |-> r[1], text |-> r[2], scope |-> r[3]]
    BY DEF NeverForgotten
  <2>1. CASE id # 0 /\ r = <<s, d.text, scope>>
    BY <1>4, <1>6, <2>1
  <2>2. CASE r \in standing /\ r \notin TakenBack(t, gone)
    <3>1. PICK i \in Ids : rows[i] = [subject |-> r[1], text |-> r[2], scope |-> r[3]]
      BY <2>2 DEF MemoryInv, NeverForgotten
    <3>2. r = <<r[1], r[2], r[3]>> /\ r[1] \in Readers
      BY <2>2 DEF MemoryInv, TypeOK
    <3>3. rows[i] # NoRow /\ rows[i].subject = r[1] /\ rows[i].text = r[2] /\ rows[i].scope = r[3]
      BY <3>1, <3>2, TextsAssumption DEF NoRow
    <3>4. i \notin gone
      <4> SUFFICES ASSUME i \in gone PROVE FALSE
        OBVIOUS
      <4>1. rows[i].subject = s
        BY DEF Gone, Mine
      <4>2. PICK y \in turn[t].holder : y.id = i
        BY <1>a, <4>1 DEF Gone
      <4>3. AsListed(i) = y
        BY <1>a, <4>1, <4>2 DEF MemoryInv, HolderTrue
      <4>4. y.text = r[2] /\ y.scope = r[3] /\ s = r[1]
        BY <3>3, <4>1, <4>3 DEF AsListed
      <4> QED
        BY <1>a, <2>2, <3>2, <4>2, <4>4 DEF TakenBack
    <3>5. ~(fresh /\ i = id)
      BY <1>3, <3>3
    <3> QED
      BY <1>5, <3>1, <3>4, <3>5
  <2> QED
    BY <1>1, <2>1, <2>2
<1> QED
  BY <1>9, <1>10, <1>11, <1>13, <1>14, <1>15, <1>16 DEF MemoryInv

\* Whatever a step does, the memory stays as MemoryInv says.
LEMMA MemoryHolds == Spec => []MemoryInv
<1>1. ASSUME MemoryInv, [Next]_vars
      PROVE  MemoryInv'
  <2>1. CASE UNCHANGED vars
    <3>1. /\ rows' = rows /\ issued' = issued /\ grouping' = grouping /\ restarts' = restarts
          /\ turn' = turn /\ links' = links /\ standing' = standing
      BY <2>1 DEF vars
    <3>2. TypeOK' /\ TurnsShaped' /\ IdsIssued' /\ NeverForgotten'
      BY <1>1, <3>1 DEF MemoryInv, TypeOK, TurnsShaped, IdsIssued, NeverForgotten
    <3>3. HolderTrue'
      BY <1>1, <3>1 DEF MemoryInv, HolderTrue, AsListed
    <3>4. HolderWhole'
      BY <1>1, <3>1 DEF MemoryInv, HolderWhole, AsListed, Mine
    <3>5. CapAndOnce'
      BY <1>1, <3>1 DEF MemoryInv, CapAndOnce, Mine
    <3> QED
      BY <3>2, <3>3, <3>4, <3>5 DEF MemoryInv
  <2>2. ASSUME NEW t \in Turns, NEW s \in Readers, StartTurn(t, s)
        PROVE  MemoryInv'
    BY <1>1, <2>2, StartKeeps
  <2>3. ASSUME NEW t \in Turns, NEW lasts \in BOOLEAN, NEW only \in BOOLEAN, NEW d \in Directives(t),
               Remember(t, d, lasts, only)
        PROVE  MemoryInv'
    <3> DEFINE kept == StandingOnly(d, lasts)
    <3>1. turn[t].pc = "understand" /\ (Add(t, kept) \/ Refused(t, kept, only))
      BY <2>3 DEF Remember
    <3>2. CASE Add(t, kept)
      BY <1>1, <3>1, <3>2, DirectiveShape, AddKeeps
    <3>3. CASE Refused(t, kept, only)
      BY <1>1, <3>1, <3>3, QuietKeeps
    <3> QED
      BY <3>1, <3>2, <3>3
  <2>4. ASSUME NEW t \in Turns, NothingToKeep(t) \/ Link(t) \/ Answer(t)
        PROVE  MemoryInv'
    BY <1>1, <2>4, QuietKeeps
  <2>5. ASSUME NEW s \in Readers, NEW i \in Ids, Forget(s, i)
        PROVE  MemoryInv'
    BY <1>1, <2>5, ForgetKeeps
  <2>6. ASSUME NEW g \in Groupings, Restart(g)
        PROVE  MemoryInv'
    BY <1>1, <2>6, RestartKeeps
  <2> QED
    BY <1>1, <2>1, <2>2, <2>3, <2>4, <2>5, <2>6 DEF Next
<1> QED
  BY MemoryInit, <1>1, PTL DEF Spec

(* However many turns add at once, every row is whole, no reader is past   *)
(* the cap and none holds one rule twice.                                  *)
THEOREM TableStaysSound == Spec => []TableSound
<1>1. MemoryInv => TableSound
  BY DEF MemoryInv, TableSound
<1> QED
  BY <1>1, MemoryHolds, PTL

(* A rule that was acknowledged stands until its reader takes it back, and *)
(* the answer of every turn that runs is written under it.                 *)
THEOREM RulesAlwaysStand == Spec => []RulesStand
<1>1. MemoryInv => RulesStand
  BY DEF MemoryInv, RulesStand, HolderCurrent, HolderWhole, Running
<1> QED
  BY <1>1, MemoryHolds, PTL

-----------------------------------------------------------------------------
\* A product has a repository of its own, and its own are no libraries.
LEMMA ProductHasOwn ==
  ASSUME NEW g, WellFormed(g), NEW p \in All(g) \ Libraries(g)
  PROVE  /\ \E r \in Enabled(g) : r \in Own(g, p)
         /\ Own(g, p) \cap Libraries(g) = {}
         /\ Members(g, p) \ Libraries(g) = Own(g, p)
         /\ p # None
<1>1. PICK r \in Enabled(g) : g.of[r] = p
  BY DEF All
<1>2. p # None /\ r \in Own(g, p)
  BY <1>1, NoneIsNoName DEF WellFormed, Grouping, Enabled, Of, Own
<1>3. Own(g, p) \cap Libraries(g) = {}
  BY DEF Own, Libraries
<1>4. Members(g, p) = Own(g, p) \cup ReachedLibraries(g, p) /\ ReachedLibraries(g, p) \subseteq Libraries(g)
  BY DEF Members, ReachedLibraries
<1> QED
  BY <1>2, <1>3, <1>4

\* What a name is searched with is enabled.
LEMMA MembersEnabled ==
  ASSUME NEW g, NEW p
  PROVE  Members(g, p) \subseteq Enabled(g)
<1>1. Own(g, p) \subseteq Enabled(g) /\ ReachedLibraries(g, p) \subseteq Enabled(g)
  BY DEF Own, ReachedLibraries, Libraries
<1> QED
  BY <1>1 DEF Members

(* A rule's scope never goes silent and never reaches another product, for *)
(* every repos.yaml a restart may bring.                                   *)
THEOREM ScopesStayHonest == Spec => []ScopesHonest
<1>1. ASSUME MemoryInv
      PROVE  ScopesHonest
  <2>1. WellFormed(grouping)
    BY <1>1, GroupingsAssumption DEF MemoryInv, TypeOK
  <2>2. NeverNowhere
    <3> SUFFICES ASSUME NEW i \in Ids, rows[i] # NoRow, Enabled(grouping) # {}
                 PROVE  \E r \in Enabled(grouping) : Applies(grouping, rows[i].scope, {r})
      BY DEF NeverNowhere
    <3> DEFINE scope == rows[i].scope
    <3>1. CASE scope = None \/ ~ResolveScope(grouping, scope).live
      BY <3>1 DEF Applies
    <3>2. CASE scope \in All(grouping) \ Libraries(grouping)
      <4>1. PICK r \in Enabled(grouping) : r \in Own(grouping, scope)
        BY <2>1, <3>2, ProductHasOwn
      <4>2. r \in ResolveScope(grouping, scope).members
        BY <2>1, <3>2, <4>1, ProductHasOwn DEF ResolveScope
      <4> QED
        BY <4>1, <4>2 DEF Applies
    <3>3. CASE /\ scope \notin All(grouping) \ Libraries(grouping)
               /\ ResolveScope(grouping, scope).live
      <4>1. scope \in Members(grouping, Of(grouping, scope)) /\ ResolveScope(grouping, scope).members = {scope}
        BY <3>3 DEF ResolveScope
      <4>2. scope \in Enabled(grouping)
        BY <4>1, MembersEnabled
      <4> QED
        BY <4>1, <4>2 DEF Applies
    <3> QED
      BY <3>1, <3>2, <3>3
  <2>3. NoLeak
    <3> SUFFICES ASSUME NEW i \in Ids, NEW p \in All(grouping) \ Libraries(grouping),
                        rows[i].scope \in All(grouping) \ Libraries(grouping), rows[i].scope # p
                 PROVE  ~Applies(grouping, rows[i].scope, Members(grouping, p))
      BY DEF NoLeak
    <3> DEFINE scope == rows[i].scope
    <3>1. /\ ResolveScope(grouping, scope).live
          /\ ResolveScope(grouping, scope).members = Own(grouping, scope)
      BY <2>1, ProductHasOwn DEF ResolveScope
    <3>2. Own(grouping, scope) \cap Members(grouping, p) = {}
      <4>1. Own(grouping, scope) \cap Own(grouping, p) = {}
        BY DEF Own
      <4>2. Own(grouping, scope) \cap Libraries(grouping) = {} /\ Members(grouping, p) \ Libraries(grouping) = Own(grouping, p)
        BY <2>1, ProductHasOwn
      <4> QED
        BY <4>1, <4>2
    <3>3. scope # None /\ Members(grouping, p) # {}
      BY <2>1, ProductHasOwn
    <3> QED
      BY <3>1, <3>2, <3>3 DEF Applies
  <2> QED
    BY <2>2, <2>3 DEF ScopesHonest
<1> QED
  BY <1>1, MemoryHolds, PTL
=============================================================================
