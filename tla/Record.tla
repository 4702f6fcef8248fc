------------------------------- MODULE Record -------------------------------
(***************************************************************************)
(* What a conversation promises its readers, whoever writes it and however *)
(* they fail: a list of messages that only grows at its end, each of them  *)
(* unfinished until it is settled once, and then as it is until its thread *)
(* is deleted with everything in it.                                       *)
(***************************************************************************)
EXTENDS Integers, FiniteSets

CONSTANTS
  Ids,         \* message ids, 1 .. n
  Threads

VARIABLE
  record       \* record[i]: Unseen, Gone, or an entry

Unseen == [thread |-> 0, state |-> "none", from |-> 0, head |-> 0]
Gone   == [thread |-> 0, state |-> "gone", from |-> 0, head |-> 0]
Outcomes == {"answered", "failed", "card"}

In(th) == {i \in Ids : record[i].thread = th}
Open == {i \in Ids : record[i].state = "open"}

\* Ids are issued in order.
NextId(i) == i \in Ids /\ record[i] = Unseen /\ \A j \in Ids : j < i => record[j] # Unseen

RecordInit == record = [i \in Ids |-> Unseen]

\* A question is put at the end, as a turn of its own or under the message that
\* opened the turn it continues, which opened one itself.
Put(i, th, head) ==
  /\ NextId(i)
  /\ head # 0 => head \in In(th) /\ record[head].head = 0
  /\ record' = [record EXCEPT ![i] = [thread |-> th, state |-> "open", from |-> 0, head |-> head]]

\* It is settled, once; only an answer closes a card, and one of its thread.
Settle(i, outcome, card) ==
  /\ i \in Open
  /\ card # 0 => /\ outcome = "answered"
                 /\ card \in In(record[i].thread) /\ record[card].state = "card"
  /\ record' = [record EXCEPT ![i].state = outcome, ![i].from = card]

\* What a dead process left open is failed, all of it at once.
SettleAll ==
  record' = [i \in Ids |-> IF i \in Open THEN [record[i] EXCEPT !.state = "failed"] ELSE record[i]]

\* A thread goes with every message in it, and with one just put into it.
Forget(th, late) ==
  /\ late = {} \/ \E i \in Ids : NextId(i) /\ late = {i}
  /\ record' = [i \in Ids |-> IF i \in In(th) \cup late THEN Gone ELSE record[i]]

RecordNext ==
  \/ \E i \in Ids, th \in Threads, head \in Ids \cup {0} : Put(i, th, head)
  \/ \E i \in Ids, outcome \in Outcomes, card \in Ids \cup {0} : Settle(i, outcome, card)
  \/ SettleAll
  \/ \E th \in Threads, late \in {{}} \cup {{i} : i \in Ids} : Forget(th, late)

RecordSpec == RecordInit /\ [][RecordNext]_record
=============================================================================
