--------------------------- MODULE DeliveriesProofs ---------------------------
(* Type correctness of Deliveries, and that the target and the terminal     *)
(* rows agree, for every set of events.                                     *)
EXTENDS Deliveries, TLAPS

(* What a row says of the target, whoever left it so.                       *)
RowSays(e) ==
    /\ applied[e] <= 1
    /\ e \in wire => applied[e] = 0 /\ state[e] \in {"in_flight", "ambiguous"}
    /\ state[e] \in {"absent", "pending", "retry_wait", "failed"} => applied[e] = 0
    /\ state[e] = "verified" => applied[e] = 1

(* What the sender knows of the row that it is at.                          *)
Free == at \in {"idle", "choosing"}
SenderKnows ==
    /\ Free <=> current = None
    /\ ~Free =>
         /\ state[current] = "in_flight"
         /\ current \in wire => at = "waiting"
         /\ at \in {"taken", "rejected", "limited"} => applied[current] = 0
         /\ at = "applied" => applied[current] = 1

IInv == TypeOK /\ SenderKnows /\ \A e \in Events : RowSays(e)

(* Only rows that can make the transition make it, and no other changes.    *)
LEMMA OneRow ==
    ASSUME TypeOK, NEW e \in Events, NEW to, Transition(e, to)
    PROVE  /\ to \in States /\ state[e] \notin {"absent", "verified", "failed"}
           /\ state' \in [Events -> States \cup {"absent"}]
           /\ state'[e] = to
           /\ \A f \in Events \ {e} : state'[f] = state[f]
           /\ past' = past \ {e}
           /\ past' \subseteq {f \in Events : state'[f] \in {"in_flight", "retry_wait"}}
<1>1. state[e] \in States /\ to \in Transitions[state[e]]
  BY DEF Transition, May
<1>2. to \in States /\ state[e] \notin {"absent", "verified", "failed"}
  BY <1>1 DEF States, Transitions
<1>3. /\ state' = [state EXCEPT ![e] = to] /\ past' = past \ {e}
  BY DEF Transition, Deadline
<1>4. /\ state' \in [Events -> States \cup {"absent"}]
      /\ state'[e] = to
      /\ \A f \in Events \ {e} : state'[f] = state[f]
  BY <1>2, <1>3 DEF TypeOK
<1>5. past' \subseteq {f \in Events : state'[f] \in {"in_flight", "retry_wait"}}
  BY <1>3, <1>4 DEF TypeOK
<1> QED BY <1>2, <1>3, <1>4, <1>5

LEMMA InitIInv == Init => IInv
<1> SUFFICES ASSUME Init PROVE IInv
  OBVIOUS
<1>1. TypeOK
  BY DEF Init, TypeOK
<1>2. SenderKnows
  BY DEF Init, SenderKnows, Free
<1>3. ASSUME NEW e \in Events PROVE RowSays(e)
  <2>1. state[e] = "absent" /\ applied[e] = 0 /\ wire = {}
    BY DEF Init
  <2> QED BY <2>1 DEF RowSays
<1> QED BY <1>1, <1>2, <1>3 DEF IInv

(* The sender records an outcome: the row is no longer its own.             *)
LEMMA DoneKeeps ==
    ASSUME IInv, NEW to, ~Free, Transition(current, to), Done,
           to = "verified" => applied[current] = 1,
           to \in {"pending", "retry_wait", "failed"} => applied[current] = 0,
           to \in {"verified", "pending", "retry_wait", "failed"} => current \notin wire,
           to # "in_flight"
    PROVE  IInv'
<1>1. current \in Events
  BY DEF IInv, TypeOK, SenderKnows
<1>2. TypeOK /\ SenderKnows /\ \A e \in Events : RowSays(e)
  BY DEF IInv
<1>3. /\ to \in States
      /\ state' \in [Events -> States \cup {"absent"}]
      /\ state'[current] = to
      /\ \A f \in Events \ {current} : state'[f] = state[f]
      /\ past' \subseteq {f \in Events : state'[f] \in {"in_flight", "retry_wait"}}
  BY <1>1, <1>2, OneRow
<1>4. TypeOK'
  BY <1>2, <1>3 DEF TypeOK, Done, target
<1>5. SenderKnows'
  BY DEF Done, SenderKnows, Free
<1>6. ASSUME NEW e \in Events PROVE RowSays(e)'
  <2>1. CASE e = current
    BY <1>2, <1>3, <2>1 DEF RowSays, Done, target, States
  <2>2. CASE e # current
    BY <1>2, <1>3, <2>2 DEF RowSays, Done, target
  <2> QED BY <2>1, <2>2
<1> QED BY <1>4, <1>5, <1>6 DEF IInv

(* A request arrives, and its answer with it if the sender waits.           *)
LEMMA AnswerKeeps ==
    ASSUME IInv, NEW e \in wire, NEW answer,
           wire' = wire \ {e}, Answer(e, answer),
           UNCHANGED <<state, past, runnable, current>>,
           \/ answer \in {"rejected", "limited", at} /\ applied' = applied
           \/ answer = "applied" /\ applied' = [applied EXCEPT ![e] = 1]
    PROVE  IInv'
<1>1. TypeOK /\ SenderKnows /\ \A f \in Events : RowSays(f)
  BY DEF IInv
<1>2. e \in Events /\ applied[e] = 0 /\ state[e] \in {"in_flight", "ambiguous"}
  BY <1>1 DEF TypeOK, RowSays
<1>3. applied' \in [Events -> 0..2] /\ \A f \in Events \ {e} : applied'[f] = applied[f]
  BY <1>1, <1>2 DEF TypeOK
<1>4. at' = IF current = e /\ at = "waiting" THEN answer ELSE at
  BY DEF Answer
<1>5. TypeOK'
  BY <1>1, <1>3, <1>4 DEF TypeOK
<1>6. SenderKnows'
  <2>1. CASE current = e
    <3>1. at = "waiting" /\ ~Free /\ at' = answer
      BY <1>1, <1>2, <1>4, <2>1, DeliveriesAssumption DEF SenderKnows, Free
    <3>2. CASE applied' = applied /\ answer \in {"rejected", "limited", at}
      BY <1>1, <1>2, <2>1, <3>1, <3>2 DEF SenderKnows, Free
    <3>3. CASE answer = "applied" /\ applied' = [applied EXCEPT ![e] = 1]
      <4>1. applied'[e] = 1
        BY <1>1, <1>2, <3>3 DEF TypeOK
      <4> QED BY <1>1, <1>2, <2>1, <3>1, <3>3, <4>1 DEF SenderKnows, Free
    <3> QED BY <3>2, <3>3
  <2>2. CASE current # e
    <3>1. at' = at
      BY <1>4, <2>2
    <3>2. CASE Free
      BY <1>1, <3>1, <3>2 DEF SenderKnows, Free
    <3>3. CASE ~Free
      <4>1. current \in Events \ {e} /\ applied'[current] = applied[current]
        BY <1>1, <1>3, <2>2, <3>3 DEF SenderKnows, TypeOK
      <4> QED BY <1>1, <3>1, <3>3, <4>1 DEF SenderKnows, Free
    <3> QED BY <3>2, <3>3
  <2> QED BY <2>1, <2>2
<1>7. ASSUME NEW f \in Events PROVE RowSays(f)'
  <2>1. CASE f = e
    <3>1. applied'[e] \in {0, 1}
      BY <1>1, <1>2 DEF TypeOK
    <3> QED BY <1>2, <2>1, <3>1 DEF RowSays
  <2>2. CASE f # e
    BY <1>1, <1>3, <2>2 DEF RowSays
  <2> QED BY <2>1, <2>2
<1> QED BY <1>5, <1>6, <1>7 DEF IInv

LEMMA NextIInv == IInv /\ [Next]_vars => IInv'
<1> SUFFICES ASSUME IInv, [Next]_vars PROVE IInv'
  OBVIOUS
<1>0. TypeOK /\ SenderKnows /\ \A e \in Events : RowSays(e)
  BY DEF IInv
<1>1. CASE Begin
  <2>1. /\ state' \in [Events -> States \cup {"absent"}]
        /\ \A e \in Events : \/ state'[e] = state[e]
                             \/ state[e] = "in_flight" /\ state'[e] = "ambiguous"
    BY <1>0, <1>1 DEF Begin, Recovered, TypeOK, States
  <2>2. past' \subseteq {e \in Events : state'[e] \in {"in_flight", "retry_wait"}}
    BY <1>0, <1>1 DEF Begin, Recovered, TypeOK
  <2>3. TypeOK'
    BY <1>0, <1>1, <2>1, <2>2 DEF TypeOK, Begin, Runnable, target
  <2>4. SenderKnows'
    BY <1>0, <1>1 DEF SenderKnows, Free, Begin
  <2>5. ASSUME NEW e \in Events PROVE RowSays(e)'
    BY <1>0, <1>1, <2>1 DEF RowSays, Begin, target
  <2> QED BY <2>3, <2>4, <2>5 DEF IInv
<1>2. ASSUME NEW e \in Events, Take(e) PROVE IInv'
  <2>1. /\ state' \in [Events -> States \cup {"absent"}]
        /\ state'[e] = "in_flight"
        /\ \A f \in Events \ {e} : state'[f] = state[f]
        /\ past' \subseteq {f \in Events : state'[f] \in {"in_flight", "retry_wait"}}
    BY <1>0, <1>2, OneRow DEF Take
  <2>2. state[e] \in {"pending", "retry_wait"}
    BY <1>0, <1>2 DEF Take, Transition, May, Transitions, TypeOK, States
  <2>3. applied[e] = 0 /\ e \notin wire
    BY <1>0, <2>2 DEF RowSays
  <2>4. TypeOK'
    BY <1>0, <1>2, <2>1 DEF TypeOK, Take, target
  <2>5. SenderKnows'
    BY <1>2, <2>1, <2>3, DeliveriesAssumption DEF SenderKnows, Free, Take, target
  <2>6. ASSUME NEW f \in Events PROVE RowSays(f)'
    <3>1. CASE f = e
      BY <1>2, <2>1, <2>3, <3>1 DEF RowSays, Take, target
    <3>2. CASE f # e
      BY <1>0, <1>2, <2>1, <3>2 DEF RowSays, Take, target
    <3> QED BY <3>1, <3>2
  <2> QED BY <2>4, <2>5, <2>6 DEF IInv
<1>3. CASE Send
  <2>1. /\ current \in Events /\ state[current] = "in_flight"
        /\ applied[current] = 0
    BY <1>0, <1>3 DEF Send, SenderKnows, Free, TypeOK
  <2>2. TypeOK'
    BY <1>0, <1>3, <2>1 DEF TypeOK, Send
  <2>3. SenderKnows'
    BY <1>0, <1>3, <2>1, DeliveriesAssumption DEF SenderKnows, Free, Send
  <2>4. ASSUME NEW e \in Events PROVE RowSays(e)'
    BY <1>0, <1>3, <2>1 DEF RowSays, Send
  <2> QED BY <2>2, <2>3, <2>4 DEF IInv
<1>4. CASE Verify
  BY <1>0, <1>4, DoneKeeps DEF Verify, SenderKnows, Free
<1>5. CASE GiveUp
  BY <1>0, <1>5, DoneKeeps DEF GiveUp, SenderKnows, Free, RecordFailure, FailedState, Uncertain
<1>6. CASE Later
  BY <1>0, <1>6, DoneKeeps DEF Later, SenderKnows, Free, RecordFailure, FailedState
<1>7. CASE Timeout
  BY <1>0, <1>7, DoneKeeps DEF Timeout, SenderKnows, Free, RecordFailure, FailedState, Uncertain
<1>8. CASE Unsent
  BY <1>0, <1>8, DoneKeeps DEF Unsent, SenderKnows, Free, RecordFailure, FailedState, Uncertain
<1>9. CASE Garbled
  <2>1. ~Free /\ Done /\ Transition(current, "ambiguous")
    BY <1>9 DEF Garbled, Free, RecordFailure, FailedState, Uncertain
  <2> QED BY <2>1, DoneKeeps
<1>10. CASE End \/ Die
  <2>1. TypeOK'
    BY <1>0, <1>10 DEF TypeOK, End, Die, Leave, target
  <2>2. SenderKnows'
    BY <1>10 DEF SenderKnows, Free, End, Die, Leave
  <2>3. ASSUME NEW e \in Events PROVE RowSays(e)'
    BY <1>0, <1>10 DEF RowSays, End, Die, Leave, target
  <2> QED BY <2>1, <2>2, <2>3 DEF IInv
<1>11. ASSUME NEW e \in Events, RateLimit(e) \/ Reject(e) \/ Lose(e) PROVE IInv'
  <2>1. PICK answer \in {"rejected", "limited", at} : Refuse(e, answer)
    BY <1>11 DEF RateLimit, Reject, Lose
  <2> QED BY <2>1, AnswerKeeps DEF Refuse
<1>12. ASSUME NEW e \in Events, Apply(e) PROVE IInv'
  <2>1. applied[e] = 0 /\ e \in wire
    BY <1>0, <1>12 DEF RowSays, Apply
  <2>2. applied' = [applied EXCEPT ![e] = 1]
    BY <1>0, <1>12, <2>1 DEF Apply, TypeOK
  <2> QED BY <1>12, <2>1, <2>2, AnswerKeeps DEF Apply
<1>13. ASSUME NEW e \in Events, Create(e) PROVE IInv'
  <2>1. TypeOK'
    BY <1>0, <1>13 DEF TypeOK, Create, sender, target, States
  <2>2. SenderKnows'
    BY <1>0, <1>13 DEF TypeOK, SenderKnows, Free, Create, sender, target
  <2>3. ASSUME NEW f \in Events PROVE RowSays(f)'
    BY <1>0, <1>13 DEF TypeOK, RowSays, Create, target
  <2> QED BY <2>1, <2>2, <2>3 DEF IInv
<1>14. ASSUME NEW e \in Events, Pass(e) PROVE IInv'
  <2>1. TypeOK'
    BY <1>0, <1>14 DEF TypeOK, Pass, sender, target
  <2>2. SenderKnows'
    BY <1>0, <1>14 DEF SenderKnows, Free, Pass, sender, target
  <2>3. ASSUME NEW f \in Events PROVE RowSays(f)'
    BY <1>0, <1>14 DEF RowSays, Pass, target
  <2> QED BY <2>1, <2>2, <2>3 DEF IInv
<1>15. ASSUME NEW e \in Events, Reconcile(e) PROVE IInv'
  <2>1. PICK to \in IF applied[e] = 0 THEN {"pending", "failed"} ELSE {"verified"} :
          Transition(e, to)
    BY <1>15 DEF Reconcile
  <2>2. /\ state[e] = "ambiguous" /\ e \notin wire /\ applied[e] \in {0, 1}
        /\ UNCHANGED <<sender, target>>
    BY <1>0, <1>15 DEF Reconcile, RowSays, TypeOK
  <2>3. /\ state' \in [Events -> States \cup {"absent"}]
        /\ state'[e] = to
        /\ \A f \in Events \ {e} : state'[f] = state[f]
        /\ past' \subseteq {f \in Events : state'[f] \in {"in_flight", "retry_wait"}}
    BY <1>0, <2>1, OneRow
  <2>4. TypeOK'
    BY <1>0, <2>2, <2>3 DEF TypeOK, sender, target
  <2>5. SenderKnows'
    BY <1>0, <2>2, <2>3 DEF SenderKnows, Free, TypeOK, sender, target
  <2>6. ASSUME NEW f \in Events PROVE RowSays(f)'
    <3>1. CASE f = e
      BY <2>1, <2>2, <2>3, <3>1 DEF RowSays, target
    <3>2. CASE f # e
      BY <1>0, <2>2, <2>3, <3>2 DEF RowSays, target
    <3> QED BY <3>1, <3>2
  <2> QED BY <2>4, <2>5, <2>6 DEF IInv
<1>16. CASE UNCHANGED vars
  BY <1>0, <1>16 DEF vars, sender, target, IInv, TypeOK, SenderKnows, Free, RowSays
<1> QED
  BY <1>1, <1>2, <1>3, <1>4, <1>5, <1>6, <1>7, <1>8, <1>9, <1>10, <1>11, <1>12, <1>13, <1>14,
     <1>15, <1>16 DEF Next, Run, Fault

(* The invariant says all that TargetAgrees does.                           *)
LEMMA IInvAgrees == IInv => TypeOK /\ TargetAgrees
  BY DEF IInv, TargetAgrees, Settled, RowSays

(* Every state of the ledger's deliveries is of its type, and only rows in  *)
(* flight or waiting have a deadline (watched_ledger.py, transition_delivery).*)
THEOREM TypeCorrect == Spec => []TypeOK
  BY InitIInv, NextIInv, IInvAgrees, PTL DEF Spec

(* Whatever is lost, late or restarted, the target applies an event at most *)
(* once, and verified and failed rows say what it has                       *)
(* (record_delivery_failure, recover_restart_work).                         *)
THEOREM TargetsAgree == Spec => []TargetAgrees
  BY InitIInv, NextIInv, IInvAgrees, PTL DEF Spec

-----------------------------------------------------------------------------
(* The refinement. A step changes the word of one row, or of none.          *)

Words == [e \in Events |-> Word(e)]

LEMMA InitWords == Init => Promise!Init
<1> SUFFICES ASSUME Init PROVE Promise!Init
  OBVIOUS
<1>1. ASSUME NEW e \in Events PROVE Word(e) = "no"
  BY DEF Init, Word
<1> QED BY <1>1 DEF Init, Promise!Init

LEMMA SameWords ==
    ASSUME \A e \in Events : Word(e)' = Word(e)
    PROVE  Words' = Words
  BY DEF Words

(* The words before and after a transition.                                 *)
LEMMA OneWord ==
    ASSUME TypeOK, NEW e \in Events, NEW to, Transition(e, to), UNCHANGED applied,
           NEW from, Word(e) = from
    PROVE  /\ to \in {"in_flight", "ambiguous"} => Promise!Say(e, from, "maybe")
           /\ to = "verified" => Promise!Say(e, from, "done")
           /\ to = "failed"   => Promise!Say(e, from, "never")
           /\ to \in {"pending", "retry_wait"} => Promise!Say(e, from, "no")
<1>1. state'[e] = to /\ \A f \in Events \ {e} : state'[f] = state[f]
  BY OneRow
<1>2. \A f \in Events \ {e} : Word(f)' = Word(f)
  BY <1>1 DEF Word
<1>3. Words' = [Words EXCEPT ![e] = Word(e)']
  BY <1>2 DEF Words
<1>4. Promise!Say(e, from, Word(e)')
  BY <1>3 DEF Promise!Say, Words
<1>5. /\ to \in {"in_flight", "ambiguous"} => Word(e)' = "maybe"
      /\ to = "verified" => Word(e)' = "done"
      /\ to = "failed"   => Word(e)' = "never"
      /\ to \in {"pending", "retry_wait"} => Word(e)' = "no"
  BY <1>1 DEF Word
<1> QED BY <1>4, <1>5

(* The outcome of a request is recorded.                                    *)
LEMMA DoneIsSaid ==
    ASSUME IInv, NEW to, ~Free, Transition(current, to), Done,
           \/ to = "ambiguous"
           \/ to = "verified" /\ applied[current] = 1
           \/ to \in {"retry_wait", "failed"} /\ applied[current] = 0
    PROVE  Promise!Next \/ UNCHANGED <<Words, applied>>
<1>1. /\ current \in Events /\ state[current] = "in_flight" /\ TypeOK
      /\ UNCHANGED applied
  BY DEF IInv, TypeOK, SenderKnows, Done, target
<1>2. PICK e \in Events : e = current
  BY <1>1
<1>3. Word(e) = "maybe"
  BY <1>1, <1>2 DEF Word
<1>4. Transition(e, to)
  BY <1>2
<1>5. CASE to = "ambiguous"
  <2>1. Promise!Say(e, "maybe", "maybe")
    BY <1>1, <1>3, <1>4, <1>5, OneWord
  <2>2. Words' = [Words EXCEPT ![e] = "maybe"] /\ Words[e] = "maybe"
    BY <2>1 DEF Promise!Say, Words
  <2>3. Words' = Words
    BY <2>2 DEF Words
  <2> QED BY <1>1, <2>3
<1>6. CASE to = "verified" /\ applied[current] = 1
  BY <1>1, <1>2, <1>3, <1>4, <1>6, OneWord DEF Promise!Next, Promise!Confirm
<1>7. CASE to \in {"retry_wait", "failed"} /\ applied[current] = 0
  BY <1>1, <1>2, <1>3, <1>4, <1>7, OneWord DEF Promise!Next, Promise!Deny
<1> QED BY <1>5, <1>6, <1>7

LEMMA NextWords == IInv /\ [Next]_vars => [Promise!Next]_<<Words, applied>>
<1> SUFFICES ASSUME IInv, [Next]_vars
             PROVE  Promise!Next \/ UNCHANGED <<Words, applied>>
  OBVIOUS
<1>0. TypeOK /\ SenderKnows /\ \A e \in Events : RowSays(e)
  BY DEF IInv
<1>1. CASE Begin
  <2>1. \A e \in Events : \/ state'[e] = state[e]
                          \/ state[e] = "in_flight" /\ state'[e] = "ambiguous"
    BY <1>0, <1>1 DEF Begin, Recovered, TypeOK
  <2>2. \A e \in Events : Word(e)' = Word(e)
    BY <2>1 DEF Word
  <2> QED BY <1>1, <2>2, SameWords DEF Begin, target
<1>2. ASSUME NEW e \in Events, Take(e) PROVE Promise!Next
  <2>1. Transition(e, "in_flight") /\ UNCHANGED applied
    BY <1>2 DEF Take, target
  <2>2. state[e] \in {"pending", "retry_wait"}
    BY <1>0, <2>1 DEF Transition, May, Transitions, TypeOK, States
  <2>3. Word(e) = "no"
    BY <2>2 DEF Word
  <2> QED BY <1>0, <2>1, <2>3, OneWord DEF Promise!Next, Promise!Attempt
<1>3. CASE Send \/ End \/ Die
  <2>1. UNCHANGED <<state, applied>>
    BY <1>3 DEF Send, End, Die, Leave, target
  <2> QED BY <2>1, SameWords DEF Word
<1>4. CASE Verify
  BY <1>0, <1>4, DoneIsSaid DEF Verify, SenderKnows, Free
<1>5. CASE GiveUp
  BY <1>0, <1>5, DoneIsSaid DEF GiveUp, SenderKnows, Free, RecordFailure, FailedState, Uncertain
<1>6. CASE Later
  BY <1>0, <1>6, DoneIsSaid DEF Later, SenderKnows, Free, RecordFailure, FailedState
<1>7. CASE Timeout
  BY <1>7, DoneIsSaid DEF Timeout, Free, RecordFailure, FailedState, Uncertain
<1>8. CASE Unsent
  BY <1>0, <1>8, DoneIsSaid DEF Unsent, SenderKnows, Free, RecordFailure, FailedState, Uncertain
<1>9. CASE Garbled
  BY <1>9, DoneIsSaid DEF Garbled, Free, RecordFailure, FailedState, Uncertain
<1>10. ASSUME NEW e \in Events, RateLimit(e) \/ Reject(e) \/ Lose(e) \/ Pass(e)
       PROVE  UNCHANGED <<Words, applied>>
  <2>1. UNCHANGED <<state, applied>>
    BY <1>10 DEF RateLimit, Reject, Lose, Refuse, Pass, target
  <2> QED BY <2>1, SameWords DEF Word
<1>11. ASSUME NEW e \in Events, Apply(e) PROVE Promise!Next
  <2>1. applied[e] = 0 /\ state[e] \in {"in_flight", "ambiguous"} /\ UNCHANGED state
    BY <1>0, <1>11 DEF RowSays, Apply
  <2>2. applied' = [applied EXCEPT ![e] = 1]
    BY <1>0, <1>11, <2>1 DEF Apply, TypeOK
  <2>3. Words' = Words /\ Word(e) = "maybe"
    BY <2>1, SameWords DEF Word
  <2> QED BY <2>1, <2>2, <2>3 DEF Promise!Next, Promise!Apply, Words
<1>12. ASSUME NEW e \in Events, Create(e) PROVE UNCHANGED <<Words, applied>>
  <2>1. \A f \in Events : \/ state'[f] = state[f]
                          \/ state[f] = "absent" /\ state'[f] = "pending"
    BY <1>0, <1>12 DEF Create, TypeOK
  <2>2. \A f \in Events : Word(f)' = Word(f)
    BY <2>1 DEF Word
  <2> QED BY <1>12, <2>2, SameWords DEF Create, target
<1>13. ASSUME NEW e \in Events, Reconcile(e) PROVE Promise!Next
  <2>1. PICK to \in IF applied[e] = 0 THEN {"pending", "failed"} ELSE {"verified"} :
          Transition(e, to)
    BY <1>13 DEF Reconcile
  <2>2. Word(e) = "maybe" /\ applied[e] \in {0, 1} /\ UNCHANGED applied
    BY <1>0, <1>13 DEF Reconcile, RowSays, TypeOK, Word, target
  <2>3. CASE applied[e] = 0
    BY <1>0, <2>1, <2>2, <2>3, OneWord DEF Promise!Next, Promise!Deny
  <2>4. CASE applied[e] = 1
    BY <1>0, <2>1, <2>2, <2>4, OneWord DEF Promise!Next, Promise!Confirm
  <2> QED BY <2>2, <2>3, <2>4
<1>14. CASE UNCHANGED vars
  BY <1>14, SameWords DEF vars, target, Word
<1> QED
  BY <1>1, <1>2, <1>3, <1>4, <1>5, <1>6, <1>7, <1>8, <1>9, <1>10, <1>11, <1>12, <1>13, <1>14
     DEF Next, Run, Fault

(* The rows' states and the target's count, whatever is lost, late or       *)
(* restarted, are those of AtMostOnce: a row says "not yet" only while no   *)
(* request can reach the target, and what it finally says is true and kept  *)
(* (transition_delivery, record_delivery_failure, recover_restart_work).    *)
THEOREM DeliveriesAreAtMostOnce == Spec => ImplementsAtMostOnce
<1>1. IInv /\ [Next]_vars => [Promise!Next]_<<[e \in Events |-> Word(e)], applied>>
  BY NextWords DEF Words
<1> QED BY <1>1, InitIInv, NextIInv, InitWords, PTL DEF Spec, ImplementsAtMostOnce, Promise!Spec
=============================================================================
