------------------------- MODULE ControlWorkerProofs -------------------------
(* The safety properties of ControlWorker, for any number of issues,        *)
(* requests and workers and any page size.                                  *)
EXTENDS ControlWorker, TLAPS

(* What a record that may be delivered to issue i says, against a ledger.   *)
Agrees(ledger, count, i, c) ==
    /\ c \in Records /\ c.status # "processing"
    /\ c.status # "duplicate" => c.original = "none"
    /\ c.status # "request_rejected" => c.id \in Ids
    /\ c.status \in Outcomes =>
         ledger[c.id] = [status |-> c.status, issue |-> i] /\ count[c.id] = 1
    /\ c.status = "duplicate" =>
         ledger[c.id] # None /\ ledger[c.id].status = c.original

(* worker.lock is held exactly during a tick.                               *)
Exclusive == \A w \in Workers : InTick(w) => lock = w

RunsInv == \A id \in Ids : (requests[id] = None => runs[id] = 0) /\ runs[id] <= 1

DeliveryInv == \A i \in Issues : delivery[i] # None =>
    /\ Agrees(requests, runs, i, delivery[i].record)
    /\ delivery[i].posted \/ delivery[i].closed => delivery[i].record \in comments[i]

CommentsInv == \A i \in Issues : \A c \in comments[i] :
    delivery[i] # None /\ c = delivery[i].record

(* The issue that a worker is at.                                           *)
Undelivered == {"fetching", "reserved", "executing", "recording"}
Delivering  == {"posting", "posted", "closing", "closed"}

WorkerInv(w) ==
    /\ at[w] \in Undelivered => now[w] \in Issues /\ delivery[now[w]] = None
    /\ at[w] \in {"reserved", "executing"} =>
         /\ record[w] \in Records /\ record[w].id \in Ids
         /\ requests[record[w].id] = [status |-> "processing", issue |-> now[w]]
         /\ runs[record[w].id] = IF at[w] = "reserved" THEN 0 ELSE 1
    /\ at[w] = "recording" => Agrees(requests, runs, now[w], record[w])
    /\ at[w] \in Delivering =>
         /\ now[w] \in Issues /\ delivery[now[w]] # None
         /\ delivery[now[w]].record = record[w]
         /\ at[w] # "posting" => record[w] \in comments[now[w]]

IInv == /\ TypeOK /\ Exclusive /\ RunsInv /\ DeliveryInv /\ CommentsInv
        /\ \A w \in Workers : WorkerInv(w)

-----------------------------------------------------------------------------
(* What the ledger says for good is not disturbed.                          *)
LedgerKeeps == \A id \in Ids :
    requests[id] # None /\ requests[id].status \in Outcomes =>
        requests'[id] = requests[id] /\ runs'[id] = runs[id]

LEMMA AgreesStays ==
    ASSUME TypeOK, LedgerKeeps, NEW i \in Issues, NEW c, Agrees(requests, runs, i, c)
    PROVE  Agrees(requests', runs', i, c)
<1>1. CASE c.status \in Outcomes
  <2>1. c.id \in Ids /\ requests[c.id] = [status |-> c.status, issue |-> i]
    BY <1>1 DEF Agrees, Outcomes
  <2>2. requests[c.id] # None
    <3>1. requests[c.id] \in Requests
      BY <1>1, <2>1 DEF Requests
    <3> QED BY <3>1, NoneIsNoRecord
  <2>3. requests'[c.id] = requests[c.id] /\ runs'[c.id] = runs[c.id]
    BY <1>1, <2>1, <2>2 DEF LedgerKeeps
  <2> QED BY <1>1, <2>3 DEF Agrees
<1>2. CASE c.status = "duplicate"
  <2>1. c.id \in Ids /\ requests[c.id] # None /\ requests[c.id].status = c.original
    BY <1>2 DEF Agrees
  <2>2. requests[c.id].status \in {"processing"} \cup Outcomes
    BY <2>1 DEF TypeOK, Requests
  <2>3. c.original \in {"none"} \cup Outcomes
    BY DEF Agrees, Records
  <2>4. requests[c.id].status \in Outcomes
    BY <2>1, <2>2, <2>3 DEF Outcomes
  <2>5. requests'[c.id] = requests[c.id]
    BY <2>1, <2>4 DEF LedgerKeeps
  <2> QED BY <1>2, <2>5 DEF Agrees, Outcomes
<1>3. CASE c.status \notin Outcomes /\ c.status # "duplicate"
  BY <1>3 DEF Agrees
<1> QED BY <1>1, <1>2, <1>3

(* During the tick of one worker the others are outside theirs.             *)
LEMMA OthersOutside ==
    ASSUME IInv, NEW w \in Workers, InTick(w), NEW q \in Workers, q # w
    PROVE  ~InTick(q) /\ at[q] \notin Undelivered \cup Delivering
<1>1. ~InTick(q)
  BY DEF IInv, Exclusive
<1> QED BY <1>1 DEF InTick, Undelivered, Delivering

(* A step of worker w in its tick keeps the invariant if it keeps these     *)
(* parts of it.                                                             *)
OthersRest(w) == \A q \in Workers \ {w} : at'[q] = at[q]

LEMMA StepKeeps ==
    ASSUME IInv, TypeOK', NEW w \in Workers, InTick(w), OthersRest(w),
           InTick(w)' => lock' = w,
           RunsInv', DeliveryInv', CommentsInv', WorkerInv(w)'
    PROVE  IInv'
<1>1. ASSUME NEW q \in Workers, q # w
      PROVE  ~InTick(q)' /\ WorkerInv(q)'
  <2>1. ~InTick(q) /\ at[q] \notin Undelivered \cup Delivering /\ at'[q] = at[q]
    BY <1>1, OthersOutside DEF OthersRest
  <2> QED BY <2>1 DEF InTick, WorkerInv, Undelivered, Delivering
<1>2. Exclusive'
  <2> SUFFICES ASSUME NEW q \in Workers, InTick(q)' PROVE lock' = q
    BY DEF Exclusive
  <2> QED BY <1>1
<1>3. ASSUME NEW q \in Workers PROVE WorkerInv(q)'
  BY <1>1
<1> QED BY <1>2, <1>3 DEF IInv

(* Steps that leave the ledger and the comments alone.                      *)
LEMMA MoveKeeps ==
    ASSUME IInv, TypeOK', NEW w \in Workers, InTick(w), OthersRest(w),
           InTick(w)' => lock' = w,
           UNCHANGED <<comments, requests, delivery, runs>>, WorkerInv(w)'
    PROVE  IInv'
<1>1. RunsInv' /\ DeliveryInv' /\ CommentsInv'
  BY DEF IInv, RunsInv, DeliveryInv, CommentsInv
<1> QED BY <1>1, StepKeeps

(* Steps that write only to requests and runs, and disturb nothing that is  *)
(* settled.                                                                 *)
LEMMA LedgerStepKeeps ==
    ASSUME IInv, TypeOK', NEW w \in Workers, InTick(w), OthersRest(w), lock' = lock,
           UNCHANGED <<comments, delivery>>, LedgerKeeps, RunsInv', WorkerInv(w)'
    PROVE  IInv'
<1>1. DeliveryInv'
  <2> SUFFICES ASSUME NEW i \in Issues, delivery[i] # None
               PROVE  /\ Agrees(requests', runs', i, delivery[i].record)
                      /\ delivery[i].posted \/ delivery[i].closed =>
                           delivery[i].record \in comments[i]
    BY DEF DeliveryInv
  <2> QED BY AgreesStays DEF IInv, DeliveryInv
<1>2. CommentsInv'
  BY DEF IInv, CommentsInv
<1>3. InTick(w)' => lock' = w
  BY DEF IInv, Exclusive
<1> QED BY <1>1, <1>2, <1>3, StepKeeps

-----------------------------------------------------------------------------
LEMMA InitIInv == Init => IInv
<1> SUFFICES ASSUME Init PROVE IInv
  OBVIOUS
<1>1. TypeOK
  BY DEF Init, TypeOK, IssueType, Bodies
<1>2. Exclusive /\ RunsInv /\ DeliveryInv /\ CommentsInv
  BY DEF Init, Exclusive, InTick, RunsInv, DeliveryInv, CommentsInv
<1>3. ASSUME NEW w \in Workers PROVE WorkerInv(w)
  BY DEF Init, WorkerInv, Undelivered, Delivering
<1> QED BY <1>1, <1>2, <1>3 DEF IInv

(* Outside a tick: who enters one holds the lock, and nobody else is inside.*)
LEMMA OutsideKeeps ==
    ASSUME IInv, TypeOK', NEW w \in Workers, ~InTick(w), OthersRest(w),
           \/ lock' = lock /\ ~InTick(w)'
           \/ lock = None /\ lock' = w /\ at'[w] = "listing",
           UNCHANGED <<comments, requests, delivery, runs, now, record>>
    PROVE  IInv'
<1>1. RunsInv' /\ DeliveryInv' /\ CommentsInv'
  BY DEF IInv, RunsInv, DeliveryInv, CommentsInv
<1>2. Exclusive'
  <2> SUFFICES ASSUME NEW q \in Workers, InTick(q)' PROVE lock' = q
    BY DEF Exclusive
  <2>1. CASE q = w
    BY <2>1
  <2>2. CASE q # w
    <3>1. InTick(q)
      BY <2>2 DEF InTick, OthersRest
    <3>2. lock = q
      BY <3>1 DEF IInv, Exclusive
    <3> QED BY <3>2, ControlAssumption
  <2> QED BY <2>1, <2>2
<1>3. ASSUME NEW q \in Workers PROVE WorkerInv(q)'
  <2>1. CASE q = w
    BY <2>1 DEF WorkerInv, InTick, Undelivered, Delivering
  <2>2. CASE q # w
    <3>1. at'[q] = at[q] /\ WorkerInv(q)
      BY <2>2 DEF OthersRest, IInv
    <3> QED BY <3>1 DEF WorkerInv
  <2> QED BY <2>1, <2>2
<1> QED BY <1>1, <1>2, <1>3 DEF IInv

LEMMA ServeKeeps ==
    ASSUME IInv, NEW w \in Workers, Start(w) \/ BeginTick(w) \/ SaveFailure(w)
    PROVE  IInv'
<1>1. TypeOK
  BY DEF IInv
<1>2. CASE Start(w)
  <2>1. TypeOK' /\ OthersRest(w) /\ ~InTick(w)' /\ ~InTick(w)
    BY <1>1, <1>2 DEF Start, Goto, TypeOK, OthersRest, InTick, remoteVars, ledgerVars
  <2> QED BY <1>2, <2>1, OutsideKeeps DEF Start, remoteVars, ledgerVars
<1>3. CASE BeginTick(w)
  <2>1. TypeOK' /\ OthersRest(w) /\ ~InTick(w) /\ at'[w] = "listing"
    BY <1>1, <1>3 DEF BeginTick, Goto, TypeOK, OthersRest, InTick, remoteVars, ledgerVars
  <2> QED BY <1>3, <2>1, OutsideKeeps DEF BeginTick, LockFree, remoteVars, ledgerVars
<1>4. CASE SaveFailure(w)
  <2>1. TypeOK' /\ OthersRest(w) /\ ~InTick(w)' /\ ~InTick(w)
    BY <1>1, <1>4 DEF SaveFailure, Goto, TypeOK, OthersRest, InTick, remoteVars, ledgerVars
  <2> QED BY <1>4, <2>1, OutsideKeeps DEF SaveFailure, remoteVars, ledgerVars
<1> QED BY <1>2, <1>3, <1>4

LEMMA ListKeeps ==
    ASSUME IInv, NEW w \in Workers, List(w) \/ PageDone(w) \/ Interrupted(w)
    PROVE  IInv'
<1>1. TypeOK
  BY DEF IInv
<1>2. CASE List(w)
  <2>1. NextPage(page[w]) \in Nat \ {0}
    BY <1>1 DEF TypeOK, NextPage
  <2>2. {i \in Page(page[w]) : issue[i].control} \in SUBSET Issues
    BY DEF Page, Open
  <2>3. TypeOK'
    BY <1>1, <1>2, <2>1, <2>2 DEF List, Goto, TypeOK, remoteVars, ledgerVars
  <2>4. InTick(w) /\ OthersRest(w) /\ at'[w] = "scanning" /\ lock' = lock
    BY <1>1, <1>2 DEF List, Goto, TypeOK, OthersRest, InTick
  <2>5. WorkerInv(w)' /\ (InTick(w)' => lock' = w)
    BY <2>4 DEF WorkerInv, Undelivered, Delivering, IInv, Exclusive
  <2> QED BY <1>2, <2>3, <2>4, <2>5, MoveKeeps DEF List, remoteVars, ledgerVars
<1>3. ASSUME NEW point \in {"idle", "off"}, EndTick(w, point) PROVE IInv'
  <2>1. TypeOK'
    BY <1>1, <1>3 DEF EndTick, Goto, TypeOK, remoteVars, ledgerVars
  <2>2. InTick(w) /\ OthersRest(w) /\ at'[w] = point
    BY <1>1, <1>3 DEF EndTick, Goto, TypeOK, OthersRest, InTick
  <2>3. WorkerInv(w)' /\ ~InTick(w)'
    BY <2>2 DEF WorkerInv, Undelivered, Delivering, InTick
  <2> QED BY <1>3, <2>1, <2>2, <2>3, MoveKeeps DEF EndTick, remoteVars, ledgerVars
<1> QED BY <1>2, <1>3 DEF PageDone, Interrupted

LEMMA TakeKeeps == ASSUME IInv, NEW w \in Workers, Take(w) PROVE IInv'
<1>1. TypeOK
  BY DEF IInv
<1>2. PICK i \in scan[w] :
        /\ now' = [now EXCEPT ![w] = i]
        /\ scan' = [scan EXCEPT ![w] = @ \ {i}]
        /\ \/ /\ delivery[i] # None
              /\ record' = [record EXCEPT ![w] = delivery[i].record]
              /\ Goto(w, IF delivery[i].posted THEN "closing" ELSE "posting")
           \/ /\ delivery[i] = None /\ Goto(w, "fetching") /\ record' = record
  BY DEF Take, Delivered
<1>3. i \in Issues
  BY <1>1 DEF TypeOK
<1>4. delivery[i] # None => delivery[i].record \in Records
  BY <1>1, <1>3 DEF TypeOK, Delivery
<1>5. TypeOK'
  BY <1>1, <1>2, <1>3, <1>4 DEF Take, Goto, TypeOK, remoteVars, ledgerVars
<1>6. InTick(w) /\ OthersRest(w) /\ lock' = lock /\ now'[w] = i
  BY <1>1, <1>2 DEF Take, Goto, TypeOK, OthersRest, InTick
<1>7. UNCHANGED <<comments, requests, delivery, runs>>
  BY DEF Take, remoteVars, ledgerVars
<1>8. WorkerInv(w)'
  <2>1. CASE delivery[i] = None
    <3>1. at'[w] = "fetching"
      BY <1>1, <1>2, <2>1 DEF Goto, TypeOK
    <3> QED BY <1>3, <1>6, <1>7, <2>1, <3>1 DEF WorkerInv, Undelivered, Delivering
  <2>2. CASE delivery[i] # None
    <3>1. /\ record'[w] = delivery[i].record
          /\ at'[w] = IF delivery[i].posted THEN "closing" ELSE "posting"
      BY <1>1, <1>2, <2>2 DEF Goto, TypeOK
    <3>2. delivery[i].posted => delivery[i].record \in comments[i]
      BY <1>3, <2>2 DEF IInv, DeliveryInv
    <3> QED BY <1>3, <1>6, <1>7, <2>2, <3>1, <3>2 DEF WorkerInv, Undelivered, Delivering
  <2> QED BY <2>1, <2>2
<1>9. InTick(w)' => lock' = w
  BY <1>6 DEF IInv, Exclusive
<1> QED BY <1>5, <1>6, <1>7, <1>8, <1>9, MoveKeeps

(* The worker decides what is to be recorded, or that nothing is.           *)
LEMMA DecideKeeps ==
    ASSUME IInv, NEW w \in Workers, Skip(w) \/ Reject(w)
    PROVE  IInv'
<1>1. TypeOK /\ WorkerInv(w)
  BY DEF IInv
<1>2. at[w] = "fetching" /\ InTick(w) /\ now[w] \in Issues /\ delivery[now[w]] = None
  BY <1>1 DEF Skip, Reject, Ready, InTick, WorkerInv, Undelivered
<1>3. CASE Skip(w)
  <2>1. TypeOK'
    BY <1>1, <1>3 DEF Skip, Goto, TypeOK, remoteVars, ledgerVars
  <2>2. OthersRest(w) /\ at'[w] = "scanning" /\ lock' = lock
    BY <1>1, <1>3 DEF Skip, Goto, TypeOK, OthersRest
  <2>3. WorkerInv(w)' /\ (InTick(w)' => lock' = w)
    BY <1>2, <2>2 DEF WorkerInv, Undelivered, Delivering, IInv, Exclusive
  <2> QED BY <1>2, <1>3, <2>1, <2>2, <2>3, MoveKeeps DEF Skip, remoteVars, ledgerVars
<1>4. CASE Reject(w)
  <2>1. PICK id \in {None, Mine(w).body} : record' = [record EXCEPT ![w] = Rejection(id)]
    BY <1>4 DEF Reject, Decide
  <2>2. id \in Bodies
    BY <1>1, <1>2, <2>1 DEF Mine, TypeOK, IssueType, Bodies
  <2>3. /\ Rejection(id) \in Records /\ Rejection(id).status = "request_rejected"
        /\ Rejection(id).original = "none"
    BY <2>2 DEF Rejection, Records
  <2>4. TypeOK'
    BY <1>1, <1>4, <2>1, <2>3 DEF Reject, Goto, TypeOK, remoteVars, ledgerVars
  <2>5. OthersRest(w) /\ at'[w] = "recording" /\ lock' = lock /\ record'[w] = Rejection(id)
    BY <1>1, <1>4, <2>1 DEF Reject, Goto, TypeOK, OthersRest
  <2>6. Agrees(requests, runs, now[w], Rejection(id))
    BY <2>3 DEF Agrees, Outcomes
  <2>7. UNCHANGED <<comments, requests, delivery, runs, now>>
    BY <1>4 DEF Reject, remoteVars, ledgerVars
  <2>8. WorkerInv(w)' /\ (InTick(w)' => lock' = w)
    BY <1>2, <2>5, <2>6, <2>7 DEF WorkerInv, Undelivered, Delivering, IInv, Exclusive
  <2> QED BY <1>2, <2>4, <2>5, <2>7, <2>8, MoveKeeps
<1> QED BY <1>3, <1>4

LEMMA ReserveKeeps == ASSUME IInv, NEW w \in Workers, Reserve(w) PROVE IInv' /\ LedgerKeeps
<1> DEFINE id == Mine(w).body
           new == [status |-> "processing", issue |-> now[w]]
<1>1. TypeOK /\ WorkerInv(w) /\ RunsInv
  BY DEF IInv
<1>2. /\ at[w] = "fetching" /\ InTick(w) /\ now[w] \in Issues /\ delivery[now[w]] = None
      /\ id # None /\ requests[id] = None
      /\ requests' = [requests EXCEPT ![id] = new]
      /\ record' = [record EXCEPT ![w] = Result(id, "processing")]
  BY <1>1 DEF Reserve, Ready, InTick, WorkerInv, Undelivered, Unknown, Decide
<1>3. id \in Ids
  BY <1>1, <1>2 DEF Mine, TypeOK, IssueType, Bodies
<1> HIDE DEF id
<1>4. new \in Requests /\ new # None
  BY <1>2, NoneIsNoRecord DEF Requests
<1> HIDE DEF new
<1>5. Result(id, "processing") \in Records /\ Result(id, "processing").id = id
  BY <1>3 DEF Result, Records, Bodies
<1>6. TypeOK'
  BY <1>1, <1>2, <1>3, <1>4, <1>5 DEF Reserve, Goto, TypeOK, remoteVars
<1>7. /\ OthersRest(w) /\ at'[w] = "reserved" /\ lock' = lock
      /\ UNCHANGED <<comments, delivery, runs, now>>
  BY <1>1 DEF Reserve, Goto, TypeOK, OthersRest, remoteVars
<1>8. LedgerKeeps
  BY <1>1, <1>2, <1>3, <1>7 DEF LedgerKeeps, TypeOK
<1>9. RunsInv'
  BY <1>1, <1>2, <1>3, <1>4, <1>7 DEF RunsInv, TypeOK
<1>10. /\ record'[w] = Result(id, "processing")
       /\ requests'[id] = [status |-> "processing", issue |-> now[w]]
       /\ runs[id] = 0
  BY <1>1, <1>2, <1>3 DEF TypeOK, RunsInv, new
<1>11. WorkerInv(w)'
  BY <1>2, <1>3, <1>5, <1>7, <1>10 DEF WorkerInv, Undelivered, Delivering
<1> QED BY <1>2, <1>6, <1>7, <1>8, <1>9, <1>11, LedgerStepKeeps

LEMMA FindDuplicateKeeps == ASSUME IInv, NEW w \in Workers, FindDuplicate(w) PROVE IInv' /\ LedgerKeeps
<1> DEFINE id == Mine(w).body
           status == Settled(requests[id].status)
<1>1. TypeOK /\ WorkerInv(w) /\ RunsInv
  BY DEF IInv
<1>2. /\ at[w] = "fetching" /\ InTick(w) /\ now[w] \in Issues /\ delivery[now[w]] = None
      /\ id # None /\ requests[id] # None
      /\ requests' = [requests EXCEPT ![id].status = Settled(@)]
      /\ record' = [record EXCEPT ![w] = Duplicate(id, status)]
  BY <1>1 DEF FindDuplicate, Ready, InTick, WorkerInv, Undelivered, Unknown, Decide
<1>3. id \in Ids
  BY <1>1, <1>2 DEF Mine, TypeOK, IssueType, Bodies
<1> HIDE DEF id
<1>4. requests[id] \in Requests
  BY <1>1, <1>2, <1>3 DEF TypeOK
<1>5. /\ status \in Outcomes
      /\ requests[id].status \in Outcomes => status = requests[id].status
  BY <1>4 DEF Settled, Outcomes, Requests
<1> DEFINE new == [requests[id] EXCEPT !.status = status]
<1>6. requests' = [requests EXCEPT ![id] = new]
  BY <1>2
<1> HIDE DEF status
<1>7. /\ new \in Requests /\ new # None
      /\ new.status = status
      /\ requests[id].status \in Outcomes => new = requests[id]
  BY <1>4, <1>5, NoneIsNoRecord DEF Requests
<1> HIDE DEF new
<1>8. Duplicate(id, status) \in Records
  BY <1>3, <1>5 DEF Duplicate, Records, Bodies
<1>9. TypeOK'
  <2>1. requests' \in [Ids -> Requests \cup {None}] /\ record' \in [Workers -> Records \cup {None}]
    <3>1. requests' \in [Ids -> Requests \cup {None}]
      BY <1>1, <1>6, <1>7 DEF TypeOK
    <3>2. record' = [record EXCEPT ![w] = Duplicate(id, status)]
      BY <1>2
    <3>3. record' \in [Workers -> Records \cup {None}]
      BY <1>1, <1>8, <3>2 DEF TypeOK
    <3> QED BY <3>1, <3>3
  <2> QED BY <1>1, <2>1 DEF FindDuplicate, Goto, TypeOK, remoteVars
<1>10. /\ OthersRest(w) /\ at'[w] = "recording" /\ lock' = lock
       /\ UNCHANGED <<comments, delivery, runs, now>>
  BY <1>1 DEF FindDuplicate, Goto, TypeOK, OthersRest, remoteVars
<1>11. LedgerKeeps
  BY <1>1, <1>3, <1>6, <1>7, <1>10 DEF LedgerKeeps, TypeOK
<1>12. RunsInv'
  <2>1. requests'[id] = new /\ \A other \in Ids \ {id} : requests'[other] = requests[other]
    BY <1>1, <1>3, <1>6 DEF TypeOK
  <2> QED BY <1>1, <1>7, <1>10, <2>1 DEF RunsInv
<1>13. requests'[id].status = status /\ requests'[id] # None
  BY <1>1, <1>3, <1>6, <1>7 DEF TypeOK
<1>14. record'[w] = Duplicate(id, status)
  BY <1>1, <1>2 DEF TypeOK
<1>15. Agrees(requests', runs', now'[w], record'[w])
  BY <1>3, <1>8, <1>13, <1>14 DEF Agrees, Duplicate, Outcomes
<1>16. WorkerInv(w)'
  BY <1>2, <1>10, <1>15 DEF WorkerInv, Undelivered, Delivering
<1> QED BY <1>2, <1>9, <1>10, <1>11, <1>12, <1>16, LedgerStepKeeps

LEMMA InvokeKeeps == ASSUME IInv, NEW w \in Workers, Invoke(w) PROVE IInv' /\ LedgerKeeps
<1> DEFINE id == record[w].id
<1>1. TypeOK /\ WorkerInv(w) /\ RunsInv
  BY DEF IInv
<1>2. /\ at[w] = "reserved" /\ InTick(w) /\ now[w] \in Issues /\ delivery[now[w]] = None
      /\ record[w] \in Records /\ id \in Ids
      /\ requests[id] = [status |-> "processing", issue |-> now[w]] /\ runs[id] = 0
  BY <1>1 DEF Invoke, InTick, WorkerInv, Undelivered
<1>3. runs' = [runs EXCEPT ![id] = @ + 1]
  BY DEF Invoke
<1> HIDE DEF id
<1>4. TypeOK'
  BY <1>1, <1>2, <1>3 DEF Invoke, Goto, TypeOK, remoteVars, ledgerVars
<1>5. /\ OthersRest(w) /\ at'[w] = "executing" /\ lock' = lock
      /\ UNCHANGED <<comments, requests, delivery, now, record>>
  BY <1>1 DEF Invoke, Goto, TypeOK, OthersRest, remoteVars, ledgerVars
<1>6. runs'[id] = 1 /\ \A other \in Ids \ {id} : runs'[other] = runs[other]
  BY <1>1, <1>2, <1>3 DEF TypeOK
<1>7. LedgerKeeps
  BY <1>2, <1>5, <1>6 DEF LedgerKeeps, Outcomes
<1>8. requests[id] # None
  BY <1>2, NoneIsNoRecord DEF Requests
<1>9. RunsInv'
  BY <1>1, <1>2, <1>5, <1>6, <1>8 DEF RunsInv
<1>10. WorkerInv(w)'
  BY <1>2, <1>5, <1>6 DEF WorkerInv, Undelivered, Delivering, id
<1> QED BY <1>2, <1>4, <1>5, <1>7, <1>9, <1>10, LedgerStepKeeps

LEMMA SaveOutcomeKeeps == ASSUME IInv, NEW w \in Workers, SaveOutcome(w) PROVE IInv' /\ LedgerKeeps
<1> DEFINE id == record[w].id
<1>1. TypeOK /\ WorkerInv(w) /\ RunsInv
  BY DEF IInv
<1>2. /\ at[w] = "executing" /\ InTick(w) /\ now[w] \in Issues /\ delivery[now[w]] = None
      /\ record[w] \in Records /\ id \in Ids
      /\ requests[id] = [status |-> "processing", issue |-> now[w]] /\ runs[id] = 1
  BY <1>1 DEF SaveOutcome, InTick, WorkerInv, Undelivered
<1>3. PICK status \in Outcomes :
        /\ requests' = [requests EXCEPT ![id].status = status]
        /\ record' = [record EXCEPT ![w] = Result(id, status)]
  BY DEF SaveOutcome, Decide
<1> HIDE DEF id
<1> DEFINE new == [status |-> status, issue |-> now[w]]
<1>4. requests' = [requests EXCEPT ![id] = new]
  <2>1. [requests[id] EXCEPT !.status = status] = new
    BY <1>2
  <2> QED BY <1>3, <2>1
<1>5. new \in Requests /\ new # None
  BY <1>2, NoneIsNoRecord DEF Requests
<1> HIDE DEF new
<1>6. Result(id, status) \in Records
  BY <1>2 DEF Result, Records, Bodies
<1>7. TypeOK'
  <2>1. requests' \in [Ids -> Requests \cup {None}] /\ record' \in [Workers -> Records \cup {None}]
    BY <1>1, <1>3, <1>4, <1>5, <1>6 DEF TypeOK
  <2> QED BY <1>1, <2>1 DEF SaveOutcome, Goto, TypeOK, remoteVars
<1>8. /\ OthersRest(w) /\ at'[w] = "recording" /\ lock' = lock
      /\ UNCHANGED <<comments, delivery, runs, now>>
      /\ record'[w] = Result(id, status)
  BY <1>1, <1>3 DEF SaveOutcome, Goto, TypeOK, OthersRest, remoteVars
<1>9. requests'[id] = new /\ \A other \in Ids \ {id} : requests'[other] = requests[other]
  BY <1>1, <1>2, <1>4 DEF TypeOK
<1>10. LedgerKeeps
  BY <1>2, <1>8, <1>9 DEF LedgerKeeps, Outcomes
<1>11. RunsInv'
  BY <1>1, <1>5, <1>8, <1>9 DEF RunsInv
<1>12. Agrees(requests', runs', now'[w], record'[w])
  BY <1>2, <1>6, <1>8, <1>9 DEF Agrees, Result, Outcomes, new
<1>13. WorkerInv(w)'
  BY <1>2, <1>8, <1>12 DEF WorkerInv, Undelivered, Delivering
<1> QED BY <1>2, <1>7, <1>8, <1>10, <1>11, <1>13, LedgerStepKeeps

-----------------------------------------------------------------------------
(* Delivery.                                                                *)
LEMMA DeliverKeeps ==
    ASSUME IInv, NEW w \in Workers, SaveDelivery(w) \/ SavePosted(w) \/ SaveClosed(w)
    PROVE  IInv'
<1> DEFINE i == now[w]
           c == record[w]
<1>1. TypeOK /\ WorkerInv(w) /\ DeliveryInv /\ CommentsInv
  BY DEF IInv
<1>2. /\ at[w] \in {"recording", "posted", "closed"} /\ InTick(w) /\ i \in Issues
      /\ Agrees(requests, runs, i, c) /\ c \in Records
      /\ at[w] = "recording" => delivery[i] = None
      /\ at[w] # "recording" => delivery[i] # None /\ delivery[i].record = c /\ c \in comments[i]
  <2>1. at[w] \in {"recording", "posted", "closed"} /\ InTick(w) /\ i \in Issues
    BY <1>1 DEF SaveDelivery, SavePosted, SaveClosed, InTick, WorkerInv, Undelivered, Delivering
  <2>2. /\ at[w] = "recording" => delivery[i] = None /\ Agrees(requests, runs, i, c)
        /\ at[w] # "recording" => delivery[i] # None /\ delivery[i].record = c /\ c \in comments[i]
    BY <1>1, <2>1 DEF WorkerInv, Undelivered, Delivering
  <2>3. Agrees(requests, runs, i, c)
    BY <1>1, <2>1, <2>2 DEF DeliveryInv
  <2> QED BY <2>1, <2>2, <2>3 DEF Agrees
<1>3. PICK posted \in BOOLEAN, closed \in BOOLEAN :
        /\ delivery' = [delivery EXCEPT ![i] =
                          [record |-> c, posted |-> posted, closed |-> closed]]
        /\ posted \/ closed => at[w] # "recording"
  BY DEF SaveDelivery, SavePosted, SaveClosed, Deliver, NotPosted
<1>4. /\ at'[w] \in {"posting", "closing", "scanning"} /\ OthersRest(w) /\ lock' = lock
      /\ at'[w] = "closing" => at[w] # "recording"
      /\ at'[w] # "scanning" => now' = now /\ record' = record
      /\ UNCHANGED <<comments, requests, runs>>
  BY <1>1 DEF SaveDelivery, SavePosted, SaveClosed, Goto, TypeOK, OthersRest, remoteVars
<1> HIDE DEF i, c
<1> DEFINE new == [record |-> c, posted |-> posted, closed |-> closed]
<1>5. new \in Delivery /\ new # None
  BY <1>2, <1>3, NoneIsNoRecord DEF Delivery
<1>6. new.record = c /\ new.posted = posted /\ new.closed = closed
  OBVIOUS
<1>7. delivery' = [delivery EXCEPT ![i] = new]
  BY <1>3
<1> HIDE DEF new
<1>8. TypeOK'
  <2>1. delivery' \in [Issues -> Delivery \cup {None}]
    BY <1>1, <1>5, <1>7 DEF TypeOK
  <2> QED BY <1>1, <2>1 DEF SaveDelivery, SavePosted, SaveClosed, Goto, TypeOK, remoteVars
<1>9. delivery'[i] = new /\ \A j \in Issues \ {i} : delivery'[j] = delivery[j]
  BY <1>1, <1>2, <1>7 DEF TypeOK
<1>10. DeliveryInv'
  <2> SUFFICES ASSUME NEW j \in Issues, delivery'[j] # None
               PROVE  /\ Agrees(requests, runs, j, delivery'[j].record)
                      /\ delivery'[j].posted \/ delivery'[j].closed =>
                           delivery'[j].record \in comments[j]
    BY <1>4 DEF DeliveryInv
  <2>1. CASE j = i
    BY <1>2, <1>3, <1>6, <1>9, <2>1
  <2>2. CASE j # i
    BY <1>1, <1>9, <2>2 DEF DeliveryInv
  <2> QED BY <2>1, <2>2
<1>11. CommentsInv'
  <2> SUFFICES ASSUME NEW j \in Issues, NEW d \in comments[j]
               PROVE  delivery'[j] # None /\ d = delivery'[j].record
    BY <1>4 DEF CommentsInv
  <2>1. CASE j = i
    BY <1>1, <1>2, <1>5, <1>6, <1>9, <2>1 DEF CommentsInv
  <2>2. CASE j # i
    BY <1>1, <1>9, <2>2 DEF CommentsInv
  <2> QED BY <2>1, <2>2
<1>12. RunsInv'
  BY <1>4 DEF IInv, RunsInv
<1>13. WorkerInv(w)'
  <2>1. CASE at'[w] = "scanning"
    BY <2>1 DEF WorkerInv, Undelivered, Delivering
  <2>2. CASE at'[w] # "scanning"
    <3>1. now'[w] = i /\ record'[w] = c
      BY <1>4, <2>2 DEF i, c
    <3> QED BY <1>2, <1>4, <1>5, <1>6, <1>9, <2>2, <3>1 DEF WorkerInv, Undelivered, Delivering
  <2> QED BY <2>1, <2>2
<1>14. InTick(w)' => lock' = w
  BY <1>2, <1>4 DEF IInv, Exclusive
<1> QED BY <1>2, <1>4, <1>8, <1>10, <1>11, <1>12, <1>13, <1>14, StepKeeps

LEMMA PostKeeps == ASSUME IInv, NEW w \in Workers, Post(w) \/ Close(w) PROVE IInv'
<1> DEFINE i == now[w]
           c == record[w]
<1>1. TypeOK /\ WorkerInv(w) /\ DeliveryInv /\ CommentsInv
  BY DEF IInv
<1>2. /\ at[w] \in {"posting", "closing"} /\ InTick(w) /\ i \in Issues
      /\ delivery[i] # None /\ delivery[i].record = c
      /\ at[w] = "closing" => c \in comments[i]
  BY <1>1 DEF Post, Close, InTick, WorkerInv, Delivering
<1>3. c \in Records
  BY <1>1, <1>2 DEF TypeOK, Delivery
<1>4. /\ OthersRest(w) /\ lock' = lock
      /\ UNCHANGED <<requests, delivery, runs, now, record>>
      /\ at'[w] = IF at[w] = "posting" THEN "posted" ELSE "closed"
  BY <1>1 DEF Post, Close, Goto, TypeOK, OthersRest, ledgerVars
<1>5. \/ comments' = [comments EXCEPT ![i] = @ \cup {c}] /\ at[w] = "posting"
      \/ comments' = comments /\ at[w] = "closing"
  BY DEF Post, Close
<1>6. TypeOK'
  <2>1. CASE Post(w)
    BY <1>1, <1>3, <2>1 DEF Post, Goto, TypeOK, ledgerVars
  <2>2. CASE Close(w)
    <3>1. issue[i] \in IssueType
      BY <1>1, <1>2 DEF TypeOK
    <3>2. [issue[i] EXCEPT !.state = "closed"] \in IssueType
      BY <3>1 DEF IssueType
    <3>3. issue' = [issue EXCEPT ![i] = [issue[i] EXCEPT !.state = "closed"]]
      BY <1>2, <2>2 DEF Close
    <3>4. issue' \in [Issues -> IssueType]
      BY <1>1, <3>2, <3>3 DEF TypeOK
    <3> QED BY <1>1, <2>2, <3>4 DEF Close, Goto, TypeOK, ledgerVars
  <2> QED BY <2>1, <2>2
<1> HIDE DEF i, c
<1>7. /\ \A j \in Issues : comments[j] \subseteq comments'[j]
      /\ \A j \in Issues : \A d \in comments'[j] : d \in comments[j] \/ (j = i /\ d = c)
      /\ c \in comments'[i]
  BY <1>1, <1>2, <1>5 DEF TypeOK
<1>8. DeliveryInv'
  <2> SUFFICES ASSUME NEW j \in Issues, delivery[j] # None
               PROVE  /\ Agrees(requests, runs, j, delivery[j].record)
                      /\ delivery[j].posted \/ delivery[j].closed =>
                           delivery[j].record \in comments'[j]
    BY <1>4 DEF DeliveryInv
  <2> QED BY <1>1, <1>7 DEF DeliveryInv
<1>9. CommentsInv'
  <2> SUFFICES ASSUME NEW j \in Issues, NEW d \in comments'[j]
               PROVE  delivery[j] # None /\ d = delivery[j].record
    BY <1>4 DEF CommentsInv
  <2> QED BY <1>1, <1>2, <1>7 DEF CommentsInv
<1>10. RunsInv'
  BY <1>4 DEF IInv, RunsInv
<1>11. WorkerInv(w)'
  BY <1>2, <1>4, <1>7 DEF WorkerInv, Undelivered, Delivering, i, c
<1>12. InTick(w)' => lock' = w
  BY <1>2, <1>4 DEF IInv, Exclusive
<1> QED BY <1>2, <1>4, <1>6, <1>8, <1>9, <1>10, <1>11, <1>12, StepKeeps

-----------------------------------------------------------------------------
(* Failures and users.                                                      *)
LEMMA FaultKeeps ==
    ASSUME IInv, NEW w \in Workers, TickFails(w) \/ Crash(w)
    PROVE  IInv'
<1>1. TypeOK
  BY DEF IInv
<1>2. PICK point \in {"failing", "off"} : Reset(w, point)
  BY DEF TickFails, Crash
<1>3. UNCHANGED <<issue, comments, requests, delivery, cursor, runs>>
  BY DEF TickFails, Crash, remoteVars, ledgerVars
<1>4. TypeOK'
  BY <1>1, <1>2, <1>3 DEF Reset, Goto, TypeOK
<1>5. OthersRest(w) /\ at'[w] = point /\ lock' = IF lock = w THEN None ELSE lock
  BY <1>1, <1>2 DEF Reset, Goto, TypeOK, OthersRest
<1>6. RunsInv' /\ DeliveryInv' /\ CommentsInv'
  BY <1>3 DEF IInv, RunsInv, DeliveryInv, CommentsInv
<1>7. Exclusive'
  <2> SUFFICES ASSUME NEW q \in Workers, InTick(q)' PROVE lock' = q
    BY DEF Exclusive
  <2>1. q # w
    BY <1>5 DEF InTick
  <2>2. InTick(q) /\ lock = q
    BY <1>5, <2>1 DEF InTick, OthersRest, IInv, Exclusive
  <2> QED BY <1>5, <2>1, <2>2
<1>8. ASSUME NEW q \in Workers PROVE WorkerInv(q)'
  <2>1. CASE q = w
    BY <1>5, <2>1 DEF WorkerInv, Undelivered, Delivering
  <2>2. CASE q # w
    <3>1. at'[q] = at[q] /\ now'[q] = now[q] /\ record'[q] = record[q] /\ WorkerInv(q)
      BY <1>1, <1>2, <1>5, <2>2 DEF Reset, TypeOK, OthersRest, IInv
    <3> QED BY <1>3, <3>1 DEF WorkerInv
  <2> QED BY <2>1, <2>2
<1> QED BY <1>4, <1>6, <1>7, <1>8 DEF IInv

LEMMA UsersKeep ==
    ASSUME IInv, NEW i \in Issues, OpenIssue(i) \/ EditIssue(i)
    PROVE  IInv'
<1>1. TypeOK
  BY DEF IInv
<1>2. PICK new \in IssueType : issue' = [issue EXCEPT ![i] = new]
  <2>1. PICK state \in {"open", "closed"}, control \in BOOLEAN, body \in Bodies :
          issue' = [issue EXCEPT ![i] = [state |-> state, control |-> control, body |-> body]]
    BY DEF OpenIssue, EditIssue
  <2>2. [state |-> state, control |-> control, body |-> body] \in IssueType
    BY DEF IssueType
  <2> QED BY <2>1, <2>2
<1>3. UNCHANGED <<comments, requests, delivery, cursor, lock, at, scan, page, now, record, runs>>
  BY DEF OpenIssue, EditIssue, ledgerVars, localVars
<1>4. TypeOK'
  BY <1>1, <1>2, <1>3 DEF TypeOK
<1> QED
  BY <1>3, <1>4 DEF IInv, Exclusive, InTick, RunsInv, DeliveryInv, CommentsInv, WorkerInv

LEMMA NextIInv == IInv /\ [Next]_vars => IInv'
<1> SUFFICES ASSUME IInv, [Next]_vars PROVE IInv'
  OBVIOUS
<1>1. ASSUME NEW w \in Workers, Serve(w) PROVE IInv'
  <2>1. CASE Start(w) \/ BeginTick(w) \/ SaveFailure(w)
    BY <2>1, ServeKeeps
  <2>2. CASE List(w) \/ PageDone(w)
    BY <2>2, ListKeeps
  <2>3. CASE Take(w) \/ Skip(w) \/ Reject(w)
    BY <2>3, TakeKeeps, DecideKeeps
  <2>4. CASE Reserve(w) \/ FindDuplicate(w)
    BY <2>4, ReserveKeeps, FindDuplicateKeeps
  <2>5. CASE Invoke(w) \/ SaveOutcome(w)
    BY <2>5, InvokeKeeps, SaveOutcomeKeeps
  <2>6. CASE SaveDelivery(w) \/ SavePosted(w) \/ SaveClosed(w)
    BY <2>6, DeliverKeeps
  <2>7. CASE Post(w) \/ Close(w)
    BY <2>7, PostKeeps
  <2> QED BY <1>1, <2>1, <2>2, <2>3, <2>4, <2>5, <2>6, <2>7 DEF Serve, Process
<1>2. ASSUME NEW w \in Workers, TickFails(w) \/ Crash(w) \/ Interrupted(w) PROVE IInv'
  BY <1>2, FaultKeeps, ListKeeps
<1>3. CASE Users
  BY <1>3, UsersKeep DEF Users
<1>4. CASE UNCHANGED vars
  BY <1>4 DEF vars, IInv, TypeOK, Exclusive, InTick, RunsInv, DeliveryInv, CommentsInv, WorkerInv
<1> QED BY <1>1, <1>2, <1>3, <1>4 DEF Next, Fault

(* No step replaces an outcome.                                             *)
LEMMA NextKeepsLedger == IInv /\ [Next]_vars => LedgerKeeps
<1> SUFFICES ASSUME IInv, [Next]_vars PROVE LedgerKeeps
  OBVIOUS
<1>1. ASSUME NEW w \in Workers, Reserve(w) \/ FindDuplicate(w) \/ Invoke(w) \/ SaveOutcome(w)
      PROVE  LedgerKeeps
  BY <1>1, ReserveKeeps, FindDuplicateKeeps, InvokeKeeps, SaveOutcomeKeeps
<1>2. CASE requests' = requests /\ runs' = runs
  BY <1>2 DEF LedgerKeeps
<1>3. ASSUME NEW w \in Workers,
             \/ Start(w) \/ BeginTick(w) \/ List(w) \/ PageDone(w) \/ SaveFailure(w)
             \/ TickFails(w) \/ Crash(w) \/ Interrupted(w)
      PROVE  requests' = requests /\ runs' = runs
  BY <1>3 DEF Start, BeginTick, List, PageDone, SaveFailure, TickFails, Crash, Interrupted, EndTick,
              ledgerVars
<1>4. ASSUME NEW w \in Workers,
             \/ Take(w) \/ Skip(w) \/ Reject(w) \/ SaveDelivery(w) \/ Post(w)
             \/ SavePosted(w) \/ Close(w) \/ SaveClosed(w)
      PROVE  requests' = requests /\ runs' = runs
  BY <1>4 DEF Take, Skip, Reject, SaveDelivery, Post, SavePosted, Close, SaveClosed, ledgerVars
<1>5. CASE Users \/ UNCHANGED vars
  BY <1>2, <1>5 DEF Users, OpenIssue, EditIssue, vars, ledgerVars
<1> QED BY <1>1, <1>2, <1>3, <1>4, <1>5 DEF Next, Serve, Process, Fault

-----------------------------------------------------------------------------
LEMMA IInvSafe == IInv => OneInvocation /\ OneAnswer /\ AnswersAreTrue /\ PostedIsThere
<1> SUFFICES ASSUME IInv PROVE OneInvocation /\ OneAnswer /\ AnswersAreTrue /\ PostedIsThere
  OBVIOUS
<1>1. OneInvocation
  BY DEF IInv, RunsInv, OneInvocation
<1>2. OneAnswer
  BY DEF IInv, CommentsInv, OneAnswer
<1>3. AnswersAreTrue
  <2> SUFFICES ASSUME NEW i \in Issues, NEW c \in comments[i] PROVE Truthful(i, c)
    BY DEF AnswersAreTrue
  <2>1. Agrees(requests, runs, i, c)
    BY DEF IInv, CommentsInv, DeliveryInv
  <2> QED BY <2>1 DEF Agrees, Truthful
<1>4. PostedIsThere
  BY DEF IInv, DeliveryInv, PostedIsThere
<1> QED BY <1>1, <1>2, <1>3, <1>4

(* Every state is of its type (Worker.process, Worker.tick).                *)
THEOREM TypeCorrect == Spec => []TypeOK
<1>1. IInv => TypeOK
  BY DEF IInv
<1> QED BY <1>1, InitIInv, NextIInv, PTL DEF Spec

(* No request UUID has its handler invoked twice: the reservation is        *)
(* durable first, and a second worker waits for the lock (Worker.process).  *)
THEOREM HandlersRunOnce == Spec => []OneInvocation
  BY InitIInv, NextIInv, IInvSafe, PTL DEF Spec

(* All comments of one issue say the same, however often it is delivered    *)
(* again (Worker.deliver).                                                  *)
THEOREM AnswersAreOne == Spec => []OneAnswer
  BY InitIInv, NextIInv, IInvSafe, PTL DEF Spec

(* Every comment says what the ledger keeps for good: the outcome of the    *)
(* one invocation, or that of the request it repeats (Worker.process).      *)
THEOREM AnswersTellTheLedger == Spec => []AnswersAreTrue
  BY InitIInv, NextIInv, IInvSafe, PTL DEF Spec

(* A delivery recorded as posted or closed has its comment (Worker.deliver).*)
THEOREM PostedIsPosted == Spec => []PostedIsThere
  BY InitIInv, NextIInv, IInvSafe, PTL DEF Spec

(* The outcome of a request in the ledger is never replaced, whatever dies  *)
(* and whoever asks again (Worker.process).                                 *)
THEOREM OutcomesStay == Spec => OutcomeIsKept
<1>1. IInv /\ [Next]_vars =>
        [\A id \in Ids : requests[id] # None /\ requests[id].status \in Outcomes =>
           requests'[id] = requests[id]]_vars
  BY NextKeepsLedger DEF LedgerKeeps
<1> QED BY <1>1, InitIInv, NextIInv, PTL DEF Spec, OutcomeIsKept

-----------------------------------------------------------------------------
(* The desk. Three kinds of steps are visible to it: what is written to the *)
(* ledger, the call of a handler, and a first comment.                      *)
Unseen == UNCHANGED <<requests, runs, comments>>

LEMMA ReserveAccepts ==
    ASSUME IInv, NEW w \in Workers, Reserve(w)
    PROVE  Desk!Next
<1> DEFINE id == Mine(w).body
<1>1. TypeOK /\ WorkerInv(w)
  BY DEF IInv
<1>2. /\ now[w] \in Issues /\ id # None /\ requests[id] = None
      /\ requests' = [requests EXCEPT ![id] = [status |-> "processing", issue |-> now[w]]]
      /\ UNCHANGED <<runs, comments>>
  BY <1>1 DEF Reserve, Ready, Unknown, WorkerInv, Undelivered, remoteVars
<1>3. id \in Ids
  BY <1>1, <1>2 DEF Mine, TypeOK, IssueType, Bodies
<1> HIDE DEF id
<1>4. Desk!Accept(id, now[w])
  BY <1>2 DEF Desk!Accept
<1> QED BY <1>2, <1>3, <1>4 DEF Desk!Next

(* A reservation that a dead worker left fails; an outcome stays.           *)
LEMMA DuplicateSettles ==
    ASSUME IInv, NEW w \in Workers, FindDuplicate(w)
    PROVE  Desk!Next \/ Unseen
<1> DEFINE id == Mine(w).body
<1>1. TypeOK /\ WorkerInv(w)
  BY DEF IInv
<1>2. /\ now[w] \in Issues /\ id # None /\ requests[id] # None
      /\ requests' = [requests EXCEPT ![id].status = Settled(@)]
      /\ UNCHANGED <<runs, comments>>
  BY <1>1 DEF FindDuplicate, Ready, Unknown, WorkerInv, Undelivered, remoteVars
<1>3. id \in Ids
  BY <1>1, <1>2 DEF Mine, TypeOK, IssueType, Bodies
<1> HIDE DEF id
<1>4. requests[id] \in Requests
  BY <1>1, <1>2, <1>3 DEF TypeOK
<1>5. CASE requests[id].status = "processing"
  <2>1. requests' = [requests EXCEPT ![id].status = Desk!Failed]
    BY <1>2, <1>5 DEF Settled, Desk!Failed
  <2>2. Desk!Settle(id, Desk!Failed)
    BY <1>2, <1>5, <2>1 DEF Desk!Settle, Desk!UnderWay
  <2> QED BY <1>3, <2>2 DEF Desk!Next, Desk!Outcomes
<1>6. CASE requests[id].status # "processing"
  <2>1. [requests[id] EXCEPT !.status = Settled(@)] = requests[id]
    BY <1>4, <1>6 DEF Settled, Requests
  <2>2. requests' = requests
    BY <1>1, <1>2, <1>3, <2>1 DEF TypeOK
  <2> QED BY <1>2, <2>2 DEF Unseen
<1> QED BY <1>5, <1>6

LEMMA InvokeCalls ==
    ASSUME IInv, NEW w \in Workers, Invoke(w) \/ SaveOutcome(w)
    PROVE  Desk!Next
<1> DEFINE id == record[w].id
<1>1. WorkerInv(w)
  BY DEF IInv
<1>2. /\ id \in Ids /\ now[w] \in Issues
      /\ requests[id] = [status |-> "processing", issue |-> now[w]]
      /\ runs[id] = IF at[w] = "reserved" THEN 0 ELSE 1
  BY <1>1 DEF Invoke, SaveOutcome, WorkerInv, Undelivered
<1>3. requests[id] # None
  BY <1>2, NoneIsNoRecord DEF Requests
<1>4. Desk!UnderWay(id)
  BY <1>2, <1>3 DEF Desk!UnderWay
<1>5. CASE Invoke(w)
  <2>1. runs[id] = 0 /\ runs' = [runs EXCEPT ![id] = 1] /\ UNCHANGED <<requests, comments>>
    BY <1>2, <1>5 DEF Invoke, remoteVars, ledgerVars
  <2>2. Desk!Call(id)
    BY <1>4, <2>1 DEF Desk!Call
  <2> QED BY <1>2, <2>2 DEF Desk!Next
<1>6. CASE SaveOutcome(w)
  <2>1. PICK outcome \in Outcomes : requests' = [requests EXCEPT ![id].status = outcome]
    BY <1>6 DEF SaveOutcome
  <2>2. runs[id] = 1 /\ UNCHANGED <<runs, comments>>
    BY <1>2, <1>6 DEF SaveOutcome, remoteVars
  <2>3. Desk!Settle(id, outcome)
    BY <1>4, <2>1, <2>2 DEF Desk!Settle
  <2> QED BY <1>2, <2>1, <2>3 DEF Desk!Next, Desk!Outcomes, Desk!Failed, Outcomes
<1> QED BY <1>5, <1>6

(* The first comment answers the issue; posting it again adds nothing.      *)
LEMMA PostAnswers ==
    ASSUME IInv, NEW w \in Workers, Post(w)
    PROVE  Desk!Next \/ Unseen
<1> DEFINE i == now[w]
           c == record[w]
<1>1. TypeOK /\ WorkerInv(w) /\ DeliveryInv /\ CommentsInv
  BY DEF IInv
<1>2. /\ i \in Issues /\ delivery[i] # None /\ delivery[i].record = c
      /\ comments' = [comments EXCEPT ![i] = @ \cup {c}]
      /\ UNCHANGED <<requests, runs>>
  BY <1>1 DEF Post, WorkerInv, Delivering, ledgerVars
<1>3. Agrees(requests, runs, i, c)
  BY <1>1, <1>2 DEF DeliveryInv
<1> HIDE DEF i, c
<1>4. CASE comments[i] # {}
  <2>1. comments[i] \cup {c} = comments[i]
    BY <1>1, <1>2, <1>4 DEF CommentsInv
  <2> QED BY <1>1, <1>2, <2>1 DEF TypeOK, Unseen
<1>5. CASE comments[i] = {}
  <2>1. c = [status |-> c.status, id |-> c.id, original |-> c.original]
    BY <1>3 DEF Agrees, Records
  <2>2. Desk!Say(i, c.status, c.id, c.original)
    BY <1>2, <1>5, <2>1 DEF Desk!Say
  <2>3. CASE c.status = "request_rejected"
    <3>1. c.id \in Ids \cup {None} /\ c.original = "none"
      BY <1>3, <2>3 DEF Agrees, Records, Bodies
    <3> QED BY <1>2, <2>2, <2>3, <3>1 DEF Desk!Next, Desk!Reject
  <2>4. CASE c.status \in Outcomes
    <3>1. /\ c.id \in Ids /\ c.original = "none"
          /\ requests[c.id] = [status |-> c.status, issue |-> i] /\ runs[c.id] = 1
      BY <1>3, <2>4 DEF Agrees, Outcomes
    <3>2. requests[c.id] # None
      BY <1>2, <2>4, <3>1, NoneIsNoRecord DEF Requests
    <3>3. Desk!Settled(c.id)
      BY <2>4, <3>1, <3>2 DEF Desk!Settled, Desk!Outcomes, Desk!Failed, Outcomes
    <3>4. Desk!Answer(i, c.id)
      BY <2>2, <3>1, <3>3 DEF Desk!Answer
    <3> QED BY <1>2, <3>1, <3>4 DEF Desk!Next
  <2>5. CASE c.status = "duplicate"
    <3>1. c.id \in Ids /\ requests[c.id] # None /\ requests[c.id].status = c.original
      BY <1>3, <2>5 DEF Agrees
    <3>2. requests[c.id].status \in Outcomes
      BY <1>1, <1>3, <3>1 DEF Agrees, Records, TypeOK, Requests, Outcomes
    <3>3. Desk!Settled(c.id)
      BY <3>1, <3>2 DEF Desk!Settled, Desk!Outcomes, Desk!Failed, Outcomes
    <3>4. Desk!Repeat(i, c.id)
      BY <2>2, <2>5, <3>1, <3>3 DEF Desk!Repeat
    <3> QED BY <1>2, <3>1, <3>4 DEF Desk!Next
  <2> QED BY <1>3, <2>3, <2>4, <2>5 DEF Agrees, Records
<1> QED BY <1>4, <1>5

LEMMA OthersAreUnseen ==
    ASSUME NEW w \in Workers,
           \/ Start(w) \/ BeginTick(w) \/ List(w) \/ PageDone(w) \/ SaveFailure(w)
           \/ Take(w) \/ Skip(w) \/ Reject(w) \/ SaveDelivery(w) \/ SavePosted(w)
           \/ Close(w) \/ SaveClosed(w) \/ TickFails(w) \/ Crash(w) \/ Interrupted(w)
    PROVE  Unseen
<1>1. CASE Start(w) \/ BeginTick(w) \/ List(w) \/ PageDone(w) \/ Interrupted(w) \/ SaveFailure(w)
  BY <1>1 DEF Start, BeginTick, List, PageDone, Interrupted, EndTick, SaveFailure, Unseen,
     remoteVars, ledgerVars
<1>2. CASE Take(w) \/ Skip(w) \/ Reject(w) \/ TickFails(w) \/ Crash(w)
  BY <1>2 DEF Take, Skip, Reject, TickFails, Crash, Unseen, remoteVars, ledgerVars
<1>3. CASE SaveDelivery(w) \/ SavePosted(w) \/ Close(w) \/ SaveClosed(w)
  BY <1>3 DEF SaveDelivery, SavePosted, Close, SaveClosed, Unseen, remoteVars, ledgerVars
<1> QED BY <1>1, <1>2, <1>3

LEMMA NextIsDesks == ASSUME IInv, [Next]_vars PROVE Desk!Next \/ Unseen
<1>1. ASSUME NEW w \in Workers, Serve(w) PROVE Desk!Next \/ Unseen
  BY <1>1, ReserveAccepts, DuplicateSettles, InvokeCalls, PostAnswers, OthersAreUnseen
     DEF Serve, Process
<1>2. ASSUME NEW w \in Workers, TickFails(w) \/ Crash(w) \/ Interrupted(w) PROVE Unseen
  BY <1>2, OthersAreUnseen
<1>3. CASE Users \/ UNCHANGED vars
  BY <1>3 DEF Users, OpenIssue, EditIssue, vars, ledgerVars, Unseen
<1> QED BY <1>1, <1>2, <1>3 DEF Next, Fault

(* The worker keeps its promise to the users of the repository: requests    *)
(* are accepted, called and settled once, issues are answered once and with *)
(* the truth (Worker.process, Worker.deliver).                              *)
THEOREM PromiseIsKept == Spec => ImplementsDesk
<1>1. Init => Desk!Init
  BY DEF Init, Desk!Init
<1>2. IInv /\ [Next]_vars => [Desk!Next]_<<requests, runs, comments>>
  BY NextIsDesks DEF Unseen
<1> QED BY <1>1, <1>2, InitIInv, NextIInv, PTL DEF Spec, ImplementsDesk, Desk!Spec
=============================================================================
