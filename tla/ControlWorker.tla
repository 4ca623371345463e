---------------------------- MODULE ControlWorker ----------------------------
(***************************************************************************)
(* The control worker (control_worker.py): it scans the open issues of a   *)
(* private repository page by page, executes the request in each control   *)
(* issue at most once, posts the result as a comment and closes the issue. *)
(*                                                                         *)
(* Its ledger is on disk: requests/<UUID>.json reserves a request before   *)
(* its handler is invoked and keeps the outcome, issues/<number>.json      *)
(* keeps what is delivered to an issue and how far, status.json the page   *)
(* to scan next. Every step below makes one write, one call of the         *)
(* transport or one call of a handler, and the worker can die, or the call *)
(* fail, between any two of them. The repository's users open, edit, close *)
(* and reopen issues at any time.                                          *)
(***************************************************************************)
EXTENDS Integers, FiniteSets

CONSTANTS
    Issues,     \* issue numbers, in the order of creation
    Ids,        \* request UUIDs
    Workers,    \* processes that serve the same state directory
    PageSize,   \* issues per page, 100 in the code
    None

ASSUME ControlAssumption ==
    /\ Issues \subseteq Nat /\ IsFiniteSet(Issues)
    /\ PageSize \in Nat \ {0}
    /\ None \notin Ids \cup Issues \cup Workers

VARIABLES
    issue,      \* what users and the worker have made of each issue
    comments,   \* the results posted to each issue
    requests,   \* requests/<UUID>.json
    delivery,   \* issues/<number>.json
    cursor,     \* next_page in status.json
    lock,       \* the holder of worker.lock
    at,         \* where each worker is
    scan,       \* the control issues left of the page it has listed
    page,       \* the page it is to list; once listed, the page to scan next
    now,        \* the issue it works on
    record,     \* the record it has made for that issue
    runs        \* how often a handler was invoked for each request

ledgerVars == <<requests, delivery>>
remoteVars == <<issue, comments>>
localVars  == <<lock, at, scan, page, now, record>>
vars == <<issue, comments, requests, delivery, cursor, lock, at, scan, page, now,
          record, runs>>

-----------------------------------------------------------------------------
(* An issue's body asks for a request by its UUID, or is no valid request.  *)
Bodies    == Ids \cup {None}
IssueType == [state : {"none", "open", "closed"}, control : BOOLEAN, body : Bodies]

Outcomes  == {"capability_completed", "capability_execution_failed"}
Requests  == [status : {"processing"} \cup Outcomes, issue : Issues]
Records   == [status : {"processing", "request_rejected", "duplicate"} \cup Outcomes,
              id : Bodies, original : {"none"} \cup Outcomes]
Delivery  == [record : Records, posted : BOOLEAN, closed : BOOLEAN]

ASSUME NoneIsNoRecord == None \notin Requests \cup Records \cup Delivery

Rejection(id) == [status |-> "request_rejected", id |-> id, original |-> "none"]
Result(id, status) == [status |-> status, id |-> id, original |-> "none"]
Duplicate(id, status) == [status |-> "duplicate", id |-> id, original |-> status]

Open == {i \in Issues : issue[i].state = "open"}
Before(i) == Cardinality({j \in Open : j < i})
Page(p) == {i \in Open : /\ (p - 1) * PageSize <= Before(i)
                         /\ Before(i) < p * PageSize}

Goto(w, point) == at' = [at EXCEPT ![w] = point]

-----------------------------------------------------------------------------
(* serve and tick.                                                          *)

Start(w) ==
    /\ at[w] = "off"
    /\ Goto(w, "idle")
    /\ UNCHANGED <<remoteVars, ledgerVars, cursor, lock, scan, page, now, record, runs>>

NoLock   == TRUE                     \* seeded defect: ticks are not serialized
LockFree == lock = None

(* Who does not get worker.lock leaves the tick to its holder.              *)
BeginTick(w) ==
    /\ at[w] = "idle"
    /\ LockFree
    /\ lock' = w
    /\ page' = [page EXCEPT ![w] = cursor]
    /\ Goto(w, "listing")
    /\ UNCHANGED <<remoteVars, ledgerVars, cursor, scan, now, record, runs>>

FirstPage(p) == 1                    \* seeded defect: the cursor does not move
FromZero(p)  == IF Cardinality(Page(p)) = PageSize THEN p + 1 ELSE 0   \* seeded defect
NextPage(p)  == IF Cardinality(Page(p)) = PageSize THEN p + 1 ELSE 1

List(w) ==
    /\ at[w] = "listing"
    /\ scan' = [scan EXCEPT ![w] = {i \in Page(page[w]) : issue[i].control}]
    /\ page' = [page EXCEPT ![w] = NextPage(page[w])]
    /\ Goto(w, "scanning")
    /\ UNCHANGED <<remoteVars, ledgerVars, cursor, lock, now, record, runs>>

EndTick(w, point) ==
    /\ at[w] = "scanning"
    /\ cursor' = page[w]
    /\ lock' = None
    /\ scan' = [scan EXCEPT ![w] = {}]
    /\ page' = [page EXCEPT ![w] = 1]
    /\ Goto(w, point)
    /\ UNCHANGED <<remoteVars, ledgerVars, now, record, runs>>

(* The page is done; or the worker was told to stop in the middle of it, and *)
(* the cursor moves all the same.                                           *)
PageDone(w)    == scan[w] = {} /\ EndTick(w, "idle")
Interrupted(w) == scan[w] # {} /\ EndTick(w, "off")

-----------------------------------------------------------------------------
(* process: one issue.                                                      *)

Unfinished(i) == delivery[i] # None /\ delivery[i].posted   \* seeded defect
Delivered(i)  == delivery[i] # None

(* An issue with a delivery record goes on where delivery stopped.          *)
Take(w) ==
    /\ at[w] = "scanning"
    /\ \E i \in scan[w] :
         /\ \A j \in scan[w] : i <= j
         /\ scan' = [scan EXCEPT ![w] = @ \ {i}]
         /\ now'  = [now EXCEPT ![w] = i]
         /\ IF Delivered(i)
            THEN /\ record' = [record EXCEPT ![w] = delivery[i].record]
                 /\ Goto(w, IF delivery[i].posted THEN "closing" ELSE "posting")
            ELSE Goto(w, "fetching") /\ UNCHANGED record
    /\ UNCHANGED <<remoteVars, ledgerVars, cursor, lock, page, runs>>

Mine(w) == issue[now[w]]
Ready(w) == at[w] = "fetching" /\ Mine(w).state = "open" /\ Mine(w).control
Decide(w, r) == record' = [record EXCEPT ![w] = r]

(* Cancelled or retitled since it was listed.                               *)
Skip(w) ==
    /\ at[w] = "fetching"
    /\ ~(Mine(w).state = "open" /\ Mine(w).control)
    /\ now' = [now EXCEPT ![w] = None]
    /\ Goto(w, "scanning")
    /\ UNCHANGED <<remoteVars, ledgerVars, cursor, lock, scan, page, record, runs>>

(* parse_request and Registry.resolve. Whether a valid body is rejected     *)
(* depends on its age and on the deployed capabilities; before its UUID is  *)
(* accepted, the record does not name it.                                   *)
Reject(w) ==
    /\ Ready(w)
    /\ \E id \in {None, Mine(w).body} : Decide(w, Rejection(id))
    /\ Goto(w, "recording")
    /\ UNCHANGED <<remoteVars, ledgerVars, cursor, lock, scan, page, now, runs>>

(* requests/<UUID>.json is durable before any handler is invoked.           *)
Unanswered(id) == requests[id] # None => requests[id].status = "processing"  \* seeded defect
Unknown(id)    == requests[id] = None

Reserve(w) ==
    /\ Ready(w)
    /\ LET id == Mine(w).body
       IN  /\ id # None
           /\ Unknown(id)
           /\ requests' = [requests EXCEPT ![id] = [status |-> "processing", issue |-> now[w]]]
           /\ Decide(w, Result(id, "processing"))
    /\ Goto(w, "reserved")
    /\ UNCHANGED <<remoteVars, delivery, cursor, lock, scan, page, now, runs>>

(* A request known from before. A reservation without an outcome is one     *)
(* that a dead worker left: it fails now, and is not retried.               *)
Settled(status)  == IF status = "processing" THEN "capability_execution_failed" ELSE status

FindDuplicate(w) ==
    /\ Ready(w)
    /\ LET id == Mine(w).body
       IN  /\ id # None
           /\ ~Unknown(id)
           /\ requests' = [requests EXCEPT ![id].status = Settled(@)]
           /\ Decide(w, Duplicate(id, Settled(requests[id].status)))
    /\ Goto(w, "recording")
    /\ UNCHANGED <<remoteVars, delivery, cursor, lock, scan, page, now, runs>>

Invoke(w) ==
    /\ at[w] = "reserved"
    /\ runs' = [runs EXCEPT ![record[w].id] = @ + 1]
    /\ Goto(w, "executing")
    /\ UNCHANGED <<remoteVars, ledgerVars, cursor, lock, scan, page, now, record>>

(* The handler returns, raises, or is interrupted by the deadline; the      *)
(* request record is written.                                               *)
SaveOutcome(w) ==
    /\ at[w] = "executing"
    /\ \E status \in Outcomes :
         /\ requests' = [requests EXCEPT ![record[w].id].status = status]
         /\ Decide(w, Result(record[w].id, status))
    /\ Goto(w, "recording")
    /\ UNCHANGED <<remoteVars, delivery, cursor, lock, scan, page, now, runs>>

Deliver(w, posted, closed) ==
    delivery' = [delivery EXCEPT ![now[w]] =
                   [record |-> record[w], posted |-> posted, closed |-> closed]]

TooSoon   == TRUE                    \* seeded defect: marked as posted before it is
NotPosted == FALSE

SaveDelivery(w) ==
    /\ at[w] = "recording"
    /\ Deliver(w, NotPosted, FALSE)
    /\ Goto(w, "posting")
    /\ UNCHANGED <<remoteVars, requests, cursor, lock, scan, page, now, record, runs>>

Post(w) ==
    /\ at[w] = "posting"
    /\ comments' = [comments EXCEPT ![now[w]] = @ \cup {record[w]}]
    /\ Goto(w, "posted")
    /\ UNCHANGED <<issue, ledgerVars, cursor, lock, scan, page, now, record, runs>>

SavePosted(w) ==
    /\ at[w] = "posted"
    /\ Deliver(w, TRUE, FALSE)
    /\ Goto(w, "closing")
    /\ UNCHANGED <<remoteVars, requests, cursor, lock, scan, page, now, record, runs>>

Close(w) ==
    /\ at[w] = "closing"
    /\ issue' = [issue EXCEPT ![now[w]].state = "closed"]
    /\ Goto(w, "closed")
    /\ UNCHANGED <<comments, ledgerVars, cursor, lock, scan, page, now, record, runs>>

SaveClosed(w) ==
    /\ at[w] = "closed"
    /\ Deliver(w, TRUE, TRUE)
    /\ now'    = [now EXCEPT ![w] = None]
    /\ record' = [record EXCEPT ![w] = None]
    /\ Goto(w, "scanning")
    /\ UNCHANGED <<remoteVars, requests, cursor, lock, scan, page, runs>>

-----------------------------------------------------------------------------
(* Failures.                                                                *)

Reset(w, point) ==
    /\ Goto(w, point)
    /\ lock'   = IF lock = w THEN None ELSE lock
    /\ scan'   = [scan EXCEPT ![w] = {}]
    /\ page'   = [page EXCEPT ![w] = 1]
    /\ now'    = [now EXCEPT ![w] = None]
    /\ record' = [record EXCEPT ![w] = None]

InTick(w) == at[w] \notin {"off", "idle", "failing"}

(* TransportError or OSError. The call may have had its effect: a comment   *)
(* posted whose response is lost is Post and then this step. The tick is    *)
(* over and the lock released.                                              *)
TickFails(w) ==
    /\ InTick(w)
    /\ Reset(w, "failing")
    /\ UNCHANGED <<remoteVars, ledgerVars, cursor, runs>>

(* serve replaces status.json, the page cursor included, without the lock.  *)
SaveFailure(w) ==
    /\ at[w] = "failing"
    /\ cursor' = 1
    /\ Goto(w, "idle")
    /\ UNCHANGED <<remoteVars, ledgerVars, lock, scan, page, now, record, runs>>

Crash(w) ==
    /\ at[w] # "off"
    /\ Reset(w, "off")
    /\ UNCHANGED <<remoteVars, ledgerVars, cursor, runs>>

-----------------------------------------------------------------------------
(* The users of the repository.                                             *)

OpenIssue(i) ==
    /\ issue[i].state = "none"
    /\ \A j \in Issues : j < i => issue[j].state # "none"
    /\ \E control \in BOOLEAN, body \in Bodies :
         issue' = [issue EXCEPT ![i] = [state |-> "open", control |-> control, body |-> body]]
    /\ UNCHANGED <<comments, ledgerVars, cursor, localVars, runs>>

EditIssue(i) ==
    /\ issue[i].state # "none"
    /\ \E state \in {"open", "closed"}, control \in BOOLEAN, body \in Bodies :
         issue' = [issue EXCEPT ![i] = [state |-> state, control |-> control, body |-> body]]
    /\ UNCHANGED <<comments, ledgerVars, cursor, localVars, runs>>

-----------------------------------------------------------------------------
Init ==
    /\ issue    = [i \in Issues |-> [state |-> "none", control |-> FALSE, body |-> None]]
    /\ comments = [i \in Issues |-> {}]
    /\ requests = [id \in Ids |-> None]
    /\ delivery = [i \in Issues |-> None]
    /\ cursor   = 1
    /\ lock     = None
    /\ at       = [w \in Workers |-> "off"]
    /\ scan     = [w \in Workers |-> {}]
    /\ page     = [w \in Workers |-> 1]
    /\ now      = [w \in Workers |-> None]
    /\ record   = [w \in Workers |-> None]
    /\ runs     = [id \in Ids |-> 0]

Process(w) == Take(w) \/ Skip(w) \/ Reject(w) \/ Reserve(w) \/ FindDuplicate(w)
              \/ Invoke(w) \/ SaveOutcome(w) \/ SaveDelivery(w) \/ Post(w)
              \/ SavePosted(w) \/ Close(w) \/ SaveClosed(w)
Serve(w)   == Start(w) \/ BeginTick(w) \/ List(w) \/ PageDone(w) \/ Process(w)
              \/ SaveFailure(w)
Users      == \E i \in Issues : OpenIssue(i) \/ EditIssue(i)
Fault      == \E w \in Workers : TickFails(w) \/ Crash(w) \/ Interrupted(w)

Next == (\E w \in Workers : Serve(w)) \/ Users \/ Fault

Spec == Init /\ [][Next]_vars

(* Fairness. A worker that is running takes its next step, for every call it *)
(* makes has a timeout; one that is not is started again (unless-stopped).  *)
Fairness == \A w \in Workers : WF_vars(Serve(w))
FairSpec == Spec /\ Fairness
-----------------------------------------------------------------------------
(* Properties.                                                              *)

(* Type invariant. Pages are counted from 1.                                *)
TypeOK ==
    /\ issue \in [Issues -> IssueType]
    /\ comments \in [Issues -> SUBSET Records]
    /\ requests \in [Ids -> Requests \cup {None}]
    /\ delivery \in [Issues -> Delivery \cup {None}]
    /\ cursor \in Nat \ {0}
    /\ lock \in Workers \cup {None}
    /\ at \in [Workers -> {"off", "idle", "listing", "scanning", "fetching", "reserved",
                           "executing", "recording", "posting", "posted", "closing",
                           "closed", "failing"}]
    /\ scan \in [Workers -> SUBSET Issues]
    /\ page \in [Workers -> Nat \ {0}]
    /\ now \in [Workers -> Issues \cup {None}]
    /\ record \in [Workers -> Records \cup {None}]
    /\ runs \in [Ids -> Nat]

(* No history of crashes, restarts, edited and reopened issues and competing *)
(* workers makes the worker invoke a handler twice for one request UUID.    *)
OneInvocation == \A id \in Ids : runs[id] <= 1

(* However often an issue is found again, every comment posted to it says   *)
(* the same: delivery is repeated, and never decided anew.                  *)
OneAnswer == \A i \in Issues : \A c, d \in comments[i] : c = d

(* A comment tells the truth about the request for good: a result is the    *)
(* outcome kept in the ledger, under this issue, of the one invocation, and *)
(* a duplicate names the outcome the ledger keeps for the original.         *)
Truthful(i, c) ==
    /\ c.status # "processing"
    /\ c.status \in Outcomes =>
         requests[c.id] = [status |-> c.status, issue |-> i] /\ runs[c.id] = 1
    /\ c.status = "duplicate" =>
         requests[c.id] # None /\ requests[c.id].status = c.original
AnswersAreTrue == \A i \in Issues : \A c \in comments[i] : Truthful(i, c)

(* An issue whose delivery record says posted, or that the worker closed,   *)
(* has its result: no crash loses the comment.                              *)
PostedIsThere ==
    \A i \in Issues :
      delivery[i] # None /\ (delivery[i].posted \/ delivery[i].closed) =>
        delivery[i].record \in comments[i]

(* The outcome of a request, once in the ledger, is never replaced.         *)
OutcomeIsKept ==
    [][\A id \in Ids :
         requests[id] # None /\ requests[id].status \in Outcomes =>
           requests'[id] = requests[id]]_vars

(* When users and faults leave the worker alone, every control issue is     *)
(* answered and closed, on whatever page it is, whatever open issues that   *)
(* are not for the worker fill the pages before it.                         *)
Waiting(i) == issue[i].state = "open" /\ issue[i].control
IssuesAreAnswered ==
    <>[][~(Users \/ Fault)]_vars => \A i \in Issues : <>[]~Waiting(i)
-----------------------------------------------------------------------------
Desk == INSTANCE RequestDesk WITH request <- requests, calls <- runs, answers <- comments

(* The worker implements what its users rely on: a request is accepted,     *)
(* invoked and settled once, and an issue is answered once, with what is    *)
(* true of its own request or of the one that it repeats, whatever workers, *)
(* crashes and edits there are.                                             *)
ImplementsDesk == Desk!Spec
=============================================================================
