---------------------------- MODULE RequestDesk ----------------------------
(***************************************************************************)
(* What the control worker promises to the users of the repository,        *)
(* whatever dies, is repeated, edited or reopened: a request is accepted   *)
(* once, for the issue that it arrived with, its handler is called at most *)
(* once, and it gets one outcome, which is a success only if the call took *)
(* place. An issue is answered at most once: with a rejection, with the    *)
(* outcome of its own request, or with the outcome of a request that it    *)
(* repeats.                                                                *)
(***************************************************************************)
CONSTANTS Ids, Issues, None
VARIABLES
    request,   \* the status of each request, and the issue that it is for
    calls,     \* how often the handler was called for each request
    answers    \* what each issue has been answered, at most one thing

Failed   == "capability_execution_failed"
Outcomes == {"capability_completed", Failed}

Init ==
    /\ request = [id \in Ids |-> None]
    /\ calls   = [id \in Ids |-> 0]
    /\ answers = [i \in Issues |-> {}]

Accept(id, i) ==
    /\ request[id] = None
    /\ request' = [request EXCEPT ![id] = [status |-> "processing", issue |-> i]]
    /\ UNCHANGED <<calls, answers>>

UnderWay(id) == request[id] # None /\ request[id].status = "processing"

Call(id) ==
    /\ UnderWay(id)
    /\ calls[id] = 0
    /\ calls' = [calls EXCEPT ![id] = 1]
    /\ UNCHANGED <<request, answers>>

\* Success needs the call; a request that was interrupted, before or in it, fails.
Settle(id, outcome) ==
    /\ UnderWay(id)
    /\ outcome # Failed => calls[id] = 1
    /\ request' = [request EXCEPT ![id].status = outcome]
    /\ UNCHANGED <<calls, answers>>

Settled(id) == request[id] # None /\ request[id].status \in Outcomes

Say(i, status, id, original) ==
    /\ answers[i] = {}
    /\ answers' = [answers EXCEPT ![i] =
                     {[status |-> status, id |-> id, original |-> original]}]
    /\ UNCHANGED <<request, calls>>

Reject(i) == \E id \in Ids \cup {None} : Say(i, "request_rejected", id, "none")

Answer(i, id) ==
    /\ Settled(id) /\ request[id].issue = i /\ calls[id] = 1
    /\ Say(i, request[id].status, id, "none")

Repeat(i, id) == Settled(id) /\ Say(i, "duplicate", id, request[id].status)

Next ==
    \/ \E id \in Ids : Call(id) \/ \E outcome \in Outcomes : Settle(id, outcome)
    \/ \E i \in Issues : \/ Reject(i)
                         \/ \E id \in Ids : Accept(id, i) \/ Answer(i, id) \/ Repeat(i, id)

Spec == Init /\ [][Next]_<<request, calls, answers>>
=============================================================================
