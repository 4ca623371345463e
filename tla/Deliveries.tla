------------------------------ MODULE Deliveries ------------------------------
(***************************************************************************)
(* The outbound deliveries of the watched ledger (watched_ledger.py,       *)
(* sync_deliveries): one row per event under its deterministic idempotency *)
(* key, for one target and one operation that must not happen twice.       *)
(*                                                                         *)
(* The ledger has no network client: a caller performs the I/O.  That      *)
(* caller is the one of the documented state machine, external and modelled*)
(* from what the ledger asks of it.  A run of the sender, one at a time,   *)
(* recovers, and takes the runnable rows one after another: in_flight is   *)
(* committed, the request is sent, and its outcome is recorded.  It can die*)
(* anywhere.  Ambiguous rows are settled by explicit reconciliation: by    *)
(* looking at the target when the request can no longer reach it.          *)
(***************************************************************************)
EXTENDS Naturals

CONSTANTS
    Events,  \* the active, identified watch events
    None

ASSUME DeliveriesAssumption == None \notin Events

VARIABLES
    state,    \* sync_deliveries.state of each event's row, or "absent"
    past,     \* rows whose started_at is stale, or whose next_attempt_at is due
    at,       \* where the sender is
    runnable, \* the IDs that recovery returned and the sender has not taken
    current,  \* the row whose request it makes
    wire,     \* requests that can still reach the target
    applied   \* how often the target has applied each event, up to 2

sender == <<at, runnable, current>>
target == <<wire, applied>>
vars   == <<state, past, sender, target>>

-----------------------------------------------------------------------------
(* The state machine of a row.                                              *)

States == {"pending", "in_flight", "verified", "retry_wait", "ambiguous", "failed"}
Final  == {"verified", "failed"}

Transitions ==
    [pending    |-> {"in_flight", "failed"},
     retry_wait |-> {"in_flight", "failed"},
     in_flight  |-> {"verified", "retry_wait", "ambiguous", "failed"},
     ambiguous  |-> {"verified", "pending", "failed"},
     verified   |-> {},
     failed     |-> {}]

May(e, to) == state[e] \in States /\ to \in Transitions[state[e]]

(* next_attempt_at is overwritten by every transition.                      *)
KeptDeadline(e) == past                              \* seeded defect
Deadline(e)     == past \ {e}

(* transition_delivery, and the caller's commit.                            *)
Transition(e, to) ==
    /\ May(e, to)
    /\ state' = [state EXCEPT ![e] = to]
    /\ past'  = Deadline(e)

(* record_delivery_failure.                                                 *)
Certain(error) ==                                    \* seeded defect
    CASE error = "rate_limited" -> "retry_wait"
      [] error = "timeout_after_send" -> "ambiguous"
      [] OTHER -> "failed"
Uncertain == {"timeout_after_send", "connection_lost_after_send", "ambiguous_response"}
FailedState(error) ==
    CASE error = "rate_limited" -> "retry_wait"
      [] error \in Uncertain -> "ambiguous"
      [] OTHER -> "failed"
RecordFailure(e, error) == Transition(e, FailedState(error))

(* create_delivery. The key of an event that has a row is taken.            *)
Create(e) ==
    /\ state[e] = "absent"
    /\ state' = [state EXCEPT ![e] = "pending"]
    /\ UNCHANGED <<past, sender, target>>

(* Time passes for a row that waits.                                        *)
Pass(e) ==
    /\ state[e] \in {"in_flight", "retry_wait"} /\ e \notin past
    /\ past' = past \cup {e}
    /\ UNCHANGED <<state, sender, target>>

-----------------------------------------------------------------------------
(* A run of the sender.                                                     *)

(* recover_restart_work, in one transaction. Recovered(s) is the state of   *)
(* every row after its UPDATE.                                              *)
Recovered == [e \in Events |->
    IF state[e] = "in_flight" /\ e \in past THEN "ambiguous" ELSE state[e]]
PendingOnly == {e \in Events : state[e] = "pending"} \* seeded defect
Runnable    == {e \in Events : \/ state[e] = "pending"
                               \/ state[e] = "retry_wait" /\ e \in past}

Begin ==
    /\ at = "idle"
    /\ state' = Recovered
    /\ past'  = {e \in past : state[e] = "retry_wait"
                              \/ (state[e] = "in_flight" /\ e \notin past)}
    /\ runnable' = Runnable
    /\ at' = "choosing"
    /\ UNCHANGED <<current, target>>

Take(e) ==
    /\ at = "choosing" /\ e \in runnable
    /\ Transition(e, "in_flight")
    /\ runnable' = runnable \ {e}
    /\ at' = "taken" /\ current' = e
    /\ UNCHANGED target

(* The request leaves.                                                      *)
Send ==
    /\ at = "taken"
    /\ wire' = wire \cup {current}
    /\ at' = "waiting"
    /\ UNCHANGED <<state, past, runnable, current, applied>>

(* The target's answer reaches the sender if it waits for it.               *)
Answer(e, answer) ==
    at' = IF current = e /\ at = "waiting" THEN answer ELSE at

Apply(e) ==
    /\ e \in wire
    /\ wire' = wire \ {e}
    /\ applied' = [applied EXCEPT ![e] = IF @ = 0 THEN 1 ELSE 2]
    /\ Answer(e, "applied")
    /\ UNCHANGED <<state, past, runnable, current>>

Refuse(e, answer) ==
    /\ e \in wire
    /\ wire' = wire \ {e}
    /\ Answer(e, answer)
    /\ UNCHANGED <<state, past, runnable, current, applied>>

Reject(e)    == Refuse(e, "rejected")
RateLimit(e) == Refuse(e, "limited")
Lose(e)      == Refuse(e, at)

(* The outcome is recorded, and the sender goes on to the next row. An      *)
(* answer counts only if it can be read and has the target's event ID.      *)
Done ==
    /\ at' = "choosing" /\ current' = None
    /\ UNCHANGED <<runnable, target>>

Verify  == at = "applied"  /\ Transition(current, "verified") /\ Done
GiveUp  == at = "rejected" /\ RecordFailure(current, "rejected") /\ Done
Later   == at = "limited"  /\ RecordFailure(current, "rate_limited") /\ Done
Timeout == at = "waiting"  /\ RecordFailure(current, "timeout_after_send") /\ Done
Unsent  == at = "taken"    /\ RecordFailure(current, "not_sent") /\ Done
Garbled ==
    /\ at \in {"applied", "rejected"}
    /\ \E error \in {"connection_lost_after_send", "ambiguous_response"} :
         RecordFailure(current, error)
    /\ Done

Leave ==
    /\ at' = "idle" /\ runnable' = {} /\ current' = None
    /\ UNCHANGED <<state, past, target>>
End == at = "choosing" /\ runnable = {} /\ Leave
Die == at # "idle" /\ Leave

(* Explicit reconciliation.                                                 *)
Reconcile(e) ==
    /\ state[e] = "ambiguous" /\ e \notin wire
    /\ \E to \in IF applied[e] = 0 THEN {"pending", "failed"} ELSE {"verified"} :
         Transition(e, to)
    /\ UNCHANGED <<sender, target>>

-----------------------------------------------------------------------------
Init ==
    /\ state    = [e \in Events |-> "absent"]
    /\ past     = {}
    /\ at       = "idle"
    /\ runnable = {}
    /\ current  = None
    /\ wire     = {}
    /\ applied  = [e \in Events |-> 0]

(* A run goes on without an answer only when none can come.                 *)
Run   == \/ Begin \/ (\E e \in Events : Take(e)) \/ Send \/ Verify \/ GiveUp \/ Later \/ End
         \/ Timeout /\ current \notin wire
Fault == Timeout \/ Unsent \/ Garbled \/ Die \/ (\E e \in Events : RateLimit(e) \/ Lose(e))

Next == \/ Run \/ Fault
        \/ \E e \in Events : Create(e) \/ Pass(e) \/ Apply(e) \/ Reject(e) \/ Reconcile(e)

Spec == Init /\ [][Next]_vars

(* Fairness. The scheduler starts the sender periodically, and a run goes   *)
(* on; time passes; the target answers; and somebody reconciles what is     *)
(* ambiguous.                                                               *)
FairSpec ==
    /\ Spec
    /\ WF_vars(Run)
    /\ \A e \in Events : /\ WF_vars(Pass(e)) /\ WF_vars(Reconcile(e))
                         /\ WF_vars(Apply(e) \/ Reject(e))
-----------------------------------------------------------------------------
(* Correctness properties.                                                  *)

(* Type invariant; only a row in flight or waiting for a retry has a        *)
(* deadline that has passed.                                                *)
TypeOK ==
    /\ state \in [Events -> States \cup {"absent"}]
    /\ past \subseteq {e \in Events : state[e] \in {"in_flight", "retry_wait"}}
    /\ at \in {"idle", "choosing", "taken", "waiting", "applied", "rejected", "limited"}
    /\ runnable \subseteq Events
    /\ current \in Events \cup {None}
    /\ wire \subseteq Events
    /\ applied \in [Events -> 0..2]

(* watched-event-ledger.md, "Delivery state machine": whatever is lost or   *)
(* late and wherever the sender dies, the target applies an event at most   *)
(* once, and a terminal row says what the target has: verified that it has  *)
(* applied the event, failed that it has not and will not.                  *)
Settled(e) ==
    /\ state[e] = "verified" => applied[e] = 1
    /\ state[e] = "failed"   => applied[e] = 0 /\ e \notin wire
TargetAgrees == \A e \in Events : applied[e] <= 1 /\ Settled(e)

(* The deliveries implement AtMostOnce: a row that waits, to be sent or to  *)
(* be sent again, says that the target has nothing and that no request can  *)
(* reach it; one in flight or ambiguous says neither; the terminal states   *)
(* are final. So a request that arrives late, after a restart or a retry,   *)
(* never meets a row that already said no (recover_restart_work).           *)
Word(e) == CASE state[e] \in {"in_flight", "ambiguous"} -> "maybe"
             [] state[e] = "verified" -> "done"
             [] state[e] = "failed" -> "never"
             [] OTHER -> "no"
Promise == INSTANCE AtMostOnce WITH word <- [e \in Events |-> Word(e)]
ImplementsAtMostOnce == Promise!Spec

(* Once the network and the sender stop failing, every delivery comes to a  *)
(* terminal state: a row left in flight by a dead run, one whose deadline   *)
(* has to pass, and one that is ambiguous too (recover_restart_work).       *)
Quiet == <>[][Fault => Run]_vars
DeliveriesSettle ==
    Quiet => \A e \in Events : state[e] = "pending" ~> state[e] \in Final
=============================================================================
