--------------------------- MODULE TaskLifecycle ---------------------------
(***************************************************************************)
(* What the Work Runner promises about a task, whoever submits, cancels,   *)
(* crashes or restarts: it is admitted once, with the payload it keeps,    *)
(* held by the one worker, its executor is invoked at most once, and it    *)
(* gets one final outcome, which is success only if the executor was       *)
(* invoked and nobody had asked for its cancellation. At most one task is  *)
(* held at a time. A task whose admission was interrupted is an orphan: it *)
(* is never admitted.                                                      *)
(***************************************************************************)
CONSTANTS Tasks, Payloads, NoPayload
VARIABLES
    task,      \* the phase of each task
    asked,     \* the tasks whose cancellation has been requested
    payload,   \* what each task was admitted with
    orphaned   \* the tasks whose admission was interrupted

Held     == {"held", "invoked"}
Outcomes == {"succeeded", "failed", "blocked", "cancelled", "interrupted"}
Phases   == {"unknown", "queued"} \cup Held \cup Outcomes

Init ==
    /\ task  = [t \in Tasks |-> "unknown"]
    /\ asked = {}
    /\ payload  = [t \in Tasks |-> NoPayload]
    /\ orphaned = {}

Admit(t, p) ==
    /\ task[t] = "unknown"
    /\ t \notin orphaned
    /\ task'    = [task EXCEPT ![t] = "queued"]
    /\ payload' = [payload EXCEPT ![t] = p]
    /\ UNCHANGED <<asked, orphaned>>

Orphan(t) ==
    /\ task[t] = "unknown"
    /\ orphaned' = orphaned \cup {t}
    /\ UNCHANGED <<task, asked, payload>>

\* A queued task is cancelled at once, a held one is only asked to stop.
Withdraw(t) ==
    /\ task[t] = "queued"
    /\ task'  = [task EXCEPT ![t] = "cancelled"]
    /\ asked' = asked \cup {t}
    /\ UNCHANGED <<payload, orphaned>>

Ask(t) ==
    /\ task[t] \in Held
    /\ asked' = asked \cup {t}
    /\ UNCHANGED <<task, payload, orphaned>>

Hold(t) ==
    /\ task[t] = "queued"
    /\ \A u \in Tasks : task[u] \notin Held
    /\ task' = [task EXCEPT ![t] = "held"]
    /\ UNCHANGED <<asked, payload, orphaned>>

Invoke(t) ==
    /\ task[t] = "held"
    /\ task' = [task EXCEPT ![t] = "invoked"]
    /\ UNCHANGED <<asked, payload, orphaned>>

\* Outcomes that a task can get without, and with, its executor invoked.
Reachable(phase) ==
    CASE phase = "queued"  -> {"failed"}
      [] phase = "held"    -> Outcomes \ {"succeeded"}
      [] phase = "invoked" -> Outcomes
      [] OTHER             -> {}

Settle(t) ==
    /\ \E outcome \in Reachable(task[t]) :
         /\ outcome = "succeeded" => t \notin asked
         /\ task' = [task EXCEPT ![t] = outcome]
    /\ UNCHANGED <<asked, payload, orphaned>>

Next == \E t \in Tasks :
    \/ \E p \in Payloads : Admit(t, p)
    \/ Orphan(t) \/ Withdraw(t) \/ Ask(t) \/ Hold(t) \/ Invoke(t) \/ Settle(t)

Spec == Init /\ [][Next]_<<task, asked, payload, orphaned>>
=============================================================================
