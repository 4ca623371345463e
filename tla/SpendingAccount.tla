--------------------------- MODULE SpendingAccount ---------------------------
(***************************************************************************)
(* What the usage ledger promises, whoever reserves, dies and recovers:    *)
(* one session per task, charged before each request that is paid for, and *)
(* within the budgets of the task and of the month; a charge stays, its    *)
(* outcome is learnt or stays unknown, and a session is completed only     *)
(* when every outcome is known. A session is used after it was closed only *)
(* if it was set adrift while it was open: its user could not be told.     *)
(***************************************************************************)
EXTENDS Naturals, Sequences, FiniteSets

CONSTANTS Tasks, Months, MaxTurns, TurnReserve, TaskBudget, MonthBudget

VARIABLES
    session, \* of each task: "none", "open", "completed" or "closed"
    real,    \* the tasks whose requests cost real money
    turns,   \* the charges of each task
    month,   \* the calendar
    paid,    \* the requests made for each task
    adrift   \* the tasks whose session nobody watches over

Fits(n, budget) == n * TurnReserve <= budget
Charged(m) == {c \in real \X (1..MaxTurns) :
                 /\ c[2] <= Len(turns[c[1]])
                 /\ turns[c[1]][c[2]].month = m}

Become(t, standing) == session' = [session EXCEPT ![t] = standing]

Usable(t) == session[t] = "open" \/ (session[t] = "closed" /\ t \in adrift)

Open(t) ==
    /\ session[t] = "none" /\ Become(t, "open")
    /\ real' \in {real, real \cup {t}}
    /\ UNCHANGED <<turns, month, paid>>

Charge(t) ==
    /\ Usable(t)
    /\ Len(turns[t]) < MaxTurns
    /\ Fits(Len(turns[t]) + 1, TaskBudget)
    /\ t \in real => Fits(Cardinality(Charged(month)) + 1, MonthBudget)
    /\ turns' = [turns EXCEPT ![t] =
                   Append(@, [month |-> month, status |-> "outcome_unknown"])]
    /\ UNCHANGED <<session, real, month, paid>>

Pay(t) ==
    /\ Usable(t)
    /\ paid[t] < Len(turns[t])
    /\ paid' = [paid EXCEPT ![t] = @ + 1]
    /\ UNCHANGED <<session, real, turns, month>>

Learn(t) ==
    /\ Usable(t) /\ turns[t] # <<>>
    /\ turns' = [turns EXCEPT ![t][Len(turns[t])].status = "usage_received"]
    /\ UNCHANGED <<session, real, month, paid>>

Complete(t) ==
    /\ Usable(t) /\ Become(t, "completed")
    /\ \A i \in DOMAIN turns[t] : turns[t][i].status = "usage_received"
    /\ UNCHANGED <<real, turns, month, paid>>

\* A completed session is closed when its completion reaches nobody.
Close(t) ==
    /\ session[t] \in {"open", "completed"} /\ Become(t, "closed")
    /\ UNCHANGED <<real, turns, month, paid>>

NextMonth ==
    /\ month < Months /\ month' = month + 1
    /\ UNCHANGED <<session, real, turns, paid>>

Watch == UNCHANGED <<session, real, turns, month, paid>>

Init ==
    /\ session = [t \in Tasks |-> "none"]
    /\ real    = {}
    /\ turns   = [t \in Tasks |-> <<>>]
    /\ month   = 1
    /\ paid    = [t \in Tasks |-> 0]
    /\ adrift  = {}

\* With any step a session may be lost from sight, while it is open.
Next ==
    /\ \/ Watch \/ NextMonth
       \/ \E t \in Tasks :
            Open(t) \/ Charge(t) \/ Pay(t) \/ Learn(t) \/ Complete(t) \/ Close(t)
    /\ adrift' \ adrift \subseteq {t \in Tasks : session'[t] = "open"}

Spec == Init /\ [][Next]_<<session, real, turns, month, paid, adrift>>
=============================================================================
