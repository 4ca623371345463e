--------------------------- MODULE InferenceBroker ---------------------------
(***************************************************************************)
(* The inference broker (inference_broker.py) with its usage ledger        *)
(* (inference_usage.py) and the agent in the Work Runner that talks to it  *)
(* (coding_agent.py, coding_protocol.py).                                  *)
(*                                                                         *)
(* The broker accepts one connection at a time and starts a child for it.  *)
(* The child reserves a task once, and money for every turn before the     *)
(* paid request; the tools the model asks for are executed by the agent.   *)
(* The broker kills the child when the agent hangs up, at the deadline and *)
(* at its own stop, and then settles what the child left reserved.         *)
(*                                                                         *)
(* Every ledger operation replaces one file under ledger.lock: one step.   *)
(* A broker that is killed leaves its child alive: it has a session of its *)
(* own and the connection, and checks no status when it uses the ledger.   *)
(* systemd kills what is left of its unit before it starts the unit again, *)
(* but a broker started by hand finds service.lock free at once.           *)
(***************************************************************************)
EXTENDS Integers, Sequences, FiniteSets

CONSTANTS
    Tasks,       \* task UUIDs
    Brokers,     \* broker processes: systemd's, and any started by hand
    Unit,        \* those of systemd's unit: one control group
    Months,      \* the last calendar month
    MaxTurns,    \* MAX_TURNS, 8 in the code
    TurnReserve, \* TURN_RESERVE_MICRO_USD
    TaskBudget,  \* TASK_BUDGET_MICRO_USD
    MonthBudget, \* MONTH_BUDGET_MICRO_USD
    Retention,   \* ledger records kept, 256 in the code
    None

ASSUME BrokerAssumption ==
    /\ IsFiniteSet(Tasks) /\ None \notin Tasks \cup Brokers
    /\ Unit \subseteq Brokers
    /\ {Months, MaxTurns, TurnReserve} \subseteq Nat \ {0}
    /\ {TaskBudget, MonthBudget, Retention} \subseteq Nat

VARIABLES
    usage,   \* the ledger: <UUID>.json, or None
    month,   \* the calendar
    lock,    \* the holder of service.lock
    at,      \* where each broker is
    child,   \* its child: where it is and for which task, or None
    conn,    \* the broker that serves the agent's connection
    mail,    \* what the agent has not read of it yet
    answer,  \* the brokers whose child has not read a tool result yet
    agent,   \* where the agent is, its task, how many messages it has read
    paid     \* how many paid requests were made for each task

linkVars == <<conn, mail, answer>>
vars == <<usage, month, lock, at, child, linkVars, agent, paid>>

-----------------------------------------------------------------------------
Providers == {"openai", "acceptance"}
Turns     == [month : 1..Months, status : {"outcome_unknown", "usage_received"}]
Statuses  == {"reserved", "reasoning_completed", "failed", "interrupted"}
Records   == [status : Statuses, provider : Providers, turns : Seq(Turns)]
Messages  == {"usage", "tool", "complete", "failure"}
Children  == [at : {"start", "asking", "reserved", "requested", "accounted", "waiting",
                    "completed", "failing", "refusing", "exited"},
              task : Tasks]

ASSUME NoneIsNoRecord == None \notin Records \cup Children

Recorded == {t \in Tasks : usage[t] # None}
With(status) == {t \in Recorded : usage[t].status = status}
Charged(m, provider) ==
    {turn \in Recorded \X (1..MaxTurns) :
        LET r == usage[turn[1]]
        IN  /\ r.provider = provider
            /\ turn[2] <= Len(r.turns)
            /\ r.turns[turn[2]].month = m}

Task(b) == child[b].task
Step(b, point) == child' = [child EXCEPT ![b].at = point]
Tell(msgs) == mail' = mail \o msgs

-----------------------------------------------------------------------------
(* The child: loop, with the ledger's operations.                           *)

InChild(b, point) == child[b] # None /\ child[b].at = point

(* start: a UUID that has a record never gets another session.              *)
Anew(t)  == t \in Recorded => usage[t].status # "reserved"  \* seeded defect
Fresh(t) == t \notin Recorded

StartSession(b) ==
    /\ InChild(b, "start")
    /\ IF Fresh(Task(b)) /\ Cardinality(Recorded) < Retention
       THEN /\ \E provider \in Providers : usage' = [usage EXCEPT ![Task(b)] =
                [status |-> "reserved", provider |-> provider, turns |-> <<>>]]
            /\ Step(b, "asking")
       ELSE Step(b, "refusing") /\ UNCHANGED usage
    /\ UNCHANGED <<month, lock, at, linkVars, agent, paid>>

WithinReserved(spent, budget) == spent * TurnReserve <= budget  \* seeded defect: this turn is not counted
Within(spent, budget) == (spent + 1) * TurnReserve <= budget

Affordable(t) ==
    /\ Len(usage[t].turns) < MaxTurns
    /\ Within(Len(usage[t].turns), TaskBudget)
    /\ usage[t].provider = "acceptance"
         \/ Within(Cardinality(Charged(month, "openai")), MonthBudget)

Reserve(b) ==
    /\ InChild(b, "asking")
    /\ Affordable(Task(b))
    /\ usage' = [usage EXCEPT ![Task(b)].turns =
                   Append(@, [month |-> month, status |-> "outcome_unknown"])]
    /\ Step(b, "reserved")
    /\ UNCHANGED <<month, lock, at, linkVars, agent, paid>>

(* The usage is sent and the one request of this turn is made.              *)
Request(b) ==
    /\ InChild(b, "reserved")
    /\ conn = b
    /\ Tell(<<"usage">>)
    /\ paid' = [paid EXCEPT ![Task(b)] = @ + 1]
    /\ Step(b, "requested")
    /\ UNCHANGED <<usage, month, lock, at, conn, answer, agent>>

FirstTurn(turns) == 1                  \* seeded defect
LastTurn(turns)  == Len(turns)

(* usage: the turn is accounted for, also when it cost more than reserved,  *)
(* which ends the session.                                                  *)
Account(b) ==
    /\ InChild(b, "requested")
    /\ usage' = [usage EXCEPT ![Task(b)].turns[LastTurn(usage[Task(b)].turns)].status =
                   "usage_received"]
    /\ \E point \in {"accounted", "failing"} : Step(b, point)
    /\ UNCHANGED <<month, lock, at, linkVars, agent, paid>>

AskForTool(b) ==
    /\ InChild(b, "accounted")
    /\ conn = b
    /\ Tell(<<"usage", "tool">>)
    /\ Step(b, "waiting")
    /\ UNCHANGED <<usage, month, lock, at, conn, answer, agent, paid>>

ReadResult(b) ==
    /\ InChild(b, "waiting")
    /\ b \in answer
    /\ answer' = answer \ {b}
    /\ Step(b, "asking")
    /\ UNCHANGED <<usage, month, lock, at, conn, mail, agent, paid>>

Complete(b) ==
    /\ InChild(b, "accounted")
    /\ conn = b
    /\ Tell(<<"usage">>)
    /\ usage' = [usage EXCEPT ![Task(b)].status = "reasoning_completed"]
    /\ Step(b, "completed")
    /\ UNCHANGED <<month, lock, at, conn, answer, agent, paid>>

SendComplete(b) ==
    /\ InChild(b, "completed")
    /\ conn = b
    /\ Tell(<<"complete">>)
    /\ Step(b, "exited")
    /\ UNCHANGED <<usage, month, lock, at, conn, answer, agent, paid>>

(* Any exception: a budget, the deadline, the size of the request, the      *)
(* provider, an invalid response, a broken connection. The provider's may   *)
(* come before or after the request is made.                                *)
Retried(point) == IF point = "requested" THEN "reserved" ELSE "failing"  \* seeded defect
AfterFailure(point) == "failing"

ChildFails(b) ==
    /\ \E point \in {"asking", "reserved", "requested", "accounted", "waiting"} :
         InChild(b, point) /\ Step(b, AfterFailure(point))
    /\ UNCHANGED <<usage, month, lock, at, linkVars, agent, paid>>

(* The session is over, but its last message finds nobody.                  *)
CompleteFails(b) ==
    /\ InChild(b, "completed")
    /\ conn # b
    /\ Step(b, "failing")
    /\ UNCHANGED <<usage, month, lock, at, linkVars, agent, paid>>

RecordFailure(b) ==
    /\ InChild(b, "failing")
    /\ usage' = [usage EXCEPT ![Task(b)].status = "failed"]
    /\ Step(b, "refusing")
    /\ UNCHANGED <<month, lock, at, linkVars, agent, paid>>

SendFailure(b) ==
    /\ InChild(b, "refusing")
    /\ mail' = IF conn = b THEN Append(mail, "failure") ELSE mail
    /\ Step(b, "exited")
    /\ UNCHANGED <<usage, month, lock, at, conn, answer, agent, paid>>

-----------------------------------------------------------------------------
(* The broker: serve and supervise.                                         *)

Goto(b, point) == at' = [at EXCEPT ![b] = point]
HangUp(b) == /\ conn' = IF conn = b THEN None ELSE conn
             /\ answer' = answer \ {b}

Unlocked   == TRUE                     \* seeded defect: no service.lock
ServiceFree == lock = None

(* A process is new, and systemd's the only one of its control group.       *)
Cleared(b) == \A c \in {b} \cup (IF b \in Unit THEN Unit ELSE {}) : child[c] = None

StartBroker(b) ==
    /\ at[b] = "off"
    /\ Cleared(b)
    /\ ServiceFree
    /\ lock' = b
    /\ Goto(b, "recovering")
    /\ UNCHANGED <<usage, month, child, linkVars, agent, paid>>

Refunded(r) == [r EXCEPT !.status = "interrupted",     \* seeded defect
                         !.turns = SelectSeq(@, LAMBDA turn : turn.status = "usage_received")]
Recovered(r) == [r EXCEPT !.status = "interrupted"]

Recover(b) ==
    /\ at[b] = "recovering"
    /\ \E t \in With("reserved") : usage' = [usage EXCEPT ![t] = Recovered(@)]
    /\ UNCHANGED <<month, lock, at, child, linkVars, agent, paid>>

(* At the end of a session the connection is closed, after recovery.        *)
EndRecovery(b) ==
    /\ at[b] = "recovering"
    /\ With("reserved") = {}
    /\ Goto(b, "listening")
    /\ HangUp(b)
    /\ UNCHANGED <<usage, month, lock, child, mail, agent, paid>>

(* operator.json is read for every connection: a disabled provider is       *)
(* refused without a record, and which one it is shows in the record.       *)
Accept(b) ==
    /\ at[b] = "listening"
    /\ agent.at = "connecting"
    /\ \E point \in {"start", "refusing"} :
         child' = [child EXCEPT ![b] = [at |-> point, task |-> agent.task]]
    /\ conn' = b
    /\ agent' = [agent EXCEPT !.at = "running"]
    /\ Goto(b, "supervising")
    /\ UNCHANGED <<usage, month, lock, mail, answer, paid>>

(* A peer that is too slow, not the runner, or asks for no coding task.     *)
Decline(b) ==
    /\ at[b] = "listening"
    /\ agent.at = "connecting"
    /\ agent' = [agent EXCEPT !.at = "running"]
    /\ UNCHANGED <<usage, month, lock, at, child, linkVars, paid>>

EndSession(b, point) ==
    /\ at[b] = "supervising"
    /\ child' = [child EXCEPT ![b] = None]
    /\ Goto(b, point)
    /\ UNCHANGED <<usage, month, lock, linkVars, agent, paid>>

Reaped == "recovering"

(* The child has exited, or the agent has hung up with nothing left to read.*)
Reap(b) ==
    /\ InChild(b, "exited") \/ (conn # b /\ b \notin answer)
    /\ EndSession(b, Reaped)

(* The deadline, or a stop.                                                 *)
Expire(b) == EndSession(b, Reaped)

(* After a stop or an error, when its child is gone; or a kill, which the   *)
(* child outlives with its own copy of the connection.                      *)
BrokerEnds(b) ==
    /\ at[b] # "off"
    /\ Goto(b, "off")
    /\ lock'  = IF lock = b THEN None ELSE lock
    /\ IF child[b] = None THEN HangUp(b) ELSE UNCHANGED <<conn, answer>>
    /\ agent' = IF agent.at = "connecting" THEN [agent EXCEPT !.at = "running"] ELSE agent
    /\ UNCHANGED <<usage, month, child, mail, paid>>

(* It has exited, or was killed: by systemd with the rest of its unit.      *)
OrphanEnds(b) ==
    /\ at[b] = "off"
    /\ child[b] # None
    /\ child' = [child EXCEPT ![b] = None]
    /\ HangUp(b)
    /\ UNCHANGED <<usage, month, lock, at, mail, agent, paid>>

-----------------------------------------------------------------------------
(* The agent: BrokerAgent.run.                                              *)

TooFew  == MaxTurns * 3                \* seeded defect
MaxHeard == MaxTurns * 3 + 1

(* Nothing keeps a task from being sent again.                              *)
Connect(t) ==
    /\ agent.at = "idle"
    /\ \E b \in Brokers : at[b] # "off"
    /\ agent' = [at |-> "connecting", task |-> t, heard |-> 0, outcome |-> "none"]
    /\ mail' = <<>>
    /\ UNCHANGED <<usage, month, lock, at, child, conn, answer, paid>>

Return(outcome) ==
    /\ agent' = [agent EXCEPT !.at = "idle", !.outcome = outcome, !.heard = 0]
    /\ conn'  = None

Hear ==
    /\ agent.at = "running"
    /\ mail # <<>>
    /\ agent.heard < MaxHeard
    /\ CASE Head(mail) = "usage" ->
              agent' = [agent EXCEPT !.heard = @ + 1] /\ UNCHANGED conn
         [] Head(mail) = "tool" ->
              agent' = [agent EXCEPT !.heard = @ + 1, !.at = "invoking"] /\ UNCHANGED conn
         [] OTHER -> Return(Head(mail))
    /\ mail' = Tail(mail)
    /\ UNCHANGED <<usage, month, lock, at, child, answer, paid>>

Answer ==
    /\ agent.at = "invoking"
    /\ agent' = [agent EXCEPT !.at = "running"]
    /\ answer' = answer \cup ({conn} \ {None})
    /\ UNCHANGED <<usage, month, lock, at, child, conn, mail, paid>>

(* Its own limit on messages; a closed connection; its guard, a rejected    *)
(* tool or the death of the runner.                                         *)
AgentReturns(outcome) ==
    /\ Return(outcome)
    /\ mail' = <<>>
    /\ UNCHANGED <<usage, month, lock, at, child, answer, paid>>

MoreToHear == agent.heard < MaxHeard /\ (mail # <<>> \/ conn # None)

NoMore      == /\ agent.at = "running" /\ ~MoreToHear
               /\ AgentReturns(IF agent.heard < MaxHeard THEN "interrupted" ELSE "limit")
AgentAborts == /\ agent.at # "idle"
               /\ AgentReturns("interrupted")

-----------------------------------------------------------------------------
NextMonth ==
    /\ month < Months
    /\ month' = month + 1
    /\ UNCHANGED <<usage, lock, at, child, linkVars, agent, paid>>

Init ==
    /\ usage  = [t \in Tasks |-> None]
    /\ month  = 1
    /\ lock   = None
    /\ at     = [b \in Brokers |-> "off"]
    /\ child  = [b \in Brokers |-> None]
    /\ conn   = None
    /\ mail   = <<>>
    /\ answer = {}
    /\ agent  = [at |-> "idle", task |-> None, heard |-> 0, outcome |-> "none"]
    /\ paid   = [t \in Tasks |-> 0]

Child(b) == StartSession(b) \/ Reserve(b) \/ Request(b) \/ Account(b) \/ AskForTool(b)
            \/ ReadResult(b) \/ Complete(b) \/ SendComplete(b) \/ ChildFails(b)
            \/ CompleteFails(b) \/ RecordFailure(b) \/ SendFailure(b)
Broker(b) == StartBroker(b) \/ Recover(b) \/ EndRecovery(b) \/ Accept(b) \/ Decline(b)
             \/ Reap(b)
Agent == Hear \/ Answer \/ NoMore

Next == \/ \E b \in Brokers : Broker(b) \/ Child(b) \/ Expire(b) \/ BrokerEnds(b)
                            \/ OrphanEnds(b)
        \/ Agent \/ AgentAborts \/ NextMonth
        \/ \E t \in Tasks : Connect(t)

Spec == Init /\ [][Next]_vars
-----------------------------------------------------------------------------
(* Correctness properties.                                                  *)

(* Type invariant.                                                          *)
TypeOK ==
    /\ usage \in [Tasks -> Records \cup {None}]
    /\ month \in 1..Months
    /\ lock \in Brokers \cup {None}
    /\ at \in [Brokers -> {"off", "recovering", "listening", "supervising"}]
    /\ child \in [Brokers -> Children \cup {None}]
    /\ conn \in Brokers \cup {None}
    /\ mail \in Seq(Messages) /\ answer \subseteq Brokers
    /\ agent \in [at : {"idle", "connecting", "running", "invoking"},
                  task : Tasks \cup {None}, heard : 0..MaxHeard,
                  outcome : {"none", "limit", "interrupted"} \cup Messages]
    /\ paid \in [Tasks -> 0..MaxTurns]

(* coding-agent-backend-v01.md, "Provider, money and interruption truth":   *)
(* every paid request has a durable reservation of its own, and the real    *)
(* reservations of a month and those of a task are within their budgets,    *)
(* across sessions, crashes and switches of the provider.                   *)
BudgetsHold ==
    /\ \A t \in Tasks : usage[t] = None => paid[t] = 0
    /\ \A t \in Recorded : /\ paid[t] <= Len(usage[t].turns)
                           /\ Len(usage[t].turns) * TurnReserve <= TaskBudget
    /\ \A m \in 1..Months : Cardinality(Charged(m, "openai")) * TurnReserve <= MonthBudget

(* While a child can still reserve or request, its task has a record, no    *)
(* other child works on the task, and the record says reserved: no recovery *)
(* settles a live session. The one exception is a child that outlives its   *)
(* broker when another broker can be started beside systemd's unit.         *)
InSession(b) == child[b] # None /\ child[b].at \in
                  {"asking", "reserved", "requested", "accounted", "waiting"}
LiveSessionIsReserved ==
    \A b \in Brokers : InSession(b) =>
        /\ usage[Task(b)] # None
        /\ usage[Task(b)].status = "reserved" \/ (at[b] = "off" /\ Unit # Brokers)
        /\ \A c \in Brokers \ {b} : InSession(c) => Task(c) # Task(b)

(* The tasks whose child works without a broker.                            *)
Adrift == {Task(b) : b \in {c \in Brokers : at[c] = "off" /\ InSession(c)}}

(* A charge is never taken back: turns are only added, and the outcome of   *)
(* an earlier turn never changes; a session that was settled, by its child  *)
(* or by recovery, is not opened again, and only a child that outlived its  *)
(* broker adds to it.                                                       *)
ChargesStay ==
    [][\A t \in Recorded :
         LET old == usage[t]
             new == usage'[t]
             n   == Len(old.turns)
         IN  /\ new # None /\ new.provider = old.provider
             /\ Len(new.turns) \in {n, n + 1}
             /\ \A i \in 1..n : \/ new.turns[i] = old.turns[i]
                                \/ i = n /\ new.turns[i].month = old.turns[i].month
             /\ old.status # "reserved" =>
                  new.status # "reserved" /\ (new.turns = old.turns \/ t \in Adrift)
      ]_vars

(* The ledger is a SpendingAccount, as if one session at a time used it:    *)
(* whatever the brokers, their children and the agent do and wherever they  *)
(* die, a request is paid for from a charge of its own, no recovery takes a *)
(* charge back, no session is opened twice, and a session that was closed   *)
(* is charged only by a child that was left alone with it                   *)
(* (inference_usage.py; serve and supervise).                               *)
SessionOf(t) ==
    IF usage[t] = None THEN "none"
    ELSE CASE usage[t].status = "reserved" -> "open"
           [] usage[t].status = "reasoning_completed" -> "completed"
           [] OTHER -> "closed"
TurnsOf(t) == IF usage[t] = None THEN <<>> ELSE usage[t].turns
Money == INSTANCE SpendingAccount WITH
    session <- [t \in Tasks |-> SessionOf(t)],
    real    <- {t \in Recorded : usage[t].provider = "openai"},
    turns   <- [t \in Tasks |-> TurnsOf(t)],
    adrift  <- Adrift
ImplementsAccount == Money!Spec

(* When the runner is told that the reasoning is complete, the ledger says  *)
(* so too, and has the usage of every turn.                                 *)
CompleteIsAccounted ==
    "complete" \in {mail[i] : i \in DOMAIN mail} \/ agent.outcome = "complete" =>
        /\ usage[agent.task].status = "reasoning_completed"
        /\ \A i \in DOMAIN usage[agent.task].turns :
             usage[agent.task].turns[i].status = "usage_received"

(* The agent's own limit of messages leaves room for every turn the broker  *)
(* allows and the message that ends the session.                            *)
EndIsHeard == agent.outcome # "limit"

(* Where systemd runs every broker, one accepts the next connection only    *)
(* when nothing is left reserved: not by the child it has killed or reaped, *)
(* not by one that died with or after an earlier broker.                    *)
ListeningIsSettled ==
    Unit = Brokers /\ (\E b \in Brokers : at[b] = "listening") => With("reserved") = {}
=============================================================================
