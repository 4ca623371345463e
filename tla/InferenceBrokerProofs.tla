------------------------ MODULE InferenceBrokerProofs ------------------------
(* The safety properties of InferenceBroker, for any number of tasks,       *)
(* brokers and months, and any budgets.                                     *)
EXTENDS InferenceBroker, FiniteSetTheorems, SequenceTheorems, TLAPS

Session  == {"asking", "reserved", "requested", "accounted", "waiting"}
Outside  == {"start", "refusing", "exited"}

(* A broker at work holds service.lock, and one that has a child supervises *)
(* it or has left it alone.                                                 *)
LockInv == \A b \in Brokers :
    /\ at[b] # "off" => lock = b
    /\ child[b] # None => at[b] \in {"supervising", "off"}

(* systemd starts its unit again only when nothing is left of it.           *)
AloneInv == Unit = Brokers =>
    \A b, c \in Brokers :
        child[b] # None /\ (child[c] # None \/ at[c] # "off") => b = c

(* One child at most has got past the start of a task's session.            *)
AtWork(b) == child[b] # None /\ child[b].at \notin Outside
SoleInv == \A b, c \in Brokers :
    AtWork(b) /\ AtWork(c) /\ Task(b) = Task(c) => b = c

(* A task's record and the paid requests made for it.                       *)
LedgerFits(r, p) ==
    IF r = None THEN p = 0
    ELSE /\ p <= Len(r.turns) /\ Len(r.turns) <= MaxTurns
         /\ Len(r.turns) * TurnReserve <= TaskBudget
LedgerInv == \A t \in Tasks : LedgerFits(usage[t], paid[t])

MonthInv == \A m \in 1..Months :
    Cardinality(Charged(m, "openai")) * TurnReserve <= MonthBudget

(* What a child relies on: its record, and the requests paid for.           *)
Accounted(turns, n) == \A i \in 1..n : turns[i].status = "usage_received"
ChildFits(k, r, p) ==
    /\ k.at \notin Outside => r # None
    /\ k.at \in Session => r.status \in {"reserved", "interrupted"}
    /\ k.at \in {"asking", "accounted", "waiting", "completed"} =>
         Accounted(r.turns, Len(r.turns))
    /\ k.at \in {"reserved", "requested"} =>
         Len(r.turns) >= 1 /\ Accounted(r.turns, Len(r.turns) - 1)
    /\ k.at = "reserved" => p < Len(r.turns)
    /\ k.at = "completed" => r.status = "reasoning_completed"
ChildInv == \A b \in Brokers :
    child[b] # None => ChildFits(child[b], usage[Task(b)], paid[Task(b)])

(* Only a child that was left alone can lose its session to a recovery, and *)
(* not to one of its own unit.                                              *)
Watched(b) == at[b] # "off" \/ Unit = Brokers
LiveInv == \A b \in Brokers :
    child[b] # None /\ child[b].at \in Session /\ Watched(b) =>
        usage[Task(b)].status = "reserved"

(* The connection is of the task that the agent waits for.                  *)
LinkInv ==
    /\ agent.at \in {"idle", "connecting"} => conn = None
    /\ agent.at # "idle" => agent.task \in Tasks
    /\ \A b \in Brokers : conn = b /\ child[b] # None => Task(b) = agent.task

(* What the agent has been told, or has heard.                              *)
Says(msgs) == {msgs[i] : i \in DOMAIN msgs}
Told == "complete" \in Says(mail) \/ agent.outcome = "complete"
ToldFits(t) ==
    /\ t \in Tasks /\ usage[t] # None
    /\ usage[t].status = "reasoning_completed"
    /\ Accounted(usage[t].turns, Len(usage[t].turns))
    /\ \A b \in Brokers : child[b] # None /\ Task(b) = t => child[b].at \in Outside
ToldInv == Told => ToldFits(agent.task)

IInv == /\ TypeOK /\ LockInv /\ AloneInv /\ SoleInv /\ LiveInv /\ LedgerInv /\ MonthInv
        /\ ChildInv /\ LinkInv /\ ToldInv /\ ListeningIsSettled

-----------------------------------------------------------------------------
(* Messages.                                                                *)
LEMMA TwoParts ==
    ASSUME NEW s \in Seq(Messages), NEW u \in Seq(Messages)
    PROVE  s \o u \in Seq(Messages) /\ Says(s \o u) = Says(s) \cup Says(u)
<1> DEFINE w == s \o u
<1>1. /\ w \in Seq(Messages) /\ Len(w) = Len(s) + Len(u)
      /\ \A i \in 1..(Len(s) + Len(u)) : w[i] = IF i <= Len(s) THEN s[i] ELSE u[i - Len(s)]
  BY ConcatProperties
<1> HIDE DEF w
<1>2. /\ DOMAIN s = 1..Len(s) /\ DOMAIN u = 1..Len(u) /\ DOMAIN w = 1..Len(w)
      /\ Len(s) \in Nat /\ Len(u) \in Nat /\ Len(w) \in Nat
  BY <1>1
<1>3. ASSUME NEW i \in 1..Len(w) PROVE w[i] \in Says(s) \cup Says(u)
  <2>1. CASE i <= Len(s)
    BY <1>1, <1>2, <2>1 DEF Says
  <2>2. CASE i > Len(s)
    <3>1. i - Len(s) \in 1..Len(u) /\ w[i] = u[i - Len(s)]
      BY <1>1, <1>2, <2>2
    <3> QED BY <1>2, <3>1 DEF Says
  <2> QED BY <1>2, <2>1, <2>2
<1>4. ASSUME NEW i \in 1..Len(s) PROVE s[i] \in Says(w)
  BY <1>1, <1>2 DEF Says
<1>5. ASSUME NEW i \in 1..Len(u) PROVE u[i] \in Says(w)
  <2>1. /\ i + Len(s) \in 1..Len(w) /\ ~(i + Len(s) <= Len(s))
        /\ (i + Len(s)) - Len(s) = i
    BY <1>1, <1>2
  <2>2. w[i + Len(s)] = u[i]
    BY <1>1, <2>1
  <2> QED BY <1>2, <2>1, <2>2 DEF Says
<1>6. Says(w) = Says(s) \cup Says(u)
  BY <1>2, <1>3, <1>4, <1>5 DEF Says
<1> QED BY <1>1, <1>6 DEF w

LEMMA OneMessage ==
    ASSUME NEW s \in Seq(Messages), NEW m \in Messages
    PROVE  /\ s \o <<m>> \in Seq(Messages) /\ Says(s \o <<m>>) = Says(s) \cup {m}
           /\ Append(s, m) \in Seq(Messages) /\ Says(Append(s, m)) = Says(s) \cup {m}
<1>1. <<m>> \in Seq(Messages) /\ Says(<<m>>) = {m}
  BY DEF Says
<1>2. Append(s, m) = s \o <<m>>
  BY AppendIsConcat
<1>3. s \o <<m>> \in Seq(Messages) /\ Says(s \o <<m>>) = Says(s) \cup {m}
  BY <1>1, TwoParts
<1> QED BY <1>2, <1>3

LEMMA TwoMessages ==
    ASSUME NEW s \in Seq(Messages), NEW m \in Messages, NEW n \in Messages
    PROVE  s \o <<m, n>> \in Seq(Messages) /\ Says(s \o <<m, n>>) = Says(s) \cup {m, n}
<1>1. <<m, n>> \in Seq(Messages)
  OBVIOUS
<1>2. Says(<<m, n>>) = {m, n}
  BY DEF Says
<1> QED BY <1>1, <1>2, TwoParts

LEMMA FewerMessages ==
    ASSUME NEW s \in Seq(Messages), s # <<>>
    PROVE  /\ Head(s) \in Messages /\ Tail(s) \in Seq(Messages)
           /\ Head(s) \in Says(s) /\ Says(Tail(s)) \subseteq Says(s)
<1>1. /\ Head(s) \in Messages /\ Tail(s) \in Seq(Messages) /\ Len(s) >= 1
  OBVIOUS
<1>2. Head(s) \in Says(s)
  BY <1>1 DEF Says
<1>3. Says(Tail(s)) \subseteq Says(s)
  BY <1>1 DEF Says
<1> QED BY <1>1, <1>2, <1>3

LEMMA NoMessages == <<>> \in Seq(Messages) /\ Says(<<>>) = {}
  BY DEF Says

-----------------------------------------------------------------------------
(* The month's budget.                                                      *)
LEMMA Constants ==
    /\ IsFiniteSet(Tasks) /\ None \notin Tasks /\ None \notin Brokers
    /\ Months \in Nat \ {0} /\ MaxTurns \in Nat \ {0} /\ TurnReserve \in Nat
    /\ TaskBudget \in Nat /\ MonthBudget \in Nat /\ Retention \in Nat
  BY BrokerAssumption

LEMMA ChargedIsFinite ==
    ASSUME NEW m, NEW p
    PROVE  IsFiniteSet(Charged(m, p))
<1>1. IsFiniteSet(Tasks \X (1..MaxTurns))
  <2>1. IsFiniteSet(1..MaxTurns)
    <3>1. 1 \in Int /\ MaxTurns \in Int
      BY Constants
    <3> QED BY <3>1, FS_Interval
  <2> QED BY <2>1, Constants, FS_Product
<1>2. Charged(m, p) \subseteq Tasks \X (1..MaxTurns)
  BY DEF Charged, Recorded
<1> QED BY <1>1, <1>2, FS_Subset

LEMMA Monotone ==
    ASSUME NEW a \in Nat, NEW b \in Nat, NEW c \in Nat, a <= b
    PROVE  a * c <= b * c
<1>1. PICK d \in Nat : b = a + d
  <2>1. b - a \in Nat /\ b = a + (b - a)
    OBVIOUS
  <2> QED BY <2>1
<1>2. b * c = a * c + d * c /\ d * c \in Nat /\ a * c \in Nat
  BY <1>1
<1> QED BY <1>2

-----------------------------------------------------------------------------
(* What a step can do to the ledger: open a record, add a turn, account for *)
(* the last turn, or close a record.                                        *)
Opened(t) ==
    /\ usage[t] = None
    /\ usage'[t].status = "reserved" /\ usage'[t].turns = <<>>
Spent(t) ==
    /\ usage[t] # None /\ Affordable(t)
    /\ usage'[t].status = usage[t].status /\ usage'[t].provider = usage[t].provider
    /\ usage'[t].turns = Append(usage[t].turns, [month |-> month, status |-> "outcome_unknown"])
Settled(t) ==
    LET n == Len(usage[t].turns)
        old == usage[t].turns
        new == usage'[t].turns
    IN  /\ usage[t] # None /\ n >= 1
        /\ usage'[t].status = usage[t].status /\ usage'[t].provider = usage[t].provider
        /\ Len(new) = n /\ \A i \in 1..(n - 1) : new[i] = old[i]
        /\ new[n].month = old[n].month /\ new[n].status = "usage_received"
Closed(t) ==
    /\ usage[t] # None
    /\ usage'[t].status # "reserved"
    /\ usage'[t].provider = usage[t].provider /\ usage'[t].turns = usage[t].turns
LedgerType == usage' \in [Tasks -> Records \cup {None}]
Only(t) == LedgerType /\ usage'[t] \in Records /\ \A u \in Tasks \ {t} : usage'[u] = usage[u]
LedgerStep ==
    \/ UNCHANGED usage
    \/ \E t \in Tasks : Only(t) /\ (Opened(t) \/ Spent(t) \/ Settled(t) \/ Closed(t))

LEMMA OneRecord ==
    ASSUME TypeOK, NEW t \in Tasks, NEW r \in Records, usage' = [usage EXCEPT ![t] = r]
    PROVE  Only(t) /\ usage'[t] = r
<1>1. usage \in [Tasks -> Records \cup {None}]
  BY DEF TypeOK
<1>2. usage'[t] = r /\ (\A u \in Tasks \ {t} : usage'[u] = usage[u])
  BY <1>1
<1>3. LedgerType
  BY <1>1 DEF LedgerType
<1> QED BY <1>2, <1>3 DEF Only

LEMMA RecordIsOne ==
    ASSUME TypeOK, NEW t \in Tasks, usage[t] # None
    PROVE  /\ usage[t] \in Records /\ usage[t].status \in Statuses
           /\ usage[t].provider \in Providers /\ usage[t].turns \in Seq(Turns)
           /\ Len(usage[t].turns) \in Nat
<1>1. usage[t] \in Records
  BY DEF TypeOK
<1>2. /\ usage[t].status \in Statuses /\ usage[t].provider \in Providers
      /\ usage[t].turns \in Seq(Turns)
  BY <1>1 DEF Records
<1> QED BY <1>1, <1>2

(* A record whose status is replaced.                                       *)
LEMMA NewStatus ==
    ASSUME NEW r \in Records, NEW x \in Statuses
    PROVE  LET n == [r EXCEPT !.status = x]
           IN  n \in Records /\ n.status = x /\ n.provider = r.provider /\ n.turns = r.turns
  BY DEF Records

LEMMA ClosesRecord ==
    ASSUME TypeOK, NEW t \in Tasks, usage[t] # None, NEW x \in Statuses \ {"reserved"},
           usage' = [usage EXCEPT ![t].status = x]
    PROVE  Only(t) /\ Closed(t) /\ usage'[t].status = x
<1>1. usage[t] \in Records
  BY RecordIsOne
<1> DEFINE n == [usage[t] EXCEPT !.status = x]
<1>2. n \in Records /\ n.status = x /\ n.provider = usage[t].provider
      /\ n.turns = usage[t].turns
  BY <1>1, NewStatus
<1>3. usage' = [usage EXCEPT ![t] = n]
  BY DEF TypeOK
<1> HIDE DEF n
<1>4. Only(t) /\ usage'[t] = n
  BY <1>2, <1>3, OneRecord
<1> QED BY <1>2, <1>4 DEF Closed

LEMMA OpensRecord ==
    ASSUME TypeOK, NEW t \in Tasks, usage[t] = None, NEW p \in Providers,
           usage' = [usage EXCEPT ![t] =
                       [status |-> "reserved", provider |-> p, turns |-> <<>>]]
    PROVE  Only(t) /\ Opened(t)
<1> DEFINE n == [status |-> "reserved", provider |-> p, turns |-> <<>>]
<1>1. n \in Records /\ n.status = "reserved" /\ n.turns = <<>>
  <2>1. <<>> \in Seq(Turns)
    OBVIOUS
  <2> QED BY <2>1 DEF Records, Statuses
<1>2. usage' = [usage EXCEPT ![t] = n]
  OBVIOUS
<1> HIDE DEF n
<1>3. Only(t) /\ usage'[t] = n
  BY <1>1, <1>2, OneRecord
<1> QED BY <1>1, <1>3 DEF Opened

LEMMA AddsTurn ==
    ASSUME TypeOK, NEW t \in Tasks, usage[t] # None, Affordable(t),
           usage' = [usage EXCEPT ![t].turns =
                       Append(@, [month |-> month, status |-> "outcome_unknown"])]
    PROVE  Only(t) /\ Spent(t)
<1> DEFINE turn == [month |-> month, status |-> "outcome_unknown"]
<1> DEFINE more == Append(usage[t].turns, turn)
<1> DEFINE n == [usage[t] EXCEPT !.turns = more]
<1>1. usage[t] \in Records /\ usage[t].turns \in Seq(Turns)
  BY RecordIsOne
<1>2. turn \in Turns
  BY DEF TypeOK, Turns
<1>3. more \in Seq(Turns)
  BY <1>1, <1>2, AppendProperties
<1>4. usage' = [usage EXCEPT ![t] = n]
  BY DEF TypeOK
<1>5. more = Append(usage[t].turns, [month |-> month, status |-> "outcome_unknown"])
  OBVIOUS
<1> HIDE DEF more, turn
<1>6. /\ n \in Records /\ n.status = usage[t].status /\ n.provider = usage[t].provider
      /\ n.turns = more
  BY <1>1, <1>3 DEF Records
<1> HIDE DEF n
<1>7. Only(t) /\ usage'[t] = n
  BY <1>4, <1>6, OneRecord
<1> QED BY <1>5, <1>6, <1>7 DEF Spent

LEMMA SettlesTurn ==
    ASSUME TypeOK, NEW t \in Tasks, usage[t] # None, Len(usage[t].turns) >= 1,
           usage' = [usage EXCEPT ![t].turns[LastTurn(usage[t].turns)].status =
                       "usage_received"]
    PROVE  Only(t) /\ Settled(t)
<1> DEFINE k == Len(usage[t].turns)
<1> DEFINE last == [usage[t].turns[k] EXCEPT !.status = "usage_received"]
<1> DEFINE new == [usage[t].turns EXCEPT ![k] = last]
<1> DEFINE n == [usage[t] EXCEPT !.turns = new]
<1>1. /\ usage[t] \in Records /\ usage[t].turns \in Seq(Turns) /\ k \in Nat
      /\ DOMAIN usage[t].turns = 1..k /\ k \in 1..k
  BY RecordIsOne
<1>2. usage[t].turns[k] \in Turns
  BY <1>1, ElementOfSeq
<1>3. /\ last \in Turns /\ last.month = usage[t].turns[k].month
      /\ last.status = "usage_received"
  BY <1>2 DEF Turns
<1>4. usage' = [usage EXCEPT ![t] = n]
  BY DEF TypeOK, LastTurn
<1> HIDE DEF last
<1>5. /\ new \in Seq(Turns) /\ Len(new) = k /\ new[k] = last
      /\ \A i \in 1..(k - 1) : new[i] = usage[t].turns[i]
  BY <1>1, <1>3
<1> HIDE DEF new
<1>6. /\ n \in Records /\ n.status = usage[t].status /\ n.provider = usage[t].provider
      /\ n.turns = new
  BY <1>1, <1>5 DEF Records
<1> HIDE DEF n
<1>7. Only(t) /\ usage'[t] = n
  BY <1>4, <1>6, OneRecord
<1> QED BY <1>1, <1>3, <1>5, <1>6, <1>7 DEF Settled

LEMMA RecoversRecord ==
    ASSUME TypeOK, NEW t \in Tasks, usage[t] # None,
           usage' = [usage EXCEPT ![t] = Recovered(@)]
    PROVE  Only(t) /\ Closed(t) /\ usage'[t].status = "interrupted"
<1> DEFINE n == [usage[t] EXCEPT !.status = "interrupted"]
<1>1. usage[t] \in Records /\ "interrupted" \in Statuses
  BY RecordIsOne DEF Statuses
<1>2. n \in Records /\ n.status = "interrupted" /\ n.provider = usage[t].provider
      /\ n.turns = usage[t].turns
  BY <1>1, NewStatus
<1>3. usage' = [usage EXCEPT ![t] = n]
  BY DEF Recovered
<1> HIDE DEF n
<1>4. Only(t) /\ usage'[t] = n
  BY <1>2, <1>3, OneRecord
<1> QED BY <1>2, <1>4 DEF Closed

-----------------------------------------------------------------------------
(* The children.                                                            *)
Points == {"start", "asking", "reserved", "requested", "accounted", "waiting",
           "completed", "failing", "refusing", "exited"}

LEMMA OneBroker ==
    ASSUME TypeOK, LockInv, NEW b \in Brokers, at[b] # "off", NEW c \in Brokers \ {b}
    PROVE  at[c] = "off"
<1>1. lock = b
  BY DEF LockInv
<1> QED BY <1>1 DEF LockInv

LEMMA ChildIsOne ==
    ASSUME TypeOK, LockInv, NEW b \in Brokers, child[b] # None
    PROVE  /\ child[b] \in Children /\ Task(b) \in Tasks /\ child[b].at \in Points
           /\ at[b] \in {"supervising", "off"}
<1>1. child[b] \in Children
  BY DEF TypeOK
<1> QED BY <1>1 DEF Children, Task, Points, LockInv

LEMMA Moved ==
    ASSUME TypeOK, LockInv, NEW b \in Brokers, child[b] # None, NEW p \in Points, Step(b, p)
    PROVE  /\ child' \in [Brokers -> Children \cup {None}]
           /\ child'[b] # None /\ child'[b].at = p /\ child'[b].task = Task(b)
           /\ \A c \in Brokers \ {b} : child'[c] = child[c]
<1> DEFINE n == [child[b] EXCEPT !.at = p]
<1>1. child[b] \in Children
  BY ChildIsOne
<1>2. n \in Children /\ n.at = p /\ n.task = child[b].task
  BY <1>1 DEF Children, Points
<1>3. child' = [child EXCEPT ![b] = n]
  BY DEF Step, TypeOK
<1> HIDE DEF n
<1>4. n # None
  BY <1>2, NoneIsNoRecord
<1> QED BY <1>2, <1>3, <1>4 DEF TypeOK, Task

(* A step of a child that leaves the records of other tasks alone, and its  *)
(* own unless it is at work or starts.                                      *)
OwnStep(b, p) ==
    /\ \A t \in Tasks \ {Task(b)} : usage'[t] = usage[t] /\ paid'[t] = paid[t]
    /\ \/ child[b].at \notin Outside
       \/ usage[Task(b)] = None
       \/ /\ p \in Outside
          /\ usage'[Task(b)] = usage[Task(b)] /\ paid'[Task(b)] = paid[Task(b)]

(* What a step of a child keeps.                                            *)
AfterKept == /\ LockInv' /\ AloneInv' /\ SoleInv' /\ LiveInv' /\ ChildInv' /\ LinkInv'
             /\ ListeningIsSettled'

(* No other child at work is of this task.                                  *)
LEMMA OtherTasks ==
    ASSUME IInv, NEW b \in Brokers, child[b] # None, NEW p \in Points, OwnStep(b, p),
           NEW c \in Brokers \ {b}, AtWork(c)
    PROVE  /\ p \notin Outside => Task(c) # Task(b)
           /\ usage'[Task(c)] = usage[Task(c)] /\ paid'[Task(c)] = paid[Task(c)]
<1>1. TypeOK /\ LockInv /\ SoleInv /\ ChildInv
  BY DEF IInv
<1>2. Task(c) \in Tasks
  BY <1>1, ChildIsOne DEF AtWork
<1>3. usage[Task(c)] # None
  BY <1>1 DEF ChildInv, ChildFits, AtWork
<1>4. CASE child[b].at \notin Outside
  <2>1. Task(c) # Task(b)
    BY <1>1, <1>4 DEF SoleInv, AtWork
  <2> QED BY <1>2, <2>1 DEF OwnStep
<1>5. CASE usage[Task(b)] = None
  <2>1. Task(c) # Task(b)
    BY <1>3, <1>5
  <2> QED BY <1>2, <2>1 DEF OwnStep
<1>6. CASE /\ p \in Outside
           /\ usage'[Task(b)] = usage[Task(b)] /\ paid'[Task(b)] = paid[Task(b)]
  BY <1>2, <1>6 DEF OwnStep
<1> QED BY <1>4, <1>5, <1>6 DEF OwnStep

LEMMA AfterChild ==
    ASSUME IInv, NEW b \in Brokers, child[b] # None, NEW p \in Points, Step(b, p),
           UNCHANGED <<lock, at, conn, agent>>, OwnStep(b, p),
           p \in Session /\ Watched(b) => usage'[Task(b)].status = "reserved",
           ChildFits(child'[b], usage'[Task(b)], paid'[Task(b)])
    PROVE  AfterKept
<1>1. TypeOK /\ LockInv /\ AloneInv /\ SoleInv /\ LiveInv /\ ChildInv /\ LinkInv
  BY DEF IInv
<1>2. /\ child'[b] # None /\ child'[b].at = p /\ child'[b].task = Task(b)
      /\ \A c \in Brokers \ {b} : child'[c] = child[c]
  BY <1>1, Moved
<1>3. LockInv'
  BY <1>1, <1>2 DEF LockInv
<1>4. AloneInv'
  BY <1>1, <1>2 DEF AloneInv
<1>5. \A c \in Brokers \ {b} : Task(c)' = Task(c) /\ AtWork(c)' = AtWork(c)
  BY <1>2 DEF Task, AtWork
<1>6. \A c \in Brokers \ {b} : AtWork(c) =>
        /\ p \notin Outside => Task(c) # Task(b)
        /\ usage'[Task(c)] = usage[Task(c)] /\ paid'[Task(c)] = paid[Task(c)]
  BY OtherTasks
<1>7. Task(b)' = Task(b) /\ (AtWork(b)' => p \notin Outside)
  BY <1>2 DEF Task, AtWork
<1>8. SoleInv'
  <2>1. SUFFICES ASSUME NEW c \in Brokers, NEW d \in Brokers,
                        AtWork(c)', AtWork(d)', Task(c)' = Task(d)'
                 PROVE  c = d
    BY DEF SoleInv
  <2>2. CASE c # b /\ d # b
    BY <1>1, <1>5, <2>1, <2>2 DEF SoleInv
  <2>3. CASE c = b /\ d # b
    BY <1>5, <1>6, <1>7, <2>1, <2>3
  <2>4. CASE c # b /\ d = b
    BY <1>5, <1>6, <1>7, <2>1, <2>4
  <2> QED BY <2>2, <2>3, <2>4
<1>9. ChildInv'
  <2>1. SUFFICES ASSUME NEW c \in Brokers, child'[c] # None
                 PROVE  ChildFits(child'[c], usage'[child'[c].task], paid'[child'[c].task])
    BY DEF ChildInv, Task, ChildFits
  <2>2. CASE c = b
    BY <1>2, <2>2
  <2>3. CASE c # b /\ AtWork(c)
    <3>1. child'[c] = child[c] /\ child[c] # None
      BY <1>2, <2>3 DEF AtWork
    <3>2. ChildFits(child[c], usage[Task(c)], paid[Task(c)])
      BY <1>1, <3>1 DEF ChildInv
    <3> QED BY <1>6, <2>3, <3>1, <3>2 DEF Task
  <2>4. CASE c # b /\ ~AtWork(c)
    <3>1. child'[c].at \in Outside
      BY <1>2, <2>1, <2>4 DEF AtWork
    <3> QED BY <3>1 DEF ChildFits, Session, Outside
  <2> QED BY <2>2, <2>3, <2>4
<1>10. LiveInv'
  <2>1. SUFFICES ASSUME NEW c \in Brokers, child'[c] # None, child'[c].at \in Session,
                        Watched(c)
                 PROVE  usage'[child'[c].task].status = "reserved"
    BY DEF LiveInv, Task, Watched
  <2>2. CASE c = b
    BY <1>2, <2>1, <2>2
  <2>3. CASE c # b
    <3>1. child'[c] = child[c]
      BY <1>2, <2>3
    <3>2. AtWork(c) /\ usage[Task(c)].status = "reserved"
      BY <1>1, <2>1, <3>1 DEF LiveInv, AtWork, Session, Outside
    <3> QED BY <1>6, <2>3, <3>1, <3>2 DEF Task
  <2> QED BY <2>2, <2>3
<1>11. LinkInv'
  BY <1>1, <1>2 DEF LinkInv, Task
<1>12. ListeningIsSettled'
  <2>1. Unit = Brokers => \A c \in Brokers : at[c] # "listening"
    <3>1. at[b] # "listening"
      BY <1>1 DEF LockInv
    <3> QED BY <1>1, <3>1 DEF AloneInv
  <2> QED BY <2>1 DEF ListeningIsSettled
<1> QED BY <1>3, <1>4, <1>8, <1>9, <1>10, <1>11, <1>12 DEF AfterKept

(* A child at work is not of a task whose completion was told.              *)
LEMMA ToldStays ==
    ASSUME IInv, NEW b \in Brokers, child[b] # None, NEW p \in Points, Step(b, p),
           OwnStep(b, p), UNCHANGED agent, Told' => Told
    PROVE  ToldInv'
<1>1. SUFFICES ASSUME Told
               PROVE  ToldFits(agent.task)'
  BY DEF ToldInv
<1> DEFINE t == agent.task
<1>2. TypeOK /\ LockInv /\ ToldFits(t)
  BY <1>1 DEF IInv, ToldInv
<1>3. /\ child'[b] # None /\ child'[b].task = Task(b) /\ child'[b].at = p
      /\ \A c \in Brokers \ {b} : child'[c] = child[c]
  BY <1>2, Moved
<1>4. t' = t /\ t \in Tasks
  BY <1>2 DEF ToldFits
<1> HIDE DEF t
<1>5. Task(b) = t => p \in Outside /\ usage'[t] = usage[t]
  BY <1>2 DEF ToldFits, OwnStep
<1>6. usage'[t] = usage[t]
  BY <1>4, <1>5 DEF OwnStep
<1>7. \A c \in Brokers : child'[c] # None /\ child'[c].task = t => child'[c].at \in Outside
  BY <1>2, <1>3, <1>5 DEF ToldFits, Task
<1>8. ToldFits(t)'
  BY <1>2, <1>4, <1>6, <1>7 DEF ToldFits, Task, Accounted, Outside
<1> QED BY <1>8 DEF t

-----------------------------------------------------------------------------
(* The budgets.                                                             *)
LEMMA LedgerKept ==
    ASSUME IInv, LedgerStep, UNCHANGED paid
    PROVE  LedgerInv'
<1>1. TypeOK /\ LedgerInv
  BY DEF IInv
<1>2. ASSUME NEW t \in Tasks, Only(t), Opened(t) \/ Spent(t) \/ Settled(t) \/ Closed(t)
      PROVE  LedgerFits(usage'[t], paid[t])
  <2>1. usage'[t] # None
    BY <1>2, NoneIsNoRecord DEF Only
  <2>2. CASE Opened(t)
    <3>1. paid[t] = 0 /\ Len(usage'[t].turns) = 0
      BY <1>1, <2>2 DEF LedgerInv, LedgerFits, Opened
    <3>2. 0 * TurnReserve <= TaskBudget /\ 0 <= MaxTurns
      BY Constants
    <3> QED BY <2>1, <3>1, <3>2 DEF LedgerFits
  <2>3. CASE usage[t] # None
    <3> DEFINE n == Len(usage[t].turns)
    <3>1. usage[t].turns \in Seq(Turns) /\ n \in Nat
      BY <1>1, <2>3, RecordIsOne
    <3>2. /\ paid[t] <= n /\ n <= MaxTurns /\ n * TurnReserve <= TaskBudget
          /\ paid[t] \in Nat
      BY <1>1, <2>3 DEF LedgerInv, LedgerFits, TypeOK
    <3>3. CASE Spent(t)
      <4>1. Len(usage'[t].turns) = n + 1
        BY <3>1, <3>3 DEF Spent
      <4>2. n < MaxTurns /\ (n + 1) * TurnReserve <= TaskBudget
        BY <3>3 DEF Spent, Affordable, Within
      <4>3. paid[t] <= n + 1 /\ n + 1 <= MaxTurns
        BY <3>1, <3>2, <4>2, Constants
      <4> QED BY <2>1, <4>1, <4>2, <4>3 DEF LedgerFits
    <3>4. CASE Settled(t) \/ Closed(t)
      <4>1. Len(usage'[t].turns) = n
        BY <3>4 DEF Settled, Closed
      <4> QED BY <2>1, <3>2, <4>1 DEF LedgerFits
    <3> QED BY <1>2, <2>3, <3>3, <3>4 DEF Opened
  <2> QED BY <1>2, <2>2, <2>3 DEF Spent, Settled, Closed
<1>3. CASE UNCHANGED usage
  BY <1>1, <1>3 DEF LedgerInv, LedgerFits
<1>4. CASE \E t \in Tasks : Only(t) /\ (Opened(t) \/ Spent(t) \/ Settled(t) \/ Closed(t))
  <2>1. PICK t \in Tasks : Only(t) /\ (Opened(t) \/ Spent(t) \/ Settled(t) \/ Closed(t))
    BY <1>4
  <2>2. LedgerFits(usage'[t], paid[t])
    BY <1>2, <2>1
  <2>3. \A u \in Tasks \ {t} : usage'[u] = usage[u]
    BY <2>1 DEF Only
  <2>4. \A u \in Tasks : LedgerFits(usage'[u], paid[u])
    BY <1>1, <2>2, <2>3 DEF LedgerInv, LedgerFits
  <2> QED BY <2>4 DEF LedgerInv, LedgerFits
<1> QED BY <1>3, <1>4 DEF LedgerStep

(* A step charges a month with one more turn, within its budget, or with    *)
(* none.                                                                    *)
LEMMA MonthKept ==
    ASSUME IInv, LedgerStep
    PROVE  MonthInv'
<1>1. TypeOK /\ MonthInv
  BY DEF IInv
<1>2. CASE UNCHANGED usage
  BY <1>1, <1>2 DEF MonthInv, Charged, Recorded
<1>3. CASE \E t \in Tasks : Only(t) /\ (Opened(t) \/ Spent(t) \/ Settled(t) \/ Closed(t))
  <2>1. PICK t \in Tasks : Only(t) /\ (Opened(t) \/ Spent(t) \/ Settled(t) \/ Closed(t))
    BY <1>3
  <2>2. SUFFICES ASSUME NEW m \in 1..Months
                 PROVE  Cardinality(Charged(m, "openai")') * TurnReserve <= MonthBudget
    BY DEF MonthInv
  <2> DEFINE old == Charged(m, "openai")
             new == Charged(m, "openai")'
             n   == Len(usage[t].turns)
             more == Spent(t) /\ m = month /\ usage[t].provider = "openai"
  <2>3. /\ IsFiniteSet(old) /\ Cardinality(old) \in Nat
        /\ Cardinality(old) * TurnReserve <= MonthBudget
    BY <1>1, ChargedIsFinite, FS_CardinalityType DEF MonthInv
  <2>4. \A x \in new : x[1] \in Tasks /\ x[2] \in 1..MaxTurns /\ x = <<x[1], x[2]>>
    BY DEF Charged, Recorded
  <2>5. ASSUME NEW x \in new, x[1] # t
        PROVE  x \in old
    <3>1. usage'[x[1]] = usage[x[1]]
      BY <2>1, <2>4, <2>5 DEF Only
    <3> QED BY <2>5, <3>1 DEF Charged, Recorded
  <2>6. ASSUME NEW x \in new, x[1] = t
        PROVE  x \in old \/ (more /\ x = <<t, n + 1>>)
    <3> DEFINE i == x[2]
    <3>1. /\ usage'[t].provider = "openai" /\ i \in 1..MaxTurns
          /\ i <= Len(usage'[t].turns) /\ usage'[t].turns[i].month = m
          /\ x \in Tasks \X (1..MaxTurns) /\ x = <<t, i>>
      BY <2>4, <2>6 DEF Charged, Recorded
    <3> HIDE DEF i
    <3>2. CASE Opened(t)
      <4>1. Len(usage'[t].turns) = 0
        BY <3>2 DEF Opened
      <4> QED BY <3>1, <4>1, Constants
    <3>3. CASE usage[t] # None
      <4>1. usage[t].turns \in Seq(Turns) /\ n \in Nat
        BY <1>1, <3>3, RecordIsOne
      <4>2. ASSUME usage[t].provider = "openai", i <= n, usage[t].turns[i].month = m
            PROVE  x \in old
        <5>1. t \in Recorded
          BY <3>3 DEF Recorded
        <5> QED BY <3>1, <4>2, <5>1 DEF Charged
      <4>3. CASE Closed(t)
        BY <3>1, <4>2, <4>3 DEF Closed
      <4>4. CASE Settled(t)
        <5>1. usage[t].provider = "openai" /\ i \in 1..n /\ i <= n
          BY <3>1, <4>1, <4>4 DEF Settled
        <5>2. CASE i = n
          <6>1. usage[t].turns[i].month = m
            BY <3>1, <4>4, <5>2 DEF Settled
          <6> QED BY <4>2, <5>1, <6>1
        <5>3. CASE i # n
          <6>1. i \in 1..(n - 1)
            BY <4>1, <5>1, <5>3
          <6>2. usage'[t].turns[i] = usage[t].turns[i]
            BY <4>4, <6>1 DEF Settled
          <6> QED BY <3>1, <4>2, <5>1, <6>2
        <5> QED BY <5>2, <5>3
      <4>5. CASE Spent(t)
        <5>1. usage[t].provider = "openai"
          BY <3>1, <4>5 DEF Spent
        <5>2. /\ Len(usage'[t].turns) = n + 1
              /\ usage'[t].turns[n + 1].month = month
              /\ \A j \in 1..n : usage'[t].turns[j] = usage[t].turns[j]
          <6> DEFINE turn == [month |-> month, status |-> "outcome_unknown"]
          <6>1. turn \in Turns /\ turn.month = month
            BY <1>1 DEF TypeOK, Turns
          <6>2. usage'[t].turns = Append(usage[t].turns, turn)
            BY <4>5 DEF Spent
          <6> HIDE DEF turn
          <6> QED BY <4>1, <6>1, <6>2, AppendProperties
        <5>3. CASE i <= n
          <6>1. i \in 1..n
            BY <3>1, <4>1, <5>3
          <6> QED BY <3>1, <4>2, <5>1, <5>2, <6>1
        <5>4. CASE i > n
          <6>1. i = n + 1
            BY <3>1, <4>1, <5>2, <5>4
          <6>2. m = month
            BY <3>1, <5>2, <6>1
          <6> QED BY <3>1, <4>5, <5>1, <6>1, <6>2
        <5> QED BY <3>1, <4>1, <5>3, <5>4
      <4> QED BY <2>1, <3>3, <4>3, <4>4, <4>5 DEF Opened
    <3> QED BY <2>1, <3>2, <3>3 DEF Spent, Settled, Closed
  <2> HIDE DEF old, new
  <2>7. CASE more
    <3> DEFINE c == Cardinality(old)
    <3>1. old \cup {<<t, n + 1>>} = IF <<t, n + 1>> \in old THEN old ELSE old \cup {<<t, n + 1>>}
      OBVIOUS
    <3>2. /\ IsFiniteSet(old \cup {<<t, n + 1>>})
          /\ Cardinality(old \cup {<<t, n + 1>>}) \in {c, c + 1}
      BY <2>3, FS_AddElement
    <3>3. new \subseteq old \cup {<<t, n + 1>>}
      BY <2>5, <2>6
    <3>4. IsFiniteSet(new) /\ Cardinality(new) <= Cardinality(old \cup {<<t, n + 1>>})
      BY <3>2, <3>3, FS_Subset
    <3>5. Cardinality(new) \in Nat /\ Cardinality(new) <= c + 1 /\ c \in Nat
      BY <2>3, <3>2, <3>4, FS_CardinalityType
    <3>6. (c + 1) * TurnReserve <= MonthBudget
      BY <2>7 DEF Spent, Affordable, Within, old
    <3>7. Cardinality(new) * TurnReserve <= (c + 1) * TurnReserve
      BY <3>5, Monotone, Constants
    <3> HIDE DEF c
    <3> QED BY <3>5, <3>6, <3>7, Constants DEF new
  <2>8. CASE ~more
    <3>1. new \subseteq old
      BY <2>5, <2>6, <2>8
    <3>2. IsFiniteSet(new) /\ Cardinality(new) <= Cardinality(old)
      BY <2>3, <3>1, FS_Subset
    <3>3. Cardinality(new) \in Nat
      BY <3>2, FS_CardinalityType
    <3>4. Cardinality(new) * TurnReserve <= Cardinality(old) * TurnReserve
      BY <2>3, <3>2, <3>3, Monotone, Constants
    <3> QED BY <2>3, <3>3, <3>4, Constants DEF new
  <2> QED BY <2>7, <2>8
<1> QED BY <1>2, <1>3 DEF LedgerStep

-----------------------------------------------------------------------------
(* Each step of a child keeps the invariant.                                *)
Keeps == LedgerStep /\ LedgerInv' /\ AfterKept /\ ToldInv'

LEMMA StartSessionKeeps ==
    ASSUME IInv, NEW b \in Brokers, StartSession(b)
    PROVE  Keeps
<1> DEFINE t == Task(b)
<1>1. TypeOK /\ LockInv /\ LedgerInv
  BY DEF IInv
<1>2. child[b] # None /\ child[b].at = "start" /\ t \in Tasks
  BY <1>1, ChildIsOne DEF StartSession, InChild
<1>3. UNCHANGED <<lock, at, conn, mail, agent, paid>> /\ (Told' => Told)
  BY DEF StartSession, linkVars, Told, Says
<1>4. CASE Fresh(t) /\ Cardinality(Recorded) < Retention
  <2>1. usage[t] = None /\ Step(b, "asking")
    BY <1>2, <1>4 DEF StartSession, Fresh, Recorded
  <2>2. Only(t) /\ Opened(t)
    <3>1. PICK p \in Providers : usage' = [usage EXCEPT ![t] =
            [status |-> "reserved", provider |-> p, turns |-> <<>>]]
      BY <1>4 DEF StartSession
    <3> QED BY <1>1, <1>2, <2>1, <3>1, OpensRecord
  <2>3. LedgerStep
    BY <1>2, <2>2 DEF LedgerStep
  <2>4. "asking" \in Points /\ child'[b].at = "asking"
    <3>1. "asking" \in Points
      BY DEF Points
    <3> QED BY <1>1, <1>2, <2>1, <3>1, Moved
  <2>5. ChildFits(child'[b], usage'[t], paid'[t])
    <3>1. usage'[t] # None
      BY <2>2, NoneIsNoRecord DEF Only
    <3> QED BY <2>2, <2>4, <3>1 DEF ChildFits, Opened, Accounted, Session, Outside
  <2>9. OwnStep(b, "asking") /\ usage'[t].status = "reserved"
    BY <1>3, <2>1, <2>2 DEF OwnStep, Only, Opened
  <2>6. AfterKept
    BY <1>2, <1>3, <2>1, <2>4, <2>5, <2>9, AfterChild
  <2>7. ToldInv'
    BY <1>2, <1>3, <2>1, <2>4, <2>9, ToldStays
  <2>8. LedgerInv'
    BY <1>3, <2>3, LedgerKept
  <2> QED BY <2>3, <2>6, <2>7, <2>8 DEF Keeps
<1>5. CASE ~(Fresh(t) /\ Cardinality(Recorded) < Retention)
  <2>1. Step(b, "refusing") /\ usage' = usage
    BY <1>5 DEF StartSession
  <2>2. LedgerStep
    BY <2>1 DEF LedgerStep
  <2>3. "refusing" \in Points /\ child'[b].at = "refusing"
    <3>1. "refusing" \in Points
      BY DEF Points
    <3> QED BY <1>1, <1>2, <2>1, <3>1, Moved
  <2>4. ChildFits(child'[b], usage'[t], paid'[t])
    BY <2>3 DEF ChildFits, Session, Outside
  <2>8. OwnStep(b, "refusing") /\ "refusing" \notin Session
    BY <1>3, <2>1 DEF OwnStep, Outside, Session
  <2>5. AfterKept
    BY <1>2, <1>3, <2>1, <2>3, <2>4, <2>8, AfterChild
  <2>6. ToldInv'
    BY <1>2, <1>3, <2>1, <2>3, <2>8, ToldStays
  <2>7. LedgerInv'
    BY <1>3, <2>2, LedgerKept
  <2> QED BY <2>2, <2>5, <2>6, <2>7 DEF Keeps
<1> QED BY <1>4, <1>5

(* A step of a child at work that changes its own record or none.           *)
LEMMA AtWorkKeeps ==
    ASSUME IInv, NEW b \in Brokers, child[b] # None, child[b].at \notin Outside,
           NEW p \in Points, Step(b, p), UNCHANGED <<lock, at, conn, agent>>,
           \/ UNCHANGED usage
           \/ Only(Task(b)) /\ (Spent(Task(b)) \/ Settled(Task(b)))
           \/ Only(Task(b)) /\ Closed(Task(b)) /\ p \notin Session,
           p \in Session => child[b].at \in Session,
           \/ UNCHANGED paid
           \/ LedgerInv' /\ \A u \in Tasks \ {Task(b)} : paid'[u] = paid[u],
           Told' => Told,
           ChildFits(child'[b], usage'[Task(b)], paid'[Task(b)])
    PROVE  Keeps
<1> DEFINE t == Task(b)
<1>1. TypeOK /\ LockInv /\ LiveInv
  BY DEF IInv
<1>2. t \in Tasks
  BY <1>1, ChildIsOne
<1>3. LedgerStep
  BY <1>2 DEF LedgerStep
<1>4. LedgerInv'
  BY <1>3, LedgerKept
<1>5. OwnStep(b, p)
  BY DEF Only, OwnStep
<1>6. p \in Session /\ Watched(b) => usage'[t].status = "reserved"
  <2>1. p \in Session => usage'[t].status = usage[t].status
    BY DEF Spent, Settled
  <2> QED BY <1>1, <2>1 DEF LiveInv
<1>7. AfterKept
  BY <1>5, <1>6, AfterChild
<1>8. ToldInv'
  BY <1>5, ToldStays
<1> QED BY <1>3, <1>4, <1>7, <1>8 DEF Keeps

LEMMA ChildRelies ==
    ASSUME IInv, NEW b \in Brokers, child[b] # None, child[b].at \notin Outside
    PROVE  LET r == usage[Task(b)]
               n == Len(r.turns)
           IN  /\ TypeOK /\ LockInv /\ Task(b) \in Tasks /\ child[b].at \in Points
               /\ ChildFits(child[b], r, paid[Task(b)])
               /\ r # None /\ r \in Records /\ r.turns \in Seq(Turns) /\ n \in Nat
               /\ paid[Task(b)] \in Nat
<1>1. TypeOK /\ LockInv /\ ChildInv
  BY DEF IInv
<1>2. /\ Task(b) \in Tasks /\ child[b].at \in Points
      /\ ChildFits(child[b], usage[Task(b)], paid[Task(b)])
  BY <1>1, ChildIsOne DEF ChildInv
<1>3. usage[Task(b)] # None
  BY <1>2 DEF ChildFits
<1>4. paid[Task(b)] \in Nat
  BY <1>1, <1>2 DEF TypeOK
<1> QED BY <1>1, <1>2, <1>3, <1>4, RecordIsOne

LEMMA ReserveKeeps ==
    ASSUME IInv, NEW b \in Brokers, Reserve(b)
    PROVE  Keeps
<1> DEFINE t == Task(b)
           r == usage[t]
           n == Len(r.turns)
           turn == [month |-> month, status |-> "outcome_unknown"]
<1>1. child[b] # None /\ child[b].at = "asking" /\ Step(b, "reserved") /\ Affordable(t)
  BY DEF Reserve, InChild
<1>2. child[b].at \notin Outside /\ child[b].at \in Session /\ "reserved" \in Points
  BY <1>1 DEF Outside, Points, Session
<1>3. /\ TypeOK /\ LockInv /\ t \in Tasks /\ r # None /\ r.turns \in Seq(Turns) /\ n \in Nat
      /\ ChildFits(child[b], r, paid[t]) /\ paid[t] \in Nat /\ LedgerInv
  BY <1>1, <1>2, ChildRelies DEF IInv
<1>4. r.status \in {"reserved", "interrupted"} /\ Accounted(r.turns, n)
  BY <1>1, <1>3 DEF ChildFits, Session
<1>5. Only(t) /\ Spent(t)
  <2>1. usage' = [usage EXCEPT ![t].turns =
            Append(@, [month |-> month, status |-> "outcome_unknown"])]
    BY DEF Reserve
  <2> QED BY <1>1, <1>3, <2>1, AddsTurn
<1>6. UNCHANGED <<lock, at, conn, mail, agent, paid>> /\ (Told' => Told)
  BY DEF Reserve, linkVars, Told, Says
<1>7. child'[b].at = "reserved"
  BY <1>1, <1>2, <1>3, Moved
<1>8. ChildFits(child'[b], usage'[t], paid'[t])
  <2>1. turn \in Turns /\ usage'[t].turns = Append(r.turns, turn)
    BY <1>3, <1>5 DEF TypeOK, Turns, Spent
  <2> HIDE DEF turn
  <2>2. /\ Len(usage'[t].turns) = n + 1
        /\ \A i \in 1..n : usage'[t].turns[i] = r.turns[i]
    BY <1>3, <2>1, AppendProperties
  <2>3. paid[t] <= n
    BY <1>3 DEF LedgerInv, LedgerFits
  <2>4. usage'[t] # None /\ usage'[t].status \in {"reserved", "interrupted"}
    BY <1>4, <1>5, NoneIsNoRecord DEF Only, Spent
  <2>5. Accounted(usage'[t].turns, Len(usage'[t].turns) - 1)
    BY <1>3, <1>4, <2>2 DEF Accounted
  <2>6. Len(usage'[t].turns) >= 1 /\ paid'[t] < Len(usage'[t].turns)
    BY <1>3, <1>6, <2>2, <2>3
  <2> QED BY <1>7, <2>4, <2>5, <2>6 DEF ChildFits, Session
<1> QED BY <1>1, <1>2, <1>5, <1>6, <1>8, AtWorkKeeps

LEMMA RequestKeeps ==
    ASSUME IInv, NEW b \in Brokers, Request(b)
    PROVE  Keeps
<1> DEFINE t == Task(b)
           r == usage[t]
<1>1. child[b] # None /\ child[b].at = "reserved" /\ Step(b, "requested")
  BY DEF Request, InChild
<1>2. child[b].at \notin Outside /\ child[b].at \in Session /\ "requested" \in Points
  BY <1>1 DEF Outside, Points, Session
<1>3. /\ TypeOK /\ LockInv /\ t \in Tasks /\ r # None /\ r.turns \in Seq(Turns)
      /\ ChildFits(child[b], r, paid[t]) /\ paid[t] \in Nat /\ LedgerInv
      /\ Len(r.turns) \in Nat
  BY <1>1, <1>2, ChildRelies DEF IInv
<1>4. UNCHANGED <<lock, at, conn, agent, usage>> /\ mail' = mail \o <<"usage">>
  BY DEF Request, Tell
<1>5. paid' = [paid EXCEPT ![t] = @ + 1]
  BY DEF Request
<1>6. Told' => Told
  <2>1. Says(mail \o <<"usage">>) = Says(mail) \cup {"usage"}
    <3>1. "usage" \in Messages /\ mail \in Seq(Messages)
      BY <1>3 DEF TypeOK, Messages
    <3> QED BY <3>1, OneMessage
  <2> QED BY <1>4, <2>1 DEF Told
<1>7. paid'[t] = paid[t] + 1 /\ \A u \in Tasks \ {t} : paid'[u] = paid[u]
  BY <1>3, <1>5 DEF TypeOK
<1>8. LedgerInv'
  <2>1. paid[t] < Len(r.turns)
    BY <1>1, <1>3 DEF ChildFits
  <2>2. LedgerFits(usage[t], paid'[t])
    BY <1>3, <1>7, <2>1 DEF LedgerInv, LedgerFits
  <2>3. \A u \in Tasks : LedgerFits(usage[u], paid'[u])
    BY <1>3, <1>7, <2>2 DEF LedgerInv
  <2> QED BY <1>4, <2>3 DEF LedgerInv, LedgerFits
<1>9. child'[b].at = "requested"
  BY <1>1, <1>2, <1>3, Moved
<1>10. ChildFits(child'[b], usage'[t], paid'[t])
  BY <1>1, <1>3, <1>4, <1>9 DEF ChildFits, Session, Outside
<1> QED BY <1>1, <1>2, <1>4, <1>6, <1>7, <1>8, <1>10, AtWorkKeeps

LEMMA AccountKeeps ==
    ASSUME IInv, NEW b \in Brokers, Account(b)
    PROVE  Keeps
<1> DEFINE t == Task(b)
           r == usage[t]
           n == Len(r.turns)
<1>1. PICK p \in {"accounted", "failing"} : Step(b, p)
  BY DEF Account
<1>2. child[b] # None /\ child[b].at = "requested"
  BY DEF Account, InChild
<1>3. child[b].at \notin Outside /\ child[b].at \in Session /\ p \in Points
  BY <1>2 DEF Outside, Points, Session
<1>4. /\ TypeOK /\ LockInv /\ t \in Tasks /\ r # None /\ r.turns \in Seq(Turns) /\ n \in Nat
      /\ ChildFits(child[b], r, paid[t])
  BY <1>2, <1>3, ChildRelies
<1>5. r.status \in {"reserved", "interrupted"} /\ n >= 1 /\ Accounted(r.turns, n - 1)
  BY <1>2, <1>4 DEF ChildFits, Session
<1>6. Only(t) /\ Settled(t)
  <2>1. usage' = [usage EXCEPT ![t].turns[LastTurn(usage[t].turns)].status = "usage_received"]
    BY DEF Account
  <2> QED BY <1>4, <1>5, <2>1, SettlesTurn
<1>7. UNCHANGED <<lock, at, conn, mail, agent, paid>> /\ (Told' => Told)
  BY DEF Account, linkVars, Told, Says
<1>8. child'[b].at = p
  BY <1>1, <1>2, <1>3, <1>4, Moved
<1>9. ChildFits(child'[b], usage'[t], paid'[t])
  <2>1. /\ usage'[t] # None /\ usage'[t].status \in {"reserved", "interrupted"}
        /\ Len(usage'[t].turns) = n
    BY <1>5, <1>6, NoneIsNoRecord DEF Only, Settled
  <2>2. Accounted(usage'[t].turns, n)
    <3>1. \A i \in 1..(n - 1) : usage'[t].turns[i] = r.turns[i]
      BY <1>6 DEF Settled
    <3>2. usage'[t].turns[n].status = "usage_received"
      BY <1>6 DEF Settled
    <3>3. \A i \in 1..n : i = n \/ i \in 1..(n - 1)
      BY <1>4
    <3> QED BY <1>5, <3>1, <3>2, <3>3 DEF Accounted
  <2> QED BY <1>8, <2>1, <2>2 DEF ChildFits, Session
<1> QED BY <1>1, <1>2, <1>3, <1>6, <1>7, <1>9, AtWorkKeeps

LEMMA AskForToolKeeps ==
    ASSUME IInv, NEW b \in Brokers, AskForTool(b)
    PROVE  Keeps
<1> DEFINE t == Task(b)
<1>1. child[b] # None /\ child[b].at = "accounted" /\ Step(b, "waiting")
  BY DEF AskForTool, InChild
<1>2. child[b].at \notin Outside /\ child[b].at \in Session /\ "waiting" \in Points
  BY <1>1 DEF Outside, Points, Session
<1>3. TypeOK /\ LockInv /\ ChildFits(child[b], usage[t], paid[t])
  BY <1>1, <1>2, ChildRelies
<1>4. UNCHANGED <<lock, at, conn, agent, usage, paid>> /\ mail' = mail \o <<"usage", "tool">>
  BY DEF AskForTool, Tell
<1>5. Told' => Told
  <2>1. Says(mail \o <<"usage", "tool">>) = Says(mail) \cup {"usage", "tool"}
    <3>1. "usage" \in Messages /\ "tool" \in Messages /\ mail \in Seq(Messages)
      BY <1>3 DEF TypeOK, Messages
    <3> QED BY <3>1, TwoMessages
  <2> QED BY <1>4, <2>1 DEF Told
<1>6. child'[b].at = "waiting"
  BY <1>1, <1>2, <1>3, Moved
<1>7. ChildFits(child'[b], usage'[t], paid'[t])
  BY <1>1, <1>3, <1>4, <1>6 DEF ChildFits, Session, Outside
<1> QED BY <1>1, <1>2, <1>4, <1>5, <1>7, AtWorkKeeps

LEMMA ReadResultKeeps ==
    ASSUME IInv, NEW b \in Brokers, ReadResult(b)
    PROVE  Keeps
<1> DEFINE t == Task(b)
<1>1. child[b] # None /\ child[b].at = "waiting" /\ Step(b, "asking")
  BY DEF ReadResult, InChild
<1>2. child[b].at \notin Outside /\ child[b].at \in Session /\ "asking" \in Points
  BY <1>1 DEF Outside, Points, Session
<1>3. TypeOK /\ LockInv /\ ChildFits(child[b], usage[t], paid[t])
  BY <1>1, <1>2, ChildRelies
<1>4. UNCHANGED <<lock, at, conn, agent, usage, paid, mail>> /\ (Told' => Told)
  BY DEF ReadResult, Told, Says
<1>5. child'[b].at = "asking"
  BY <1>1, <1>2, <1>3, Moved
<1>6. ChildFits(child'[b], usage'[t], paid'[t])
  BY <1>1, <1>3, <1>4, <1>5 DEF ChildFits, Session, Outside
<1> QED BY <1>1, <1>2, <1>4, <1>6, AtWorkKeeps

LEMMA CompleteKeeps ==
    ASSUME IInv, NEW b \in Brokers, Complete(b)
    PROVE  Keeps
<1> DEFINE t == Task(b)
           r == usage[t]
<1>1. child[b] # None /\ child[b].at = "accounted" /\ Step(b, "completed")
  BY DEF Complete, InChild
<1>2. child[b].at \notin Outside /\ "completed" \notin Session /\ "completed" \in Points
  BY <1>1 DEF Outside, Points, Session
<1>3. /\ TypeOK /\ LockInv /\ t \in Tasks /\ r # None
      /\ ChildFits(child[b], r, paid[t])
  BY <1>1, <1>2, ChildRelies
<1>4. UNCHANGED <<lock, at, conn, agent, paid>> /\ mail' = mail \o <<"usage">>
  BY DEF Complete, Tell
<1>5. Told' => Told
  <2>1. Says(mail \o <<"usage">>) = Says(mail) \cup {"usage"}
    <3>1. "usage" \in Messages /\ mail \in Seq(Messages)
      BY <1>3 DEF TypeOK, Messages
    <3> QED BY <3>1, OneMessage
  <2> QED BY <1>4, <2>1 DEF Told
<1>6. Only(t) /\ Closed(t) /\ usage'[t].status = "reasoning_completed"
  <2>1. "reasoning_completed" \in Statuses \ {"reserved"}
    BY DEF Statuses
  <2>2. usage' = [usage EXCEPT ![t].status = "reasoning_completed"]
    BY DEF Complete
  <2> QED BY <1>3, <2>1, <2>2, ClosesRecord
<1>7. child'[b].at = "completed"
  BY <1>1, <1>2, <1>3, Moved
<1>8. ChildFits(child'[b], usage'[t], paid'[t])
  <2>1. Accounted(r.turns, Len(r.turns))
    BY <1>1, <1>3 DEF ChildFits
  <2>2. usage'[t] # None /\ usage'[t].turns = r.turns
    BY <1>6, NoneIsNoRecord DEF Only, Closed
  <2> QED BY <1>6, <1>7, <2>1, <2>2 DEF ChildFits, Session
<1> QED BY <1>1, <1>2, <1>4, <1>5, <1>6, <1>8, AtWorkKeeps

(* The one message that tells of a completion.                              *)
LEMMA SendCompleteKeeps ==
    ASSUME IInv, NEW b \in Brokers, SendComplete(b)
    PROVE  Keeps
<1> DEFINE t == Task(b)
           r == usage[t]
<1>1. child[b] # None /\ child[b].at = "completed" /\ Step(b, "exited") /\ conn = b
  BY DEF SendComplete, InChild
<1>2. child[b].at \notin Outside /\ "exited" \in Points /\ "exited" \in Outside
      /\ "exited" \notin Session
  BY <1>1 DEF Outside, Points, Session
<1>3. /\ TypeOK /\ LockInv /\ t \in Tasks /\ r # None /\ LinkInv /\ SoleInv
      /\ ChildFits(child[b], r, paid[t])
  BY <1>1, <1>2, ChildRelies DEF IInv
<1>4. UNCHANGED <<lock, at, conn, agent, usage, paid>>
  BY DEF SendComplete
<1>5. LedgerStep
  BY <1>4 DEF LedgerStep
<1>6. LedgerInv'
  BY <1>4, <1>5, LedgerKept
<1>7. /\ child'[b].at = "exited" /\ child'[b].task = t
      /\ \A c \in Brokers \ {b} : child'[c] = child[c]
  BY <1>1, <1>2, <1>3, Moved
<1>8. ChildFits(child'[b], usage'[t], paid'[t])
  BY <1>7 DEF ChildFits, Session, Outside
<1>9. AfterKept
  <2>1. OwnStep(b, "exited")
    BY <1>2, <1>4 DEF OwnStep
  <2> QED BY <1>1, <1>2, <1>4, <1>8, <2>1, AfterChild
<1>10. ToldInv'
  <2> DEFINE s == agent.task
  <2>1. s = t /\ s' = s
    BY <1>1, <1>3, <1>4 DEF LinkInv
  <2> HIDE DEF s
  <2>2. /\ s \in Tasks /\ usage[s] # None /\ usage[s].status = "reasoning_completed"
        /\ Accounted(usage[s].turns, Len(usage[s].turns))
    BY <1>1, <1>3, <2>1 DEF ChildFits
  <2>3. \A c \in Brokers : child'[c] # None /\ child'[c].task = s => child'[c].at \in Outside
    <3>1. \A c \in Brokers \ {b} :
            child[c] # None /\ Task(c) = t => child[c].at \in Outside
      BY <1>1, <1>2, <1>3 DEF SoleInv, AtWork
    <3> QED BY <1>2, <1>7, <2>1, <3>1 DEF Task
  <2>4. ToldFits(s)'
    BY <1>4, <2>1, <2>2, <2>3 DEF ToldFits, Task, Accounted, Outside
  <2> QED BY <2>4 DEF ToldInv, s
<1> QED BY <1>5, <1>6, <1>9, <1>10 DEF Keeps

LEMMA ChildFailsKeeps ==
    ASSUME IInv, NEW b \in Brokers, ChildFails(b)
    PROVE  Keeps
<1> DEFINE t == Task(b)
<1>1. child[b] # None /\ child[b].at \in Session /\ Step(b, "failing")
  BY DEF ChildFails, InChild, AfterFailure, Session
<1>2. child[b].at \notin Outside /\ "failing" \in Points /\ "failing" \notin Session
  BY <1>1 DEF Outside, Points, Session
<1>3. TypeOK /\ LockInv /\ ChildFits(child[b], usage[t], paid[t])
  BY <1>1, <1>2, ChildRelies
<1>4. UNCHANGED <<lock, at, conn, agent, usage, paid, mail>> /\ (Told' => Told)
  BY DEF ChildFails, linkVars, Told, Says
<1>5. child'[b].at = "failing"
  BY <1>1, <1>2, <1>3, Moved
<1>6. ChildFits(child'[b], usage'[t], paid'[t])
  BY <1>2, <1>3, <1>4, <1>5 DEF ChildFits, Session, Outside
<1> QED BY <1>1, <1>2, <1>4, <1>6, AtWorkKeeps

LEMMA CompleteFailsKeeps ==
    ASSUME IInv, NEW b \in Brokers, CompleteFails(b)
    PROVE  Keeps
<1> DEFINE t == Task(b)
<1>1. child[b] # None /\ child[b].at = "completed" /\ Step(b, "failing")
  BY DEF CompleteFails, InChild
<1>2. child[b].at \notin Outside /\ "failing" \in Points /\ "failing" \notin Session
  BY <1>1 DEF Outside, Points, Session
<1>3. TypeOK /\ LockInv /\ ChildFits(child[b], usage[t], paid[t])
  BY <1>1, <1>2, ChildRelies
<1>4. UNCHANGED <<lock, at, conn, agent, usage, paid, mail>> /\ (Told' => Told)
  BY DEF CompleteFails, linkVars, Told, Says
<1>5. child'[b].at = "failing"
  BY <1>1, <1>2, <1>3, Moved
<1>6. ChildFits(child'[b], usage'[t], paid'[t])
  BY <1>2, <1>3, <1>4, <1>5 DEF ChildFits, Session, Outside
<1> QED BY <1>1, <1>2, <1>4, <1>6, AtWorkKeeps

LEMMA RecordFailureKeeps ==
    ASSUME IInv, NEW b \in Brokers, RecordFailure(b)
    PROVE  Keeps
<1> DEFINE t == Task(b)
<1>1. child[b] # None /\ child[b].at = "failing" /\ Step(b, "refusing")
  BY DEF RecordFailure, InChild
<1>2. child[b].at \notin Outside /\ "refusing" \in Points /\ "refusing" \notin Session
  BY <1>1 DEF Outside, Points, Session
<1>3. TypeOK /\ LockInv /\ t \in Tasks /\ usage[t] # None
  BY <1>1, <1>2, ChildRelies
<1>4. UNCHANGED <<lock, at, conn, agent, paid, mail>> /\ (Told' => Told)
  BY DEF RecordFailure, linkVars, Told, Says
<1>5. Only(t) /\ Closed(t)
  <2>1. "failed" \in Statuses \ {"reserved"}
    BY DEF Statuses
  <2>2. usage' = [usage EXCEPT ![t].status = "failed"]
    BY DEF RecordFailure
  <2> QED BY <1>3, <2>1, <2>2, ClosesRecord
<1>6. child'[b].at = "refusing"
  BY <1>1, <1>2, <1>3, Moved
<1>7. ChildFits(child'[b], usage'[t], paid'[t])
  BY <1>6 DEF ChildFits, Session, Outside
<1> QED BY <1>1, <1>2, <1>4, <1>5, <1>7, AtWorkKeeps

LEMMA SendFailureKeeps ==
    ASSUME IInv, NEW b \in Brokers, SendFailure(b)
    PROVE  Keeps
<1> DEFINE t == Task(b)
<1>1. child[b] # None /\ child[b].at = "refusing" /\ Step(b, "exited")
  BY DEF SendFailure, InChild
<1>2. "exited" \in Points /\ "exited" \in Outside /\ child[b].at \in Outside
      /\ "exited" \notin Session
  BY <1>1 DEF Outside, Points, Session
<1>3. TypeOK /\ LockInv
  BY DEF IInv
<1>4. UNCHANGED <<lock, at, conn, agent, usage, paid>>
      /\ mail' = IF conn = b THEN Append(mail, "failure") ELSE mail
  BY DEF SendFailure
<1>5. LedgerStep
  BY <1>4 DEF LedgerStep
<1>6. Told' => Told
  <2>1. "failure" \in Messages /\ mail \in Seq(Messages)
    BY <1>3 DEF TypeOK, Messages
  <2>2. Says(Append(mail, "failure")) = Says(mail) \cup {"failure"}
    BY <2>1, OneMessage
  <2> QED BY <1>4, <2>2 DEF Told
<1>7. child'[b].at = "exited"
  BY <1>1, <1>2, <1>3, Moved
<1>8. ChildFits(child'[b], usage'[t], paid'[t])
  BY <1>7 DEF ChildFits, Session, Outside
<1>12. OwnStep(b, "exited")
  BY <1>2, <1>4 DEF OwnStep
<1>9. AfterKept
  BY <1>1, <1>2, <1>4, <1>8, <1>12, AfterChild
<1>10. ToldInv'
  BY <1>1, <1>2, <1>4, <1>6, <1>12, ToldStays
<1>11. LedgerInv'
  BY <1>4, <1>5, LedgerKept
<1> QED BY <1>5, <1>9, <1>10, <1>11 DEF Keeps

LEMMA ChildKeeps ==
    ASSUME IInv, NEW b \in Brokers, Child(b)
    PROVE  Keeps
BY StartSessionKeeps, ReserveKeeps, RequestKeeps, AccountKeeps, AskForToolKeeps,
   ReadResultKeeps, CompleteKeeps, SendCompleteKeeps, ChildFailsKeeps, CompleteFailsKeeps,
   RecordFailureKeeps, SendFailureKeeps DEF Child

-----------------------------------------------------------------------------
(* Each other step keeps the invariant.                                     *)
LEMMA LedgerRests ==
    ASSUME IInv, UNCHANGED <<usage, paid>>,
           \A c \in Brokers : child'[c] # None =>
               child'[c] = child[c] \/ child'[c].at \in Outside,
           LockInv', AloneInv', LinkInv',
           \A c \in Brokers : child'[c] # None /\ child'[c].at \notin Outside /\ at'[c] # "off" =>
               at[c] # "off",
           \A c \in Brokers : at'[c] = "listening" =>
               at[c] = "listening" \/ With("reserved") = {},
           Told' => Told /\ agent'.task = agent.task
    PROVE  Keeps
<1>1. LedgerStep
  BY DEF LedgerStep
<1>2. LedgerInv'
  BY <1>1, LedgerKept
<1>3. ChildInv'
  <2>1. SUFFICES ASSUME NEW c \in Brokers, child'[c] # None
                 PROVE  ChildFits(child'[c], usage[child'[c].task], paid[child'[c].task])
    BY DEF ChildInv, Task, ChildFits
  <2>2. CASE child'[c] = child[c]
    BY <2>1, <2>2 DEF IInv, ChildInv, Task
  <2>3. CASE child'[c].at \in Outside
    BY <2>3 DEF ChildFits, Session, Outside
  <2> QED BY <2>1, <2>2, <2>3
<1>4. ListeningIsSettled'
  BY DEF IInv, ListeningIsSettled, With, Recorded
<1>5. ToldInv'
  <2>1. SUFFICES ASSUME Told' PROVE ToldFits(agent.task)'
    BY DEF ToldInv
  <2> DEFINE s == agent.task
  <2>2. s' = s /\ ToldFits(s)
    BY <2>1 DEF IInv, ToldInv
  <2> HIDE DEF s
  <2>3. ToldFits(s)'
    BY <2>2 DEF ToldFits, Task, Accounted, Outside
  <2> QED BY <2>3 DEF s
<1>6. \A c \in Brokers : AtWork(c)' => AtWork(c) /\ child'[c] = child[c] /\ Task(c)' = Task(c)
  BY DEF AtWork, Task
<1>7. SoleInv'
  BY <1>6 DEF IInv, SoleInv
<1>8. LiveInv'
  <2>1. SUFFICES ASSUME NEW c \in Brokers, child'[c] # None, child'[c].at \in Session,
                        Watched(c)'
                 PROVE  usage[child'[c].task].status = "reserved"
    BY DEF LiveInv, Task
  <2>2. AtWork(c)' /\ AtWork(c) /\ child'[c] = child[c]
    BY <1>6, <2>1 DEF AtWork, Session, Outside
  <2>3. Watched(c)
    BY <2>1, <2>2 DEF Watched, AtWork
  <2> QED BY <2>1, <2>2, <2>3 DEF IInv, LiveInv, Task, AtWork
<1> QED BY <1>1, <1>2, <1>3, <1>4, <1>5, <1>7, <1>8 DEF Keeps, AfterKept

(* Children go and brokers end.                                             *)
LEMMA AloneStays ==
    ASSUME AloneInv, \A c \in Brokers : child'[c] # None => child[c] # None,
           \A c \in Brokers : at'[c] # "off" => at[c] # "off"
    PROVE  AloneInv'
  BY DEF AloneInv


LEMMA StartBrokerKeeps ==
    ASSUME IInv, NEW b \in Brokers, StartBroker(b)
    PROVE  Keeps
<1>1. /\ lock = None /\ Cleared(b) /\ lock' = b /\ at' = [at EXCEPT ![b] = "recovering"]
      /\ UNCHANGED <<usage, child, conn, mail, agent, paid>>
  BY DEF StartBroker, ServiceFree, Goto, linkVars
<1>2. TypeOK /\ LockInv /\ LinkInv /\ b # None
  BY Constants DEF IInv
<1>3. /\ \A c \in Brokers : at[c] = "off"
      /\ child[b] = None /\ (Unit = Brokers => \A c \in Brokers : child[c] = None)
  BY <1>1, <1>2, Constants DEF LockInv, Cleared
<1>4. \A c \in Brokers : at'[c] = IF c = b THEN "recovering" ELSE "off"
  BY <1>1, <1>2, <1>3 DEF TypeOK
<1>5. LockInv'
  BY <1>1, <1>3, <1>4 DEF LockInv
<1>7. AloneInv'
  BY <1>1, <1>3 DEF AloneInv
<1>6. LinkInv' /\ (Told' => Told)
  BY <1>1, <1>2 DEF LinkInv, Task, Told, Says
<1> QED BY <1>1, <1>3, <1>4, <1>5, <1>6, <1>7, LedgerRests

LEMMA RecoverKeeps ==
    ASSUME IInv, NEW b \in Brokers, Recover(b)
    PROVE  Keeps
<1>1. PICK t \in With("reserved") : usage' = [usage EXCEPT ![t] = Recovered(@)]
  BY DEF Recover
<1>2. /\ at[b] = "recovering" /\ UNCHANGED <<lock, at, child, conn, mail, agent, paid>>
  BY DEF Recover, linkVars
<1>3. TypeOK /\ LockInv /\ AloneInv /\ SoleInv /\ LiveInv /\ ChildInv /\ LinkInv /\ ToldInv
  BY DEF IInv
<1>4. t \in Tasks /\ usage[t] # None /\ usage[t].status = "reserved"
  BY DEF With, Recorded
<1>5. Only(t) /\ Closed(t) /\ usage'[t].status = "interrupted"
  BY <1>1, <1>3, <1>4, RecoversRecord
<1>6. LedgerStep
  BY <1>4, <1>5 DEF LedgerStep
<1>7. LedgerInv'
  BY <1>2, <1>6, LedgerKept
<1>8. \A c \in Brokers : /\ at[c] # "listening" /\ (child[c] # None => at[c] = "off")
                         /\ Unit = Brokers => child[c] = None
  <2>1. child[b] = None /\ at[b] # "off" /\ at[b] # "listening"
    BY <1>2, <1>3 DEF LockInv
  <2>2. \A c \in Brokers \ {b} : at[c] = "off"
    BY <1>3, <2>1, OneBroker
  <2> QED BY <1>3, <2>1, <2>2 DEF AloneInv
<1>9. LockInv' /\ AloneInv' /\ SoleInv' /\ LinkInv' /\ LiveInv' /\ ListeningIsSettled'
  BY <1>2, <1>3, <1>8 DEF LockInv, AloneInv, SoleInv, AtWork, LinkInv, LiveInv, Watched,
     ListeningIsSettled, Task
<1>11. ChildInv'
  <2>1. SUFFICES ASSUME NEW c \in Brokers, child[c] # None
                 PROVE  ChildFits(child[c], usage'[Task(c)], paid[Task(c)])
    BY <1>2 DEF ChildInv, Task, ChildFits
  <2>2. ChildFits(child[c], usage[Task(c)], paid[Task(c)]) /\ Task(c) \in Tasks
    BY <1>3, <2>1, ChildIsOne DEF ChildInv
  <2>3. CASE Task(c) # t
    BY <1>5, <2>2, <2>3 DEF Only
  <2>4. CASE Task(c) = t
    <3>1. /\ child[c].at # "completed" /\ usage'[t] # None
          /\ usage'[t].turns = usage[t].turns /\ usage'[t].status = "interrupted"
      BY <1>4, <1>5, <2>2, <2>4, NoneIsNoRecord DEF ChildFits, Only, Closed
    <3> QED BY <2>2, <2>4, <3>1 DEF ChildFits
  <2> QED BY <2>3, <2>4
<1>10. ToldInv'
  <2>1. SUFFICES ASSUME Told PROVE ToldFits(agent.task)'
    BY <1>2 DEF ToldInv, Told, Says
  <2> DEFINE s == agent.task
  <2>2. s' = s /\ ToldFits(s)
    BY <1>2, <1>3, <2>1 DEF ToldInv
  <2> HIDE DEF s
  <2>3. s # t
    BY <1>4, <2>2 DEF ToldFits
  <2>4. usage'[s] = usage[s]
    BY <1>5, <2>2, <2>3 DEF Only, ToldFits
  <2>5. ToldFits(s)'
    BY <1>2, <2>2, <2>4 DEF ToldFits, Task, Accounted, Outside
  <2> QED BY <2>5 DEF s
<1> QED BY <1>6, <1>7, <1>9, <1>10, <1>11 DEF Keeps, AfterKept

LEMMA EndRecoveryKeeps ==
    ASSUME IInv, NEW b \in Brokers, EndRecovery(b)
    PROVE  Keeps
<1>1. /\ at[b] = "recovering" /\ With("reserved") = {}
      /\ at' = [at EXCEPT ![b] = "listening"] /\ conn' \in {conn, None}
      /\ UNCHANGED <<usage, lock, child, mail, agent, paid>>
  BY DEF EndRecovery, Goto, HangUp
<1>2. TypeOK /\ LockInv /\ AloneInv /\ LinkInv
  BY DEF IInv
<1>3. \A c \in Brokers : at'[c] = IF c = b THEN "listening" ELSE at[c]
  BY <1>1, <1>2 DEF TypeOK
<1>4. LockInv'
  BY <1>1, <1>2, <1>3 DEF LockInv
<1>6. AloneInv'
  BY <1>1, <1>2, <1>3, AloneStays
<1>5. LinkInv' /\ (Told' => Told)
  BY <1>1, <1>2, Constants DEF LinkInv, Task, Told, Says
<1> QED BY <1>1, <1>3, <1>4, <1>5, <1>6, LedgerRests

LEMMA AcceptKeeps ==
    ASSUME IInv, NEW b \in Brokers, Accept(b)
    PROVE  Keeps
<1>1. PICK point \in {"start", "refusing"} :
        child' = [child EXCEPT ![b] =
                    [at |-> point, task |-> agent.task]]
  BY DEF Accept
<1>2. /\ at[b] = "listening" /\ agent.at = "connecting"
      /\ conn' = b /\ agent' = [agent EXCEPT !.at = "running"]
      /\ at' = [at EXCEPT ![b] = "supervising"]
      /\ UNCHANGED <<usage, lock, mail, paid>>
  BY DEF Accept, Goto
<1>3. TypeOK /\ LockInv /\ AloneInv /\ LinkInv
  BY DEF IInv
<1>4. agent'.at = "running" /\ agent'.task = agent.task /\ agent'.outcome = agent.outcome
      /\ agent.task \in Tasks
  BY <1>2, <1>3 DEF TypeOK, LinkInv
<1>5. /\ \A c \in Brokers \ {b} : at[c] = "off"
      /\ child[b] = None
      /\ Unit = Brokers => \A c \in Brokers : child[c] = None
  <2>1. at[b] # "off"
    BY <1>2
  <2>2. child[b] = None
    BY <1>2, <1>3 DEF LockInv
  <2> QED BY <1>3, <2>1, <2>2, OneBroker DEF AloneInv
<1>6. \A c \in Brokers : at'[c] = IF c = b THEN "supervising" ELSE "off"
  BY <1>2, <1>3, <1>5 DEF TypeOK
<1>7. /\ child'[b].at = point /\ child'[b].task = agent.task
      /\ \A c \in Brokers \ {b} : child'[c] = child[c]
  BY <1>1, <1>3 DEF TypeOK
<1>8. LockInv'
  <2>1. lock = b
    BY <1>2, <1>3 DEF LockInv
  <2> QED BY <1>2, <1>5, <1>6, <1>7, <2>1 DEF LockInv
<1>9. LinkInv' /\ (Told' => Told)
  BY <1>2, <1>4, <1>7 DEF LinkInv, Task, Told, Says
<1>10. child'[b].at \in Outside
  BY <1>7 DEF Outside
<1>11. AloneInv'
  BY <1>5, <1>6, <1>7 DEF AloneInv
<1> QED BY <1>2, <1>4, <1>6, <1>7, <1>8, <1>9, <1>10, <1>11, LedgerRests

LEMMA DeclineKeeps ==
    ASSUME IInv, NEW b \in Brokers, Decline(b)
    PROVE  Keeps
<1>1. /\ agent.at = "connecting" /\ agent' = [agent EXCEPT !.at = "running"]
      /\ UNCHANGED <<usage, lock, at, child, conn, mail, paid>>
  BY DEF Decline, linkVars
<1>2. TypeOK /\ LockInv /\ AloneInv /\ LinkInv
  BY DEF IInv
<1>3. agent'.at = "running" /\ agent'.task = agent.task /\ agent'.outcome = agent.outcome
  BY <1>1, <1>2 DEF TypeOK
<1>4. LockInv' /\ AloneInv' /\ LinkInv' /\ (Told' => Told)
  BY <1>1, <1>2, <1>3 DEF LockInv, AloneInv, LinkInv, Task, Told, Says
<1> QED BY <1>1, <1>3, <1>4, LedgerRests

LEMMA EndSessionKeeps ==
    ASSUME IInv, NEW b \in Brokers, EndSession(b, "recovering")
    PROVE  Keeps
<1>1. /\ at[b] = "supervising" /\ child' = [child EXCEPT ![b] = None]
      /\ at' = [at EXCEPT ![b] = "recovering"]
      /\ UNCHANGED <<usage, lock, conn, mail, agent, paid>>
  BY DEF EndSession, Goto, linkVars
<1>2. TypeOK /\ LockInv /\ AloneInv /\ LinkInv
  BY DEF IInv
<1>3. \A c \in Brokers : /\ at'[c] = IF c = b THEN "recovering" ELSE at[c]
                         /\ child'[c] = IF c = b THEN None ELSE child[c]
  BY <1>1, <1>2 DEF TypeOK
<1>4. LockInv'
  BY <1>1, <1>2, <1>3 DEF LockInv
<1>6. AloneInv'
  BY <1>1, <1>2, <1>3, AloneStays
<1>5. LinkInv' /\ (Told' => Told)
  BY <1>1, <1>2, <1>3 DEF LinkInv, Task, Told, Says
<1> QED BY <1>1, <1>3, <1>4, <1>5, <1>6, LedgerRests

LEMMA BrokerEndsKeeps ==
    ASSUME IInv, NEW b \in Brokers, BrokerEnds(b)
    PROVE  Keeps
<1>1. /\ at' = [at EXCEPT ![b] = "off"] /\ child' = child
      /\ lock' = IF lock = b THEN None ELSE lock
      /\ conn' \in {conn, None}
      /\ agent' = IF agent.at = "connecting" THEN [agent EXCEPT !.at = "running"] ELSE agent
      /\ UNCHANGED <<usage, mail, paid>>
  BY DEF BrokerEnds, Goto, HangUp
<1>2. TypeOK /\ LockInv /\ AloneInv /\ LinkInv /\ at[b] # "off"
  BY DEF IInv, BrokerEnds
<1>3. \A c \in Brokers : at'[c] = "off"
  <2>1. \A c \in Brokers \ {b} : at[c] = "off"
    BY <1>2, OneBroker
  <2> QED BY <1>1, <1>2, <2>1 DEF TypeOK
<1>4. LockInv' /\ AloneInv'
  <2>1. AloneInv'
    BY <1>1, <1>2, <1>3, AloneStays
  <2> QED BY <1>3, <2>1 DEF LockInv
<1>5. /\ agent'.task = agent.task /\ agent'.outcome = agent.outcome
      /\ agent'.at \in {"idle", "connecting"} => agent.at \in {"idle", "connecting"}
      /\ agent'.at # "idle" => agent.at # "idle"
  BY <1>1, <1>2 DEF TypeOK
<1>6. LinkInv' /\ (Told' => Told)
  BY <1>1, <1>2, <1>3, <1>5, Constants DEF LinkInv, Task, Told, Says
<1> QED BY <1>1, <1>3, <1>4, <1>5, <1>6, LedgerRests

LEMMA OrphanEndsKeeps ==
    ASSUME IInv, NEW b \in Brokers, OrphanEnds(b)
    PROVE  Keeps
<1>1. /\ child' = [child EXCEPT ![b] = None] /\ conn' \in {conn, None}
      /\ UNCHANGED <<usage, lock, at, mail, agent, paid>>
  BY DEF OrphanEnds, HangUp
<1>2. TypeOK /\ LockInv /\ AloneInv /\ LinkInv
  BY DEF IInv
<1>3. \A c \in Brokers : child'[c] = IF c = b THEN None ELSE child[c]
  BY <1>1, <1>2 DEF TypeOK
<1>4. LockInv'
  BY <1>1, <1>2, <1>3 DEF LockInv
<1>5. AloneInv'
  BY <1>1, <1>2, <1>3, AloneStays
<1>6. LinkInv' /\ (Told' => Told)
  BY <1>1, <1>2, <1>3, Constants DEF LinkInv, Task, Told, Says
<1> QED BY <1>1, <1>3, <1>4, <1>5, <1>6, LedgerRests

LEMMA HearKeeps ==
    ASSUME IInv, Hear
    PROVE  Keeps
<1>1. /\ mail # <<>> /\ mail' = Tail(mail) /\ agent.at = "running"
      /\ UNCHANGED <<usage, lock, at, child, paid>>
  BY DEF Hear
<1>2. TypeOK /\ LockInv /\ AloneInv /\ LinkInv /\ mail \in Seq(Messages)
  BY DEF IInv, TypeOK
<1>3. Head(mail) \in Says(mail) /\ Says(mail') \subseteq Says(mail)
  BY <1>1, <1>2, FewerMessages
<1>4. \/ /\ agent' = [agent EXCEPT !.heard = @ + 1] /\ conn' = conn
      \/ /\ agent' = [agent EXCEPT !.heard = @ + 1, !.at = "invoking"] /\ conn' = conn
      \/ /\ agent' = [agent EXCEPT !.at = "idle", !.outcome = Head(mail), !.heard = 0]
         /\ conn' = None
  <2>1. CASE Head(mail) = "usage"
    BY <2>1 DEF Hear
  <2>2. CASE Head(mail) = "tool"
    BY <2>2 DEF Hear
  <2>3. CASE Head(mail) \notin {"usage", "tool"}
    BY <2>3, Zenon DEF Hear, Return
  <2> QED BY <2>1, <2>2, <2>3
<1>5. /\ agent'.task = agent.task
      /\ \/ agent'.outcome = agent.outcome /\ agent'.at \in {"running", "invoking"} /\ conn' = conn
         \/ agent'.outcome = Head(mail) /\ agent'.at = "idle" /\ conn' = None
  BY <1>1, <1>2, <1>4 DEF TypeOK
<1>6. Told' => Told
  BY <1>3, <1>5 DEF Told
<1>7. LockInv' /\ AloneInv' /\ LinkInv'
  BY <1>1, <1>2, <1>5, Constants DEF LockInv, AloneInv, LinkInv, Task
<1> QED BY <1>1, <1>5, <1>6, <1>7, LedgerRests

LEMMA AnswerKeeps ==
    ASSUME IInv, Answer
    PROVE  Keeps
<1>1. /\ agent.at = "invoking" /\ agent' = [agent EXCEPT !.at = "running"]
      /\ UNCHANGED <<usage, lock, at, child, conn, mail, paid>>
  BY DEF Answer
<1>2. TypeOK /\ LockInv /\ AloneInv /\ LinkInv
  BY DEF IInv
<1>3. agent'.at = "running" /\ agent'.task = agent.task /\ agent'.outcome = agent.outcome
  BY <1>1, <1>2 DEF TypeOK
<1>4. LockInv' /\ AloneInv' /\ LinkInv' /\ (Told' => Told)
  BY <1>1, <1>2, <1>3 DEF LockInv, AloneInv, LinkInv, Task, Told, Says
<1> QED BY <1>1, <1>3, <1>4, LedgerRests

LEMMA AgentReturnsKeeps ==
    ASSUME IInv, NEW outcome \in {"limit", "interrupted"}, AgentReturns(outcome)
    PROVE  Keeps
<1>1. /\ agent' = [agent EXCEPT !.at = "idle", !.outcome = outcome, !.heard = 0]
      /\ conn' = None /\ mail' = <<>>
      /\ UNCHANGED <<usage, lock, at, child, paid>>
  BY DEF AgentReturns, Return
<1>2. TypeOK /\ LockInv /\ AloneInv /\ LinkInv
  BY DEF IInv
<1>3. agent'.at = "idle" /\ agent'.task = agent.task /\ agent'.outcome # "complete"
  BY <1>1, <1>2 DEF TypeOK
<1>4. ~Told'
  BY <1>1, <1>3, NoMessages DEF Told
<1>5. LockInv' /\ AloneInv' /\ LinkInv'
  BY <1>1, <1>2, <1>3, Constants DEF LockInv, AloneInv, LinkInv
<1> QED BY <1>1, <1>4, <1>5, LedgerRests

LEMMA ConnectKeeps ==
    ASSUME IInv, NEW t \in Tasks, Connect(t)
    PROVE  Keeps
<1>1. /\ agent.at = "idle" /\ mail' = <<>>
      /\ agent' = [at |-> "connecting", task |-> t, heard |-> 0, outcome |-> "none"]
      /\ UNCHANGED <<usage, lock, at, child, conn, paid>>
  BY DEF Connect
<1>2. TypeOK /\ LockInv /\ AloneInv /\ LinkInv
  BY DEF IInv
<1>3. agent'.at = "connecting" /\ agent'.task = t /\ agent'.outcome # "complete"
  BY <1>1
<1>4. ~Told'
  BY <1>1, <1>3, NoMessages DEF Told
<1>5. conn' = None
  BY <1>1, <1>2 DEF LinkInv
<1>6. LockInv' /\ AloneInv' /\ LinkInv'
  BY <1>1, <1>2, <1>3, <1>5, Constants DEF LockInv, AloneInv, LinkInv
<1> QED BY <1>1, <1>4, <1>6, LedgerRests

LEMMA NothingMovesKeeps ==
    ASSUME IInv, UNCHANGED <<usage, lock, at, child, conn, mail, agent, paid>>
    PROVE  Keeps
<1>1. LockInv' /\ AloneInv' /\ LinkInv' /\ (Told' => Told)
  BY DEF IInv, LockInv, AloneInv, LinkInv, Task, Told, Says
<1> QED BY <1>1, LedgerRests

LEMMA NextKeeps ==
    ASSUME IInv, [Next]_vars
    PROVE  Keeps
<1>1. ASSUME NEW b \in Brokers, Broker(b)
      PROVE  Keeps
  BY <1>1, StartBrokerKeeps, RecoverKeeps, EndRecoveryKeeps, AcceptKeeps, DeclineKeeps,
     EndSessionKeeps DEF Broker, Reap, Reaped
<1>2. ASSUME NEW b \in Brokers, Child(b)
      PROVE  Keeps
  BY <1>2, ChildKeeps
<1>3. ASSUME NEW b \in Brokers, Expire(b)
      PROVE  Keeps
  BY <1>3, EndSessionKeeps DEF Expire, Reaped
<1>4. ASSUME NEW b \in Brokers, BrokerEnds(b) \/ OrphanEnds(b)
      PROVE  Keeps
  BY <1>4, BrokerEndsKeeps, OrphanEndsKeeps
<1>5. CASE Agent \/ AgentAborts
  BY <1>5, HearKeeps, AnswerKeeps, AgentReturnsKeeps DEF Agent, NoMore, AgentAborts
<1>6. CASE NextMonth \/ UNCHANGED vars
  BY <1>6, NothingMovesKeeps DEF NextMonth, vars, linkVars
<1>7. ASSUME NEW t \in Tasks, Connect(t)
      PROVE  Keeps
  BY <1>7, ConnectKeeps
<1> QED BY <1>1, <1>2, <1>3, <1>4, <1>5, <1>6, <1>7 DEF Next

-----------------------------------------------------------------------------
(* The types of the rest.                                                   *)
Places == {"off", "recovering", "listening", "supervising"}
Agents == [at : {"idle", "connecting", "running", "invoking"},
           task : Tasks \cup {None}, heard : 0..MaxHeard,
           outcome : {"none", "limit", "interrupted"} \cup Messages]
RestOK == /\ month \in 1..Months /\ lock \in Brokers \cup {None}
          /\ at \in [Brokers -> Places] /\ child \in [Brokers -> Children \cup {None}]
          /\ conn \in Brokers \cup {None} /\ mail \in Seq(Messages) /\ answer \subseteq Brokers
          /\ agent \in Agents

LEMMA RestIsTyped ==
    TypeOK <=> /\ usage \in [Tasks -> Records \cup {None}] /\ RestOK
               /\ paid \in [Tasks -> 0..MaxTurns]
  BY DEF TypeOK, RestOK, Places, Agents

LEMMA ChildRest ==
    ASSUME IInv, NEW b \in Brokers, Child(b)
    PROVE  RestOK' /\ paid' \in [Tasks -> Nat]
<1>1. TypeOK /\ LockInv /\ RestOK /\ paid \in [Tasks -> Nat]
  BY RestIsTyped DEF IInv
<1>2. /\ UNCHANGED <<month, lock, at, conn, agent>> /\ answer' \subseteq Brokers
      /\ child[b] # None /\ \E p \in Points : Step(b, p)
  <2>1. "start" \in Points /\ "asking" \in Points /\ "reserved" \in Points
        /\ "requested" \in Points /\ "accounted" \in Points /\ "waiting" \in Points
        /\ "completed" \in Points /\ "failing" \in Points /\ "refusing" \in Points
        /\ "exited" \in Points
    BY DEF Points
  <2>2. CASE StartSession(b)
    BY <1>1, <2>1, <2>2 DEF StartSession, InChild, linkVars, RestOK
  <2>3. CASE Reserve(b)
    BY <1>1, <2>1, <2>3 DEF Reserve, InChild, linkVars, RestOK
  <2>4. CASE Request(b)
    BY <1>1, <2>1, <2>4 DEF Request, InChild, RestOK
  <2>5. CASE Account(b)
    BY <1>1, <2>1, <2>5 DEF Account, InChild, linkVars, RestOK
  <2>6. CASE AskForTool(b)
    BY <1>1, <2>1, <2>6 DEF AskForTool, InChild, RestOK
  <2>7. CASE ReadResult(b)
    BY <1>1, <2>1, <2>7 DEF ReadResult, InChild, RestOK
  <2>8. CASE Complete(b)
    BY <1>1, <2>1, <2>8 DEF Complete, InChild, RestOK
  <2>9. CASE SendComplete(b)
    BY <1>1, <2>1, <2>9 DEF SendComplete, InChild, RestOK
  <2>10. CASE ChildFails(b)
    BY <1>1, <2>1, <2>10 DEF ChildFails, AfterFailure, InChild, linkVars, RestOK
  <2>11. CASE CompleteFails(b)
    BY <1>1, <2>1, <2>11 DEF CompleteFails, InChild, linkVars, RestOK
  <2>12. CASE RecordFailure(b)
    BY <1>1, <2>1, <2>12 DEF RecordFailure, InChild, linkVars, RestOK
  <2>13. CASE SendFailure(b)
    BY <1>1, <2>1, <2>13 DEF SendFailure, InChild, RestOK
  <2> QED BY <2>2, <2>3, <2>4, <2>5, <2>6, <2>7, <2>8, <2>9, <2>10, <2>11, <2>12, <2>13
          DEF Child
<1>3. child' \in [Brokers -> Children \cup {None}]
  BY <1>1, <1>2, Moved
<1>4. mail' \in Seq(Messages)
  <2>1. mail \in Seq(Messages) /\ "usage" \in Messages /\ "tool" \in Messages
        /\ "complete" \in Messages /\ "failure" \in Messages
    BY <1>1 DEF RestOK, Messages
  <2>2. /\ mail \o <<"usage">> \in Seq(Messages) /\ mail \o <<"complete">> \in Seq(Messages)
        /\ mail \o <<"usage", "tool">> \in Seq(Messages)
        /\ Append(mail, "failure") \in Seq(Messages)
    BY <2>1, OneMessage, TwoMessages
  <2>3. \/ mail' = mail \/ mail' = mail \o <<"usage">> \/ mail' = mail \o <<"complete">>
        \/ mail' = mail \o <<"usage", "tool">> \/ mail' = Append(mail, "failure")
    BY Zenon DEF Child, StartSession, Reserve, Request, Account, AskForTool, ReadResult, Complete,
       SendComplete, ChildFails, CompleteFails, RecordFailure, SendFailure, Tell, linkVars
  <2> QED BY <2>1, <2>2, <2>3
<1>5. paid' \in [Tasks -> Nat]
  <2>1. \/ paid' = paid \/ paid' = [paid EXCEPT ![Task(b)] = @ + 1]
    BY DEF Child, StartSession, Reserve, Request, Account, AskForTool, ReadResult, Complete,
       SendComplete, ChildFails, CompleteFails, RecordFailure, SendFailure
  <2> QED BY <1>1, <2>1
<1> QED BY <1>1, <1>2, <1>3, <1>4, <1>5 DEF RestOK

LEMMA BrokerRest ==
    ASSUME TypeOK, LinkInv, NEW b \in Brokers, Broker(b) \/ Expire(b) \/ BrokerEnds(b) \/ OrphanEnds(b)
    PROVE  RestOK' /\ paid' = paid
<1>1. RestOK
  BY RestIsTyped
<1> DEFINE Ends(x) == /\ at' = [at EXCEPT ![b] = x]
                      /\ child' = [child EXCEPT ![b] = None]
<1>2. CASE StartBroker(b)
  BY <1>1, <1>2 DEF StartBroker, Goto, linkVars, RestOK, Places
<1>3. CASE Recover(b)
  BY <1>1, <1>3 DEF Recover, linkVars, RestOK, Places
<1>4. CASE EndRecovery(b)
  BY <1>1, <1>4 DEF EndRecovery, Goto, HangUp, RestOK, Places
<1>5. CASE Accept(b)
  <2>1. PICK point \in {"start", "refusing"} :
          child' = [child EXCEPT ![b] =
                      [at |-> point, task |-> agent.task]]
    BY <1>5 DEF Accept
  <2>2. agent.task \in Tasks
    BY <1>5 DEF Accept, LinkInv
  <2>3. [at |-> point, task |-> agent.task] \in Children
    BY <2>2 DEF Children
  <2>4. child' \in [Brokers -> Children \cup {None}]
    BY <1>1, <2>1, <2>3 DEF RestOK
  <2>5. agent' \in Agents
    BY <1>1, <1>5 DEF Accept, RestOK, Agents
  <2> QED BY <1>1, <1>5, <2>4, <2>5 DEF Accept, Goto, RestOK, Places
<1>6. CASE Decline(b)
  <2>1. agent' \in Agents
    BY <1>1, <1>6 DEF Decline, RestOK, Agents
  <2> QED BY <1>1, <1>6, <2>1 DEF Decline, linkVars, RestOK
<1>7. CASE EndSession(b, "recovering")
  BY <1>1, <1>7 DEF EndSession, Goto, linkVars, RestOK, Places
<1>8. CASE BrokerEnds(b)
  <2>1. agent' \in Agents
    BY <1>1, <1>8 DEF BrokerEnds, RestOK, Agents
  <2> QED BY <1>1, <1>8, <2>1 DEF BrokerEnds, Goto, HangUp, RestOK, Places
<1>9. CASE OrphanEnds(b)
  BY <1>1, <1>9 DEF OrphanEnds, HangUp, RestOK
<1> QED BY <1>2, <1>3, <1>4, <1>5, <1>6, <1>7, <1>8, <1>9 DEF Broker, Reap, Expire, Reaped

LEMMA AgentRest ==
    ASSUME TypeOK, Agent \/ AgentAborts
    PROVE  RestOK' /\ paid' = paid
<1>1. RestOK /\ MaxHeard \in Nat
  BY RestIsTyped, Constants DEF MaxHeard
<1>2. CASE Hear
  <2>1. /\ mail # <<>> /\ mail' = Tail(mail) /\ agent.heard < MaxHeard
        /\ UNCHANGED <<month, lock, at, child, answer, paid>>
    BY <1>2 DEF Hear
  <2>2. Head(mail) \in Messages /\ mail' \in Seq(Messages)
    BY <1>1, <2>1, FewerMessages DEF RestOK
  <2>3. \/ agent' = [agent EXCEPT !.heard = @ + 1] /\ conn' = conn
        \/ agent' = [agent EXCEPT !.heard = @ + 1, !.at = "invoking"] /\ conn' = conn
        \/ agent' = [agent EXCEPT !.at = "idle", !.outcome = Head(mail), !.heard = 0] /\ conn' = None
    <3>1. CASE Head(mail) = "usage"
      BY <1>2, <3>1 DEF Hear
    <3>2. CASE Head(mail) = "tool"
      BY <1>2, <3>2 DEF Hear
    <3>3. CASE Head(mail) \notin {"usage", "tool"}
      BY <1>2, <3>3, Zenon DEF Hear, Return
    <3> QED BY <3>1, <3>2, <3>3
  <2>4. agent.heard + 1 \in 0..MaxHeard /\ 0 \in 0..MaxHeard
    BY <1>1, <2>1 DEF RestOK, Agents
  <2>5. agent' \in Agents
    BY <1>1, <2>2, <2>3, <2>4 DEF RestOK, Agents
  <2> QED BY <1>1, <2>1, <2>2, <2>3, <2>5 DEF RestOK
<1>3. CASE Answer
  <2>1. agent' \in Agents
    BY <1>1, <1>3 DEF Answer, RestOK, Agents
  <2> QED BY <1>1, <1>3, <2>1 DEF Answer, RestOK
<1>4. ASSUME NEW outcome \in {"limit", "interrupted"}, AgentReturns(outcome)
      PROVE  RestOK' /\ paid' = paid
  <2>0. 0 \in 0..MaxHeard
    BY <1>1
  <2>1. agent' \in Agents
    BY <1>1, <1>4, <2>0 DEF AgentReturns, Return, RestOK, Agents
  <2> QED BY <1>1, <1>4, <2>1, NoMessages DEF AgentReturns, Return, RestOK
<1> QED BY <1>2, <1>3, <1>4 DEF Agent, NoMore, AgentAborts

LEMMA NextType ==
    ASSUME IInv, [Next]_vars
    PROVE  TypeOK'
<1>1. TypeOK /\ LinkInv /\ RestOK /\ paid \in [Tasks -> Nat]
  BY RestIsTyped DEF IInv
<1>2. RestOK' /\ paid' \in [Tasks -> Nat]
  <2>1. ASSUME NEW b \in Brokers, Child(b)
        PROVE  RestOK' /\ paid' \in [Tasks -> Nat]
    BY <2>1, ChildRest
  <2>2. ASSUME NEW b \in Brokers, Broker(b) \/ Expire(b) \/ BrokerEnds(b) \/ OrphanEnds(b)
        PROVE  RestOK' /\ paid' \in [Tasks -> Nat]
    BY <1>1, <2>2, BrokerRest
  <2>3. CASE Agent \/ AgentAborts
    BY <1>1, <2>3, AgentRest
  <2>4. CASE NextMonth
    BY <1>1, <2>4, Constants DEF NextMonth, linkVars, RestOK
  <2>5. ASSUME NEW t \in Tasks, Connect(t)
        PROVE  RestOK' /\ paid' \in [Tasks -> Nat]
    <3>1. agent' \in Agents
      <4>1. 0 \in 0..MaxHeard
        BY Constants DEF MaxHeard
      <4> QED BY <2>5, <4>1 DEF Connect, Agents
    <3> QED BY <1>1, <2>5, <3>1, NoMessages DEF Connect, RestOK
  <2>6. CASE UNCHANGED vars
    BY <1>1, <2>6 DEF vars, linkVars, RestOK
  <2> QED BY <2>1, <2>2, <2>3, <2>4, <2>5, <2>6 DEF Next
<1>3. LedgerStep /\ LedgerInv'
  BY NextKeeps DEF Keeps
<1>4. usage' \in [Tasks -> Records \cup {None}]
  BY <1>1, <1>3 DEF LedgerStep, Only, LedgerType, TypeOK
<1>5. paid' \in [Tasks -> 0..MaxTurns]
  <2>1. SUFFICES ASSUME NEW t \in Tasks
                 PROVE  paid'[t] \in 0..MaxTurns
    BY <1>2
  <2>2. paid'[t] \in Nat /\ LedgerFits(usage'[t], paid'[t])
    BY <1>2, <1>3 DEF LedgerInv, LedgerFits
  <2>3. usage'[t] # None => Len(usage'[t].turns) \in Nat
    BY <1>4 DEF Records
  <2> QED BY <2>2, <2>3, Constants DEF LedgerFits
<1> QED BY <1>2, <1>4, <1>5 DEF TypeOK, RestOK, Places, Agents

-----------------------------------------------------------------------------
(* The properties.                                                          *)
LEMMA InitIInv == Init => IInv
<1> SUFFICES ASSUME Init PROVE IInv
  OBVIOUS
<1>1. TypeOK
  <2>1. 1 \in 1..Months /\ 0 \in 0..MaxHeard /\ 0 \in 0..MaxTurns
    BY Constants DEF MaxHeard
  <2> QED BY <2>1, NoMessages DEF Init, TypeOK
<1>2. Charged(1, "openai") = {} /\ \A m : Charged(m, "openai") = {}
  BY DEF Charged, Recorded, Init
<1>3. MonthInv
  <2>1. Cardinality({}) = 0 /\ 0 * TurnReserve <= MonthBudget
    BY FS_EmptySet, Constants
  <2> QED BY <1>2, <2>1 DEF MonthInv
<1>4. ~Told
  BY NoMessages DEF Told, Init
<1>5. LockInv /\ AloneInv /\ SoleInv /\ LiveInv /\ LedgerInv /\ ChildInv /\ LinkInv /\ ListeningIsSettled
  BY Constants DEF Init, LockInv, AloneInv, SoleInv, AtWork, LiveInv, LedgerInv, LedgerFits, ChildInv, LinkInv, ListeningIsSettled,
     With, Recorded
<1> QED BY <1>1, <1>3, <1>4, <1>5 DEF IInv, ToldInv

LEMMA NextIInv == IInv /\ [Next]_vars => IInv'
<1> SUFFICES ASSUME IInv, [Next]_vars PROVE IInv'
  OBVIOUS
<1>1. TypeOK'
  BY NextType
<1>2. Keeps
  BY NextKeeps
<1>3. MonthInv'
  BY <1>2, MonthKept DEF Keeps
<1> QED BY <1>1, <1>2, <1>3 DEF IInv, Keeps, AfterKept

LEMMA IInvSafe ==
    ASSUME IInv
    PROVE  TypeOK /\ BudgetsHold /\ LiveSessionIsReserved /\ CompleteIsAccounted
           /\ ListeningIsSettled
<1>1. BudgetsHold
  <2>1. ASSUME NEW t \in Tasks
        PROVE  /\ usage[t] = None => paid[t] = 0
               /\ t \in Recorded => /\ paid[t] <= Len(usage[t].turns)
                                    /\ Len(usage[t].turns) * TurnReserve <= TaskBudget
    BY DEF IInv, LedgerInv, LedgerFits, Recorded
  <2> QED BY <2>1 DEF IInv, BudgetsHold, MonthInv, Recorded
<1>2. LiveSessionIsReserved
  <2>1. SUFFICES ASSUME NEW b \in Brokers, InSession(b)
                 PROVE  /\ usage[Task(b)] # None
                        /\ \/ usage[Task(b)].status = "reserved"
                           \/ at[b] = "off" /\ Unit # Brokers
                        /\ \A c \in Brokers \ {b} : InSession(c) => Task(c) # Task(b)
    BY DEF LiveSessionIsReserved
  <2>2. child[b] # None /\ child[b].at \in Session /\ child[b].at \notin Outside
    BY <2>1 DEF InSession, Session, Outside
  <2>3. TypeOK /\ LockInv /\ ChildFits(child[b], usage[Task(b)], paid[Task(b)])
    BY <2>2, ChildRelies
  <2>4. usage[Task(b)] # None
    BY <2>2, <2>3 DEF ChildFits
  <2>5. usage[Task(b)].status = "reserved" \/ (at[b] = "off" /\ Unit # Brokers)
    BY <2>2 DEF IInv, LiveInv, Watched
  <2>6. \A c \in Brokers \ {b} : InSession(c) => Task(c) # Task(b)
    BY <2>2 DEF IInv, SoleInv, AtWork, InSession, Outside
  <2> QED BY <2>4, <2>5, <2>6
<1>3. CompleteIsAccounted
  <2>1. SUFFICES ASSUME Told
                 PROVE  /\ usage[agent.task].status = "reasoning_completed"
                        /\ \A i \in DOMAIN usage[agent.task].turns :
                             usage[agent.task].turns[i].status = "usage_received"
    BY DEF CompleteIsAccounted, Told, Says
  <2>2. TypeOK /\ ToldFits(agent.task)
    BY <2>1 DEF IInv, ToldInv
  <2>3. usage[agent.task].turns \in Seq(Turns)
    BY <2>2, RecordIsOne DEF ToldFits
  <2> QED BY <2>2, <2>3 DEF ToldFits, Accounted
<1> QED BY <1>1, <1>2, <1>3 DEF IInv

(* One step takes no charge back and opens no session again.                *)
Kept(t) ==
    LET old == usage[t]
        new == usage'[t]
        n   == Len(old.turns)
    IN  /\ new # None /\ new.provider = old.provider
        /\ Len(new.turns) \in {n, n + 1}
        /\ \A i \in 1..n : \/ new.turns[i] = old.turns[i]
                           \/ i = n /\ new.turns[i].month = old.turns[i].month
        /\ old.status # "reserved" => new.status # "reserved"

LEMMA StepKeepsCharges ==
    ASSUME IInv, [Next]_vars, NEW t \in Recorded
    PROVE  Kept(t)
<1>1. TypeOK /\ LedgerStep /\ t \in Tasks /\ usage[t] # None
  BY NextKeeps DEF IInv, Keeps, Recorded
<1> DEFINE n == Len(usage[t].turns)
<1>2. usage[t].turns \in Seq(Turns) /\ n \in Nat
  BY <1>1, RecordIsOne
<1>3. CASE usage'[t] = usage[t]
  BY <1>1, <1>2, <1>3 DEF Kept
<1>4. CASE Only(t) /\ (Opened(t) \/ Spent(t) \/ Settled(t) \/ Closed(t))
  <2>1. usage'[t] # None
    BY <1>4, NoneIsNoRecord DEF Only
  <2>2. CASE Spent(t)
    <3> DEFINE turn == [month |-> month, status |-> "outcome_unknown"]
    <3>1. turn \in Turns /\ usage'[t].turns = Append(usage[t].turns, turn)
      BY <1>1, <2>2 DEF TypeOK, Turns, Spent
    <3> HIDE DEF turn
    <3>2. /\ Len(usage'[t].turns) = n + 1
          /\ \A i \in 1..n : usage'[t].turns[i] = usage[t].turns[i]
      BY <1>2, <3>1, AppendProperties
    <3>3. usage'[t].status = usage[t].status /\ usage'[t].provider = usage[t].provider
      BY <2>2 DEF Spent
    <3> QED BY <2>1, <3>2, <3>3 DEF Kept
  <2>3. CASE Settled(t)
    <3>1. \A i \in 1..n : i = n \/ i \in 1..(n - 1)
      BY <1>2
    <3> QED BY <1>2, <2>1, <2>3, <3>1 DEF Kept, Settled
  <2>4. CASE Closed(t)
    BY <2>1, <2>4 DEF Kept, Closed
  <2> QED BY <1>1, <1>4, <2>2, <2>3, <2>4 DEF Opened
<1> QED BY <1>1, <1>3, <1>4 DEF LedgerStep, Only

-----------------------------------------------------------------------------
(* What the agent has heard and still has to read: every turn of its child  *)
(* makes three messages at most.                                            *)
Sent(point, n, k) ==
    /\ point = "start" => k = 0
    /\ point \in {"asking", "waiting"} => k <= 3 * n
    /\ point = "reserved" => k <= 3 * n - 3
    /\ point \in {"requested", "accounted"} => k <= 3 * n - 2
Fits(msgs, heard) ==
    \A i \in 1..Len(msgs) : msgs[i] \in {"usage", "tool"} => heard + i <= 3 * MaxTurns
HearInv ==
    /\ agent.outcome # "limit"
    /\ agent.at = "connecting" => agent.heard = 0 /\ mail = <<>>
    /\ agent.at \in {"running", "invoking"} =>
         agent.heard <= 3 * MaxTurns /\ Fits(mail, agent.heard)
    /\ \A b \in Brokers : conn = b /\ child[b] # None =>
         Sent(child[b].at, Len(usage[Task(b)].turns), agent.heard + Len(mail))

LEMMA AgentIsOne ==
    ASSUME TypeOK
    PROVE  /\ agent.heard \in Nat /\ mail \in Seq(Messages) /\ Len(mail) \in Nat
           /\ agent \in Agents /\ MaxTurns \in Nat /\ MaxHeard = 3 * MaxTurns + 1
<1>1. agent \in Agents /\ mail \in Seq(Messages)
  BY RestIsTyped DEF RestOK
<1>2. MaxTurns \in Nat /\ MaxHeard = 3 * MaxTurns + 1 /\ MaxHeard \in Nat
  BY Constants DEF MaxHeard
<1> QED BY <1>1, <1>2 DEF Agents

LEMMA FitsMore ==
    ASSUME NEW s \in Seq(Messages), NEW h \in Nat, Fits(s, h), NEW u \in Seq(Messages),
           h + Len(s) + Len(u) <= 3 * MaxTurns
           \/ \A i \in 1..Len(u) : u[i] \notin {"usage", "tool"}
    PROVE  Fits(s \o u, h) /\ Len(s \o u) = Len(s) + Len(u)
<1> DEFINE w == s \o u
<1>1. /\ w \in Seq(Messages) /\ Len(w) = Len(s) + Len(u)
      /\ \A i \in 1..(Len(s) + Len(u)) : w[i] = IF i <= Len(s) THEN s[i] ELSE u[i - Len(s)]
  BY ConcatProperties
<1>2. Len(s) \in Nat /\ Len(u) \in Nat /\ MaxTurns \in Nat
  BY Constants
<1> HIDE DEF w
<1>3. ASSUME NEW i \in 1..Len(w), w[i] \in {"usage", "tool"}
      PROVE  h + i <= 3 * MaxTurns
  <2>1. CASE i <= Len(s)
    <3>1. i \in 1..Len(s) /\ s[i] \in {"usage", "tool"}
      BY <1>1, <1>2, <1>3, <2>1
    <3> QED BY <3>1 DEF Fits
  <2>2. CASE i > Len(s)
    <3>1. i - Len(s) \in 1..Len(u) /\ w[i] = u[i - Len(s)]
      BY <1>1, <1>2, <2>2
    <3>2. h + Len(s) + Len(u) <= 3 * MaxTurns
      BY <1>3, <3>1
    <3> QED BY <1>1, <1>2, <3>2
  <2> QED BY <1>2, <2>1, <2>2
<1>4. Fits(w, h)
  BY <1>3 DEF Fits
<1> QED BY <1>1, <1>4 DEF w

(* Every step of a child leaves the others' records alone.                  *)
LEMMA OwnSteps ==
    ASSUME IInv, NEW b \in Brokers, Child(b), NEW p \in Points, Step(b, p)
    PROVE  OwnStep(b, p)
<1> DEFINE t == Task(b)
<1>1. TypeOK /\ LockInv /\ child[b] # None
  BY DEF IInv, Child, StartSession, Reserve, Request, Account, AskForTool, ReadResult, Complete,
     SendComplete, ChildFails, CompleteFails, RecordFailure, SendFailure, InChild
<1>2. t \in Tasks /\ child'[b].at = p
  BY <1>1, ChildIsOne, Moved
<1>3. \A u \in Tasks \ {t} : usage'[u] = usage[u] /\ paid'[u] = paid[u]
  <2>1. usage \in [Tasks -> Records \cup {None}] /\ paid \in [Tasks -> 0..MaxTurns]
    BY <1>1 DEF TypeOK
  <2>2. CASE StartSession(b)
    BY <1>2, <2>1, <2>2 DEF StartSession
  <2>3. CASE Reserve(b)
    BY <1>2, <2>1, <2>3 DEF Reserve
  <2>4. CASE Request(b)
    BY <1>2, <2>1, <2>4 DEF Request
  <2>5. CASE Account(b)
    BY <1>2, <2>1, <2>5 DEF Account
  <2>6. CASE Complete(b)
    BY <1>2, <2>1, <2>6 DEF Complete
  <2>7. CASE RecordFailure(b)
    BY <1>2, <2>1, <2>7 DEF RecordFailure
  <2>8. CASE \/ AskForTool(b) \/ ReadResult(b) \/ SendComplete(b) \/ ChildFails(b)
             \/ CompleteFails(b) \/ SendFailure(b)
    BY <2>8 DEF AskForTool, ReadResult, SendComplete, ChildFails, CompleteFails, SendFailure
  <2> QED BY <2>2, <2>3, <2>4, <2>5, <2>6, <2>7, <2>8 DEF Child
<1>4. CASE StartSession(b)
  <2>1. CASE usage[t] = None
    BY <1>3, <2>1 DEF OwnStep
  <2>2. CASE usage[t] # None
    <3>1. ~Fresh(t)
      BY <1>2, <2>2 DEF Fresh, Recorded
    <3>2. Step(b, "refusing") /\ UNCHANGED <<usage, paid>> /\ "refusing" \in Points
      BY <1>4, <3>1 DEF StartSession, Points
    <3>3. p = "refusing"
      BY <1>1, <1>2, <3>2, Moved
    <3> QED BY <3>2, <3>3 DEF OwnStep, Outside
  <2> QED BY <2>1, <2>2
<1>5. CASE SendFailure(b)
  <2>1. Step(b, "exited") /\ UNCHANGED <<usage, paid>> /\ "exited" \in Points
    BY <1>5 DEF SendFailure, Points
  <2>2. p = "exited"
    BY <1>1, <1>2, <2>1, Moved
  <2> QED BY <2>1, <2>2 DEF OwnStep, Outside
<1>6. CASE child[b].at \notin Outside
  BY <1>3, <1>6 DEF OwnStep
<1>7. ~StartSession(b) /\ ~SendFailure(b) => child[b].at \notin Outside
  BY DEF Child, Reserve, Request, Account, AskForTool, ReadResult, Complete,
     SendComplete, ChildFails, CompleteFails, RecordFailure, InChild, Outside
<1> QED BY <1>4, <1>5, <1>6, <1>7

(* A step of the child that serves the agent, or of one that does not.      *)
LEMMA ChildHears ==
    ASSUME IInv, HearInv, NEW b \in Brokers, Child(b), child[b] # None,
           NEW p \in Points, Step(b, p),
           UNCHANGED <<conn, agent>>, mail' = mail \/ (conn = b /\ Fits(mail', agent.heard)),
           conn = b => Sent(p, Len(usage'[Task(b)].turns), agent.heard + Len(mail'))
    PROVE  HearInv'
<1>1. TypeOK /\ LockInv /\ LinkInv
  BY DEF IInv
<1>2. /\ child'[b].at = p /\ child'[b].task = Task(b)
      /\ \A c \in Brokers \ {b} : child'[c] = child[c]
  BY <1>1, Moved
<1>3. conn = b => agent.at \notin {"idle", "connecting"}
  BY <1>1, Constants DEF LinkInv
<1>4. \A c \in Brokers : conn' = c /\ child'[c] # None =>
        Sent(child'[c].at, Len(usage'[child'[c].task].turns), agent'.heard + Len(mail'))
  <2>1. SUFFICES ASSUME NEW c \in Brokers, conn = c, child'[c] # None
                 PROVE  Sent(child'[c].at, Len(usage'[child'[c].task].turns),
                             agent.heard + Len(mail'))
    OBVIOUS
  <2>2. CASE c = b
    BY <1>2, <2>1, <2>2
  <2>3. CASE c # b
    <3>1. /\ child'[c] = child[c] /\ mail' = mail
          /\ Sent(child[c].at, Len(usage[Task(c)].turns), agent.heard + Len(mail))
      BY <1>2, <2>1, <2>3 DEF HearInv
    <3>2. CASE AtWork(c)
      <4>1. OwnStep(b, p)
        BY OwnSteps
      <4>2. usage'[Task(c)] = usage[Task(c)]
        BY <2>3, <3>2, <4>1, OtherTasks
      <4> QED BY <3>1, <4>2 DEF Task
    <3>3. CASE ~AtWork(c)
      <4>1. child[c].at \in {"start", "refusing", "exited"}
        BY <2>1, <3>1, <3>3 DEF AtWork, Outside
      <4> QED BY <3>1, <4>1 DEF Sent
    <3> QED BY <3>2, <3>3
  <2> QED BY <2>2, <2>3
<1> QED BY <1>3, <1>4 DEF HearInv, Task, Sent, Fits

LEMMA ChildHearing ==
    ASSUME IInv, HearInv, NEW b \in Brokers, Child(b)
    PROVE  HearInv'
<1> DEFINE t == Task(b)
           n == Len(usage[t].turns)
           m == Len(usage'[t].turns)
           k == agent.heard + Len(mail)
<1>1. /\ TypeOK /\ LockInv /\ LedgerInv /\ LinkInv
      /\ agent.heard \in Nat /\ mail \in Seq(Messages) /\ Len(mail) \in Nat /\ k \in Nat
      /\ MaxTurns \in Nat
  BY AgentIsOne DEF IInv
<1>2. child[b] # None /\ UNCHANGED <<conn, agent>>
  BY DEF Child, StartSession, Reserve, Request, Account, AskForTool, ReadResult, Complete,
     SendComplete, ChildFails, CompleteFails, RecordFailure, SendFailure, InChild, linkVars
<1>3. t \in Tasks /\ conn = b => Sent(child[b].at, n, k)
  BY <1>2 DEF HearInv
<1>4. /\ "asking" \in Points /\ "reserved" \in Points
      /\ "requested" \in Points /\ "accounted" \in Points /\ "waiting" \in Points
      /\ "completed" \in Points /\ "failing" \in Points /\ "refusing" \in Points
      /\ "exited" \in Points
  BY DEF Points
<1>5. conn = b => Fits(mail, agent.heard)
  <2>1. conn = b => agent.at \in {"running", "invoking"}
    <3>1. agent.at \in {"idle", "connecting", "running", "invoking"}
      BY <1>1 DEF TypeOK
    <3> QED BY <1>1, <3>1, Constants DEF LinkInv
  <2> QED BY <2>1 DEF HearInv
<1>6. child[b].at # "start" /\ child[b].at # "refusing" /\ child[b].at # "exited" =>
        n \in Nat /\ n <= MaxTurns
  <2>1. SUFFICES ASSUME child[b].at \notin Outside
                 PROVE  n \in Nat /\ n <= MaxTurns
    BY DEF Outside
  <2>2. t \in Tasks /\ usage[t] # None /\ n \in Nat
    BY <1>2, <2>1, ChildRelies
  <2> QED BY <1>1, <2>2 DEF LedgerInv, LedgerFits
<1>7. usage[t] # None => m \in Nat /\ m >= n
  <2>1. SUFFICES ASSUME usage[t] # None
                 PROVE  m \in Nat /\ m >= n
    OBVIOUS
  <2>2. t \in Tasks
    BY <1>1, <1>2, ChildIsOne
  <2>3. n \in Nat
    BY <1>1, <2>1, <2>2, RecordIsOne
  <2>4. [Next]_vars /\ t \in Recorded
    BY <2>1, <2>2 DEF Next, Recorded
  <2>5. Kept(t)
    BY <2>4, StepKeepsCharges
  <2> QED BY <2>3, <2>5 DEF Kept
<1>8. child[b].at \notin Outside => usage[t] # None
  BY <1>2, ChildRelies
<1>9. t \in Tasks
  BY <1>1, <1>2, ChildIsOne
<1> HIDE DEF t, k
<1>10. CASE StartSession(b)
  <2>1. child[b].at = "start" /\ mail' = mail
    BY <1>10 DEF StartSession, InChild, linkVars
  <2>2. CASE Step(b, "asking")
    <3>1. m \in Nat
      <4>1. TypeOK' /\ usage'[t] # None
        <5>1. [Next]_vars
          BY DEF Next
        <5>2. TypeOK'
          BY <5>1, NextType
        <5>3. Keeps
          BY <1>10, StartSessionKeeps
        <5>4. child'[b].at = "asking" /\ child'[b] # None /\ child'[b].task = t
          BY <1>1, <1>2, <1>4, <2>2, Moved DEF t
        <5> QED BY <5>2, <5>3, <5>4 DEF Keeps, AfterKept, ChildInv, ChildFits, Task, Outside
      <4>2. usage'[t] \in Records
        BY <1>9, <4>1 DEF TypeOK
      <4> QED BY <4>2 DEF Records
    <3>2. conn = b => Sent("asking", m, k')
      BY <1>2, <1>3, <1>9, <2>1, <3>1 DEF Sent, k
    <3> QED BY <1>2, <1>4, <2>1, <2>2, <3>2, ChildHears DEF t, k
  <2>3. CASE Step(b, "refusing")
    <3>1. Sent("refusing", m, k')
      BY DEF Sent
    <3> QED BY <1>2, <1>4, <2>1, <2>3, <3>1, ChildHears DEF t, k
  <2> QED BY <1>10, <2>2, <2>3 DEF StartSession
<1>11. CASE Reserve(b)
  <2>1. child[b].at = "asking" /\ mail' = mail /\ Step(b, "reserved")
    BY <1>11 DEF Reserve, InChild, linkVars
  <2>2. child[b].at \notin Outside
    BY <2>1 DEF Outside
  <2>3. m = n + 1
    <3>1. /\ usage[t] # None /\ usage[t].turns \in Seq(Turns) /\ n \in Nat
          /\ usage[t] \in Records
      BY <1>2, <2>2, ChildRelies DEF t
    <3> DEFINE turn == [month |-> month, status |-> "outcome_unknown"]
               more == Append(usage[t].turns, turn)
    <3>2. turn \in Turns
      BY <1>1 DEF TypeOK, Turns
    <3>3. usage' = [usage EXCEPT ![t].turns = more]
      BY <1>11 DEF Reserve, t
    <3> HIDE DEF turn
    <3>4. Len(more) = n + 1
      BY <3>1, <3>2, AppendProperties
    <3> HIDE DEF more
    <3>5. usage'[t].turns = more
      BY <1>1, <1>9, <3>1, <3>3 DEF TypeOK, Records
    <3> QED BY <3>4, <3>5
  <2>4. k' = k /\ n \in Nat
    BY <1>2, <1>6, <2>1 DEF k
  <2>5. conn = b => k <= 3 * n
    BY <1>3, <1>9, <2>1 DEF Sent
  <2>6. conn = b => k <= 3 * m - 3
    BY <1>1, <2>3, <2>4, <2>5
  <2>7. conn = b => Sent("reserved", m, k')
    BY <2>4, <2>6 DEF Sent
  <2> QED BY <1>2, <1>4, <2>1, <2>7, ChildHears DEF t, k
<1>12. CASE Request(b)
  <2>1. child[b].at = "reserved" /\ conn = b /\ mail' = mail \o <<"usage">>
        /\ Step(b, "requested")
    BY <1>12 DEF Request, InChild, Tell
  <2>2. usage[t] # None
    BY <1>8, <2>1 DEF Outside
  <2>3. k <= 3 * n - 3 /\ n \in Nat /\ n <= MaxTurns
    BY <1>3, <1>6, <1>9, <2>1 DEF Sent
  <2>4. Fits(mail', agent.heard) /\ Len(mail') = Len(mail) + 1
    <3>1. <<"usage">> \in Seq(Messages) /\ Len(<<"usage">>) = 1
      BY DEF Messages
    <3>2. agent.heard + Len(mail) + 1 <= 3 * MaxTurns
      BY <1>1, <2>3 DEF k
    <3> QED BY <1>1, <1>5, <2>1, <3>1, <3>2, FitsMore
  <2>5. k' = k + 1
    BY <1>1, <1>2, <2>4 DEF k
  <2>6. m \in Nat /\ m >= n
    BY <1>7, <2>2
  <2>7. k' <= 3 * m - 2
    BY <1>1, <2>3, <2>5, <2>6
  <2>8. Sent("requested", m, k')
    BY <2>7 DEF Sent
  <2> QED BY <1>2, <1>4, <2>1, <2>4, <2>8, ChildHears DEF t, k
<1>13. CASE Account(b)
  <2>1. child[b].at = "requested" /\ mail' = mail
    BY <1>13 DEF Account, InChild, linkVars
  <2>2. usage[t] # None
    BY <1>8, <2>1 DEF Outside
  <2>3. PICK p \in {"accounted", "failing"} : Step(b, p)
    BY <1>13 DEF Account
  <2>4. p \in Points
    BY <1>4, <2>3
  <2>5. n \in Nat /\ m \in Nat /\ m >= n /\ k' = k /\ k \in Nat
    BY <1>1, <1>2, <1>6, <1>7, <2>1, <2>2 DEF k
  <2>6. conn = b => k <= 3 * n - 2
    BY <1>3, <1>9, <2>1 DEF Sent
  <2>7. conn = b => k <= 3 * m - 2
    BY <2>5, <2>6
  <2>8. conn = b => Sent(p, m, k')
    BY <2>3, <2>5, <2>7 DEF Sent
  <2> QED BY <1>2, <2>1, <2>3, <2>4, <2>8, ChildHears DEF t, k
<1>14. CASE AskForTool(b)
  <2>1. child[b].at = "accounted" /\ conn = b /\ mail' = mail \o <<"usage", "tool">>
        /\ Step(b, "waiting")
    BY <1>14 DEF AskForTool, InChild, Tell
  <2>2. usage[t] # None
    BY <1>8, <2>1 DEF Outside
  <2>3. k <= 3 * n - 2 /\ n \in Nat /\ n <= MaxTurns
    BY <1>3, <1>6, <1>9, <2>1 DEF Sent
  <2>4. Fits(mail', agent.heard) /\ Len(mail') = Len(mail) + 2
    <3>1. <<"usage", "tool">> \in Seq(Messages) /\ Len(<<"usage", "tool">>) = 2
      BY DEF Messages
    <3>2. agent.heard + Len(mail) + 2 <= 3 * MaxTurns
      BY <1>1, <2>3 DEF k
    <3> QED BY <1>1, <1>5, <2>1, <3>1, <3>2, FitsMore
  <2>5. k' = k + 2
    BY <1>1, <1>2, <2>4 DEF k
  <2>6. m \in Nat /\ m >= n
    BY <1>7, <2>2
  <2>7. k' <= 3 * m
    BY <1>1, <2>3, <2>5, <2>6
  <2>8. Sent("waiting", m, k')
    BY <2>7 DEF Sent
  <2> QED BY <1>2, <1>4, <2>1, <2>4, <2>8, ChildHears DEF t, k
<1>15. CASE ReadResult(b)
  <2>1. /\ child[b].at = "waiting" /\ mail' = mail /\ Step(b, "asking")
        /\ UNCHANGED <<usage, conn, agent>>
    BY <1>15 DEF ReadResult, InChild
  <2>2. conn = b => k <= 3 * n
    BY <1>3, <1>9, <2>1 DEF Sent
  <2>3. m = n /\ k' = k
    BY <2>1 DEF k
  <2>4. conn = b => Sent("asking", m, k')
    BY <2>2, <2>3 DEF Sent
  <2> QED BY <1>2, <1>4, <2>1, <2>4, ChildHears DEF t, k
<1>16. CASE Complete(b)
  <2>1. child[b].at = "accounted" /\ conn = b /\ mail' = mail \o <<"usage">>
        /\ Step(b, "completed")
    BY <1>16 DEF Complete, InChild, Tell
  <2>2. k <= 3 * n - 2 /\ n \in Nat /\ n <= MaxTurns
    BY <1>3, <1>6, <1>9, <2>1 DEF Sent
  <2>3. Fits(mail', agent.heard)
    <3>1. <<"usage">> \in Seq(Messages) /\ Len(<<"usage">>) = 1
      BY DEF Messages
    <3>2. agent.heard + Len(mail) + 1 <= 3 * MaxTurns
      BY <1>1, <2>2 DEF k
    <3> QED BY <1>1, <1>5, <2>1, <3>1, <3>2, FitsMore
  <2>4. Sent("completed", m, k')
    BY DEF Sent
  <2> QED BY <1>2, <1>4, <2>1, <2>3, <2>4, ChildHears DEF t, k
<1>17. CASE SendComplete(b)
  <2>1. conn = b /\ mail' = mail \o <<"complete">> /\ Step(b, "exited")
    BY <1>17 DEF SendComplete, Tell
  <2>2. Fits(mail', agent.heard)
    <3>1. <<"complete">> \in Seq(Messages)
          /\ \A i \in 1..Len(<<"complete">>) : <<"complete">>[i] \notin {"usage", "tool"}
      BY DEF Messages
    <3> QED BY <1>1, <1>5, <2>1, <3>1, FitsMore
  <2>3. Sent("exited", m, k')
    BY DEF Sent
  <2> QED BY <1>2, <1>4, <2>1, <2>2, <2>3, ChildHears DEF t, k
<1>18. CASE ChildFails(b) \/ CompleteFails(b) \/ RecordFailure(b)
  <2>1. PICK p \in {"failing", "refusing"} : Step(b, p)
    BY <1>18 DEF ChildFails, CompleteFails, RecordFailure, AfterFailure
  <2>2. mail' = mail
    BY <1>18 DEF ChildFails, CompleteFails, RecordFailure, linkVars
  <2>3. Sent(p, m, k') /\ p \in Points
    BY <1>4, <2>1 DEF Sent
  <2> QED BY <1>2, <2>1, <2>2, <2>3, ChildHears DEF t, k
<1>19. CASE SendFailure(b)
  <2>1. Step(b, "exited") /\ mail' = IF conn = b THEN Append(mail, "failure") ELSE mail
    BY <1>19 DEF SendFailure
  <2>2. conn = b => Fits(Append(mail, "failure"), agent.heard)
    <3>1. <<"failure">> \in Seq(Messages) /\ "failure" \in Messages
          /\ \A i \in 1..Len(<<"failure">>) : <<"failure">>[i] \notin {"usage", "tool"}
      BY DEF Messages
    <3>2. Append(mail, "failure") = mail \o <<"failure">>
      BY <1>1, <3>1, AppendIsConcat
    <3>3. conn = b => Fits(mail \o <<"failure">>, agent.heard)
      BY <1>1, <1>5, <3>1, FitsMore
    <3> QED BY <3>2, <3>3
  <2>3. Sent("exited", m, k')
    BY DEF Sent
  <2> QED BY <1>2, <1>4, <2>1, <2>2, <2>3, ChildHears DEF t, k
<1> QED BY <1>10, <1>11, <1>12, <1>13, <1>14, <1>15, <1>16, <1>17, <1>18, <1>19 DEF Child

(* The agent reads its mail.                                                *)
LEMMA HearHearing ==
    ASSUME IInv, HearInv, Hear
    PROVE  HearInv'
<1>1. /\ mail # <<>> /\ mail' = Tail(mail) /\ agent.at = "running"
      /\ UNCHANGED <<usage, child>>
  BY DEF Hear
<1>2. /\ TypeOK /\ agent.heard \in Nat /\ mail \in Seq(Messages) /\ Len(mail) \in Nat
      /\ agent \in Agents /\ MaxTurns \in Nat
  BY AgentIsOne DEF IInv
<1>3. /\ Len(mail) >= 1 /\ Len(mail') = Len(mail) - 1 /\ Head(mail) = mail[1]
      /\ \A i \in 1..Len(mail') : mail'[i] = mail[i + 1]
      /\ Head(mail) \in Messages
  BY <1>1, <1>2
<1>4. Fits(mail, agent.heard)
  BY <1>1 DEF HearInv
<1>5. CASE Head(mail) \in {"usage", "tool"}
  <2>1. /\ conn' = conn
        /\ \/ agent' = [agent EXCEPT !.heard = @ + 1]
           \/ agent' = [agent EXCEPT !.heard = @ + 1, !.at = "invoking"]
    <3>1. CASE Head(mail) = "usage"
      BY <3>1 DEF Hear
    <3>2. CASE Head(mail) = "tool"
      BY <3>2 DEF Hear
    <3> QED BY <1>5, <3>1, <3>2
  <2>2. /\ agent'.heard = agent.heard + 1 /\ agent'.outcome = agent.outcome
        /\ agent'.at \in {"running", "invoking"}
    BY <1>1, <1>2, <2>1 DEF Agents
  <2>3. agent'.heard <= 3 * MaxTurns
    BY <1>3, <1>4, <1>5, <2>2 DEF Fits
  <2>4. Fits(mail', agent'.heard)
    <3>1. ASSUME NEW i \in 1..Len(mail'), mail'[i] \in {"usage", "tool"}
          PROVE  agent'.heard + i <= 3 * MaxTurns
      <4>1. i + 1 \in 1..Len(mail) /\ mail[i + 1] \in {"usage", "tool"}
        BY <1>2, <1>3, <3>1
      <4>2. agent.heard + (i + 1) <= 3 * MaxTurns
        BY <1>4, <4>1 DEF Fits
      <4> QED BY <1>2, <2>2, <4>2
    <3> QED BY <3>1 DEF Fits
  <2>5. agent'.heard + Len(mail') = agent.heard + Len(mail)
    BY <1>2, <1>3, <2>2
  <2>6. \A b \in Brokers : conn' = b /\ child'[b] # None =>
          Sent(child'[b].at, Len(usage'[child'[b].task].turns), agent'.heard + Len(mail'))
    BY <1>1, <2>1, <2>5 DEF HearInv, Task
  <2> QED BY <2>2, <2>3, <2>4, <2>6 DEF HearInv, Task, Sent, Fits
<1>6. CASE Head(mail) \notin {"usage", "tool"}
  <2>1. /\ conn' = None
        /\ agent' = [agent EXCEPT !.at = "idle", !.outcome = Head(mail), !.heard = 0]
    BY <1>6, Zenon DEF Hear, Return
  <2>2. agent'.at = "idle" /\ agent'.outcome = Head(mail)
    BY <1>2, <2>1 DEF Agents
  <2>3. Head(mail) # "limit"
    BY <1>3 DEF Messages
  <2> QED BY <2>1, <2>2, <2>3, Constants DEF HearInv
<1> QED BY <1>5, <1>6

(* The agent stops: not by its limit.                                       *)
LEMMA ReturnHearing ==
    ASSUME IInv, HearInv, NoMore \/ AgentAborts
    PROVE  HearInv'
<1>1. /\ TypeOK /\ agent.heard \in Nat /\ agent \in Agents /\ MaxTurns \in Nat
      /\ MaxHeard = 3 * MaxTurns + 1
  BY AgentIsOne DEF IInv
<1>2. NoMore => agent.heard < MaxHeard
  BY <1>1 DEF NoMore, HearInv
<1>3. AgentReturns("interrupted")
  BY <1>2 DEF NoMore, AgentAborts
<1>4. /\ conn' = None
      /\ agent' = [agent EXCEPT !.at = "idle", !.outcome = "interrupted", !.heard = 0]
  BY <1>3 DEF AgentReturns, Return
<1>5. agent'.at = "idle" /\ agent'.outcome = "interrupted"
  BY <1>1, <1>4 DEF Agents
<1> QED BY <1>4, <1>5, Constants DEF HearInv

(* Nobody speaks: a step of the broker, an answer, another month.           *)
LEMMA SilentHearing ==
    ASSUME IInv, HearInv, UNCHANGED mail,
           agent'.outcome = agent.outcome, agent'.heard = agent.heard,
           agent'.at = agent.at \/ (agent.at \in {"connecting", "invoking"} /\ agent'.at = "running"),
           \A b \in Brokers : conn' = b /\ child'[b] # None =>
              \/ /\ conn = b /\ child'[b] = child[b]
                 /\ usage'[Task(b)].turns = usage[Task(b)].turns
              \/ child'[b].at \in {"start", "refusing"} /\ agent.at = "connecting"
    PROVE  HearInv'
<1>1. /\ TypeOK /\ agent.heard \in Nat /\ MaxTurns \in Nat
  BY AgentIsOne DEF IInv
<1>2. agent.at = "connecting" => agent.heard = 0 /\ mail = <<>> /\ Len(mail) = 0
  BY DEF HearInv
<1>3. agent.at = "connecting" => agent.heard <= 3 * MaxTurns /\ Fits(mail, agent.heard)
  BY <1>1, <1>2 DEF Fits
<1>4. ASSUME NEW b \in Brokers, conn' = b, child'[b] # None
      PROVE  Sent(child'[b].at, Len(usage'[child'[b].task].turns), agent'.heard + Len(mail'))
  <2>1. CASE conn = b /\ child'[b] = child[b] /\ usage'[Task(b)].turns = usage[Task(b)].turns
    BY <1>4, <2>1 DEF HearInv, Task
  <2>2. CASE child'[b].at \in {"start", "refusing"} /\ agent.at = "connecting"
    BY <1>2, <2>2 DEF Sent
  <2> QED BY <1>4, <2>1, <2>2
<1>5. agent'.at \in {"running", "invoking"} =>
        agent'.heard <= 3 * MaxTurns /\ Fits(mail', agent'.heard)
  BY <1>3 DEF HearInv
<1> QED BY <1>4, <1>5 DEF HearInv, Task, Sent, Fits

LEMMA BrokerHearing ==
    ASSUME IInv, HearInv, NEW b \in Brokers, Broker(b) \/ Expire(b) \/ BrokerEnds(b) \/ OrphanEnds(b)
    PROVE  HearInv'
<1>1. TypeOK /\ LockInv /\ agent \in Agents
  BY AgentIsOne DEF IInv
<1>2. mail' = mail
  BY DEF Broker, StartBroker, Recover, EndRecovery, Accept, Decline, Reap, Expire, EndSession,
     BrokerEnds, OrphanEnds, linkVars
<1>3. CASE StartBroker(b)
  <2>1. UNCHANGED <<usage, child, conn, agent>>
    BY <1>3 DEF StartBroker, linkVars
  <2> QED BY <1>2, <2>1, SilentHearing
<1>4. CASE Recover(b)
  <2>1. PICK t \in With("reserved") : usage' = [usage EXCEPT ![t] = Recovered(@)]
    BY <1>4 DEF Recover
  <2>2. t \in Tasks /\ usage[t] # None /\ UNCHANGED <<child, conn, agent>>
    BY <1>4 DEF Recover, linkVars, With, Recorded
  <2>3. Only(t) /\ Closed(t)
    BY <1>1, <2>1, <2>2, RecoversRecord
  <2>4. \A c \in Brokers : child[c] # None => usage'[Task(c)].turns = usage[Task(c)].turns
    <3>1. \A u \in Tasks : usage'[u].turns = usage[u].turns
      BY <2>3 DEF Only, Closed
    <3> QED BY <1>1, <3>1, ChildIsOne
  <2> QED BY <1>2, <2>2, <2>4, SilentHearing
<1>9. CASE EndRecovery(b)
  <2>1. UNCHANGED <<usage, child, agent>> /\ conn' \in {conn, None}
    BY <1>9 DEF EndRecovery, HangUp
  <2> QED BY <1>2, <2>1, Constants, SilentHearing
<1>5. CASE Accept(b)
  <2>1. PICK point \in {"start", "refusing"} :
          child' = [child EXCEPT ![b] =
                      [at |-> point, task |-> agent.task]]
    BY <1>5 DEF Accept
  <2>2. /\ conn' = b /\ agent.at = "connecting" /\ agent' = [agent EXCEPT !.at = "running"]
    BY <1>5 DEF Accept
  <2>3. child'[b].at = point
    BY <1>1, <2>1 DEF TypeOK
  <2>4. agent'.at = "running" /\ agent'.outcome = agent.outcome /\ agent'.heard = agent.heard
    BY <1>1, <2>2 DEF Agents
  <2>5. \A c \in Brokers : conn' = c /\ child'[c] # None =>
          child'[c].at \in {"start", "refusing"} /\ agent.at = "connecting"
    BY <2>2, <2>3
  <2> QED BY <1>2, <2>2, <2>4, <2>5, SilentHearing
<1>6. CASE Decline(b)
  <2>1. /\ agent.at = "connecting" /\ agent' = [agent EXCEPT !.at = "running"]
        /\ UNCHANGED <<usage, child, conn>>
    BY <1>6 DEF Decline, linkVars
  <2>2. agent'.at = "running" /\ agent'.outcome = agent.outcome /\ agent'.heard = agent.heard
    BY <1>1, <2>1 DEF Agents
  <2> QED BY <1>2, <2>1, <2>2, SilentHearing
<1>7. CASE EndSession(b, "recovering")
  <2>1. child' = [child EXCEPT ![b] = None] /\ UNCHANGED <<usage, conn, agent>>
    BY <1>7 DEF EndSession, linkVars
  <2>2. \A c \in Brokers : child'[c] = None \/ child'[c] = child[c]
    BY <1>1, <2>1 DEF TypeOK
  <2> QED BY <1>2, <2>1, <2>2, SilentHearing
<1>8. CASE BrokerEnds(b)
  <2>1. /\ UNCHANGED <<usage, child>> /\ conn' \in {conn, None}
        /\ agent' = IF agent.at = "connecting" THEN [agent EXCEPT !.at = "running"] ELSE agent
    BY <1>8 DEF BrokerEnds, HangUp
  <2>2. /\ agent'.outcome = agent.outcome /\ agent'.heard = agent.heard
        /\ agent'.at = agent.at \/ (agent.at = "connecting" /\ agent'.at = "running")
    BY <1>1, <2>1 DEF Agents
  <2> QED BY <1>2, <2>1, <2>2, Constants, SilentHearing
<1>10. CASE OrphanEnds(b)
  <2>1. /\ child' = [child EXCEPT ![b] = None] /\ UNCHANGED <<usage, agent>>
        /\ conn' \in {conn, None}
    BY <1>10 DEF OrphanEnds, HangUp
  <2>2. \A c \in Brokers : child'[c] = None \/ child'[c] = child[c]
    BY <1>1, <2>1 DEF TypeOK
  <2> QED BY <1>2, <2>1, <2>2, Constants, SilentHearing
<1> QED BY <1>3, <1>4, <1>5, <1>6, <1>7, <1>8, <1>9, <1>10 DEF Broker, Reap, Expire, Reaped

LEMMA NextHearing ==
    ASSUME IInv, HearInv, [Next]_vars
    PROVE  HearInv'
<1>1. ASSUME NEW b \in Brokers, Child(b)
      PROVE  HearInv'
  BY <1>1, ChildHearing
<1>2. ASSUME NEW b \in Brokers, Broker(b) \/ Expire(b) \/ BrokerEnds(b) \/ OrphanEnds(b)
      PROVE  HearInv'
  BY <1>2, BrokerHearing
<1>3. CASE Hear
  BY <1>3, HearHearing
<1>4. CASE NoMore \/ AgentAborts
  BY <1>4, ReturnHearing
<1>5. CASE Answer
  <2>1. /\ agent.at = "invoking" /\ agent' = [agent EXCEPT !.at = "running"]
        /\ UNCHANGED <<usage, child, conn, mail>>
    BY <1>5 DEF Answer
  <2>2. agent \in Agents
    BY AgentIsOne DEF IInv
  <2>3. agent'.at = "running" /\ agent'.outcome = agent.outcome /\ agent'.heard = agent.heard
    BY <2>1, <2>2 DEF Agents
  <2> QED BY <2>1, <2>3, SilentHearing
<1>6. CASE NextMonth \/ UNCHANGED vars
  <2>1. UNCHANGED <<usage, child, conn, mail, agent>>
    BY <1>6 DEF NextMonth, vars, linkVars
  <2> QED BY <2>1, SilentHearing
<1>7. ASSUME NEW t \in Tasks, Connect(t)
      PROVE  HearInv'
  <2>1. /\ agent.at = "idle" /\ mail' = <<>> /\ conn' = conn
        /\ agent' = [at |-> "connecting", task |-> t, heard |-> 0, outcome |-> "none"]
    BY <1>7 DEF Connect
  <2>2. agent'.at = "connecting" /\ agent'.heard = 0 /\ agent'.outcome = "none"
    BY <2>1
  <2>3. conn' = None
    BY <2>1 DEF IInv, LinkInv
  <2> QED BY <2>1, <2>2, <2>3, Constants DEF HearInv
<1> QED BY <1>1, <1>2, <1>3, <1>4, <1>5, <1>6, <1>7 DEF Next, Agent

LEMMA InitHearing == Init => HearInv
  BY Constants DEF Init, HearInv

-----------------------------------------------------------------------------
(* The refinement. What one step does to the money: the calendar moves on,  *)
(* a request is paid for, or one record changes. A record is used while its *)
(* session is open, or by a child that was left alone with it; and it is    *)
(* completed only when all its turns are accounted for.                     *)
Usable(t) ==
    /\ usage[t] # None
    /\ usage[t].status = "reserved" \/ (usage[t].status = "interrupted" /\ t \in Adrift)
Finished(t) ==
    usage'[t].status = "reasoning_completed" =>
        Usable(t) /\ Accounted(usage[t].turns, Len(usage[t].turns))
MonthStep  == UNCHANGED <<usage, paid>> /\ (month' = month \/ Money!NextMonth)
PaidStep(t) ==
    /\ UNCHANGED <<usage, month>> /\ Usable(t)
    /\ paid[t] < Len(usage[t].turns)
    /\ paid' = [paid EXCEPT ![t] = @ + 1]
RecordStep(t) ==
    /\ UNCHANGED <<paid, month>> /\ Only(t)
    /\ \/ Opened(t)
       \/ Usable(t) /\ (Spent(t) \/ Settled(t))
       \/ Closed(t) /\ Finished(t)
MoneyStep == MonthStep \/ \E t \in Tasks : PaidStep(t) \/ RecordStep(t)

(* A child in its session can use its record.                               *)
LEMMA SessionIsUsable ==
    ASSUME IInv, NEW b \in Brokers, child[b] # None, child[b].at \in Session
    PROVE  /\ Usable(Task(b)) /\ Task(b) \in Tasks
           /\ ChildFits(child[b], usage[Task(b)], paid[Task(b)])
<1>1. child[b].at \notin Outside
  BY DEF Session, Outside
<1>2. /\ TypeOK /\ LockInv /\ Task(b) \in Tasks /\ usage[Task(b)] # None
      /\ ChildFits(child[b], usage[Task(b)], paid[Task(b)])
  BY <1>1, ChildRelies
<1>3. usage[Task(b)].status \in {"reserved", "interrupted"}
  BY <1>2 DEF ChildFits
<1>4. CASE at[b] = "off"
  <2>1. Task(b) \in Adrift
    BY <1>4 DEF Adrift, InSession, Session
  <2> QED BY <1>2, <1>3, <2>1 DEF Usable
<1>5. CASE at[b] # "off"
  BY <1>2, <1>5 DEF IInv, LiveInv, Watched, Usable
<1> QED BY <1>4, <1>5

(* The steps of a child that touch the ledger or pay.                       *)
LEMMA ChildSpends ==
    ASSUME IInv, NEW b \in Brokers, Child(b)
    PROVE  MoneyStep
<1> DEFINE t == Task(b)
           r == usage[t]
<1>0. TypeOK /\ LockInv
  BY DEF IInv
<1>1. CASE StartSession(b)
  <2>1. child[b] # None /\ t \in Tasks
    BY <1>0, <1>1, ChildIsOne DEF StartSession, InChild
  <2>2. UNCHANGED <<paid, month>>
    BY <1>1 DEF StartSession
  <2>3. CASE Fresh(t) /\ Cardinality(Recorded) < Retention
    <3>1. usage[t] = None
      BY <2>1, <2>3 DEF Fresh, Recorded
    <3>2. PICK p \in Providers : usage' = [usage EXCEPT ![t] =
            [status |-> "reserved", provider |-> p, turns |-> <<>>]]
      BY <1>1, <2>3 DEF StartSession
    <3>3. Only(t) /\ Opened(t)
      BY <1>0, <2>1, <3>1, <3>2, OpensRecord
    <3> QED BY <2>1, <2>2, <3>3 DEF MoneyStep, RecordStep
  <2>4. CASE ~(Fresh(t) /\ Cardinality(Recorded) < Retention)
    BY <1>1, <2>2, <2>4 DEF StartSession, MoneyStep, MonthStep
  <2> QED BY <2>3, <2>4
<1>2. CASE Reserve(b)
  <2>1. child[b] # None /\ child[b].at \in Session
    BY <1>2 DEF Reserve, InChild, Session
  <2>2. t \in Tasks /\ r # None /\ Usable(t)
    BY <2>1, SessionIsUsable DEF Usable
  <2>3. /\ Affordable(t) /\ UNCHANGED <<paid, month>>
        /\ usage' = [usage EXCEPT ![t].turns =
              Append(@, [month |-> month, status |-> "outcome_unknown"])]
    BY <1>2 DEF Reserve
  <2>4. Only(t) /\ Spent(t)
    BY <1>0, <2>2, <2>3, AddsTurn
  <2> QED BY <2>2, <2>3, <2>4 DEF MoneyStep, RecordStep
<1>3. CASE Request(b)
  <2>1. child[b] # None /\ child[b].at = "reserved" /\ child[b].at \in Session
    BY <1>3 DEF Request, InChild, Session
  <2>2. t \in Tasks /\ Usable(t) /\ paid[t] < Len(r.turns)
    BY <2>1, SessionIsUsable DEF ChildFits
  <2>3. UNCHANGED <<usage, month>> /\ paid' = [paid EXCEPT ![t] = @ + 1]
    BY <1>3 DEF Request
  <2> QED BY <2>2, <2>3 DEF MoneyStep, PaidStep
<1>4. CASE Account(b)
  <2>1. child[b] # None /\ child[b].at = "requested" /\ child[b].at \in Session
    BY <1>4 DEF Account, InChild, Session
  <2>2. t \in Tasks /\ r # None /\ Usable(t) /\ Len(r.turns) >= 1
    BY <2>1, SessionIsUsable DEF ChildFits, Usable
  <2>3. /\ UNCHANGED <<paid, month>>
        /\ usage' = [usage EXCEPT ![t].turns[LastTurn(usage[t].turns)].status = "usage_received"]
    BY <1>4 DEF Account
  <2>4. Only(t) /\ Settled(t)
    BY <1>0, <2>2, <2>3, SettlesTurn
  <2> QED BY <2>2, <2>3, <2>4 DEF MoneyStep, RecordStep
<1>5. CASE Complete(b)
  <2>1. child[b] # None /\ child[b].at = "accounted" /\ child[b].at \in Session
    BY <1>5 DEF Complete, InChild, Session
  <2>2. /\ t \in Tasks /\ r # None /\ Usable(t)
        /\ Accounted(r.turns, Len(r.turns))
    BY <2>1, SessionIsUsable DEF ChildFits, Usable
  <2>3. /\ UNCHANGED <<paid, month>>
        /\ usage' = [usage EXCEPT ![t].status = "reasoning_completed"]
    BY <1>5 DEF Complete
  <2>4. Only(t) /\ Closed(t)
    <3>1. "reasoning_completed" \in Statuses \ {"reserved"}
      BY DEF Statuses
    <3> QED BY <1>0, <2>2, <2>3, <3>1, ClosesRecord
  <2>5. Finished(t)
    BY <2>2 DEF Finished
  <2> QED BY <2>2, <2>3, <2>4, <2>5 DEF MoneyStep, RecordStep
<1>6. CASE RecordFailure(b)
  <2>1. child[b] # None /\ child[b].at = "failing" /\ child[b].at \notin Outside
    BY <1>6 DEF RecordFailure, InChild, Outside
  <2>2. t \in Tasks /\ r # None
    BY <2>1, ChildRelies
  <2>3. UNCHANGED <<paid, month>> /\ usage' = [usage EXCEPT ![t].status = "failed"]
    BY <1>6 DEF RecordFailure
  <2>4. Only(t) /\ Closed(t) /\ usage'[t].status = "failed"
    <3>1. "failed" \in Statuses \ {"reserved"}
      BY DEF Statuses
    <3> QED BY <1>0, <2>2, <2>3, <3>1, ClosesRecord
  <2>5. Finished(t)
    BY <2>4 DEF Finished
  <2> QED BY <2>2, <2>3, <2>4, <2>5 DEF MoneyStep, RecordStep
<1>7. CASE \/ AskForTool(b) \/ ReadResult(b) \/ SendComplete(b) \/ ChildFails(b)
           \/ CompleteFails(b) \/ SendFailure(b)
  BY <1>7 DEF AskForTool, ReadResult, SendComplete, ChildFails, CompleteFails, SendFailure,
     MoneyStep, MonthStep
<1> QED BY <1>1, <1>2, <1>3, <1>4, <1>5, <1>6, <1>7 DEF Child

LEMMA NextSpends ==
    ASSUME IInv, [Next]_vars
    PROVE  MoneyStep
<1>1. ASSUME NEW b \in Brokers, Child(b) PROVE MoneyStep
  BY <1>1, ChildSpends
<1>2. ASSUME NEW b \in Brokers, Recover(b) PROVE MoneyStep
  <2>1. PICK t \in With("reserved") : usage' = [usage EXCEPT ![t] = Recovered(@)]
    BY <1>2 DEF Recover
  <2>2. t \in Tasks /\ usage[t] # None
    BY DEF With, Recorded
  <2>3. Only(t) /\ Closed(t) /\ usage'[t].status = "interrupted"
    BY <2>1, <2>2, RecoversRecord DEF IInv
  <2>4. Finished(t) /\ UNCHANGED <<paid, month>>
    BY <1>2, <2>3 DEF Finished, Recover
  <2> QED BY <2>2, <2>3, <2>4 DEF MoneyStep, RecordStep
<1>3. ASSUME NEW b \in Brokers,
             \/ StartBroker(b) \/ EndRecovery(b) \/ Accept(b) \/ Decline(b) \/ Reap(b)
             \/ Expire(b) \/ BrokerEnds(b) \/ OrphanEnds(b)
      PROVE  MoneyStep
  BY <1>3 DEF StartBroker, EndRecovery, Accept, Decline, Reap, Expire, EndSession, BrokerEnds,
     OrphanEnds, MoneyStep, MonthStep
<1>4. CASE Agent \/ AgentAborts
  BY <1>4 DEF Agent, Hear, Answer, NoMore, AgentAborts, AgentReturns, MoneyStep, MonthStep
<1>5. ASSUME NEW t \in Tasks, Connect(t) PROVE MoneyStep
  BY <1>5 DEF Connect, MoneyStep, MonthStep
<1>6. CASE UNCHANGED vars
  BY <1>6 DEF vars, MoneyStep, MonthStep
<1>7. CASE NextMonth
  <2>1. UNCHANGED <<usage, paid>> /\ month < Months /\ month' = month + 1
    BY <1>7 DEF NextMonth
  <2>2. /\ UNCHANGED <<[t \in Tasks |-> SessionOf(t)], [t \in Tasks |-> TurnsOf(t)]>>
        /\ UNCHANGED {t \in Recorded : usage[t].provider = "openai"}
    BY <2>1 DEF SessionOf, TurnsOf, Recorded
  <2> QED BY <2>1, <2>2 DEF MoneyStep, MonthStep, Money!NextMonth
<1> QED BY <1>1, <1>2, <1>3, <1>4, <1>5, <1>6, <1>7 DEF Next, Broker

(* A session is left alone while it is open, or opened by a child that is.  *)
AdriftStep == \A t \in Adrift' \ Adrift :
                t \in Tasks /\ usage'[t] # None /\ usage'[t].status = "reserved"

LEMMA NextDrifts ==
    ASSUME IInv, [Next]_vars
    PROVE  AdriftStep
<1>1. TypeOK /\ LockInv /\ LiveInv /\ (TypeOK /\ ChildInv)'
  BY NextIInv DEF IInv
<1>2. SUFFICES ASSUME NEW b \in Brokers, at'[b] = "off", child'[b] # None,
                      child'[b].at \in Session, child'[b].task \notin Adrift
               PROVE  /\ child'[b].task \in Tasks /\ usage'[child'[b].task] # None
                      /\ usage'[child'[b].task].status = "reserved"
  BY DEF AdriftStep, Adrift, InSession, Session, Task
<1> DEFINE t == child'[b].task
<1>3. t \in Tasks /\ usage'[t] # None
  <2>1. child'[b] \in Children
    BY <1>1, <1>2 DEF TypeOK
  <2>2. ChildFits(child'[b], usage'[t], paid'[t])
    BY <1>1, <1>2 DEF ChildInv, Task, ChildFits
  <2> QED BY <1>2, <2>1, <2>2 DEF Children, ChildFits, Session, Outside
<1>4. SUFFICES usage'[t].status = "reserved"
  BY <1>3
<1>5. ~(child[b] = child'[b] /\ at[b] = "off")
  BY <1>2 DEF Adrift, InSession, Session, Task
<1>6. ASSUME NEW c \in Brokers, Child(c)
      PROVE  usage'[t].status = "reserved"
  <2>1. PICK p \in Points : child[c] # None /\ Step(c, p)
    <3>1. "asking" \in Points /\ "reserved" \in Points
          /\ "requested" \in Points /\ "accounted" \in Points /\ "waiting" \in Points
          /\ "completed" \in Points /\ "failing" \in Points /\ "refusing" \in Points
          /\ "exited" \in Points
      BY DEF Points
    <3> QED BY <1>6, <3>1 DEF Child, StartSession, Reserve, Request, Account, AskForTool,
          ReadResult, Complete, SendComplete, ChildFails, CompleteFails, RecordFailure,
          SendFailure, AfterFailure, InChild
  <2>2. /\ child'[c].at = p /\ child'[c].task = Task(c) /\ at' = at
        /\ \A d \in Brokers \ {c} : child'[d] = child[d]
    <3>1. at' = at
      BY <1>6 DEF Child, StartSession, Reserve, Request, Account, AskForTool,
          ReadResult, Complete, SendComplete, ChildFails, CompleteFails, RecordFailure,
          SendFailure
    <3> QED BY <1>1, <2>1, <3>1, Moved
  <2>3. b = c /\ at[b] = "off" /\ p \in Session /\ t = Task(b)
    BY <1>2, <1>5, <2>2
  <2>4. child[b].at \notin Session
    BY <1>2, <2>1, <2>3 DEF Adrift, InSession, Session
  <2>5. StartSession(b)
    <3>1. \/ child[b].at \in {"completed", "failing", "refusing"} /\ ~StartSession(b)
             /\ \E q \in {"exited", "failing", "refusing"} : Step(b, q)
          \/ StartSession(b)
      BY <1>6, <2>3, <2>4 DEF Child, Reserve, Request, Account, AskForTool,
          ReadResult, Complete, SendComplete, ChildFails, CompleteFails, RecordFailure,
          SendFailure, AfterFailure, InChild, Session
    <3>2. ASSUME NEW q \in {"exited", "failing", "refusing"}, Step(b, q) PROVE FALSE
      <4>1. q \in Points
        BY DEF Points
      <4>2. child'[b].at = q
        BY <1>1, <2>1, <2>3, <3>2, <4>1, Moved
      <4> QED BY <2>2, <2>3, <4>2 DEF Session
    <3> QED BY <3>1, <3>2
  <2>6. CASE Fresh(t) /\ Cardinality(Recorded) < Retention
    <3>1. PICK which \in Providers : usage' = [usage EXCEPT ![t] =
            [status |-> "reserved", provider |-> which, turns |-> <<>>]]
      BY <2>3, <2>5, <2>6 DEF StartSession
    <3> QED BY <1>1, <1>3, <3>1 DEF TypeOK
  <2>7. CASE ~(Fresh(t) /\ Cardinality(Recorded) < Retention)
    <3>1. Step(b, "refusing") /\ "refusing" \in Points
      BY <2>3, <2>5, <2>7 DEF StartSession, Points
    <3>2. child'[b].at = "refusing"
      BY <1>1, <2>1, <2>3, <3>1, Moved
    <3> QED BY <2>2, <2>3, <3>2 DEF Session
  <2> QED BY <2>6, <2>7
<1>7. ASSUME NEW c \in Brokers, BrokerEnds(c)
      PROVE  usage'[t].status = "reserved"
  <2>1. /\ child' = child /\ usage' = usage /\ at' = [at EXCEPT ![c] = "off"]
        /\ at[c] # "off"
    BY <1>7 DEF BrokerEnds, Goto
  <2>2. b = c
    BY <1>1, <1>2, <1>5, <2>1 DEF TypeOK
  <2> QED BY <1>1, <1>2, <2>1, <2>2 DEF LiveInv, Watched, Task
<1>8. ASSUME NEW c \in Brokers, Broker(c) \/ Expire(c) \/ OrphanEnds(c)
      PROVE  FALSE
  <2>1. CASE Accept(c)
    <3>1. /\ at' = [at EXCEPT ![c] = "supervising"]
          /\ \E k : child' = [child EXCEPT ![c] = k]
      BY <2>1 DEF Accept, Goto
    <3>2. b # c
      BY <1>1, <1>2, <3>1 DEF TypeOK
    <3> QED BY <1>1, <1>2, <1>5, <3>1, <3>2 DEF TypeOK
  <2>2. CASE EndSession(c, "recovering") \/ OrphanEnds(c)
    <3>1. /\ child' = [child EXCEPT ![c] = None]
          /\ at' = at \/ at' = [at EXCEPT ![c] = "recovering"]
      BY <2>2 DEF EndSession, OrphanEnds, Goto
    <3>2. b # c
      BY <1>1, <1>2, <3>1 DEF TypeOK
    <3> QED BY <1>1, <1>2, <1>5, <3>1, <3>2 DEF TypeOK
  <2>3. CASE StartBroker(c) \/ Recover(c) \/ EndRecovery(c) \/ Decline(c)
    <3>1. /\ child' = child
          /\ at' = at \/ \E x \in {"recovering", "listening"} : at' = [at EXCEPT ![c] = x]
      BY <2>3 DEF StartBroker, Recover, EndRecovery, Decline, Goto, linkVars
    <3> QED BY <1>1, <1>2, <1>5, <3>1 DEF TypeOK
  <2> QED BY <1>8, <2>1, <2>2, <2>3 DEF Broker, Reap, Expire, Reaped
<1>9. ~UNCHANGED <<at, child>>
  BY <1>2, <1>5
<1>10. CASE Agent \/ AgentAborts \/ NextMonth \/ UNCHANGED vars
  BY <1>9, <1>10 DEF Agent, Hear, Answer, NoMore, AgentAborts, AgentReturns, NextMonth,
     linkVars, vars
<1>11. ASSUME NEW u \in Tasks, Connect(u) PROVE FALSE
  BY <1>9, <1>11 DEF Connect
<1> QED BY <1>6, <1>7, <1>8, <1>10, <1>11 DEF Next

(* How the account is seen in the ledger.                                   *)
Sessions == [t \in Tasks |-> SessionOf(t)]
Real     == {t \in Recorded : usage[t].provider = "openai"}
Charges  == [t \in Tasks |-> TurnsOf(t)]
money    == <<Sessions, Real, Charges, month, paid, Adrift>>
MoneyAct ==
    \/ Money!NextMonth \/ Money!Watch
    \/ \E t \in Tasks : \/ Money!Open(t) \/ Money!Charge(t) \/ Money!Pay(t) \/ Money!Learn(t)
                       \/ Money!Complete(t) \/ Money!Close(t)

LEMMA InitMoney == Init => Money!Init
<1> SUFFICES ASSUME Init PROVE Money!Init
  OBVIOUS
<1>1. Recorded = {}
  BY DEF Init, Recorded
<1>2. \A t \in Tasks : SessionOf(t) = "none" /\ TurnsOf(t) = <<>>
  BY <1>1 DEF SessionOf, TurnsOf, Recorded
<1>3. Adrift = {}
  BY DEF Init, Adrift, InSession
<1> QED BY <1>1, <1>2, <1>3 DEF Init, Money!Init

LEMMA SameCharges ==
    ASSUME NEW m
    PROVE  Money!Charged(m) = Charged(m, "openai")
<1>1. \A t \in Recorded : Charges[t] = usage[t].turns
  BY DEF Charges, TurnsOf, Recorded
<1> QED BY <1>1 DEF Money!Charged, Charged, Charges

LEMMA SameSize ==
    ASSUME NEW S
    PROVE  Money!Cardinality(S) = Cardinality(S)
  BY DEF Money!Cardinality, Cardinality

(* Only one task's part of the account changes with its record.             *)
LEMMA OneSession ==
    ASSUME NEW t \in Tasks, Only(t)
    PROVE  /\ Sessions' = [Sessions EXCEPT ![t] = SessionOf(t)']
           /\ Charges' = [Charges EXCEPT ![t] = TurnsOf(t)']
           /\ \A u \in Tasks \ {t} : u \in Real' <=> u \in Real
           /\ t \in Recorded'
<1>1. \A u \in Tasks \ {t} : usage'[u] = usage[u]
  BY DEF Only
<1>2. \A u \in Tasks \ {t} : SessionOf(u)' = SessionOf(u) /\ TurnsOf(u)' = TurnsOf(u)
  BY <1>1 DEF SessionOf, TurnsOf, Recorded
<1>3. Sessions' = [Sessions EXCEPT ![t] = SessionOf(t)']
  BY <1>2 DEF Sessions
<1>4. Charges' = [Charges EXCEPT ![t] = TurnsOf(t)']
  BY <1>2 DEF Charges
<1>5. \A u \in Tasks \ {t} : u \in Real' <=> u \in Real
  BY <1>1 DEF Real, Recorded
<1>6. t \in Recorded'
  BY NoneIsNoRecord DEF Only, Recorded
<1> QED BY <1>3, <1>4, <1>5, <1>6

LEMMA SameReal ==
    ASSUME NEW t \in Tasks, Only(t), usage[t] # None, usage'[t].provider = usage[t].provider
    PROVE  Real' = Real
<1>1. t \in Real' <=> t \in Real
  BY OneSession DEF Real, Recorded
<1>2. Real \subseteq Tasks /\ Real' \subseteq Tasks
  BY DEF Real, Recorded
<1> QED BY <1>1, <1>2, OneSession

LEMMA RecordIsMoney ==
    ASSUME IInv, NEW t \in Tasks, RecordStep(t)
    PROVE  MoneyAct
<1>1. /\ TypeOK /\ Only(t) /\ UNCHANGED <<paid, month>>
      /\ \/ Opened(t) \/ (Usable(t) /\ (Spent(t) \/ Settled(t)))
         \/ (Closed(t) /\ Finished(t))
  BY DEF IInv, RecordStep
<1>2. /\ Sessions' = [Sessions EXCEPT ![t] = SessionOf(t)']
      /\ Charges' = [Charges EXCEPT ![t] = TurnsOf(t)']
      /\ \A u \in Tasks \ {t} : u \in Real' <=> u \in Real
      /\ t \in Recorded' /\ TurnsOf(t)' = usage'[t].turns
  BY <1>1, OneSession DEF TurnsOf, Recorded
<1>3. Sessions[t] = SessionOf(t) /\ Charges[t] = TurnsOf(t)
  BY DEF Sessions, Charges
<1>6. Usable(t) => Money!Usable(t)
  BY <1>3 DEF Usable, Money!Usable, SessionOf, Recorded, Sessions
<1>4. CASE Opened(t)
  <2>1. SessionOf(t) = "none" /\ TurnsOf(t) = <<>> /\ t \notin Real
    BY <1>4 DEF Opened, SessionOf, TurnsOf, Recorded, Real
  <2>2. SessionOf(t)' = "open" /\ TurnsOf(t)' = <<>>
    BY <1>2, <1>4 DEF Opened, SessionOf, Recorded
  <2>3. Charges' = Charges
    BY <1>2, <1>3, <2>1, <2>2 DEF Charges
  <2>4. Real' = Real \/ Real' = Real \cup {t}
    <3>1. Real \subseteq Tasks /\ Real' \subseteq Tasks
      BY DEF Real, Recorded
    <3>2. CASE t \in Real'
      <4>1. Real' = Real \cup {t}
        BY <1>2, <3>1, <3>2
      <4> QED BY <4>1
    <3>3. CASE t \notin Real'
      <4>1. Real' = Real
        BY <1>2, <2>1, <3>1, <3>3
      <4> QED BY <4>1
    <3> QED BY <3>2, <3>3
  <2>5. Money!Open(t)
    BY <1>1, <1>2, <1>3, <2>1, <2>2, <2>3, <2>4 DEF Money!Open, Money!Become, Sessions, Real, Charges
  <2> QED BY <2>5 DEF MoneyAct
<1>5. CASE usage[t] # None
  <2>1. /\ t \in Recorded /\ TurnsOf(t) = usage[t].turns
        /\ usage[t].turns \in Seq(Turns) /\ Len(usage[t].turns) \in Nat
    BY <1>1, <1>5, RecordIsOne DEF TurnsOf, Recorded
  <2>2. Real' = Real
    BY <1>1, <1>5, SameReal DEF Opened, Spent, Settled, Closed
  <2>3. CASE Usable(t) /\ Spent(t)
    <3>1. SessionOf(t)' = SessionOf(t)
      BY <1>2, <2>1, <2>3 DEF Spent, SessionOf, Recorded
    <3>2. Sessions' = Sessions
      BY <1>2, <1>3, <3>1 DEF Sessions
    <3>3. Charges' = [Charges EXCEPT ![t] =
                        Append(@, [month |-> month, status |-> "outcome_unknown"])]
      BY <1>2, <1>3, <2>1, <2>3 DEF Spent, Charges
    <3>4. /\ Len(TurnsOf(t)) < MaxTurns
          /\ Money!Fits(Len(TurnsOf(t)) + 1, TaskBudget)
          /\ t \in Real => Money!Fits(Cardinality(Money!Charged(month)) + 1, MonthBudget)
      BY <2>1, <2>3, SameCharges DEF Spent, Affordable, Within, Real, Money!Fits
    <3>5. /\ Len(Charges[t]) < MaxTurns
          /\ Money!Fits(Len(Charges[t]) + 1, TaskBudget)
          /\ t \in Real => Money!Fits(Money!Cardinality(Money!Charged(month)) + 1, MonthBudget)
          /\ UNCHANGED <<Sessions, Real, month, paid>>
      BY <1>1, <1>3, <2>2, <3>1, <3>2, <3>4, SameSize
    <3>6. Money!Charge(t)
      BY <1>6, <2>3, <3>3, <3>5 DEF Money!Charge, Sessions, Real, Charges
    <3> QED BY <3>6 DEF MoneyAct
  <2>4. CASE Usable(t) /\ Settled(t)
    <3> DEFINE old == usage[t].turns
               n   == Len(old)
               last == [old[n] EXCEPT !.status = "usage_received"]
    <3>1. SessionOf(t)' = SessionOf(t)
      BY <1>2, <2>1, <2>4 DEF Settled, SessionOf, Recorded
    <3>2. Sessions' = Sessions
      BY <1>2, <1>3, <3>1 DEF Sessions
    <3>3. usage'[t].turns = [old EXCEPT ![n] = last]
      <4>1. usage'[t].turns \in Seq(Turns) /\ usage'[t] \in Records
        BY <1>1 DEF Only, Records
      <4>2. n >= 1 /\ Len(usage'[t].turns) = n /\ n \in 1..n
        BY <2>1, <2>4 DEF Settled
      <4>3. usage'[t].turns[n] \in Turns /\ old[n] \in Turns
        BY <2>1, <4>1, <4>2, ElementOfSeq
      <4>4. usage'[t].turns[n] = last
        BY <2>4, <4>3 DEF Settled, Turns
      <4>5. \A i \in 1..(n - 1) : usage'[t].turns[i] = old[i]
        BY <2>4 DEF Settled
      <4>6. \A i \in 1..n : i = n \/ i \in 1..(n - 1)
        BY <2>1
      <4>7. /\ usage'[t].turns = [i \in 1..n |-> usage'[t].turns[i]]
            /\ old = [i \in 1..n |-> old[i]]
        BY <2>1, <4>1, <4>2
      <4> HIDE DEF last, old, n
      <4> QED BY <4>4, <4>5, <4>6, <4>7
    <3>4. Charges' = [Charges EXCEPT ![t][Len(Charges[t])].status = "usage_received"]
      <4>1. Charges[t] = old /\ Charges' = [Charges EXCEPT ![t] = [old EXCEPT ![n] = last]]
        BY <1>2, <1>3, <2>1, <3>3
      <4> QED BY <4>1
    <3>5. TurnsOf(t) # <<>>
      BY <2>1, <2>4 DEF Settled
    <3>6. Money!Learn(t)
      BY <1>1, <1>3, <1>6, <2>2, <2>4, <3>2, <3>4, <3>5 DEF Money!Learn, Sessions, Real, Charges
    <3> QED BY <3>6 DEF MoneyAct
  <2>5. CASE Closed(t) /\ Finished(t)
    <3>1. Charges' = Charges
      BY <1>2, <1>3, <2>1, <2>5 DEF Closed, Charges
    <3>2. SessionOf(t) \in {"open", "completed", "closed"}
      BY <2>1 DEF SessionOf, Recorded
    <3>3. CASE usage'[t].status = "reasoning_completed"
      <4>1. Money!Usable(t) /\ SessionOf(t)' = "completed"
        BY <1>2, <1>6, <2>1, <2>5, <3>3 DEF Finished, SessionOf, Recorded
      <4>2. \A i \in DOMAIN TurnsOf(t) : TurnsOf(t)[i].status = "usage_received"
        BY <2>1, <2>5, <3>3 DEF Finished, Accounted
      <4>3. Money!Complete(t)
        BY <1>1, <1>2, <1>3, <2>2, <3>1, <4>1, <4>2
           DEF Money!Complete, Money!Become, Sessions, Real, Charges
      <4> QED BY <4>3 DEF MoneyAct
    <3>4. CASE usage'[t].status # "reasoning_completed"
      <4>1. SessionOf(t)' = "closed"
        BY <1>2, <2>5, <3>4 DEF Closed, SessionOf, Recorded
      <4>2. CASE SessionOf(t) = "closed"
        <5>1. Sessions' = Sessions
          BY <1>2, <1>3, <4>1, <4>2 DEF Sessions
        <5> QED BY <1>1, <2>2, <3>1, <5>1 DEF MoneyAct, Money!Watch, Sessions, Real, Charges
      <4>3. CASE SessionOf(t) # "closed"
        <5>1. Money!Close(t)
          BY <1>1, <1>2, <1>3, <2>2, <3>1, <3>2, <4>1, <4>3
             DEF Money!Close, Money!Become, Sessions, Real, Charges
        <5> QED BY <5>1 DEF MoneyAct
      <4> QED BY <4>2, <4>3
    <3> QED BY <3>3, <3>4
  <2> QED BY <1>1, <1>5, <2>3, <2>4, <2>5 DEF Opened
<1> QED BY <1>1, <1>4, <1>5 DEF Spent, Settled, Closed

LEMMA NextMoney == IInv /\ [Next]_vars => [Money!Next]_money
<1> SUFFICES ASSUME IInv, [Next]_vars
             PROVE  Money!Next
  OBVIOUS
<1>1. MoneyStep
  BY NextSpends
<1>2. ASSUME UNCHANGED usage
      PROVE  UNCHANGED <<Sessions, Real, Charges>>
  BY <1>2 DEF Sessions, Real, Charges, SessionOf, TurnsOf, Recorded
<1>3. ASSUME MonthStep PROVE MoneyAct
  <2>1. UNCHANGED <<Sessions, Real, Charges, paid>>
    BY <1>2, <1>3 DEF MonthStep
  <2>2. CASE month' = month
    BY <2>1, <2>2 DEF MoneyAct, Money!Watch, Sessions, Real, Charges
  <2>3. CASE Money!NextMonth
    BY <2>3 DEF MoneyAct
  <2> QED BY <1>3, <2>2, <2>3 DEF MonthStep
<1>4. ASSUME NEW t \in Tasks, PaidStep(t) PROVE MoneyAct
  <2>1. /\ Money!Usable(t) /\ Charges[t] = usage[t].turns
    BY <1>4 DEF PaidStep, Usable, Money!Usable, SessionOf, TurnsOf, Recorded, Sessions, Charges
  <2>2. Money!Pay(t)
    BY <1>2, <1>4, <2>1 DEF PaidStep, Money!Pay, Sessions, Real, Charges
  <2> QED BY <2>2 DEF MoneyAct
<1>5. ASSUME NEW t \in Tasks, RecordStep(t) PROVE MoneyAct
  BY <1>5, RecordIsMoney
<1>6. MoneyAct
  BY <1>1, <1>3, <1>4, <1>5 DEF MoneyStep
<1>7. Adrift' \ Adrift \subseteq {t \in Tasks : Sessions'[t] = "open"}
  BY NextDrifts DEF AdriftStep, Sessions, SessionOf, Recorded
<1> QED BY <1>6, <1>7 DEF MoneyAct, Money!Next, Sessions

(* Only a session that is open, or one whose child was left alone with it,  *)
(* is charged.                                                              *)
LEMMA ChargedInSession ==
    ASSUME IInv, [Next]_vars, NEW t \in Recorded, usage'[t].turns # usage[t].turns
    PROVE  usage[t].status = "reserved" \/ t \in Adrift
<1>1. MoneyStep /\ t \in Tasks /\ usage[t] # None
  BY NextSpends DEF Recorded
<1>2. PICK u \in Tasks : RecordStep(u)
  BY <1>1 DEF MoneyStep, MonthStep, PaidStep
<1>3. u = t
  BY <1>1, <1>2 DEF RecordStep, Only
<1> QED BY <1>1, <1>2, <1>3 DEF RecordStep, Opened, Closed, Usable

-----------------------------------------------------------------------------
(* The theorems.                                                            *)

(* Every state is of its type: a ledger record has at most MaxTurns         *)
(* reservations for as many requests (inference_usage.reserve).             *)
THEOREM TypeCorrect == Spec => []TypeOK
  BY InitIInv, NextIInv, IInvSafe, PTL DEF Spec

(* No run of the broker spends more than a month's or a task's budget, for  *)
(* any number of sessions, crashes and recoveries: every paid request has a *)
(* reservation of its own (reserve and the child's loop).                   *)
THEOREM BudgetsAreKept == Spec => []BudgetsHold
  BY InitIInv, NextIInv, IInvSafe, PTL DEF Spec

(* A session that can still reserve or request is the only one of its task, *)
(* and its record says reserved: no recovery settles it, unless its child   *)
(* outlived its broker and another could be started beside systemd's unit   *)
(* (serve's lock, supervise and the control group of the unit).             *)
THEOREM LiveSessionsAreReserved == Spec => []LiveSessionIsReserved
  BY InitIInv, NextIInv, IInvSafe, PTL DEF Spec

(* The runner is told of a completion only after the ledger says so and has *)
(* the usage of every turn (loop, complete).                                *)
THEOREM CompletionsAreAccounted == Spec => []CompleteIsAccounted
  BY InitIInv, NextIInv, IInvSafe, PTL DEF Spec

(* A broker of systemd's unit, where no other is started, has nothing left  *)
(* reserved when it listens (recover).                                      *)
THEOREM ListeningBrokersAreSettled == Spec => []ListeningIsSettled
  BY InitIInv, NextIInv, IInvSafe, PTL DEF Spec

(* No step takes a charge back or opens a settled session again, neither    *)
(* the child's calls nor recovery, and only a child that outlived its       *)
(* broker adds to one (inference_usage.py).                                 *)
THEOREM NoChargeIsTakenBack == Spec => ChargesStay
<1>1. ASSUME IInv, [Next]_vars
      PROVE  \A t \in Recorded :
               /\ Kept(t)
               /\ usage[t].status = "reserved" \/ usage'[t].turns = usage[t].turns \/ t \in Adrift
  BY <1>1, StepKeepsCharges, ChargedInSession
<1>2. IInv /\ [Next]_vars =>
        [\A t \in Recorded :
         LET old == usage[t]
             new == usage'[t]
             n   == Len(old.turns)
         IN  /\ new # None /\ new.provider = old.provider
             /\ Len(new.turns) \in {n, n + 1}
             /\ \A i \in 1..n : \/ new.turns[i] = old.turns[i]
                                \/ i = n /\ new.turns[i].month = old.turns[i].month
             /\ old.status # "reserved" =>
                  new.status # "reserved" /\ (new.turns = old.turns \/ t \in Adrift)
        ]_vars
  BY <1>1 DEF Kept
<1> QED BY <1>2, InitIInv, NextIInv, PTL DEF Spec, ChargesStay

(* The agent's limit of messages is never the end of a session: it leaves   *)
(* room for every turn and the last message (BrokerAgent.run).              *)
THEOREM SessionEndsAreHeard == Spec => []EndIsHeard
<1>1. Init => IInv /\ HearInv
  BY InitIInv, InitHearing
<1>2. IInv /\ HearInv /\ [Next]_vars => (IInv /\ HearInv)'
  BY NextIInv, NextHearing
<1>3. IInv /\ HearInv => EndIsHeard
  BY DEF HearInv, EndIsHeard
<1> QED BY <1>1, <1>2, <1>3, PTL DEF Spec

(* The usage ledger implements SpendingAccount: whatever dies, is left      *)
(* alone and recovers, every paid request has a charge of its own within    *)
(* the budgets, no charge is taken back and no session opened twice, and    *)
(* one that was closed is charged only by the child that was left alone     *)
(* with it while it was open (inference_usage.py, and serve and supervise). *)
THEOREM LedgerIsAnAccount == Spec => ImplementsAccount
<1>1. IInv /\ [Next]_vars =>
        [Money!Next]_<<[t \in Tasks |-> SessionOf(t)],
                       {t \in Recorded : usage[t].provider = "openai"},
                       [t \in Tasks |-> TurnsOf(t)], month, paid, Adrift>>
  BY NextMoney DEF money, Sessions, Real, Charges
<1> QED BY <1>1, InitIInv, NextIInv, InitMoney, PTL DEF Spec, ImplementsAccount, Money!Spec
=============================================================================
