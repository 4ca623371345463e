-------------------------- MODULE WorkHandoffProofs --------------------------
(* The safety properties of WorkHandoff, for any number of callers, request *)
(* IDs, tasks and contracts, and any capacity.                              *)
EXTENDS WorkHandoff, TLAPS

(* A task that the store knows has a contract.                              *)
StoreInv == \A t \in Tasks : task[t] # "unknown" => payload[t] # None

(* A call's temporary file and its message; what it has acknowledged.       *)
Acknowledged == {"handoff_pending", "answered", "waiting"}
CallFits(c) ==
    /\ call[c].at # "new" => call[c].id \in Ids /\ call[c].msg \in Messages
    /\ call[c].at \in {"new", "checking", "writing"} => temp[c] = "none"
    /\ temp[c] = "linked" => /\ call[c].at \in {"unlinking", "dead"}
                             /\ inbox[call[c].id] = call[c].msg
    /\ call[c].at \in Acknowledged =>
         /\ inbox[call[c].id] = call[c].msg
         /\ \A d \in Calls : call[d].id = call[c].id => temp[d] # "linked"
ClientInv ==
    /\ \A c \in Calls : CallFits(c)
    /\ \A c, d \in Calls : temp[c] = "linked" /\ temp[d] = "linked"
                             /\ call[c].id = call[d].id => c = d

(* A response is true of a store.                                           *)
Truth(r, phase, flagged, contract) ==
    LET t == r.to.task
    IN  /\ r.outcome = "completed" => phase[t] # "unknown"
        /\ r.outcome = "completed" /\ r.to.op = "submit" => contract[t] = r.to.payload
        /\ r.outcome = "conflict" =>
               phase[t] # "unknown" /\ contract[t] \notin {r.to.payload, None}
        /\ r.outcome = "completed" /\ r.to.op = "cancel" =>
               t \in flagged \/ phase[t] \in Store!Outcomes
        /\ r.status \in Store!Outcomes => phase[t] = r.status
ReplyFits(r, m) == r.to = m /\ Truth(r, task, asked, payload)

ReceiverInv ==
    /\ current # None => inbox[current] # None
    /\ at \in {"operating", "publishing", "linking"} => outbox[current] = None
    /\ reply # None => ReplyFits(reply, inbox[current])
OutboxInv == \A id \in Ids : outbox[id] # None => ReplyFits(outbox[id], inbox[id])

IInv == TypeOK /\ StoreInv /\ ClientInv /\ ReceiverInv /\ OutboxInv

-----------------------------------------------------------------------------
(* The store.                                                               *)
LEMMA NoneIsNothing ==
    /\ None \notin Tasks /\ None \notin Payloads /\ None \notin Ids
    /\ None \notin Messages /\ None \notin Replies /\ Capacity \in Nat
  BY HandoffAssumption, NoneIsNoMessage

StoreType ==
    /\ task \in [Tasks -> Store!Phases] /\ asked \subseteq Tasks
    /\ payload \in [Tasks -> Payloads \cup {None}]
    /\ orphaned \subseteq Tasks

(* What a step of anyone does to the store.                                 *)
StoreMoves ==
    /\ asked \subseteq asked'
    /\ \A t \in Tasks :
         /\ task[t] # "unknown" => task'[t] # "unknown" /\ payload'[t] = payload[t]
         /\ task[t] \in Store!Outcomes => task'[t] = task[t]

StoreKeeps == StoreType' /\ StoreInv' /\ StoreMoves

LEMMA Names ==
    /\ Store!Outcomes \subseteq Store!Phases /\ Store!Held \subseteq Store!Phases
    /\ "unknown" \in Store!Phases /\ "queued" \in Store!Phases
    /\ "unknown" \notin Store!Outcomes /\ "queued" \notin Store!Outcomes
    /\ "cancelled" \in Store!Outcomes /\ "held" \in Store!Held /\ "invoked" \in Store!Held
    /\ Store!Held \cap Store!Outcomes = {} /\ "unknown" \notin Store!Held
  BY DEF Store!Outcomes, Store!Phases, Store!Held

LEMMA Settled ==
    ASSUME NEW phase \in Store!Phases, NEW outcome \in Store!Reachable(phase)
    PROVE  phase \notin Store!Outcomes /\ phase # "unknown" /\ outcome \in Store!Outcomes
<1>1. CASE phase = "queued"
  <2>1. outcome = "failed"
    BY <1>1, Zenon DEF Store!Reachable
  <2> QED BY <1>1, <2>1 DEF Store!Outcomes
<1>2. CASE phase = "held"
  <2>1. outcome \in Store!Outcomes
    BY <1>2, Zenon DEF Store!Reachable
  <2> QED BY <1>2, <2>1 DEF Store!Outcomes
<1>3. CASE phase = "invoked"
  <2>1. outcome \in Store!Outcomes
    BY <1>3, Zenon DEF Store!Reachable
  <2> QED BY <1>3, <2>1 DEF Store!Outcomes
<1>4. CASE phase \notin {"queued", "held", "invoked"}
  BY <1>4, Zenon DEF Store!Reachable
<1> QED BY <1>1, <1>2, <1>3, <1>4

LEMMA StoreRests ==
    ASSUME StoreType, StoreInv, UNCHANGED <<task, asked, payload>>, orphaned' \subseteq Tasks
    PROVE  StoreKeeps
  BY DEF StoreKeeps, StoreType, StoreInv, StoreMoves

LEMMA AdmitKeeps ==
    ASSUME StoreType, StoreInv, NEW t \in Tasks, NEW p \in Payloads, Store!Admit(t, p)
    PROVE  StoreKeeps /\ task'[t] = "queued" /\ payload'[t] = p
<1>1. /\ task[t] = "unknown" /\ task' = [task EXCEPT ![t] = "queued"] /\ asked' = asked
      /\ payload' = [payload EXCEPT ![t] = p] /\ orphaned' = orphaned
  BY DEF Store!Admit
<1>2. \A u \in Tasks : /\ task'[u] = IF u = t THEN "queued" ELSE task[u]
                       /\ payload'[u] = IF u = t THEN p ELSE payload[u]
  BY <1>1 DEF StoreType
<1>3. StoreType'
  BY <1>1, Names DEF StoreType
<1>4. StoreInv'
  BY <1>2, NoneIsNothing DEF StoreInv
<1>5. StoreMoves
  BY <1>1, <1>2, Names DEF StoreMoves
<1> QED BY <1>2, <1>3, <1>4, <1>5 DEF StoreKeeps

(* A cancellation, or a step of the worker.                                 *)
LEMMA PhaseKeeps ==
    ASSUME StoreType, StoreInv, NEW t \in Tasks, task[t] # "unknown",
           task[t] \notin Store!Outcomes,
           NEW phase \in Store!Phases \ {"unknown"}, task' = [task EXCEPT ![t] = phase],
           asked \subseteq asked', asked' \subseteq Tasks,
           UNCHANGED <<payload, orphaned>>
    PROVE  StoreKeeps
<1>1. \A u \in Tasks : task'[u] = IF u = t THEN phase ELSE task[u]
  BY DEF StoreType
<1>2. StoreType'
  BY DEF StoreType
<1>3. StoreInv'
  BY <1>1 DEF StoreInv
<1>4. StoreMoves
  BY <1>1 DEF StoreMoves
<1> QED BY <1>2, <1>3, <1>4 DEF StoreKeeps

LEMMA CancelKeeps ==
    ASSUME StoreType, StoreInv, NEW t \in Tasks, Store!Withdraw(t) \/ Store!Ask(t)
    PROVE  StoreKeeps /\ t \in asked'
<1>1. CASE Store!Withdraw(t)
  <2>1. /\ task[t] = "queued" /\ task' = [task EXCEPT ![t] = "cancelled"]
        /\ asked' = asked \cup {t} /\ asked' \subseteq Tasks
        /\ UNCHANGED <<payload, orphaned>>
    BY <1>1 DEF Store!Withdraw, StoreType
  <2>2. /\ task[t] # "unknown" /\ task[t] \notin Store!Outcomes
        /\ "cancelled" \in Store!Phases \ {"unknown"}
    BY <2>1, Names
  <2> QED BY <2>1, <2>2, PhaseKeeps
<1>2. CASE Store!Ask(t)
  <2>1. task' = task /\ asked' = asked \cup {t} /\ UNCHANGED <<payload, orphaned>>
    BY <1>2 DEF Store!Ask
  <2> QED BY <2>1 DEF StoreKeeps, StoreType, StoreInv, StoreMoves
<1> QED BY <1>1, <1>2

LEMMA WorkerKeeps ==
    ASSUME StoreType, StoreInv, NEW t \in Tasks,
           Store!Hold(t) \/ Store!Invoke(t) \/ Store!Settle(t)
    PROVE  StoreKeeps
<1>1. /\ task[t] \in Store!Phases /\ asked' = asked /\ asked \subseteq Tasks
      /\ UNCHANGED <<payload, orphaned>>
  BY DEF StoreType, Store!Hold, Store!Invoke, Store!Settle
<1>2. CASE Store!Hold(t)
  <2>1. task[t] = "queued" /\ task' = [task EXCEPT ![t] = "held"]
    BY <1>2 DEF Store!Hold
  <2>2. /\ task[t] # "unknown" /\ task[t] \notin Store!Outcomes
        /\ "held" \in Store!Phases \ {"unknown"}
    BY <2>1, Names
  <2> QED BY <1>1, <2>1, <2>2, PhaseKeeps
<1>3. CASE Store!Invoke(t)
  <2>1. task[t] = "held" /\ task' = [task EXCEPT ![t] = "invoked"]
    BY <1>3 DEF Store!Invoke
  <2>2. /\ task[t] # "unknown" /\ task[t] \notin Store!Outcomes
        /\ "invoked" \in Store!Phases \ {"unknown"}
    BY <2>1, Names
  <2> QED BY <1>1, <2>1, <2>2, PhaseKeeps
<1>4. CASE Store!Settle(t)
  <2>1. PICK outcome \in Store!Reachable(task[t]) : task' = [task EXCEPT ![t] = outcome]
    BY <1>4 DEF Store!Settle
  <2>2. /\ task[t] # "unknown" /\ task[t] \notin Store!Outcomes
        /\ outcome \in Store!Outcomes
    BY <1>1, Settled
  <2>3. outcome \in Store!Phases \ {"unknown"}
    BY <2>2, Names
  <2> QED BY <1>1, <2>1, <2>2, <2>3, PhaseKeeps
<1> QED BY <1>2, <1>3, <1>4

(* A true response stays true.                                              *)
LEMMA TruthStays ==
    ASSUME StoreType, StoreInv, StoreMoves, NEW r \in Replies,
           Truth(r, task, asked, payload)
    PROVE  Truth(r, task', asked', payload')
<1>1. r.to \in Messages /\ r.to.task \in Tasks
  BY DEF Replies, Messages
<1> DEFINE t == r.to.task
<1>2. /\ task[t] # "unknown" => task'[t] # "unknown" /\ payload'[t] = payload[t]
      /\ task[t] \in Store!Outcomes => task'[t] = task[t]
      /\ asked \subseteq asked'
  BY <1>1 DEF StoreMoves
<1>3. r.status \in Store!Outcomes => r.status # "unknown"
  BY Names
<1> QED BY <1>2, <1>3 DEF Truth

-----------------------------------------------------------------------------
(* What a step leaves of the rest.                                          *)
Stages == {"down", "idle", "scanning", "operating", "publishing", "linking", "unlinking"}
ClientType ==
    /\ inbox \in [Ids -> Messages \cup {None}]
    /\ temp \in [Calls -> {"none", "written", "linked"}]
    /\ call \in [Calls -> [at : Steps \cup Ends, id : Ids \cup {None},
                           msg : Messages \cup {None}]]
ReceiverType ==
    /\ outbox \in [Ids -> Replies \cup {None}]
    /\ strays \in Nat /\ torn \subseteq Ids
    /\ at \in Stages
    /\ names \subseteq Ids
    /\ current \in Ids \cup {None} /\ reply \in Replies \cup {None}
    /\ at \in {"operating", "publishing", "linking", "unlinking"} <=> current # None
    /\ at \in {"publishing", "linking", "unlinking"} <=> reply # None

LEMMA Types == TypeOK <=> StoreType /\ ClientType /\ ReceiverType
  BY DEF TypeOK, StoreType, ClientType, ReceiverType, Stages

InboxKept  == \A id \in Ids : inbox[id] # None => inbox'[id] = inbox[id]
OutboxKept == \A id \in Ids : outbox[id] # None => outbox'[id] = outbox[id]
ClientKeeps   == ClientType' /\ ClientInv' /\ InboxKept
ReceiverKeeps == ReceiverType' /\ ReceiverInv' /\ OutboxInv' /\ OutboxKept
Keeps == StoreKeeps /\ ClientKeeps /\ ReceiverKeeps

LEMMA ClientRests ==
    ASSUME IInv, UNCHANGED clientVars
    PROVE  ClientKeeps
<1>1. ClientType /\ ClientInv
  BY Types DEF IInv
<1>2. UNCHANGED <<inbox, temp, call>>
  BY DEF clientVars
<1> QED BY <1>1, <1>2 DEF ClientKeeps, ClientType, ClientInv, CallFits, InboxKept

(* A response that fits its request goes on fitting it.                     *)
LEMMA FitStays ==
    ASSUME IInv, StoreKeeps, InboxKept, NEW id \in Ids, NEW r \in Replies,
           ReplyFits(r, inbox[id])
    PROVE  r.to = inbox'[id] /\ Truth(r, task', asked', payload')
<1>1. StoreType /\ StoreInv /\ StoreMoves
  BY Types DEF IInv, StoreKeeps
<1>2. r.to = inbox[id] /\ Truth(r, task, asked, payload)
  BY DEF ReplyFits
<1>3. Truth(r, task', asked', payload')
  BY <1>1, <1>2, TruthStays
<1>4. inbox[id] # None
  <2>1. r.to \in Messages
    BY DEF Replies
  <2> QED BY <1>2, <2>1, NoneIsNothing
<1> QED BY <1>2, <1>3, <1>4 DEF InboxKept

LEMMA OutboxRests ==
    ASSUME IInv, StoreKeeps, InboxKept, UNCHANGED outbox
    PROVE  OutboxInv' /\ OutboxKept
<1>1. SUFFICES ASSUME NEW id \in Ids, outbox[id] # None
               PROVE  outbox[id].to = inbox'[id]
                      /\ Truth(outbox[id], task', asked', payload')
  BY DEF OutboxInv, ReplyFits, OutboxKept
<1>2. outbox[id] \in Replies /\ ReplyFits(outbox[id], inbox[id])
  BY <1>1, Types DEF IInv, OutboxInv, ReceiverType
<1> QED BY <1>2, FitStays

LEMMA ReceiverRests ==
    ASSUME IInv, StoreKeeps, InboxKept, UNCHANGED receiverVars
    PROVE  ReceiverKeeps
<1>1. UNCHANGED <<outbox, strays, torn, at, names, current, reply>>
  BY DEF receiverVars
<1>2. ReceiverType /\ ReceiverInv
  BY Types DEF IInv
<1>3. OutboxInv' /\ OutboxKept
  BY <1>1, OutboxRests
<1>4. ReceiverType'
  BY <1>1, <1>2 DEF ReceiverType
<1>5. current # None => inbox'[current] # None
  BY <1>2 DEF ReceiverType, ReceiverInv, InboxKept
<1>6. ASSUME reply # None
      PROVE  reply.to = inbox'[current] /\ Truth(reply, task', asked', payload')
  <2>1. current \in Ids /\ reply \in Replies /\ ReplyFits(reply, inbox[current])
    BY <1>2, <1>6 DEF ReceiverType, ReceiverInv
  <2> QED BY <2>1, FitStays
<1>7. ReceiverInv'
  BY <1>1, <1>2, <1>5, <1>6 DEF ReceiverInv, ReplyFits
<1> QED BY <1>3, <1>4, <1>7 DEF ReceiverKeeps

LEMMA StoreStays ==
    ASSUME IInv, UNCHANGED storeVars
    PROVE  StoreKeeps
<1>1. StoreType /\ StoreInv
  BY Types DEF IInv
<1>2. UNCHANGED <<task, asked, payload, orphaned>> /\ orphaned' \subseteq Tasks
  BY <1>1 DEF storeVars, StoreType
<1> QED BY <1>1, <1>2, StoreRests

-----------------------------------------------------------------------------
(* Steps of the callers.                                                    *)
LEMMA Continues ==
    ASSUME IInv, NEW c \in Calls, NEW x \in Steps \cup Ends, Continue(c, x)
    PROVE  /\ call' \in [Calls -> [at : Steps \cup Ends, id : Ids \cup {None},
                                   msg : Messages \cup {None}]]
           /\ call'[c].at = x /\ call'[c].id = call[c].id /\ call'[c].msg = call[c].msg
           /\ \A d \in Calls \ {c} : call'[d] = call[d]
           /\ \A d \in Calls : call'[d].id = call[d].id
<1> DEFINE n == [call[c] EXCEPT !.at = x]
<1>1. call \in [Calls -> [at : Steps \cup Ends, id : Ids \cup {None},
                          msg : Messages \cup {None}]]
  BY Types DEF IInv, ClientType
<1>2. /\ n \in [at : Steps \cup Ends, id : Ids \cup {None}, msg : Messages \cup {None}]
      /\ n.at = x /\ n.id = call[c].id /\ n.msg = call[c].msg
  BY <1>1
<1>3. call' = [call EXCEPT ![c] = n]
  BY <1>1 DEF Continue
<1> HIDE DEF n
<1> QED BY <1>1, <1>2, <1>3

(* A step that neither writes nor links.                                    *)
LEMMA CallGoesOn ==
    ASSUME IInv, NEW c \in Calls, NEW x \in Steps \cup Ends, Continue(c, x),
           UNCHANGED <<inbox, temp>>, call[c].at # "new", x # "new",
           x \in {"checking", "writing"} => temp[c] = "none",
           x = "dead" \/ temp[c] # "linked",
           x \in Acknowledged => call[c].at \in Acknowledged
    PROVE  ClientKeeps
<1>1. ClientType /\ ClientInv
  BY Types DEF IInv
<1>2. /\ call' \in [Calls -> [at : Steps \cup Ends, id : Ids \cup {None},
                              msg : Messages \cup {None}]]
      /\ call'[c].at = x /\ call'[c].id = call[c].id /\ call'[c].msg = call[c].msg
      /\ \A d \in Calls \ {c} : call'[d] = call[d]
      /\ \A d \in Calls : call'[d].id = call[d].id
  BY Continues
<1>3. ClientType'
  BY <1>1, <1>2 DEF ClientType
<1>4. ASSUME NEW d \in Calls PROVE CallFits(d)'
  <2>1. CASE d = c
    BY <1>1, <1>2, <2>1 DEF ClientInv, CallFits
  <2>2. CASE d # c
    BY <1>1, <1>2, <2>2 DEF ClientInv, CallFits
  <2> QED BY <2>1, <2>2
<1>5. ClientInv'
  BY <1>1, <1>2, <1>4 DEF ClientInv
<1> QED BY <1>3, <1>5 DEF ClientKeeps, InboxKept

LEMMA InvokeKeeps ==
    ASSUME IInv, NEW c \in Calls, NEW id \in Ids, NEW m \in Messages, Invoke(c, id, m)
    PROVE  ClientKeeps
<1> DEFINE x == IF inbox[id] = None THEN "checking"
                ELSE IF ~SingleLink(id) THEN "invalid_file"
                ELSE IF inbox[id] = m THEN "waiting" ELSE "rejected"
<1> DEFINE n == [id |-> id, msg |-> m, at |-> x]
<1>1. ClientType /\ ClientInv /\ call[c].at = "new"
  BY Types DEF IInv, Invoke
<1>2. call' = [call EXCEPT ![c] = n] /\ UNCHANGED <<inbox, temp>>
  BY DEF Invoke
<1>3. /\ x \in {"checking", "invalid_file", "waiting", "rejected"}
      /\ x = "waiting" => SingleLink(id) /\ inbox[id] = m
  OBVIOUS
<1> HIDE DEF x
<1>4. /\ n \in [at : Steps \cup Ends, id : Ids \cup {None}, msg : Messages \cup {None}]
      /\ n.at = x /\ n.id = id /\ n.msg = m
  BY <1>3 DEF Steps, Ends
<1> HIDE DEF n
<1>5. ClientType' /\ call'[c] = n /\ \A d \in Calls \ {c} : call'[d] = call[d]
  BY <1>1, <1>2, <1>4 DEF ClientType
<1>6. temp[c] = "none"
  BY <1>1 DEF ClientInv, CallFits
<1>7. CallFits(c)'
  <2>1. x = "waiting" => \A d \in Calls : call'[d].id = id => temp[d] # "linked"
    BY <1>3, <1>5, <1>6 DEF SingleLink
  <2> QED BY <1>2, <1>3, <1>4, <1>5, <1>6, <2>1 DEF CallFits, Acknowledged
<1>8. ASSUME NEW d \in Calls \ {c} PROVE CallFits(d)'
  BY <1>1, <1>2, <1>5, <1>6 DEF ClientInv, CallFits
<1>9. ClientInv'
  BY <1>1, <1>2, <1>5, <1>6, <1>7, <1>8 DEF ClientInv
<1> QED BY <1>2, <1>5, <1>9 DEF ClientKeeps, InboxKept

(* A step that changes the temporary file, but links nothing.               *)
LEMMA TempKeeps ==
    ASSUME IInv, NEW c \in Calls, NEW x \in Steps \cup Ends, Continue(c, x),
           call[c].at # "new", NEW f \in {"none", "written"},
           temp' = [temp EXCEPT ![c] = f], UNCHANGED inbox,
           x \notin {"new", "checking", "writing"},
           x \in Acknowledged => x = "waiting" /\ temp[c] = "linked"
    PROVE  ClientKeeps
<1>1. ClientType /\ ClientInv
  BY Types DEF IInv
<1>2. /\ call' \in [Calls -> [at : Steps \cup Ends, id : Ids \cup {None},
                              msg : Messages \cup {None}]]
      /\ call'[c].at = x /\ call'[c].id = call[c].id /\ call'[c].msg = call[c].msg
      /\ \A d \in Calls \ {c} : call'[d] = call[d]
      /\ \A d \in Calls : call'[d].id = call[d].id
  BY Continues
<1>3. \A d \in Calls : temp'[d] = IF d = c THEN f ELSE temp[d]
  BY <1>1 DEF ClientType
<1>4. ClientType'
  BY <1>1, <1>2 DEF ClientType
<1>5. CallFits(c)'
  <2>1. x \in Acknowledged =>
          /\ inbox[call[c].id] = call[c].msg
          /\ \A d \in Calls : call[d].id = call[c].id => temp'[d] # "linked"
    BY <1>1, <1>3 DEF ClientInv, CallFits
  <2> QED BY <1>1, <1>2, <1>3, <2>1 DEF ClientInv, CallFits
<1>6. ASSUME NEW d \in Calls \ {c} PROVE CallFits(d)'
  BY <1>1, <1>2, <1>3 DEF ClientInv, CallFits
<1>7. ClientInv'
  BY <1>1, <1>2, <1>3, <1>5, <1>6 DEF ClientInv
<1> QED BY <1>4, <1>7 DEF ClientKeeps, InboxKept

LEMMA LinkKeeps ==
    ASSUME IInv, NEW c \in Calls, Link(c)
    PROVE  ClientKeeps
<1>1. ClientType /\ ClientInv /\ call[c].at = "linking" /\ Continue(c, "unlinking")
  BY Types DEF IInv, Link
<1>2. "unlinking" \in Steps \cup Ends
  BY DEF Steps
<1>3. /\ call' \in [Calls -> [at : Steps \cup Ends, id : Ids \cup {None},
                              msg : Messages \cup {None}]]
      /\ call'[c].at = "unlinking" /\ call'[c].id = call[c].id /\ call'[c].msg = call[c].msg
      /\ \A d \in Calls \ {c} : call'[d] = call[d]
      /\ \A d \in Calls : call'[d].id = call[d].id
  BY <1>1, <1>2, Continues
<1>4. call[c].id \in Ids /\ call[c].msg \in Messages /\ temp[c] # "linked"
  BY <1>1 DEF ClientInv, CallFits
<1>5. CASE inbox[call[c].id] # None
  <2>1. UNCHANGED <<inbox, temp>>
    BY <1>5 DEF Link, NameIsFree
  <2> QED BY <1>1, <1>2, <1>4, <2>1, CallGoesOn DEF Acknowledged
<1>6. CASE inbox[call[c].id] = None
  <2>1. /\ inbox' = [inbox EXCEPT ![call[c].id] = call[c].msg]
        /\ temp' = [temp EXCEPT ![c] = "linked"]
    BY <1>6 DEF Link, NameIsFree
  <2>2. /\ \A id \in Ids : inbox'[id] = IF id = call[c].id THEN call[c].msg ELSE inbox[id]
        /\ \A d \in Calls : temp'[d] = IF d = c THEN "linked" ELSE temp[d]
    BY <1>1, <2>1 DEF ClientType
  <2>3. ClientType'
    BY <1>1, <1>3, <1>4, <2>1 DEF ClientType
  <2>4. InboxKept
    BY <1>6, <2>2 DEF InboxKept
  <2>5. ASSUME NEW d \in Calls, temp[d] = "linked" \/ call[d].at \in Acknowledged
        PROVE  call[d].id \in Ids /\ call[d].id # call[c].id
    <3>1. call[d].at # "new" /\ inbox[call[d].id] = call[d].msg
      BY <1>1, <2>5 DEF ClientInv, CallFits, Acknowledged
    <3>2. call[d].id \in Ids /\ call[d].msg \in Messages
      BY <1>1, <3>1 DEF ClientInv, CallFits
    <3> QED BY <1>6, <3>1, <3>2, NoneIsNothing
  <2>6. CallFits(c)'
    BY <1>3, <1>4, <2>2 DEF CallFits, Acknowledged
  <2>7. ASSUME NEW d \in Calls \ {c} PROVE CallFits(d)'
    <3>1. CallFits(d) /\ call'[d] = call[d] /\ temp'[d] = temp[d]
      BY <1>1, <1>3, <2>2 DEF ClientInv
    <3>2. temp[d] = "linked" \/ call[d].at \in Acknowledged =>
            inbox'[call[d].id] = inbox[call[d].id]
      BY <2>2, <2>5
    <3>3. call[d].at \in Acknowledged =>
            \A e \in Calls : call'[e].id = call[d].id => temp'[e] # "linked"
      BY <1>3, <2>2, <2>5, <3>1 DEF CallFits
    <3> QED BY <3>1, <3>2, <3>3 DEF CallFits
  <2>8. ClientInv'
    BY <1>1, <1>3, <2>2, <2>5, <2>6, <2>7 DEF ClientInv
  <2> QED BY <2>3, <2>4, <2>8 DEF ClientKeeps
<1> QED BY <1>5, <1>6

LEMMA CallerKeeps ==
    ASSUME IInv, NEW c \in Calls,
           \/ Client(c) \/ CallFails(c) \/ CallDies(c)
           \/ \E id \in Ids, m \in Messages : Invoke(c, id, m)
    PROVE  ClientKeeps /\ UNCHANGED <<storeVars, receiverVars>>
<1>1. UNCHANGED <<storeVars, receiverVars>>
  BY DEF Client, CheckCapacity, WriteTemporary, Link, Unlink, ReadReply, GiveUp, CallFails,
     CallDies, Invoke
<1>13. SUFFICES ClientKeeps
  BY <1>1
<1>2. ClientInv /\ CallFits(c)
  BY DEF IInv, ClientInv
<1>3. ClientType /\ temp[c] \in {"none", "written", "linked"}
  BY Types DEF IInv, ClientType
<1>4. CASE CheckCapacity(c)
  <2>1. PICK x \in {"rejected", "writing"} : Continue(c, x)
    BY <1>4 DEF CheckCapacity
  <2>2. UNCHANGED <<inbox, temp>> /\ call[c].at = "checking" /\ temp[c] = "none"
    BY <1>2, <1>4 DEF CheckCapacity, CallFits
  <2> QED BY <2>1, <2>2, CallGoesOn DEF Steps, Ends, Acknowledged
<1>5. CASE WriteTemporary(c)
  <2>1. Continue(c, "linking") /\ temp' = [temp EXCEPT ![c] = "written"]
        /\ UNCHANGED inbox /\ call[c].at # "new"
    BY <1>5 DEF WriteTemporary
  <2>2. /\ "linking" \in Steps \cup Ends /\ "written" \in {"none", "written"}
        /\ "linking" \notin {"new", "checking", "writing"} /\ "linking" \notin Acknowledged
    BY DEF Steps, Acknowledged
  <2> QED BY <2>1, <2>2, TempKeeps
<1>6. CASE Link(c)
  BY <1>6, LinkKeeps
<1>7. CASE Unlink(c)
  <2>1. PICK x \in {"waiting", "os_error"} : /\ Continue(c, x)
                                             /\ x = "waiting" => temp[c] = "linked"
    BY <1>7 DEF Unlink
  <2>2. temp' = [temp EXCEPT ![c] = "none"] /\ UNCHANGED inbox /\ call[c].at = "unlinking"
    BY <1>7 DEF Unlink
  <2> QED BY <2>1, <2>2, TempKeeps DEF Steps, Ends, Acknowledged
<1>8. CASE ReadReply(c)
  <2>1. PICK x \in {"answered", "invalid_file"} : Continue(c, x)
    BY <1>8 DEF ReadReply
  <2>2. UNCHANGED <<inbox, temp>> /\ call[c].at = "waiting" /\ temp[c] # "linked"
    BY <1>2, <1>8 DEF ReadReply, CallFits
  <2> QED BY <2>1, <2>2, CallGoesOn DEF Steps, Ends, Acknowledged
<1>9. CASE GiveUp(c)
  <2>1. /\ UNCHANGED <<inbox, temp>> /\ call[c].at = "waiting" /\ temp[c] # "linked"
        /\ Continue(c, "handoff_pending")
    BY <1>2, <1>9 DEF GiveUp, CallFits
  <2> QED BY <2>1, CallGoesOn DEF Steps, Ends, Acknowledged
<1>10. CASE CallFails(c)
  <2>1. Continue(c, "os_error") /\ temp' = [temp EXCEPT ![c] = "none"]
        /\ UNCHANGED inbox /\ call[c].at # "new"
    BY <1>10 DEF CallFails
  <2>2. /\ "os_error" \in Steps \cup Ends /\ "none" \in {"none", "written"}
        /\ "os_error" \notin {"new", "checking", "writing"} /\ "os_error" \notin Acknowledged
    BY DEF Ends, Acknowledged
  <2> QED BY <2>1, <2>2, TempKeeps
<1>11. CASE CallDies(c)
  <2>1. UNCHANGED <<inbox, temp>> /\ call[c].at # "new" /\ Continue(c, "dead")
    BY <1>11 DEF CallDies
  <2> QED BY <2>1, CallGoesOn DEF Steps, Ends, Acknowledged
<1>12. CASE \E id \in Ids, m \in Messages : Invoke(c, id, m)
  BY <1>12, InvokeKeeps
<1> QED BY <1>1, <1>4, <1>5, <1>6, <1>7, <1>8, <1>9, <1>10, <1>11, <1>12 DEF Client

-----------------------------------------------------------------------------
(* Steps of the receiver.                                                   *)
LEMMA ReceiverIsTyped ==
    ASSUME IInv
    PROVE  /\ ReceiverType /\ ReceiverInv /\ OutboxInv /\ StoreType /\ StoreInv
           /\ names \subseteq Ids /\ strays \in Nat /\ torn \subseteq Ids
  BY Types DEF IInv, ReceiverType

(* A step after which the receiver has no request.                          *)
LEMMA IdleKeeps ==
    ASSUME IInv, StoreKeeps, InboxKept, UNCHANGED outbox,
           at' \in {"down", "idle", "scanning"}, current' = None, reply' = None,
           names' \subseteq Ids, strays' \in Nat, torn' \subseteq Ids
    PROVE  ReceiverKeeps
<1>1. OutboxInv' /\ OutboxKept
  BY OutboxRests
<1>2. ReceiverType'
  BY ReceiverIsTyped DEF ReceiverType, Stages
<1>3. ReceiverInv'
  BY DEF ReceiverInv
<1> QED BY <1>1, <1>2, <1>3 DEF ReceiverKeeps

(* A request whose operation has been performed.                            *)
LEMMA Operates ==
    ASSUME IInv, at = "operating"
    PROVE  /\ current \in Ids /\ outbox[current] = None /\ reply = None
           /\ Request \in Messages /\ Request.task \in Tasks
           /\ Request.op = "submit" => Request.payload \in Payloads
<1>1. ReceiverType /\ ReceiverInv
  BY ReceiverIsTyped
<1>2. current # None /\ current \in Ids /\ reply = None
  BY <1>1 DEF ReceiverType
<1>3. outbox[current] = None /\ inbox[current] # None
  BY <1>1, <1>2 DEF ReceiverInv
<1>4. Request \in Messages
  BY <1>2, <1>3, Types DEF IInv, ClientType, Request
<1> QED BY <1>2, <1>3, <1>4 DEF Messages

LEMMA ResponseKeeps ==
    ASSUME IInv, StoreKeeps, UNCHANGED inbox, at = "operating", at' = "publishing",
           UNCHANGED <<outbox, strays, torn, names, current>>,
           reply' \in Replies, reply'.to = Request,
           Truth(reply', task', asked', payload')
    PROVE  ReceiverKeeps
<1>1. ReceiverType /\ ReceiverInv /\ InboxKept
  BY ReceiverIsTyped DEF InboxKept
<1>2. OutboxInv' /\ OutboxKept
  BY <1>1, OutboxRests
<1>3. current \in Ids /\ outbox[current] = None /\ Request \in Messages
  BY Operates
<1>4. current # None /\ reply' # None
  BY <1>3, NoneIsNothing
<1>5. ReceiverType'
  BY <1>1, <1>4 DEF ReceiverType, Stages
<1>6. ReceiverInv'
  BY <1>1, <1>3 DEF ReceiverInv, ReplyFits, Request
<1> QED BY <1>2, <1>5, <1>6 DEF ReceiverKeeps

(* Respond says of the task what the store says after the operation.        *)
LEMMA RespondKeeps ==
    ASSUME IInv, StoreKeeps, UNCHANGED inbox, at = "operating",
           NEW outcome \in {"completed"} \cup Rejections, NEW created \in BOOLEAN,
           Respond(outcome, created),
           outcome = "completed" =>
             /\ task'[Request.task] # "unknown"
             /\ Request.op = "submit" => payload'[Request.task] = Request.payload
             /\ Request.op = "cancel" =>
                  Request.task \in asked' \/ task'[Request.task] \in Store!Outcomes,
           outcome = "conflict" =>
             /\ task'[Request.task] # "unknown"
             /\ payload'[Request.task] \notin {Request.payload, None}
    PROVE  ReceiverKeeps
<1> DEFINE s == IF outcome = "completed" THEN Status(Request.task) ELSE "unknown"
           n == [to |-> Request, outcome |-> outcome, created |-> created, status |-> s]
<1>1. /\ reply' = n /\ at' = "publishing"
      /\ UNCHANGED <<outbox, strays, torn, names, current>>
  BY DEF Respond
<1>2. Request \in Messages /\ Request.task \in Tasks
  BY Operates
<1>3. s \in {"unknown", "open"} \cup Store!Outcomes
      /\ (s \in Store!Outcomes => task'[Request.task] = s)
  <2>1. task'[Request.task] \in Store!Phases
    BY <1>2 DEF StoreKeeps, StoreType
  <2>2. Store!Phases = {"unknown", "queued"} \cup Store!Held \cup Store!Outcomes
    BY DEF Store!Phases
  <2>3. "open" \notin Store!Outcomes /\ "unknown" \notin Store!Outcomes
    BY DEF Store!Outcomes
  <2> QED BY <2>1, <2>2, <2>3 DEF Status
<1> HIDE DEF s
<1>4. n \in Replies
  BY <1>2, <1>3 DEF Replies
<1>5. n.to = Request /\ n.outcome = outcome /\ n.status = s
  OBVIOUS
<1> HIDE DEF n
<1>6. Truth(n, task', asked', payload')
  BY <1>3, <1>5 DEF Truth
<1> QED BY <1>1, <1>4, <1>5, <1>6, ResponseKeeps

LEMMA SubmitKeeps ==
    ASSUME IInv, SubmitNew \/ SubmitRefused \/ SubmitAgain
    PROVE  StoreKeeps /\ ReceiverKeeps /\ UNCHANGED clientVars
<1>1. /\ at = "operating" /\ Request.op = "submit" /\ UNCHANGED <<clientVars, inbox>>
  BY DEF SubmitNew, SubmitRefused, SubmitAgain, Operating, clientVars, storeVars
<1>2. /\ Request.task \in Tasks /\ Request.payload \in Payloads
      /\ StoreType /\ StoreInv
  BY <1>1, Operates, ReceiverIsTyped
<1>3. CASE SubmitNew
  <2>1. /\ Store!Admit(Request.task, Request.payload)
        /\ Respond("completed", TRUE)
    BY <1>3 DEF SubmitNew
  <2>2. StoreKeeps /\ task'[Request.task] = "queued"
        /\ payload'[Request.task] = Request.payload
    BY <1>2, <2>1, AdmitKeeps
  <2>3. ReceiverKeeps
    BY <1>1, <2>1, <2>2, RespondKeeps
  <2> QED BY <1>1, <2>2, <2>3
<1>4. CASE SubmitRefused
  <2>1. UNCHANGED storeVars /\ Respond("refused", FALSE)
    BY <1>4 DEF SubmitRefused
  <2>2. StoreKeeps
    BY <2>1, StoreStays
  <2>3. ReceiverKeeps
    BY <1>1, <2>1, <2>2, RespondKeeps DEF Rejections
  <2> QED BY <1>1, <2>2, <2>3
<1>5. CASE SubmitAgain
  <2>1. /\ task[Request.task] # "unknown" /\ UNCHANGED storeVars
        /\ Respond(IF SamePayload THEN "completed" ELSE "conflict", FALSE)
    BY <1>5 DEF SubmitAgain, Known
  <2>2. StoreKeeps /\ UNCHANGED <<task, asked, payload>>
    BY <2>1, StoreStays DEF storeVars
  <2>3. CASE payload[Request.task] = Request.payload
    <3>1. Respond("completed", FALSE)
      BY <2>1, <2>3 DEF SamePayload
    <3>2. ReceiverKeeps
      BY <1>1, <2>1, <2>2, <2>3, <3>1, RespondKeeps
    <3> QED BY <1>1, <2>2, <3>2
  <2>4. CASE payload[Request.task] # Request.payload
    <3>1. Respond("conflict", FALSE)
      BY <2>1, <2>4 DEF SamePayload
    <3>2. payload'[Request.task] \notin {Request.payload, None}
      BY <1>2, <2>1, <2>2, <2>4 DEF StoreInv
    <3>3. ReceiverKeeps
      BY <1>1, <2>1, <2>2, <3>1, <3>2, RespondKeeps DEF Rejections
    <3> QED BY <1>1, <2>2, <3>3
  <2> QED BY <2>3, <2>4
<1> QED BY <1>3, <1>4, <1>5

LEMMA OtherOperationKeeps ==
    ASSUME IInv, Cancel \/ QueryStatus \/ UnknownTask
    PROVE  StoreKeeps /\ ReceiverKeeps /\ UNCHANGED clientVars
<1>1. /\ at = "operating" /\ UNCHANGED <<clientVars, inbox>>
  BY DEF Cancel, QueryStatus, UnknownTask, Operating, clientVars
<1>2. Request.task \in Tasks /\ StoreType /\ StoreInv
  BY <1>1, Operates, ReceiverIsTyped
<1>3. CASE Cancel
  <2> DEFINE t == Request.task
  <2>1. /\ Request.op = "cancel" /\ task[t] # "unknown" /\ Respond("completed", FALSE)
        /\ \/ Store!Withdraw(t) \/ Store!Ask(t)
           \/ task[t] \in Store!Outcomes /\ UNCHANGED <<task, asked, payload, orphaned>>
    BY <1>3 DEF Cancel, Operating, Known
  <2>2. CASE Store!Withdraw(t) \/ Store!Ask(t)
    <3>1. StoreKeeps /\ t \in asked'
      BY <1>2, <2>1, <2>2, CancelKeeps
    <3>2. task'[t] # "unknown"
      BY <1>2, <2>1, <3>1 DEF StoreKeeps, StoreMoves
    <3>3. ReceiverKeeps
      BY <1>1, <2>1, <3>1, <3>2, RespondKeeps
    <3> QED BY <1>1, <3>1, <3>3
  <2>3. CASE task[t] \in Store!Outcomes /\ UNCHANGED <<task, asked, payload, orphaned>>
    <3>1. StoreKeeps
      BY <2>1, <2>3, StoreStays DEF storeVars
    <3>2. task'[t] # "unknown" /\ task'[t] \in Store!Outcomes
      BY <2>1, <2>3
    <3>3. ReceiverKeeps
      BY <1>1, <2>1, <3>1, <3>2, RespondKeeps
    <3> QED BY <1>1, <3>1, <3>3
  <2> QED BY <2>1, <2>2, <2>3
<1>4. CASE QueryStatus
  <2>1. /\ Request.op = "status" /\ task[Request.task] # "unknown"
        /\ UNCHANGED storeVars /\ Respond("completed", FALSE)
    BY <1>4 DEF QueryStatus, Operating, Known
  <2>2. StoreKeeps /\ UNCHANGED task
    BY <2>1, StoreStays DEF storeVars
  <2>3. ReceiverKeeps
    BY <1>1, <2>1, <2>2, RespondKeeps
  <2> QED BY <1>1, <2>2, <2>3
<1>5. CASE UnknownTask
  <2>1. /\ Request.op # "submit" /\ UNCHANGED storeVars /\ Respond("unknown_task", FALSE)
    BY <1>5 DEF UnknownTask, Operating
  <2>2. StoreKeeps
    BY <2>1, StoreStays
  <2>3. ReceiverKeeps
    BY <1>1, <2>1, <2>2, RespondKeeps DEF Rejections
  <2> QED BY <1>1, <2>2, <2>3
<1> QED BY <1>3, <1>4, <1>5

(* Steps that end in a name of the listing, or beyond it.                   *)
LEMMA PassKeeps ==
    ASSUME IInv,
           \/ Restart \/ Scan \/ ScanEnds \/ SubmitOrphaned \/ UnlinkReply
           \/ OperationFails \/ ReceiverDies
    PROVE  StoreKeeps /\ ReceiverKeeps /\ UNCHANGED clientVars
<1>1. UNCHANGED <<storeVars, clientVars, outbox, inbox>>
  BY DEF Restart, Scan, ScanEnds, SubmitOrphaned, UnlinkReply, OperationFails, ReceiverDies,
     Down, NextName, clientVars
<1>2. ReceiverType /\ names \subseteq Ids /\ strays \in Nat /\ torn \subseteq Ids
  BY ReceiverIsTyped
<1>3. StoreKeeps /\ InboxKept
  BY <1>1, StoreStays DEF InboxKept
<1>4. /\ at' \in {"down", "idle", "scanning"} /\ current' = None /\ reply' = None
      /\ names' \subseteq Ids
  <2>1. CASE Restart
    BY <1>2, <2>1 DEF Restart, ReceiverType
  <2>2. CASE Scan
    BY <1>2, <2>2 DEF Scan, Down, Entries, ReceiverType
  <2>3. CASE ScanEnds
    BY <1>2, <2>3 DEF ScanEnds, ReceiverType
  <2>4. CASE SubmitOrphaned
    BY <1>2, <2>4 DEF SubmitOrphaned, NextName
  <2>5. CASE UnlinkReply
    BY <1>2, <2>5 DEF UnlinkReply, NextName
  <2>6. CASE OperationFails
    BY <1>2, <2>6 DEF OperationFails, NextName
  <2>7. CASE ReceiverDies
    BY <2>7 DEF ReceiverDies, Down
  <2> QED BY <2>1, <2>2, <2>3, <2>4, <2>5, <2>6, <2>7
<1>5. strays' \in Nat
  BY <1>2 DEF Restart, Scan, ScanEnds, SubmitOrphaned, UnlinkReply, OperationFails, ReceiverDies
<1>6. torn' \subseteq Ids
  <2>1. CASE ReceiverDies
    BY <1>2, <2>1 DEF ReceiverDies, ReceiverType
  <2>2. CASE ~ReceiverDies
    BY <1>2, <2>2 DEF Restart, Scan, ScanEnds, SubmitOrphaned, UnlinkReply, OperationFails
  <2> QED BY <2>1, <2>2
<1>7. ReceiverKeeps
  BY <1>1, <1>3, <1>4, <1>5, <1>6, IdleKeeps
<1> QED BY <1>1, <1>3, <1>7

LEMMA ReadKeeps ==
    ASSUME IInv, Read
    PROVE  StoreKeeps /\ ReceiverKeeps /\ UNCHANGED clientVars
<1>1. /\ at = "scanning" /\ UNCHANGED <<storeVars, clientVars, inbox, outbox, strays, torn, reply>>
  BY DEF Read, clientVars
<1>2. ReceiverType /\ ReceiverInv
  BY ReceiverIsTyped
<1>3. StoreKeeps /\ InboxKept
  BY <1>1, StoreStays DEF InboxKept
<1>4. current = None /\ reply = None /\ names \subseteq Ids
  BY <1>1, <1>2 DEF ReceiverType
<1>5. PICK id \in names :
        /\ names' = names \ {id}
        /\ IF SingleLink(id) /\ ~Answered(id)
           THEN at' = "operating" /\ current' = id
           ELSE PassOver
  BY DEF Read
<1>6. CASE SingleLink(id) /\ ~Answered(id)
  <2>1. /\ at' = "operating" /\ current' = id /\ id \in Ids /\ id # None
        /\ outbox[id] = None /\ inbox[id] # None
    BY <1>4, <1>5, <1>6, NoneIsNothing DEF SingleLink, Answered
  <2>2. OutboxInv' /\ OutboxKept
    BY <1>1, <1>3, OutboxRests
  <2>3. ReceiverType'
    BY <1>1, <1>2, <1>4, <1>5, <2>1 DEF ReceiverType, Stages
  <2>4. ReceiverInv'
    BY <1>1, <1>4, <2>1 DEF ReceiverInv
  <2>5. ReceiverKeeps
    BY <2>2, <2>3, <2>4 DEF ReceiverKeeps
  <2> QED BY <1>1, <1>3, <2>5
<1>7. CASE ~(SingleLink(id) /\ ~Answered(id))
  <2>1. at' = at /\ current' = current
    BY <1>5, <1>7 DEF PassOver
  <2>2. /\ at' \in {"down", "idle", "scanning"} /\ current' = None /\ reply' = None
        /\ names' \subseteq Ids /\ strays' \in Nat /\ torn' \subseteq Ids
    BY <1>1, <1>4, <1>5, <2>1, ReceiverIsTyped
  <2>3. ReceiverKeeps
    BY <1>1, <1>3, <2>2, IdleKeeps
  <2> QED BY <1>1, <1>3, <2>3
<1> QED BY <1>6, <1>7

LEMMA PublishKeeps ==
    ASSUME IInv, PublishReply \/ LinkReply
    PROVE  StoreKeeps /\ ReceiverKeeps /\ UNCHANGED clientVars
<1>1. /\ UNCHANGED <<storeVars, clientVars, inbox, strays, torn>>
      /\ at \in {"publishing", "linking"}
  BY DEF PublishReply, LinkReply, clientVars
<1>2. /\ ReceiverType /\ ReceiverInv /\ OutboxInv /\ StoreType /\ StoreInv
      /\ names \subseteq Ids /\ strays \in Nat /\ torn \subseteq Ids
  BY ReceiverIsTyped
<1>3. StoreKeeps /\ InboxKept /\ UNCHANGED <<task, asked, payload>>
  BY <1>1, StoreStays DEF InboxKept, storeVars
<1>4. /\ current \in Ids /\ current # None /\ reply \in Replies /\ reply # None
      /\ ReplyFits(reply, inbox[current])
      /\ outbox[current] = None /\ inbox[current] # None
  BY <1>1, <1>2 DEF ReceiverType, ReceiverInv
<1>5. CASE PublishReply
  <2>1. CASE OutboxNames >= Capacity
    <3>1. /\ at' = "scanning" /\ current' = None /\ reply' = None /\ names' = names
          /\ outbox' = outbox
      BY <1>5, <2>1 DEF PublishReply, NextName
    <3>2. ReceiverKeeps
      BY <1>1, <1>2, <1>3, <3>1, IdleKeeps
    <3> QED BY <1>1, <1>3, <3>2
  <2>2. CASE ~(OutboxNames >= Capacity)
    <3>1. /\ at' = "linking" /\ UNCHANGED <<names, current, reply, outbox>>
      BY <1>5, <2>2 DEF PublishReply
    <3>2. OutboxInv' /\ OutboxKept
      BY <1>3, <3>1, OutboxRests
    <3>3. ReceiverType'
      BY <1>1, <1>2, <1>4, <3>1 DEF ReceiverType, Stages
    <3>4. ReceiverInv'
      BY <1>1, <1>2, <1>3, <1>4, <3>1 DEF ReceiverInv, ReplyFits
    <3>5. ReceiverKeeps
      BY <3>2, <3>3, <3>4 DEF ReceiverKeeps
    <3> QED BY <1>1, <1>3, <3>5
  <2> QED BY <2>1, <2>2
<1>6. CASE LinkReply
  <2>1. /\ outbox' = [outbox EXCEPT ![current] = reply] /\ at' = "unlinking"
        /\ UNCHANGED <<names, current, reply>>
    BY <1>6 DEF LinkReply
  <2>2. \A id \in Ids : outbox'[id] = IF id = current THEN reply ELSE outbox[id]
    BY <1>2, <2>1 DEF ReceiverType
  <2>3. OutboxKept
    BY <1>4, <2>2 DEF OutboxKept
  <2>4. OutboxInv'
    BY <1>1, <1>2, <1>3, <1>4, <2>2 DEF OutboxInv, ReplyFits
  <2>5. ReceiverType'
    BY <1>1, <1>2, <1>4, <2>1 DEF ReceiverType, Stages
  <2>6. ReceiverInv'
    BY <1>1, <1>2, <1>3, <1>4, <2>1 DEF ReceiverInv, ReplyFits
  <2>7. ReceiverKeeps
    BY <2>3, <2>4, <2>5, <2>6 DEF ReceiverKeeps
  <2> QED BY <1>1, <1>3, <2>7
<1> QED BY <1>5, <1>6

LEMMA AdmissionStopsKeeps ==
    ASSUME IInv, AdmissionStops
    PROVE  StoreKeeps /\ ReceiverKeeps /\ UNCHANGED clientVars
<1>1. /\ at = "operating" /\ Request.op = "submit" /\ orphaned' = orphaned \cup {Request.task}
      /\ UNCHANGED <<task, asked, payload, clientVars, inbox, strays, torn, outbox>>
      /\ at' \in {"down", "idle", "scanning"} /\ current' = None /\ reply' = None
      /\ names' \in {names, {}}
  BY DEF AdmissionStops, Store!Orphan, Operating, NextName, Down, clientVars
<1>2. /\ Request.task \in Tasks /\ StoreType /\ StoreInv
      /\ names \subseteq Ids /\ strays \in Nat /\ torn \subseteq Ids
  BY <1>1, Operates, ReceiverIsTyped
<1>3. StoreKeeps /\ InboxKept
  BY <1>1, <1>2, StoreRests DEF StoreType, InboxKept
<1>4. ReceiverKeeps
  BY <1>1, <1>2, <1>3, IdleKeeps
<1> QED BY <1>1, <1>3, <1>4

(* The worker and the administrative CLI.                                   *)
LEMMA BuilderKeeps ==
    ASSUME IInv, Work \/ Admin \/ \E t \in Tasks, p \in Payloads : AdminStops(t, p)
    PROVE  StoreKeeps /\ UNCHANGED <<clientVars, receiverVars>>
<1>1. UNCHANGED <<clientVars, receiverVars>>
  BY DEF Work, Admin, AdminCancel, AdminSubmit, AdminStops
<1>2. StoreType /\ StoreInv
  BY ReceiverIsTyped
<1>3. SUFFICES StoreKeeps
  BY <1>1
<1>4. CASE Work
  <2>1. PICK t \in Tasks : Store!Hold(t) \/ Store!Invoke(t) \/ Store!Settle(t)
    BY <1>4 DEF Work
  <2> QED BY <1>2, <2>1, WorkerKeeps
<1>5. CASE Admin
  <2>1. PICK t \in Tasks : AdminCancel(t) \/ \E p \in Payloads : AdminSubmit(t, p)
    BY <1>5 DEF Admin
  <2>2. CASE AdminCancel(t)
    <3>1. (Store!Withdraw(t) \/ Store!Ask(t))
      BY <2>2 DEF AdminCancel
    <3> QED BY <1>2, <3>1, CancelKeeps
  <2>3. CASE \E p \in Payloads : AdminSubmit(t, p)
    <3>1. PICK p \in Payloads : AdminSubmit(t, p)
      BY <2>3
    <3>2. Store!Admit(t, p)
      BY <3>1 DEF AdminSubmit
    <3> QED BY <1>2, <3>2, AdmitKeeps
  <2> QED BY <2>1, <2>2, <2>3
<1>6. ASSUME NEW t \in Tasks, NEW p \in Payloads, AdminStops(t, p)
      PROVE  StoreKeeps
  <2>1. orphaned' = orphaned \cup {t} /\ UNCHANGED <<task, asked, payload>>
    BY <1>6 DEF AdminStops, Store!Orphan
  <2> QED BY <1>2, <2>1, StoreRests DEF StoreType
<1> QED BY <1>4, <1>5, <1>6

-----------------------------------------------------------------------------
(* The invariant and the properties.                                        *)
LEMMA NextKeeps ==
    ASSUME IInv, [Next]_vars
    PROVE  Keeps
<1>1. ASSUME ClientKeeps, UNCHANGED <<storeVars, receiverVars>>
      PROVE  Keeps
  <2>1. InboxKept
    BY <1>1 DEF ClientKeeps
  <2>2. StoreKeeps
    BY <1>1, StoreStays
  <2>3. ReceiverKeeps
    BY <1>1, <2>1, <2>2, ReceiverRests
  <2> QED BY <1>1, <2>2, <2>3 DEF Keeps
<1>2. ASSUME StoreKeeps, ReceiverKeeps, UNCHANGED clientVars
      PROVE  Keeps
  BY <1>2, ClientRests DEF Keeps
<1>3. ASSUME StoreKeeps, UNCHANGED <<clientVars, receiverVars>>
      PROVE  Keeps
  <2>1. ClientKeeps
    BY <1>3, ClientRests
  <2>2. ReceiverKeeps
    BY <1>3, <2>1, ReceiverRests DEF ClientKeeps
  <2> QED BY <1>3, <2>1, <2>2 DEF Keeps
<1>4. ASSUME NEW c \in Calls,
             \/ Client(c) \/ CallFails(c) \/ CallDies(c)
             \/ \E id \in Ids, m \in Messages : Invoke(c, id, m)
      PROVE  Keeps
  BY <1>1, <1>4, CallerKeeps
<1>5. CASE Operate
  BY <1>2, <1>5, SubmitKeeps, OtherOperationKeeps, PassKeeps DEF Operate
<1>6. CASE Server /\ ~Operate
  BY <1>2, <1>6, PassKeeps, ReadKeeps, PublishKeeps DEF Server
<1>7. CASE OperationFails \/ AdmissionStops \/ ReceiverDies
  BY <1>2, <1>7, PassKeeps, AdmissionStopsKeeps
<1>8. CASE Work \/ Admin \/ \E t \in Tasks, p \in Payloads : AdminStops(t, p)
  BY <1>3, <1>8, BuilderKeeps
<1>9. CASE UNCHANGED vars
  <2>1. UNCHANGED <<storeVars, clientVars, receiverVars>>
    BY <1>9 DEF vars, storeVars, clientVars, receiverVars
  <2> QED BY <1>3, <2>1, StoreStays
<1> QED BY <1>4, <1>5, <1>6, <1>7, <1>8, <1>9 DEF Next, Fault

LEMMA InitIInv == Init => IInv
<1> SUFFICES ASSUME Init PROVE IInv
  OBVIOUS
<1>1. StoreType /\ StoreInv
  BY Names DEF Init, Store!Init, StoreType, StoreInv
<1>2. ClientType
  BY DEF Init, ClientType, Steps
<1>3. ReceiverType
  BY DEF Init, ReceiverType, Stages
<1>4. ClientInv
  BY DEF Init, ClientInv, CallFits, Acknowledged
<1>5. ReceiverInv /\ OutboxInv
  BY DEF Init, ReceiverInv, OutboxInv
<1> QED BY <1>1, <1>2, <1>3, <1>4, <1>5, Types DEF IInv

LEMMA NextIInv == IInv /\ [Next]_vars => IInv'
<1> SUFFICES ASSUME IInv, [Next]_vars PROVE IInv'
  OBVIOUS
<1>1. Keeps
  BY NextKeeps
<1>2. TypeOK'
  BY <1>1 DEF Keeps, StoreKeeps, ClientKeeps, ReceiverKeeps, TypeOK, StoreType, ClientType,
     ReceiverType, Stages
<1> QED BY <1>1, <1>2 DEF IInv, Keeps, StoreKeeps, ClientKeeps, ReceiverKeeps

LEMMA IInvSafe ==
    ASSUME IInv
    PROVE  TypeOK /\ AcknowledgedIsDurable /\ RepliesAreTrue
<1>1. AcknowledgedIsDurable
  BY DEF IInv, ClientInv, CallFits, Acknowledged, AcknowledgedIsDurable
<1>2. RepliesAreTrue
  <2>1. SUFFICES ASSUME NEW id \in Ids, outbox[id] # None
                 PROVE  TrueOf(outbox[id]) /\ outbox[id].to = inbox[id]
    BY DEF RepliesAreTrue
  <2>2. ReplyFits(outbox[id], inbox[id])
    BY <2>1 DEF IInv, OutboxInv
  <2> QED BY <2>2 DEF ReplyFits, Truth, TrueOf
<1> QED BY <1>1, <1>2 DEF IInv

(* Every state is of its type; the receiver has a request from its reading  *)
(* to its response, and a response from its operation on (Server.process).  *)
THEOREM TypeCorrect == Spec => []TypeOK
  BY InitIInv, NextIInv, IInvSafe, PTL DEF Spec

(* What Client.invoke acknowledges is in the inbox for good, readable, and  *)
(* is the caller's own request, whoever shares its ID or dies.              *)
THEOREM AcknowledgementsAreDurable == Spec => []AcknowledgedIsDurable
  BY InitIInv, NextIInv, IInvSafe, PTL DEF Spec

(* What a response in the outbox says is true of the store and stays so     *)
(* (Server.process), and it answers the request under its ID.               *)
THEOREM ResponsesAreTrue == Spec => []RepliesAreTrue
  BY InitIInv, NextIInv, IInvSafe, PTL DEF Spec

(* No message is replaced or removed (Directory.publish).                   *)
THEOREM MessagesAreFinal == Spec => PublishedIsFinal
<1>1. IInv /\ [Next]_vars =>
        [\A id \in Ids : /\ inbox[id] # None => inbox'[id] = inbox[id]
                         /\ outbox[id] # None => outbox'[id] = outbox[id]]_vars
  BY NextKeeps DEF Keeps, ClientKeeps, ReceiverKeeps, InboxKept, OutboxKept
<1> QED BY <1>1, InitIInv, NextIInv, PTL DEF Spec, PublishedIsFinal

(* A request that has its response has no effect any more (Server.process). *)
THEOREM AnsweredRequestsRest == Spec => NoEffectAfterReply
<1>1. IInv /\ [Next]_vars =>
        [at = "operating" /\ (<<task, asked, payload>>' # <<task, asked, payload>>)
           /\ at' # at => outbox[current] = None]_vars
  BY Operates
<1> QED BY <1>1, InitIInv, NextIInv, PTL DEF Spec, NoEffectAfterReply

=============================================================================
