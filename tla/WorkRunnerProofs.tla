-------------------------- MODULE WorkRunnerProofs --------------------------
(***************************************************************************)
(* Machine-checked properties of WorkRunner for any tasks, payloads,       *)
(* service processes and clients.                                          *)
(***************************************************************************)
EXTENDS WorkRunner, FiniteSetTheorems, TLAPS

(* Program points whose holder is about to write the task record.           *)
Committing == {"recovery_commit", "committing", "handler_commit"}
RecoveryPoints == {"recovering", "recovered", "recovery_commit"}
Jobless == {"off", "recovering", "idle"}

(* worker.lock is held exactly by the process that is past Start.           *)
WorkerInv == \A s \in Services : pc[s] # "off" <=> worker = s

(* What the holder of state.lock may be doing, and what it has published.   *)
Admitting(c) ==
    /\ txn.by = c
    /\ txn.task \in Tasks
    /\ txn.to.status = "submitted"
    /\ txn.to.payload \in Payloads
    /\ ~txn.to.cancel
    /\ rec[txn.task].status = "absent"
    /\ art[txn.task].dir
Cancelling(c) ==
    /\ txn.by = c
    /\ txn.task \in Tasks
    /\ txn.to.status = "cancelled"
    /\ txn.to.cancel
    /\ rec[txn.task].status = "submitted"
    /\ art[txn.task].result = "cancelled"
Settling(s) ==
    /\ txn.by = s
    /\ pc[s] \in Committing
    /\ txn.task = job[s]
    /\ txn.to.status \in Terminal
    /\ txn.to.payload = rec[job[s]].payload
    /\ txn.to.cancel = rec[job[s]].cancel
    /\ rec[job[s]].status = "submitted" => txn.to.status = "failed"
    /\ art[job[s]].result = txn.to.status
TxnInv ==
    /\ \/ txn = NoTxn
       \/ \E c \in Clients : Admitting(c) \/ Cancelling(c)
       \/ \E s \in Services : Settling(s)
    /\ \A s \in Services : pc[s] \in Committing => txn.by = s

(* The status of the task a process works on, at each of its points.        *)
JobStatus(point) ==
    CASE point = "picked" -> {"submitted"} \cup Terminal
      [] point \in {"reserved", "preparing", "prepared"} -> {"reserved"}
      [] point \in InExecutor \cup {"launching", "returned"} -> {"running"}
      [] point \in {"recovered", "recovery_commit", "committing", "aborting", "aborted"} -> Active
      [] point = "handler_commit" -> {"submitted"} \cup Active
      [] OTHER -> Recorded
JobInv ==
    \A s \in Services :
        IF pc[s] \in Jobless THEN job[s] = NoTask
        ELSE job[s] \in Tasks /\ rec[job[s]].status \in JobStatus(pc[s])

(* Every reserved or running task is the business of the current holder of  *)
(* worker.lock: its current task, or still to be recovered.                 *)
OwnerInv ==
    \A s \in Services :
        /\ todo[s] \subseteq Having(Active) \ {job[s]}
        /\ pc[s] \notin RecoveryPoints => todo[s] = {}
        /\ pc[s] # "off" => Having(Active) \subseteq todo[s] \cup {job[s]}

(* The executor has been invoked once from Invoke on, and never before.     *)
RunsInv ==
    /\ \A t \in Tasks : /\ runs[t] <= 1
                        /\ rec[t].status \in {"absent", "submitted", "reserved"} => runs[t] = 0
    /\ \A s \in Services : /\ pc[s] = "launching" => runs[job[s]] = 0
                           /\ pc[s] \in InExecutor \cup {"returned"} => runs[job[s]] = 1

(* Who is about to store an outcome has decided on one.                     *)
Deciding == {"returned", "aborting", "aborted", "storage", "storage_final"}
OutInv ==
    \A s \in Services :
        /\ pc[s] \in Deciding => out[s] \in Terminal
        /\ pc[s] \in Deciding \ {"returned"} => out[s] # "succeeded"
        /\ pc[s] \in {"storage", "storage_final"} => out[s] = "failed"

(* The evidence for success, and the points of a tick that rely on it.      *)
Evidence(t) ==
    /\ runs[t] = 1
    /\ art[t].test = "passed"
    /\ art[t].patch
    /\ Coding(t) => art[t].agent = "completed"
SuccessAt(s) ==
    /\ pc[s] = "testing" => Coding(job[s]) /\ art[job[s]].patch
    /\ pc[s] = "validated" => /\ art[job[s]].test = "passed"
                              /\ Coding(job[s]) => art[job[s]].patch
    /\ pc[s] = "returned" /\ out[s] = "succeeded" => Evidence(job[s])
    /\ pc[s] \in Committing /\ txn.to.status = "succeeded"
          => Evidence(job[s]) /\ ~txn.to.cancel
SuccessInv == SuccessEvidence /\ \A s \in Services : SuccessAt(s)

IInv == TypeOK /\ WorkerInv /\ TxnInv /\ JobInv /\ OwnerInv /\ RunsInv /\ OutInv
        /\ TerminalEvidence /\ SuccessInv

-----------------------------------------------------------------------------
(* Types. TypeOK in three parts: what is on disk, the processes, the ghosts.*)

StoreOK ==
    /\ rec \in [Tasks -> Record]
    /\ art \in [Tasks -> Files]
    /\ txn \in [by : Procs \cup {Nobody}, task : Tasks \cup {NoTask}, to : Record]
ServiceOK ==
    /\ worker \in Services \cup {Nobody}
    /\ pc \in [Services -> Points]
    /\ job \in [Services -> Tasks \cup {NoTask}]
    /\ todo \in [Services -> SUBSET Tasks]
    /\ out \in [Services -> Terminal \cup {"none"}]
    /\ stopped \in [Services -> BOOLEAN]
    /\ receiver \in [Services -> BOOLEAN]
GhostOK ==
    /\ runs \in [Tasks -> Nat]
    /\ acked \in [Tasks -> SUBSET Payloads]

LEMMA TypeParts == /\ TypeOK <=> StoreOK /\ ServiceOK /\ GhostOK
                   /\ TypeOK' <=> StoreOK' /\ ServiceOK' /\ GhostOK'
  BY DEF TypeOK, StoreOK, ServiceOK, GhostOK

(* A record of files stays one whatever field the program writes.           *)
LEMMA FileUpdates ==
  ASSUME NEW f \in Files
  PROVE  /\ \A x \in {"none"} \cup Recorded : [f EXCEPT !.result = x] \in Files
         /\ \A x \in Tests : [f EXCEPT !.test = x] \in Files
         /\ \A x \in Agents : [f EXCEPT !.agent = x] \in Files
         /\ \A x \in Agents, y \in Tests :
              [f EXCEPT !.agent = x, !.test = y] \in Files
         /\ [f EXCEPT !.patch = TRUE] \in Files
         /\ [f EXCEPT !.workspace = TRUE] \in Files
  BY ZenonT(60) DEF Files

LEMMA RecordUpdates ==
  ASSUME NEW r \in Record
  PROVE  /\ \A x \in Statuses : /\ [r EXCEPT !.status = x] \in Record
                                /\ [r EXCEPT !.status = x, !.attempts = 1] \in Record
                                /\ [r EXCEPT !.status = x, !.cancel = TRUE] \in Record
         /\ [r EXCEPT !.cancel = TRUE] \in Record
  BY DEF Record

(* The four ways a step moves a process keep its variables well typed.      *)
LEMMA MoveType ==
  ASSUME ServiceOK, NEW s \in Services, NEW point \in Points,
         \/ Goto(s, point)
         \/ \E status \in Terminal \cup {"none"} : Decide(s, status, point)
         \/ \E t \in Tasks \cup {NoTask} : Take(s, t, point)
         \/ Leave(s, point)
  PROVE  ServiceOK'
  BY DEF ServiceOK, Goto, Decide, Take, Leave

LEMMA WriteType ==
  ASSUME StoreOK, NEW s \in Services, job[s] \in Tasks, NEW f \in Files, Write(s, f)
  PROVE  StoreOK'
  BY DEF StoreOK, Write

LEMMA PublishType ==
  ASSUME StoreOK, NEW p \in Procs, NEW t \in Tasks, NEW r \in Record,
         r.status \in Recorded, Publish(p, t, r), UNCHANGED rec
  PROVE  StoreOK'
<1>1. art[t] \in Files /\ [art[t] EXCEPT !.result = r.status] \in Files
  BY FileUpdates DEF StoreOK
<1> QED
  BY <1>1 DEF StoreOK, Publish

LEMMA CommitType ==
  ASSUME StoreOK, NEW p \in Procs, Commit(p)
  PROVE  StoreOK'
<1>1. NoRecord \in Record
  BY DEF Record, NoRecord, Statuses
<1> QED
  BY <1>1 DEF StoreOK, Commit, NoTxn

LEMMA AbandonType ==
  ASSUME StoreOK, NEW p \in Procs, Abandon(p), UNCHANGED <<rec, art>>
  PROVE  StoreOK'
<1>1. NoRecord \in Record
  BY DEF Record, NoRecord, Statuses
<1> QED
  BY <1>1 DEF StoreOK, Abandon, NoTxn

LEMMA FinishType ==
  ASSUME TypeOK, NEW s \in Services, job[s] \in Tasks, NEW status \in Recorded,
         NEW point \in Points, Finish(s, status, point)
  PROVE  TypeOK'
<1> DEFINE st == Settle(job[s], status)
<1> DEFINE r == [rec[job[s]] EXCEPT !.status = st]
<1>1. st \in Recorded /\ Recorded \subseteq Statuses
  BY DEF Settle, Recorded, Active, Terminal, Statuses
<1>2. rec[job[s]] \in Record
  BY DEF TypeOK
<1> HIDE DEF st
<1>3. r \in Record /\ r.status = st
  BY <1>1, <1>2, RecordUpdates DEF Record
<1>4. Publish(s, job[s], r) /\ UNCHANGED rec
  BY DEF Finish, st
<1> HIDE DEF r
<1>5. StoreOK'
  BY <1>1, <1>3, <1>4, TypeParts, PublishType DEF Procs
<1>6. ServiceOK' /\ GhostOK'
  BY TypeParts, MoveType DEF Finish, GhostOK, ghostVars
<1> QED
  BY <1>5, <1>6, TypeParts

LEMMA AdvanceType ==
  ASSUME TypeOK, NEW s \in Services, job[s] \in Tasks, NEW status \in Recorded,
         NEW point \in Points, Advance(s, status, point)
  PROVE  TypeOK'
<1>1. rec[job[s]] \in Record
  BY DEF TypeOK
<1>2. [rec[job[s]] EXCEPT !.status = status, !.attempts = 1] \in Record
  BY <1>1, RecordUpdates DEF Statuses
<1>3. rec' = [rec EXCEPT ![job[s]] = [rec[job[s]] EXCEPT !.status = status, !.attempts = 1]]
  BY DEF Advance, TypeOK
<1>4. StoreOK' /\ GhostOK'
  BY <1>2, <1>3, TypeParts DEF StoreOK, GhostOK, Advance, ghostVars
<1>5. ServiceOK'
  BY TypeParts, MoveType DEF Advance
<1> QED
  BY <1>4, <1>5, TypeParts

(* A process that is not at a jobless point has a task.                     *)
LEMMA HasJob ==
  ASSUME JobInv, NEW s \in Services, pc[s] \notin Jobless
  PROVE  job[s] \in Tasks /\ rec[job[s]].status \in JobStatus(pc[s])
  BY DEF JobInv

(* The process that holds state.lock for a client's operation.              *)
LEMMA TxnIsClients ==
  ASSUME TypeOK, TxnInv, NEW c \in Clients, txn.by = c
  PROVE  /\ txn.task \in Tasks
         /\ Admitting(c) \/ Cancelling(c)
  BY ConstantsAssumption DEF TxnInv, NoTxn, Admitting, Cancelling, Settling

(* What is to be stored at the end of a tick has been decided.              *)
LEMMA OutIsDecided ==
  ASSUME OutInv, NEW s \in Services, pc[s] \in Deciding
  PROVE  out[s] \in Terminal
  BY DEF OutInv

(* Every step keeps every variable well typed.                              *)
LEMMA TypeStep ==
  ASSUME TypeOK, JobInv, TxnInv, OutInv, [Next]_vars
  PROVE  TypeOK'
<1>1. ASSUME NEW c \in Clients, NEW t \in Tasks, NEW p \in Payloads, SubmitDirectory(c, t, p) PROVE TypeOK'
  <2>1. NewRecord(p) \in Record
    <3>1. IsFiniteSet(Admitted)
      BY ConstantsAssumption, FS_Subset DEF Admitted
    <3>2. Cardinality(Admitted) \in Nat
      BY <3>1, FS_CardinalityType
    <3> QED
      BY <3>2 DEF NewRecord, Record, Statuses, Recorded
  <2>2. [NoFiles EXCEPT !.dir = TRUE] \in Files
    BY DEF NoFiles, Files, Tests, Agents
  <2> QED
    BY <1>1, <2>1, <2>2, TypeParts DEF SubmitDirectory, StoreOK, ServiceOK, GhostOK, serviceVars, ghostVars, Procs
<1>2. ASSUME NEW c \in Clients, NEW t \in Tasks, NEW p \in Payloads, SubmitDuplicate(c, t, p) PROVE TypeOK'
  BY <1>2 DEF SubmitDuplicate, TypeOK, storeVars, serviceVars
<1>3. ASSUME NEW c \in Clients, SubmitArtifacts(c) PROVE TypeOK'
  <2> DEFINE a == IF txn.to.payload \in CodingPayloads THEN "not_started" ELSE "none"
  <2>1. txn.task \in Tasks
    BY <1>3, TxnIsClients DEF SubmitArtifacts
  <2>2. art[txn.task] \in Files /\ a \in Agents
    BY <2>1 DEF TypeOK, Agents
  <2> HIDE DEF a
  <2>3. [art[txn.task] EXCEPT !.result = "submitted", !.test = "not_run", !.agent = a] \in Files
    BY <2>2 DEF Files, Recorded, Tests
  <2>4. art' = [art EXCEPT ![txn.task] = [art[txn.task] EXCEPT !.result = "submitted", !.test = "not_run", !.agent = a]]
    BY <1>3, <2>1 DEF SubmitArtifacts, TypeOK, a
  <2>5. art' \in [Tasks -> Files]
    BY <2>1, <2>3, <2>4 DEF TypeOK
  <2> QED
    BY <1>3, <2>5, TypeParts DEF SubmitArtifacts, StoreOK, ServiceOK, GhostOK, serviceVars, ghostVars
<1>4. ASSUME NEW c \in Clients, SubmitCommit(c) PROVE TypeOK'
  <2>1. txn.task \in Tasks /\ txn.to.payload \in Payloads
    BY <1>4, TxnIsClients DEF SubmitCommit, Commit, Admitting, Cancelling
  <2> QED
    BY <1>4, <2>1, TypeParts, CommitType DEF SubmitCommit, ServiceOK, GhostOK, serviceVars, Procs
<1>5. ASSUME NEW c \in Clients, NEW t \in Tasks, CancelQueued(c, t) PROVE TypeOK'
  <2> DEFINE r == [rec[t] EXCEPT !.status = "cancelled", !.cancel = TRUE]
  <2>1. rec[t] \in Record /\ "cancelled" \in Recorded \cap Statuses
    BY DEF TypeOK, Statuses, Recorded, Terminal
  <2>2. r \in Record
    BY <2>1, RecordUpdates
  <2>3. r.status \in Recorded
    BY <2>1 DEF Record
  <2> HIDE DEF r
  <2>4. Publish(c, t, r) /\ UNCHANGED rec
    BY <1>5 DEF CancelQueued, r
  <2> QED
    BY <1>5, <2>2, <2>3, <2>4, TypeParts, PublishType DEF CancelQueued, ServiceOK, GhostOK, serviceVars, ghostVars, Procs
<1>6. ASSUME NEW c \in Clients, NEW t \in Tasks, CancelHeld(c, t) PROVE TypeOK'
  <2>1. [rec[t] EXCEPT !.cancel = TRUE] \in Record
    BY RecordUpdates DEF TypeOK
  <2> QED
    BY <1>6, <2>1 DEF CancelHeld, TypeOK, serviceVars, ghostVars
<1>7. ASSUME NEW c \in Clients, CancelCommit(c) PROVE TypeOK'
  BY <1>7, TypeParts, CommitType DEF CancelCommit, ServiceOK, GhostOK, serviceVars, ghostVars, Procs
<1>8. ASSUME NEW c \in Clients, ClientFails(c) PROVE TypeOK'
  BY <1>8, TypeParts, AbandonType DEF ClientFails, ServiceOK, GhostOK, serviceVars, ghostVars, Procs
<1>9. ASSUME NEW s \in Services, Start(s) PROVE TypeOK'
  BY <1>9 DEF Start, TypeOK, storeVars, ghostVars, LeftBehind, Having, Points
<1>10. ASSUME NEW s \in Services, RecoverArtifacts(s) PROVE TypeOK'
  <2>1. PICK t \in todo[s] :
          /\ job'  = [job EXCEPT ![s] = t]
          /\ todo' = [todo EXCEPT ![s] = @ \ {t}]
          /\ pc'   = [pc EXCEPT ![s] = "recovered"]
          /\ art'  = [art EXCEPT ![t].test  = "not_completed",
                                 ![t].agent = IF Coding(t) THEN "interrupted" ELSE @]
    BY <1>10 DEF RecoverArtifacts
  <2>2. t \in Tasks /\ art[t] \in Files
    BY <2>1 DEF TypeOK
  <2>3. art' \in [Tasks -> Files]
    BY <2>1, <2>2 DEF TypeOK, Files, Tests, Agents
  <2> QED
    BY <1>10, <2>1, <2>2, <2>3 DEF RecoverArtifacts, TypeOK, Points, ghostVars
<1>11. ASSUME NEW s \in Services, RecoverPublish(s) PROVE TypeOK'
  <2>1. job[s] \in Tasks
    BY <1>11, HasJob DEF RecoverPublish, At, Jobless
  <2> QED
    BY <1>11, <2>1, FinishType DEF RecoverPublish, Recovered, Points, Recorded, Terminal
<1>12. ASSUME NEW s \in Services, RecoverCommit(s) PROVE TypeOK'
  <2>1. StoreOK' /\ GhostOK'
    BY <1>12, TypeParts, CommitType DEF RecoverCommit, GhostOK, ghostVars, Procs
  <2>2. ServiceOK'
    BY <1>12, TypeParts, MoveType DEF RecoverCommit, Points
  <2> QED
    BY <2>1, <2>2, TypeParts
<1>13. ASSUME NEW s \in Services, Ready(s) PROVE TypeOK'
  BY <1>13 DEF Ready, TypeOK, storeVars, ghostVars, Points
<1>14. ASSUME NEW s \in Services, Exit(s) PROVE TypeOK'
  BY <1>14 DEF Exit, Gone, NoWrite, TypeOK, storeVars, ghostVars, Points
<1>15. ASSUME NEW s \in Services, Stop(s) PROVE TypeOK'
  BY <1>15 DEF Stop, TypeOK, storeVars, ghostVars
<1>16. ASSUME NEW s \in Services, ReceiverDies(s) PROVE TypeOK'
  BY <1>16 DEF ReceiverDies, TypeOK, storeVars, ghostVars
<1>17. ASSUME NEW s \in Services, Crash(s) PROVE TypeOK'
  BY <1>17, TypeParts, AbandonType DEF Crash, Gone, ServiceOK, GhostOK, ghostVars, Points, Procs
<1>18. ASSUME NEW s \in Services, Pick(s) PROVE TypeOK'
  <2>1. StoreOK' /\ GhostOK'
    BY <1>18, TypeParts DEF Pick, NoWrite, StoreOK, GhostOK, storeVars, ghostVars
  <2>2. ServiceOK'
    BY <1>18, TypeParts, MoveType DEF Pick, Points, Having
  <2> QED
    BY <2>1, <2>2, TypeParts
<1>19. ASSUME NEW s \in Services, Reserve(s) PROVE TypeOK'
  <2>1. job[s] \in Tasks
    BY <1>19, HasJob DEF Reserve, At, Jobless
  <2> QED
    BY <1>19, <2>1, AdvanceType DEF Reserve, Points, Recorded, Active
<1>20. ASSUME NEW s \in Services, ReserveLost(s) PROVE TypeOK'
  <2>1. StoreOK' /\ GhostOK'
    BY <1>20, TypeParts DEF ReserveLost, FoundTerminal, NoWrite, StoreOK, GhostOK, storeVars, ghostVars
  <2>2. ServiceOK'
    BY <1>20, TypeParts, MoveType DEF ReserveLost, FoundTerminal, Points
  <2> QED
    BY <2>1, <2>2, TypeParts
<1>21. ASSUME NEW s \in Services, Block(s) PROVE TypeOK'
  <2>1. job[s] \in Tasks
    BY <1>21, HasJob DEF Block, At, Jobless
  <2> QED
    BY <1>21, <2>1, FinishType DEF Block, Points, Recorded, Terminal
<1>22. ASSUME NEW s \in Services, MakeWorkspace(s) PROVE TypeOK'
  <2>1. job[s] \in Tasks /\ Mine(s) \in Files
    BY <1>22, HasJob DEF MakeWorkspace, At, Jobless, Mine, TypeOK, InExecutor
  <2>2. [Mine(s) EXCEPT !.workspace = TRUE] \in Files
    BY <2>1 DEF Files
  <2>3. StoreOK'
    BY <1>22, <2>1, <2>2, TypeParts, WriteType DEF MakeWorkspace
  <2>4. ServiceOK'
    BY <1>22, TypeParts, MoveType DEF MakeWorkspace, Points
  <2> QED
    BY <1>22, <2>3, <2>4, TypeParts DEF MakeWorkspace, GhostOK, ghostVars
<1>23. ASSUME NEW s \in Services, Prepared(s) PROVE TypeOK'
  <2>1. StoreOK' /\ GhostOK'
    BY <1>23, TypeParts DEF Prepared, NoWrite, StoreOK, GhostOK, storeVars, ghostVars
  <2>2. ServiceOK'
    BY <1>23, TypeParts, MoveType DEF Prepared, Points
  <2> QED
    BY <2>1, <2>2, TypeParts
<1>24. ASSUME NEW s \in Services, PrepareAborts(s) PROVE TypeOK'
  <2>1. StoreOK' /\ GhostOK'
    BY <1>24, TypeParts DEF PrepareAborts, NoWrite, StoreOK, GhostOK, storeVars, ghostVars
  <2>2. ServiceOK'
    BY <1>24, TypeParts, MoveType DEF PrepareAborts, Points, AbortStatus, Terminal
  <2> QED
    BY <2>1, <2>2, TypeParts
<1>25. ASSUME NEW s \in Services, StartRunning(s) PROVE TypeOK'
  <2>1. job[s] \in Tasks
    BY <1>25, HasJob DEF StartRunning, At, Jobless
  <2> QED
    BY <1>25, <2>1, AdvanceType DEF StartRunning, Points, Recorded, Active
<1>26. ASSUME NEW s \in Services, RunningCancelled(s) PROVE TypeOK'
  <2>1. job[s] \in Tasks
    BY <1>26, HasJob DEF RunningCancelled, At, Jobless
  <2> QED
    BY <1>26, <2>1, FinishType DEF RunningCancelled, Points, Recorded, Active
<1>27. ASSUME NEW s \in Services, Invoke(s) PROVE TypeOK'
  <2>1. job[s] \in Tasks /\ Mine(s) \in Files
    BY <1>27, HasJob DEF Invoke, At, Jobless, Mine, TypeOK
  <2>2. [Mine(s) EXCEPT !.agent = IF Coding(job[s]) THEN "running" ELSE @] \in Files
    BY <2>1 DEF Files, Agents
  <2>3. StoreOK'
    BY <1>27, <2>1, <2>2, TypeParts, WriteType DEF Invoke
  <2>4. ServiceOK'
    BY <1>27, TypeParts, MoveType DEF Invoke, Points
  <2> QED
    BY <1>27, <2>1, <2>3, <2>4, TypeParts DEF Invoke, GhostOK
<1>28. ASSUME NEW s \in Services, SandboxEnds(s) PROVE TypeOK'
  <2>1. job[s] \in Tasks /\ Mine(s) \in Files
    BY <1>28, HasJob DEF SandboxEnds, At, Jobless, Mine, TypeOK, InExecutor
  <2>2. StoreOK'
    BY <1>28, <2>1, TypeParts, FileUpdates, WriteType DEF SandboxEnds, Tests
  <2>3. ServiceOK'
    BY <1>28, TypeParts, MoveType DEF SandboxEnds, Points, Terminal
  <2> QED
    BY <1>28, <2>2, <2>3, TypeParts DEF SandboxEnds, GhostOK, ghostVars
<1>29. ASSUME NEW s \in Services, SandboxPasses(s) PROVE TypeOK'
  <2>1. job[s] \in Tasks /\ Mine(s) \in Files
    BY <1>29, HasJob DEF SandboxPasses, At, Jobless, Mine, TypeOK, InExecutor
  <2>2. StoreOK'
    BY <1>29, <2>1, TypeParts, FileUpdates, WriteType DEF SandboxPasses, Tests
  <2>3. ServiceOK'
    BY <1>29, TypeParts, MoveType DEF SandboxPasses, Points
  <2> QED
    BY <1>29, <2>2, <2>3, TypeParts DEF SandboxPasses, GhostOK, ghostVars
<1>30. ASSUME NEW s \in Services, SandboxPatch(s) PROVE TypeOK'
  <2>1. job[s] \in Tasks /\ Mine(s) \in Files
    BY <1>30, HasJob DEF SandboxPatch, At, Jobless, Mine, TypeOK, InExecutor
  <2>2. [Mine(s) EXCEPT !.patch = TRUE] \in Files
    BY <2>1 DEF Files
  <2>3. StoreOK'
    BY <1>30, <2>1, <2>2, TypeParts, WriteType DEF SandboxPatch
  <2>4. ServiceOK'
    BY <1>30, TypeParts, MoveType DEF SandboxPatch, Points, Terminal, Verdict
  <2> QED
    BY <1>30, <2>3, <2>4, TypeParts DEF SandboxPatch, GhostOK, ghostVars
<1>31. ASSUME NEW s \in Services, CodingPatch(s) PROVE TypeOK'
  <2>1. job[s] \in Tasks /\ Mine(s) \in Files
    BY <1>31, HasJob DEF CodingPatch, At, Jobless, Mine, TypeOK, InExecutor
  <2>2. [Mine(s) EXCEPT !.patch = TRUE] \in Files
    BY <2>1 DEF Files
  <2>3. StoreOK'
    BY <1>31, <2>1, <2>2, TypeParts, WriteType DEF CodingPatch
  <2>4. ServiceOK'
    BY <1>31, TypeParts, MoveType DEF CodingPatch, Points
  <2> QED
    BY <1>31, <2>3, <2>4, TypeParts DEF CodingPatch, GhostOK, ghostVars
<1>32. ASSUME NEW s \in Services, CodingTested(s) PROVE TypeOK'
  <2>1. job[s] \in Tasks /\ Mine(s) \in Files
    BY <1>32, HasJob DEF CodingTested, At, Jobless, Mine, TypeOK, InExecutor
  <2>2. StoreOK'
    BY <1>32, <2>1, TypeParts, FileUpdates, WriteType DEF CodingTested, Tests
  <2>3. ServiceOK'
    BY <1>32, TypeParts, MoveType DEF CodingTested, Points
  <2> QED
    BY <1>32, <2>2, <2>3, TypeParts DEF CodingTested, GhostOK, ghostVars
<1>33. ASSUME NEW s \in Services, CodingCompletes(s) PROVE TypeOK'
  <2>1. job[s] \in Tasks /\ Mine(s) \in Files
    BY <1>33, HasJob DEF CodingCompletes, At, Jobless, Mine, TypeOK, InExecutor
  <2>2. StoreOK'
    BY <1>33, <2>1, TypeParts, FileUpdates, WriteType DEF CodingCompletes, Agents
  <2>3. ServiceOK'
    BY <1>33, TypeParts, MoveType DEF CodingCompletes, Points, Terminal, Verdict
  <2> QED
    BY <1>33, <2>2, <2>3, TypeParts DEF CodingCompletes, GhostOK, ghostVars
<1>34. ASSUME NEW s \in Services, CodingFails(s) PROVE TypeOK'
  <2>1. job[s] \in Tasks /\ Mine(s) \in Files
    BY SMTT(60), <1>34, HasJob DEF CodingFails, At, Jobless, Mine, TypeOK, InExecutor
  <2>2. StoreOK'
    BY <1>34, <2>1, TypeParts, FileUpdates, WriteType DEF CodingFails, Agents, Tests, AbortStatus
  <2>3. ServiceOK'
    BY <1>34, TypeParts, MoveType DEF CodingFails, Points, Terminal, AbortStatus
  <2> QED
    BY <1>34, <2>2, <2>3, TypeParts DEF CodingFails, GhostOK, ghostVars
<1>35. ASSUME NEW s \in Services, ExecutorRaises(s) PROVE TypeOK'
  <2>1. StoreOK' /\ GhostOK'
    BY <1>35, TypeParts DEF ExecutorRaises, NoWrite, StoreOK, GhostOK, storeVars, ghostVars
  <2>2. ServiceOK'
    BY <1>35, TypeParts, MoveType DEF ExecutorRaises, Points, Terminal
  <2> QED
    BY <2>1, <2>2, TypeParts
<1>36. ASSUME NEW s \in Services, Return(s) PROVE TypeOK'
  <2>1. job[s] \in Tasks /\ out[s] \in Terminal
    BY <1>36, HasJob, OutIsDecided DEF Return, Deciding, At, Jobless
  <2> QED
    BY <1>36, <2>1, FinishType DEF Return, Points, Recorded, Terminal
<1>37. ASSUME NEW s \in Services, AbortArtifact(s) PROVE TypeOK'
  <2>1. job[s] \in Tasks /\ Mine(s) \in Files
    BY SMTT(60), <1>37, HasJob DEF AbortArtifact, At, Jobless, Mine, TypeOK, InExecutor
  <2>2. StoreOK'
    BY <1>37, <2>1, TypeParts, FileUpdates, WriteType DEF AbortArtifact, Tests
  <2>3. ServiceOK'
    BY <1>37, TypeParts, MoveType DEF AbortArtifact, Points
  <2> QED
    BY <1>37, <2>2, <2>3, TypeParts DEF AbortArtifact, GhostOK, ghostVars
<1>38. ASSUME NEW s \in Services, AbortFinish(s) PROVE TypeOK'
  <2>1. job[s] \in Tasks /\ out[s] \in Terminal
    BY <1>38, HasJob, OutIsDecided DEF AbortFinish, Deciding, At, Jobless
  <2> QED
    BY <1>38, <2>1, FinishType DEF AbortFinish, Points, Recorded
<1>39. ASSUME NEW s \in Services, TickCommit(s) PROVE TypeOK'
  <2>1. StoreOK' /\ GhostOK'
    BY <1>39, TypeParts, CommitType DEF TickCommit, GhostOK, ghostVars, Procs
  <2>2. ServiceOK'
    BY <1>39, TypeParts, MoveType DEF TickCommit, Points
  <2> QED
    BY <2>1, <2>2, TypeParts
<1>40. ASSUME NEW s \in Services, StorageError(s) PROVE TypeOK'
  <2>1. StoreOK' /\ GhostOK'
    BY <1>40, TypeParts, AbandonType DEF StorageError, GhostOK, ghostVars, Procs
  <2>2. ServiceOK'
    BY <1>40, TypeParts, MoveType DEF StorageError, Points, Terminal
  <2> QED
    BY <2>1, <2>2, TypeParts
<1>41. ASSUME NEW s \in Services, StorageSettled(s) PROVE TypeOK'
  <2>1. StoreOK' /\ GhostOK'
    BY <1>41, TypeParts DEF StorageSettled, NoWrite, StoreOK, GhostOK, storeVars, ghostVars
  <2>2. ServiceOK'
    BY <1>41, TypeParts, MoveType DEF StorageSettled, Points
  <2> QED
    BY <2>1, <2>2, TypeParts
<1>42. ASSUME NEW s \in Services, StorageArtifact(s) PROVE TypeOK'
  <2>1. job[s] \in Tasks /\ Mine(s) \in Files
    BY SMTT(60), <1>42, HasJob DEF StorageArtifact, At, Jobless, Mine, TypeOK, InExecutor
  <2>2. StoreOK'
    BY <1>42, <2>1, TypeParts, FileUpdates, WriteType DEF StorageArtifact, Tests
  <2>3. ServiceOK'
    BY <1>42, TypeParts, MoveType DEF StorageArtifact, Points
  <2> QED
    BY <1>42, <2>2, <2>3, TypeParts DEF StorageArtifact, GhostOK, ghostVars
<1>43. ASSUME NEW s \in Services, StorageFinish(s) PROVE TypeOK'
  <2>1. job[s] \in Tasks /\ out[s] \in Terminal
    BY <1>43, HasJob, OutIsDecided DEF StorageFinish, Deciding, At, Jobless
  <2> QED
    BY <1>43, <2>1, FinishType DEF StorageFinish, Points, Recorded
<1>44. ASSUME NEW s \in Services, StorageLost(s) PROVE TypeOK'
  <2>1. StoreOK' /\ GhostOK'
    BY <1>44, TypeParts DEF StorageLost, FoundTerminal, NoWrite, StoreOK, GhostOK, storeVars, ghostVars
  <2>2. ServiceOK'
    BY <1>44, TypeParts, MoveType DEF StorageLost, FoundTerminal, Points
  <2> QED
    BY <2>1, <2>2, TypeParts
<1>45. CASE UNCHANGED vars
  BY <1>45 DEF vars, TypeOK
<1> QED
  BY <1>1, <1>2, <1>3, <1>4, <1>5, <1>6, <1>7, <1>8, <1>9, <1>10, <1>11, <1>12, <1>13, <1>14, <1>15, <1>16, <1>17, <1>18, <1>19, <1>20, <1>21, <1>22, <1>23, <1>24, <1>25, <1>26, <1>27, <1>28, <1>29, <1>30, <1>31, <1>32, <1>33, <1>34, <1>35, <1>36, <1>37, <1>38, <1>39, <1>40, <1>41, <1>42, <1>43, <1>44, <1>45 DEF Next, ClientStep, Recovery, Tick, Executor, Fault

-----------------------------------------------------------------------------
(* What a terminal transition publishes, field by field.                    *)
LEMMA PublishEffect ==
  ASSUME TypeOK, NEW p \in Procs, NEW t \in Tasks, NEW r \in Record, Publish(p, t, r)
  PROVE  /\ txn'.by = p /\ txn'.task = t /\ txn'.to = r
         /\ art'[t].result = r.status
         /\ \A u \in Tasks : /\ u # t => art'[u] = art[u]
                             /\ art'[u].dir = art[u].dir
                             /\ art'[u].test = art[u].test
                             /\ art'[u].patch = art[u].patch
                             /\ art'[u].agent = art[u].agent
  BY DEF Publish, TypeOK, Files

LEMMA FinishEffect ==
  ASSUME TypeOK, NEW s \in Services, job[s] \in Tasks, NEW status, NEW point,
         Settle(job[s], status) \in Statuses, Finish(s, status, point)
  PROVE  /\ txn = NoTxn
         /\ txn'.by = s /\ txn'.task = job[s]
         /\ txn'.to.status = Settle(job[s], status)
         /\ txn'.to.payload = rec[job[s]].payload
         /\ txn'.to.cancel = rec[job[s]].cancel
         /\ art'[job[s]].result = Settle(job[s], status)
         /\ \A u \in Tasks : /\ u # job[s] => art'[u] = art[u]
                             /\ art'[u].dir = art[u].dir
                             /\ art'[u].test = art[u].test
                             /\ art'[u].patch = art[u].patch
                             /\ art'[u].agent = art[u].agent
         /\ rec[job[s]].status \notin Terminal
         /\ pc' = [pc EXCEPT ![s] = point]
         /\ UNCHANGED <<rec, job, out, todo, runs>>
<1> DEFINE st == Settle(job[s], status)
<1> HIDE DEF st
<1> DEFINE r == [rec[job[s]] EXCEPT !.status = st]
<1>1. rec[job[s]] \in Record
  BY DEF TypeOK
<1>2. r \in Record
  BY <1>1, RecordUpdates DEF st
<1>3. r.status = st /\ r.payload = rec[job[s]].payload /\ r.cancel = rec[job[s]].cancel
  BY <1>1 DEF Record
<1> HIDE DEF r
<1>4. Publish(s, job[s], r)
  BY DEF Finish, r, st
<1> QED
  BY <1>2, <1>3, <1>4, PublishEffect DEF Finish, Goto, Open, Procs, st, ghostVars

(* A terminal transition up to its commit keeps state.lock's invariant, the *)
(* evidence of terminal records and the status of the task at hand.         *)
LEMMA FinishKeeps ==
  ASSUME TypeOK, TxnInv, TerminalEvidence, JobInv, NEW s \in Services, NEW status, NEW point,
         pc[s] \notin Jobless, Settle(job[s], status) \in Terminal,
         rec[job[s]].status = "submitted" => Settle(job[s], status) = "failed",
         point \in Committing, rec[job[s]].status \in JobStatus(point),
         Finish(s, status, point)
  PROVE  TxnInv' /\ TerminalEvidence' /\ JobInv'
<1>1. job[s] \in Tasks
  BY HasJob
<1>2. Settle(job[s], status) \in Statuses
  BY DEF Statuses, Recorded
<1> DEFINE st == Settle(job[s], status)
<1> HIDE DEF st
<1>3. /\ txn = NoTxn
      /\ txn'.by = s /\ txn'.task = job[s] /\ txn'.to.status = st
      /\ txn'.to.payload = rec[job[s]].payload
      /\ txn'.to.cancel = rec[job[s]].cancel
      /\ art'[job[s]].result = st
      /\ \A u \in Tasks : u # job[s] => art'[u] = art[u]
      /\ rec[job[s]].status \notin Terminal
      /\ pc' = [pc EXCEPT ![s] = point]
      /\ UNCHANGED <<rec, job>>
  BY <1>1, <1>2, FinishEffect DEF st
<1>4. pc'[s] = point /\ \A u \in Services \ {s} : pc'[u] = pc[u]
  BY <1>3 DEF TypeOK
<1>5. \A u \in Services : pc[u] \notin Committing
  BY <1>3, ConstantsAssumption DEF TxnInv, NoTxn
<1>6. TxnInv'
  BY <1>3, <1>4, <1>5 DEF TxnInv, Settling, st
<1>7. TerminalEvidence'
  BY <1>3 DEF TerminalEvidence
<1>8. JobInv'
  BY <1>1, <1>3, <1>4 DEF JobInv, Jobless, Committing
<1> QED
  BY <1>6, <1>7, <1>8

(* The five places that make a terminal transition meet its assumptions.    *)
LEMMA FinishSteps ==
  ASSUME IInv, NEW s \in Services,
         \/ RecoverPublish(s) \/ Block(s) \/ RunningCancelled(s) \/ Return(s)
         \/ AbortFinish(s) \/ StorageFinish(s)
  PROVE  TxnInv' /\ TerminalEvidence' /\ JobInv'
<1> USE DEF IInv, At, Jobless, Committing, JobStatus, Terminal, Active
<1>1. CASE RecoverPublish(s)
  BY <1>1, HasJob, FinishKeeps DEF RecoverPublish, Recovered, Settle
<1>2. CASE Block(s)
  BY <1>2, HasJob, FinishKeeps DEF Block, Settle
<1>3. CASE RunningCancelled(s)
  BY <1>3, HasJob, FinishKeeps DEF RunningCancelled, Settle
<1>4. CASE Return(s)
  BY <1>4, HasJob, OutIsDecided, FinishKeeps DEF Return, Settle, Deciding, InExecutor
<1>5. CASE AbortFinish(s)
  BY <1>5, HasJob, OutIsDecided, FinishKeeps DEF AbortFinish, Settle, Deciding
<1>6. CASE StorageFinish(s)
  BY <1>6, HasJob, FinishKeeps DEF StorageFinish, Settle, OutInv, Finish, Open, Recorded
<1> QED
  BY <1>1, <1>2, <1>3, <1>4, <1>5, <1>6

(* Recovery's first step, field by field.                                   *)
LEMMA RecoverEffect ==
  ASSUME TypeOK, OwnerInv, NEW s \in Services, RecoverArtifacts(s)
  PROVE  \E t \in Tasks :
           /\ rec[t].status \in Active
           /\ pc[s] = "recovering" /\ pc'[s] = "recovered" /\ job'[s] = t
           /\ \A u \in Services \ {s} : pc'[u] = pc[u] /\ job'[u] = job[u]
           /\ \A v \in Tasks : /\ art'[v].result = art[v].result
                               /\ art'[v].dir = art[v].dir
                               /\ art'[v].patch = art[v].patch
                               /\ v # t => art'[v] = art[v]
           /\ UNCHANGED <<rec, txn, out, runs>>
<1>1. PICK t \in todo[s] :
        /\ pc'  = [pc EXCEPT ![s] = "recovered"]
        /\ job' = [job EXCEPT ![s] = t]
        /\ art' = [art EXCEPT ![t].test  = "not_completed",
                              ![t].agent = IF Coding(t) THEN "interrupted" ELSE @]
  BY DEF RecoverArtifacts
<1>2. t \in Tasks /\ rec[t].status \in Active
  BY <1>1 DEF TypeOK, OwnerInv, Having
<1>3. \A v \in Tasks : /\ art'[v].result = art[v].result
                       /\ art'[v].dir = art[v].dir
                       /\ art'[v].patch = art[v].patch
                       /\ v # t => art'[v] = art[v]
  BY <1>1, <1>2 DEF TypeOK, Files
<1> QED
  BY <1>1, <1>2, <1>3 DEF RecoverArtifacts, At, TypeOK, ghostVars

LEMMA RecoverKeeps ==
  ASSUME IInv, NEW s \in Services, RecoverArtifacts(s)
  PROVE  TxnInv' /\ JobInv' /\ SuccessInv'
<1>1. PICK t \in Tasks :
        /\ rec[t].status \in Active
        /\ pc[s] = "recovering" /\ pc'[s] = "recovered" /\ job'[s] = t
        /\ \A u \in Services \ {s} : pc'[u] = pc[u] /\ job'[u] = job[u]
        /\ \A v \in Tasks : /\ art'[v].result = art[v].result
                            /\ art'[v].dir = art[v].dir
                            /\ art'[v].patch = art[v].patch
                            /\ v # t => art'[v] = art[v]
        /\ UNCHANGED <<rec, txn, out, runs>>
  BY RecoverEffect DEF IInv
<1>2. \A u \in Services \ {s} : pc'[u] = "off" /\ pc[u] = "off"
  BY <1>1 DEF IInv, WorkerInv
<1>3. \A c \in Clients : /\ Admitting(c) => Admitting(c)'
                         /\ Cancelling(c) => Cancelling(c)'
  BY <1>1 DEF Admitting, Cancelling
<1>4. \A u \in Services : pc[u] \notin Committing /\ pc'[u] \notin Committing
  BY <1>1, <1>2 DEF Committing
<1>5. TxnInv'
  <2>1. CASE txn = NoTxn
    BY <1>1, <1>4, <2>1 DEF TxnInv, NoTxn, NoRecord
  <2>2. CASE \E c \in Clients : Admitting(c) \/ Cancelling(c)
    BY <1>3, <1>4, <2>2 DEF TxnInv
  <2> QED
    BY <1>4, <2>1, <2>2 DEF IInv, TxnInv, Settling
<1>6. JobInv'
  BY <1>1, <1>2 DEF IInv, JobInv, Jobless, JobStatus
<1>7. SuccessEvidence'
  BY <1>1 DEF IInv, SuccessInv, SuccessAt, SuccessEvidence, Coding, Active
<1>8. SuccessInv'
  BY <1>1, <1>2, <1>4, <1>7 DEF SuccessInv, SuccessAt
<1> QED
  BY <1>5, <1>6, <1>8

(* A client's cancellation of a queued task up to its commit.               *)
LEMMA CancelKeeps ==
  ASSUME IInv, NEW c \in Clients, NEW t \in Tasks, CancelQueued(c, t)
  PROVE  TxnInv'
<1> DEFINE r == [rec[t] EXCEPT !.status = "cancelled", !.cancel = TRUE]
<1>1. rec[t] \in Record
  BY DEF IInv, TypeOK
<1>2. r \in Record
  BY <1>1, RecordUpdates DEF Statuses, Recorded, Terminal
<1>3. r.status = "cancelled" /\ r.cancel
  BY <1>1 DEF Record
<1> HIDE DEF r
<1>4. Publish(c, t, r)
  BY DEF CancelQueued, r
<1>5. txn'.by = c /\ txn'.task = t /\ txn'.to = r /\ art'[t].result = r.status
  BY <1>2, <1>4, PublishEffect DEF IInv, Procs
<1>6. \A s \in Services : pc[s] \notin Committing
  BY ConstantsAssumption DEF CancelQueued, IInv, TxnInv, NoTxn
<1>7. Cancelling(c)'
  BY <1>3, <1>5 DEF Cancelling, CancelQueued
<1> QED
  BY <1>6, <1>7 DEF TxnInv, CancelQueued, serviceVars

(* The commit of an admission touches no task a service process works on.   *)
LEMMA AdmissionKeeps ==
  ASSUME IInv, NEW c \in Clients, SubmitCommit(c)
  PROVE  JobInv'
<1>1. txn.task \in Tasks /\ rec[txn.task].status = "absent"
  BY TxnIsClients DEF IInv, SubmitCommit, Commit, Admitting, Cancelling
<1>2. \A u \in Tasks : u # txn.task => rec'[u] = rec[u]
  BY <1>1 DEF SubmitCommit, Commit, IInv, TypeOK
<1>3. ASSUME NEW s \in Services, pc[s] \notin Jobless PROVE job[s] # txn.task
  BY <1>1, <1>3, HasJob DEF IInv, JobStatus, Recorded, Active, Terminal, Jobless, InExecutor
<1> QED
  BY <1>2, <1>3 DEF SubmitCommit, IInv, JobInv, serviceVars

(* Reservation: the task has not been invoked.                              *)
LEMMA ReserveKeeps ==
  ASSUME IInv, NEW s \in Services, Reserve(s)
  PROVE  RunsInv'
<1>1. job[s] \in Tasks /\ rec[job[s]].status = "submitted"
  BY HasJob DEF Reserve, Advance, At, IInv, Jobless, JobStatus, InExecutor
<1>2. /\ \A u \in Tasks : u # job[s] => rec'[u] = rec[u]
      /\ rec'[job[s]].status = "reserved"
  BY <1>1 DEF Reserve, Advance, IInv, TypeOK, Record
<1>3. /\ pc'[s] = "reserved"
      /\ \A u \in Services \ {s} : pc'[u] = pc[u]
      /\ UNCHANGED <<job, runs>>
  BY DEF Reserve, Advance, Goto, IInv, TypeOK, ghostVars
<1> QED
  BY <1>1, <1>2, <1>3 DEF IInv, RunsInv, InExecutor

(* The artifacts of an admission are not those of a finished task.          *)
LEMMA ArtifactsKeep ==
  ASSUME IInv, NEW c \in Clients, SubmitArtifacts(c)
  PROVE  SuccessInv'
<1>1. txn.task \in Tasks /\ rec[txn.task].status = "absent"
  BY TxnIsClients DEF IInv, SubmitArtifacts, Admitting, Cancelling
<1>2. \A u \in Tasks : u # txn.task => art'[u] = art[u]
  BY <1>1 DEF SubmitArtifacts, IInv, TypeOK
<1>3. ASSUME NEW s \in Services, pc[s] \notin Jobless
      PROVE  job[s] \in Tasks /\ art'[job[s]] = art[job[s]]
  BY <1>1, <1>2, <1>3, HasJob
     DEF IInv, JobStatus, Recorded, Active, Terminal, Jobless, InExecutor
<1>4. SuccessEvidence'
  <2> SUFFICES ASSUME NEW u \in Tasks, rec'[u].status = "succeeded"
               PROVE  /\ runs'[u] = 1 /\ art'[u].test = "passed" /\ art'[u].patch
                      /\ rec'[u].payload \in CodingPayloads => art'[u].agent = "completed"
                      /\ ~rec'[u].cancel
    BY DEF SuccessEvidence, Coding
  <2>1. rec' = rec /\ runs' = runs
    BY DEF SubmitArtifacts, ghostVars
  <2>2. rec[u].status = "succeeded" /\ u # txn.task
    BY <1>1, <2>1
  <2>3. art'[u] = art[u]
    BY <1>2, <2>2
  <2>4. SuccessEvidence
    BY DEF IInv, SuccessInv, SuccessAt
  <2> QED
    BY <2>1, <2>2, <2>3, <2>4 DEF SuccessEvidence, Coding
<1> QED
  <2>1. /\ rec' = rec /\ runs' = runs /\ txn' = txn
        /\ pc' = pc /\ job' = job /\ out' = out
    BY DEF SubmitArtifacts, serviceVars, ghostVars
  <2>2. ASSUME NEW s \in Services
        PROVE  SuccessAt(s)'
    <3>1. CASE pc[s] \in Jobless
      BY <2>1, <3>1 DEF SuccessAt, Jobless, Committing
    <3>2. CASE pc[s] \notin Jobless
      <4>1. art'[job[s]] = art[job[s]]
        BY <1>3, <3>2
      <4> QED
        BY <2>1, <4>1 DEF IInv, SuccessInv, SuccessAt, Evidence, Coding
    <3> QED
      BY <3>1, <3>2
  <2> QED
    BY <1>4, <2>2 DEF SuccessInv

(* Files written by a tick that does not go on to success.                  *)
LEMMA WriteKeeps ==
  ASSUME IInv, NEW s \in Services, NEW files, pc[s] \notin Jobless,
         rec[job[s]].status # "succeeded", Write(s, files), UNCHANGED job,
         \A t \in Tasks : t # job[s] => runs'[t] = runs[t],
         \A u \in Services \ {s} : pc'[u] = pc[u],
         pc'[s] \notin Committing,
         pc'[s] = "testing" => Coding(job[s]) /\ files.patch,
         pc'[s] = "validated" => files.test = "passed" /\ (Coding(job[s]) => files.patch),
         pc'[s] = "returned" /\ out'[s] = "succeeded" =>
           /\ runs'[job[s]] = 1 /\ files.test = "passed" /\ files.patch
           /\ Coding(job[s]) => files.agent = "completed"
  PROVE  SuccessInv'
<1>1. job[s] \in Tasks
  BY HasJob DEF IInv
<1>2. art'[job[s]] = files /\ \A u \in Tasks : u # job[s] => art'[u] = art[u]
  BY <1>1 DEF Write, IInv, TypeOK
<1>3. \A u \in Services \ {s} : pc'[u] = "off"
  BY DEF Jobless, IInv, WorkerInv
<1>4. SuccessEvidence'
  BY <1>1, <1>2 DEF IInv, SuccessInv, SuccessAt, SuccessEvidence, Coding, Write
<1>5. Coding(job[s])' <=> Coding(job[s])
  BY DEF Coding, Write
<1>6. job'[s] = job[s]
  OBVIOUS
<1>7. pc'[s] = "returned" /\ out'[s] = "succeeded" => Evidence(job[s])'
  BY <1>2, <1>5, <1>6 DEF Evidence
<1> QED
  BY <1>2, <1>3, <1>4, <1>5, <1>6, <1>7 DEF SuccessInv, SuccessAt, Committing

(* A fixture that ends without a valid result does not end in success.      *)
LEMMA EndsKeeps ==
  ASSUME IInv, NEW s \in Services, SandboxEnds(s)
  PROVE  SuccessInv'
<1>1. PICK test : Write(s, [Mine(s) EXCEPT !.test = test])
  BY DEF SandboxEnds
<1>2. pc[s] = "executing" /\ rec[job[s]].status \in Active
  BY HasJob DEF SandboxEnds, At, IInv, Jobless, JobStatus, InExecutor, Active
<1>3. /\ pc'[s] = "returned" /\ out'[s] # "succeeded"
      /\ \A u \in Services \ {s} : pc'[u] = pc[u]
      /\ UNCHANGED <<job, runs>>
  BY DEF SandboxEnds, Decide, IInv, TypeOK, ghostVars
<1> QED
  BY <1>1, <1>2, <1>3, WriteKeeps DEF Jobless, Committing, Active

(* Neither does a coding session that raised an exception.                  *)
LEMMA FailsKeep ==
  ASSUME IInv, NEW s \in Services, CodingFails(s)
  PROVE  SuccessInv'
<1>1. PICK status \in AbortStatus(s) \cup {"interrupted"} :
        /\ Write(s, [Mine(s) EXCEPT !.agent = status, !.test = "not_completed"])
        /\ Decide(s, status, "returned")
  BY DEF CodingFails
<1>2. pc[s] \notin Jobless /\ rec[job[s]].status \in Active
  BY HasJob DEF CodingFails, IInv, Jobless, JobStatus, InExecutor, Active
<1>3. /\ pc'[s] = "returned" /\ out'[s] # "succeeded"
      /\ \A u \in Services \ {s} : pc'[u] = pc[u]
      /\ UNCHANGED <<job, runs>>
  BY <1>1 DEF CodingFails, Decide, AbortStatus, IInv, TypeOK, ghostVars
<1> QED
  BY <1>1, <1>2, <1>3, WriteKeeps DEF Committing, Active

LEMMA AbortKeeps ==
  ASSUME IInv, NEW s \in Services, AbortArtifact(s)
  PROVE  SuccessInv'
<1>1. pc[s] \notin Jobless /\ rec[job[s]].status \in Active
  BY HasJob DEF AbortArtifact, At, IInv, Jobless, JobStatus, InExecutor
<1>2. /\ pc'[s] = "aborted"
      /\ \A u \in Services \ {s} : pc'[u] = pc[u]
      /\ UNCHANGED <<job, runs>>
  BY DEF AbortArtifact, Goto, IInv, TypeOK, ghostVars
<1> QED
  BY <1>1, <1>2, WriteKeeps DEF AbortArtifact, Committing, Active

LEMMA OtherWritesKeep ==
  ASSUME IInv, NEW s \in Services,
         \/ MakeWorkspace(s) \/ SandboxPasses(s) \/ SandboxPatch(s) \/ CodingPatch(s)
         \/ CodingTested(s) \/ CodingCompletes(s) \/ StorageArtifact(s)
  PROVE  SuccessInv'
<1>1. /\ pc[s] \notin Jobless /\ job[s] \in Tasks
      /\ rec[job[s]].status \in JobStatus(pc[s])
  BY HasJob DEF MakeWorkspace, SandboxPasses, SandboxPatch, CodingPatch, CodingTested,
     CodingCompletes, StorageArtifact, At, Jobless, IInv
<1>2. art[job[s]] \in Files
  BY <1>1 DEF IInv, TypeOK
<1>3. /\ UNCHANGED <<job, runs>>
      /\ \A u \in Services \ {s} : pc'[u] = pc[u]
  BY DEF MakeWorkspace, SandboxPasses, SandboxPatch, CodingPatch, CodingTested,
     CodingCompletes, StorageArtifact, Goto, Decide, IInv, TypeOK, ghostVars
<1>4. CASE MakeWorkspace(s)
  <2>1. pc'[s] = "preparing" /\ rec[job[s]].status \in Active
    BY <1>1, <1>4 DEF MakeWorkspace, At, Goto, JobStatus, InExecutor, Active, IInv, TypeOK
  <2> QED
    BY <1>1, <1>3, <1>4, <2>1, WriteKeeps DEF MakeWorkspace, Committing, Active
<1>5. CASE SandboxPasses(s)
  <2>1. pc'[s] = "validated" /\ rec[job[s]].status \in Active
    BY <1>1, <1>5 DEF SandboxPasses, At, Goto, JobStatus, InExecutor, Active, IInv, TypeOK
  <2>2. [Mine(s) EXCEPT !.test = "passed"].test = "passed"
    BY <1>2 DEF Mine, Files
  <2> QED
    BY <1>1, <1>3, <1>5, <2>1, <2>2, WriteKeeps DEF SandboxPasses, Committing, Active
<1>6. CASE SandboxPatch(s)
  <2>1. pc'[s] = "returned" /\ rec[job[s]].status \in Active
    BY <1>1, <1>6 DEF SandboxPatch, At, Decide, JobStatus, InExecutor, Active, IInv, TypeOK
  <2>2. runs[job[s]] = 1 /\ Mine(s).test = "passed" /\ ~Coding(job[s])
    BY <1>6 DEF SandboxPatch, At, Mine, InExecutor, IInv, RunsInv, SuccessInv, SuccessAt
  <2> DEFINE files == [Mine(s) EXCEPT !.patch = TRUE]
  <2>3. files.test = "passed" /\ files.patch
    BY <1>2, <2>2 DEF Mine, Files
  <2>4. Write(s, files)
    BY <1>6 DEF SandboxPatch
  <2> HIDE DEF files
  <2> QED
    BY <1>1, <1>3, <2>1, <2>2, <2>3, <2>4, WriteKeeps DEF Committing, Active
<1>7. CASE CodingPatch(s)
  <2>1. pc'[s] = "testing" /\ rec[job[s]].status \in Active
    BY <1>1, <1>7 DEF CodingPatch, At, Goto, JobStatus, InExecutor, Active, IInv, TypeOK
  <2>2. [Mine(s) EXCEPT !.patch = TRUE].patch
    BY <1>2 DEF Mine, Files
  <2> QED
    BY <1>1, <1>3, <1>7, <2>1, <2>2, WriteKeeps DEF CodingPatch, Committing, Active
<1>8. CASE CodingTested(s)
  <2>1. pc'[s] = "validated" /\ rec[job[s]].status \in Active
    BY <1>1, <1>8 DEF CodingTested, At, Goto, JobStatus, InExecutor, Active, IInv, TypeOK
  <2>2. Mine(s).patch
    BY <1>8 DEF CodingTested, At, Mine, IInv, SuccessInv, SuccessAt
  <2> DEFINE files == [Mine(s) EXCEPT !.test = "passed"]
  <2>3. files.test = "passed" /\ files.patch
    BY <1>2, <2>2 DEF Mine, Files
  <2>4. Write(s, files)
    BY <1>8 DEF CodingTested
  <2> HIDE DEF files
  <2> QED
    BY <1>1, <1>3, <2>1, <2>3, <2>4, WriteKeeps DEF Committing, Active
<1>9. CASE CodingCompletes(s)
  <2>1. pc'[s] = "returned" /\ rec[job[s]].status \in Active
    BY <1>1, <1>9 DEF CodingCompletes, At, Decide, JobStatus, InExecutor, Active, IInv, TypeOK
  <2>2. runs[job[s]] = 1 /\ Mine(s).test = "passed" /\ Mine(s).patch
    BY <1>9 DEF CodingCompletes, At, Mine, InExecutor, IInv, RunsInv, SuccessInv, SuccessAt
  <2> DEFINE files == [Mine(s) EXCEPT !.agent = "completed"]
  <2>3. files.test = "passed" /\ files.patch /\ files.agent = "completed"
    BY <1>2, <2>2 DEF Mine, Files
  <2>4. Write(s, files)
    BY <1>9 DEF CodingCompletes
  <2> HIDE DEF files
  <2> QED
    BY <1>1, <1>3, <2>1, <2>2, <2>3, <2>4, WriteKeeps DEF Committing, Active
<1>10. CASE StorageArtifact(s)
  <2>1. pc'[s] = "storage_final" /\ rec[job[s]].status # "succeeded"
    BY <1>10 DEF StorageArtifact, Goto, Terminal, IInv, TypeOK
  <2> QED
    BY <1>1, <1>3, <1>10, <2>1, WriteKeeps DEF StorageArtifact, Committing, Active
<1> QED
  BY <1>4, <1>5, <1>6, <1>7, <1>8, <1>9, <1>10

LEMMA InvokeKeeps ==
  ASSUME IInv, NEW s \in Services, Invoke(s)
  PROVE  SuccessInv'
<1>1. pc[s] \notin Jobless /\ job[s] \in Tasks /\ rec[job[s]].status \in Active
  BY HasJob DEF Invoke, At, IInv, Jobless, JobStatus, InExecutor, Active
<1>2. /\ pc'[s] = "executing"
      /\ \A u \in Services \ {s} : pc'[u] = pc[u]
      /\ \A t \in Tasks : t # job[s] => runs'[t] = runs[t]
      /\ UNCHANGED job
  BY <1>1 DEF Invoke, Goto, IInv, TypeOK
<1> QED
  BY <1>1, <1>2, WriteKeeps DEF Invoke, Committing, Active

(* No other outcome than success needs evidence to be published.            *)
LEMMA OutcomeKeeps ==
  ASSUME IInv, NEW s \in Services, pc[s] \notin Jobless, NEW status, NEW point,
         point \in Committing, Settle(job[s], status) \in Statuses \ {"succeeded"},
         Finish(s, status, point)
  PROVE  SuccessInv'
<1>1. job[s] \in Tasks
  BY HasJob DEF IInv
<1> DEFINE st == Settle(job[s], status)
<1> HIDE DEF st
<1>2. /\ txn'.to.status # "succeeded"
      /\ \A u \in Tasks : /\ art'[u].test = art[u].test
                          /\ art'[u].patch = art[u].patch
                          /\ art'[u].agent = art[u].agent
      /\ pc' = [pc EXCEPT ![s] = point]
      /\ UNCHANGED <<rec, job, out, runs>>
  BY <1>1, FinishEffect DEF IInv, st
<1>3. pc'[s] = point /\ \A u \in Services \ {s} : pc'[u] = "off"
  BY <1>2 DEF IInv, WorkerInv, TypeOK, Jobless
<1>4. SuccessEvidence'
  BY <1>2 DEF IInv, SuccessInv, SuccessAt, SuccessEvidence, Coding
<1> QED
  BY <1>2, <1>3, <1>4 DEF SuccessInv, SuccessAt, Committing

LEMMA OtherOutcomes ==
  ASSUME IInv, NEW s \in Services,
         RecoverPublish(s) \/ Block(s) \/ RunningCancelled(s) \/ AbortFinish(s) \/ StorageFinish(s)
  PROVE  SuccessInv'
<1> USE DEF At, Jobless, Committing, Statuses, Recorded, Terminal
<1>1. CASE RecoverPublish(s)
  BY <1>1, OutcomeKeeps DEF RecoverPublish, Recovered, Settle
<1>2. CASE Block(s)
  BY <1>2, OutcomeKeeps DEF Block, Settle
<1>3. CASE RunningCancelled(s)
  BY <1>3, OutcomeKeeps DEF RunningCancelled, Settle
<1>4. CASE AbortFinish(s)
  <2>1. out[s] \in Terminal \ {"succeeded"}
    BY <1>4 DEF AbortFinish, IInv, OutInv, Deciding
  <2> QED
    BY <1>4, <2>1, OutcomeKeeps DEF AbortFinish, Settle
<1>5. CASE StorageFinish(s)
  <2>1. out[s] \in Terminal \ {"succeeded"}
    BY <1>5 DEF StorageFinish, IInv, OutInv, Deciding
  <2> QED
    BY <1>5, <2>1, OutcomeKeeps DEF StorageFinish, Settle
<1> QED
  BY <1>1, <1>2, <1>3, <1>4, <1>5

(* Success is published only on the evidence for it.                        *)
LEMMA ReturnKeeps ==
  ASSUME IInv, NEW s \in Services, Return(s)
  PROVE  SuccessInv'
<1> DEFINE status == IF Stopping(s) THEN "interrupted" ELSE out[s]
<1>1. job[s] \in Tasks /\ rec[job[s]].status = "running" /\ out[s] \in Terminal
  BY HasJob, OutIsDecided
     DEF Return, At, IInv, Jobless, JobStatus, InExecutor, Deciding
<1>2. Settle(job[s], status) \in Statuses
  BY <1>1 DEF Settle, Statuses, Recorded, Terminal
<1>3. Finish(s, status, "committing") /\ pc[s] = "returned"
  BY DEF Return, At
<1>4. Settle(job[s], status) = "succeeded" => out[s] = "succeeded" /\ ~rec[job[s]].cancel
  BY DEF Settle
<1> HIDE DEF status
<1>5. /\ txn'.to.status = Settle(job[s], status)
      /\ txn'.to.cancel = rec[job[s]].cancel
      /\ \A u \in Tasks : /\ art'[u].test = art[u].test
                          /\ art'[u].patch = art[u].patch
                          /\ art'[u].agent = art[u].agent
      /\ pc' = [pc EXCEPT ![s] = "committing"]
      /\ UNCHANGED <<rec, job, out, runs>>
  BY <1>1, <1>2, <1>3, FinishEffect DEF IInv
<1>6. pc'[s] = "committing" /\ \A u \in Services \ {s} : pc'[u] = "off"
  BY <1>3, <1>5 DEF IInv, WorkerInv, TypeOK
<1>7. SuccessEvidence'
  BY <1>5 DEF IInv, SuccessInv, SuccessAt, SuccessEvidence, Coding
<1>8. txn'.to.status = "succeeded" => Evidence(job[s])' /\ ~txn'.to.cancel
  BY <1>1, <1>3, <1>4, <1>5 DEF IInv, SuccessInv, SuccessAt, Evidence, Coding
<1> QED
  BY <1>5, <1>6, <1>7, <1>8 DEF SuccessInv, SuccessAt, Committing

(* worker.lock.                                                             *)
LEMMA WorkerStep ==
  ASSUME IInv, TypeOK', [Next]_vars
  PROVE  WorkerInv'
<1> USE ConstantsAssumption DEF IInv, WorkerInv, TypeOK
<1>1. ASSUME NEW c \in Clients, NEW t \in Tasks, NEW p \in Payloads, SubmitDirectory(c, t, p) PROVE WorkerInv'
  BY <1>1 DEF SubmitDirectory, NewRecord, NoFiles, storeVars, serviceVars, ghostVars
<1>2. ASSUME NEW c \in Clients, NEW t \in Tasks, NEW p \in Payloads, SubmitDuplicate(c, t, p) PROVE WorkerInv'
  BY <1>2 DEF SubmitDuplicate, SamePayload, storeVars, serviceVars, ghostVars
<1>3. ASSUME NEW c \in Clients, SubmitArtifacts(c) PROVE WorkerInv'
  BY <1>3 DEF SubmitArtifacts, storeVars, serviceVars, ghostVars
<1>4. ASSUME NEW c \in Clients, SubmitCommit(c) PROVE WorkerInv'
  BY <1>4 DEF SubmitCommit, Commit, storeVars, serviceVars, ghostVars
<1>5. ASSUME NEW c \in Clients, NEW t \in Tasks, CancelQueued(c, t) PROVE WorkerInv'
  BY <1>5 DEF CancelQueued, Publish, storeVars, serviceVars, ghostVars
<1>6. ASSUME NEW c \in Clients, NEW t \in Tasks, CancelHeld(c, t) PROVE WorkerInv'
  BY <1>6 DEF CancelHeld, HeldTask, storeVars, serviceVars, ghostVars
<1>7. ASSUME NEW c \in Clients, CancelCommit(c) PROVE WorkerInv'
  BY <1>7 DEF CancelCommit, Commit, storeVars, serviceVars, ghostVars
<1>8. ASSUME NEW c \in Clients, ClientFails(c) PROVE WorkerInv'
  BY <1>8 DEF ClientFails, Abandon, storeVars, serviceVars, ghostVars
<1>9. ASSUME NEW s \in Services, Start(s) PROVE WorkerInv'
  BY <1>9 DEF Start, At, WorkerFree, LeftBehind, Having, storeVars, ghostVars
<1>10. ASSUME NEW s \in Services, RecoverArtifacts(s) PROVE WorkerInv'
  BY <1>10 DEF RecoverArtifacts, At, Coding, storeVars, ghostVars
<1>11. ASSUME NEW s \in Services, RecoverPublish(s) PROVE WorkerInv'
  BY <1>11 DEF RecoverPublish, At, Finish, Settle, Publish, Recovered, Goto, storeVars, ghostVars
<1>12. ASSUME NEW s \in Services, RecoverCommit(s) PROVE WorkerInv'
  BY <1>12 DEF RecoverCommit, At, Commit, Take, storeVars, ghostVars
<1>13. ASSUME NEW s \in Services, Ready(s) PROVE WorkerInv'
  BY <1>13 DEF Ready, At, storeVars, ghostVars
<1>14. ASSUME NEW s \in Services, Exit(s) PROVE WorkerInv'
  BY <1>14 DEF Exit, At, Gone, NoWrite, storeVars, ghostVars, storeVars, ghostVars
<1>15. ASSUME NEW s \in Services, Stop(s) PROVE WorkerInv'
  BY <1>15 DEF Stop, At, storeVars, ghostVars
<1>16. ASSUME NEW s \in Services, ReceiverDies(s) PROVE WorkerInv'
  BY <1>16 DEF ReceiverDies, At, storeVars, ghostVars
<1>17. ASSUME NEW s \in Services, Crash(s) PROVE WorkerInv'
  BY <1>17 DEF Crash, At, Gone, Abandon, storeVars, ghostVars
<1>18. ASSUME NEW s \in Services, Pick(s) PROVE WorkerInv'
  BY <1>18 DEF Pick, At, Take, NoWrite, Having, storeVars, ghostVars
<1>19. ASSUME NEW s \in Services, Reserve(s) PROVE WorkerInv'
  BY <1>19 DEF Reserve, At, Advance, Goto, storeVars, ghostVars
<1>20. ASSUME NEW s \in Services, ReserveLost(s) PROVE WorkerInv'
  BY <1>20 DEF ReserveLost, At, FoundTerminal, Leave, NoWrite, storeVars, ghostVars
<1>21. ASSUME NEW s \in Services, Block(s) PROVE WorkerInv'
  BY <1>21 DEF Block, At, Finish, Publish, Goto, Settle, storeVars, ghostVars
<1>22. ASSUME NEW s \in Services, MakeWorkspace(s) PROVE WorkerInv'
  BY <1>22 DEF MakeWorkspace, At, Write, Mine, Goto, storeVars, ghostVars
<1>23. ASSUME NEW s \in Services, Prepared(s) PROVE WorkerInv'
  BY <1>23 DEF Prepared, At, Goto, NoWrite, storeVars, ghostVars
<1>24. ASSUME NEW s \in Services, PrepareAborts(s) PROVE WorkerInv'
  BY <1>24 DEF PrepareAborts, At, Decide, NoWrite, AbortStatus, storeVars, ghostVars
<1>25. ASSUME NEW s \in Services, StartRunning(s) PROVE WorkerInv'
  BY <1>25 DEF StartRunning, At, Advance, Goto, storeVars, ghostVars
<1>26. ASSUME NEW s \in Services, RunningCancelled(s) PROVE WorkerInv'
  BY <1>26 DEF RunningCancelled, At, Finish, Publish, Goto, Settle, storeVars, ghostVars
<1>27. ASSUME NEW s \in Services, Invoke(s) PROVE WorkerInv'
  BY <1>27 DEF Invoke, At, Write, Mine, Goto, storeVars, ghostVars
<1>28. ASSUME NEW s \in Services, SandboxEnds(s) PROVE WorkerInv'
  BY <1>28 DEF SandboxEnds, At, Write, Mine, Decide, storeVars, ghostVars
<1>29. ASSUME NEW s \in Services, SandboxPasses(s) PROVE WorkerInv'
  BY <1>29 DEF SandboxPasses, At, Write, Mine, Goto, storeVars, ghostVars
<1>30. ASSUME NEW s \in Services, SandboxPatch(s) PROVE WorkerInv'
  BY <1>30 DEF SandboxPatch, At, Write, Mine, Decide, Verdict, storeVars, ghostVars
<1>31. ASSUME NEW s \in Services, CodingPatch(s) PROVE WorkerInv'
  BY <1>31 DEF CodingPatch, At, Write, Mine, Goto, storeVars, ghostVars
<1>32. ASSUME NEW s \in Services, CodingTested(s) PROVE WorkerInv'
  BY <1>32 DEF CodingTested, At, Write, Mine, Goto, storeVars, ghostVars
<1>33. ASSUME NEW s \in Services, CodingCompletes(s) PROVE WorkerInv'
  BY <1>33 DEF CodingCompletes, At, Write, Mine, Decide, Verdict, storeVars, ghostVars
<1>34. ASSUME NEW s \in Services, CodingFails(s) PROVE WorkerInv'
  BY <1>34 DEF CodingFails, At, Write, Mine, Decide, AbortStatus, InExecutor, storeVars, ghostVars
<1>35. ASSUME NEW s \in Services, ExecutorRaises(s) PROVE WorkerInv'
  BY <1>35 DEF ExecutorRaises, At, Decide, NoWrite, storeVars, ghostVars
<1>36. ASSUME NEW s \in Services, Return(s) PROVE WorkerInv'
  BY <1>36 DEF Return, At, Finish, Publish, Goto, Settle, storeVars, ghostVars
<1>37. ASSUME NEW s \in Services, AbortArtifact(s) PROVE WorkerInv'
  BY <1>37 DEF AbortArtifact, At, Write, Mine, Goto, storeVars, ghostVars
<1>38. ASSUME NEW s \in Services, AbortFinish(s) PROVE WorkerInv'
  BY <1>38 DEF AbortFinish, At, Finish, Publish, Goto, Settle, storeVars, ghostVars
<1>39. ASSUME NEW s \in Services, TickCommit(s) PROVE WorkerInv'
  BY <1>39 DEF TickCommit, At, Commit, Leave, storeVars, ghostVars
<1>40. ASSUME NEW s \in Services, StorageError(s) PROVE WorkerInv'
  BY <1>40 DEF StorageError, At, Abandon, Decide, storeVars, ghostVars
<1>41. ASSUME NEW s \in Services, StorageSettled(s) PROVE WorkerInv'
  BY <1>41 DEF StorageSettled, At, Leave, NoWrite, storeVars, ghostVars
<1>42. ASSUME NEW s \in Services, StorageArtifact(s) PROVE WorkerInv'
  BY <1>42 DEF StorageArtifact, At, Write, Mine, Goto, storeVars, ghostVars
<1>43. ASSUME NEW s \in Services, StorageFinish(s) PROVE WorkerInv'
  BY <1>43 DEF StorageFinish, At, Finish, Publish, Goto, Settle, storeVars, ghostVars
<1>44. ASSUME NEW s \in Services, StorageLost(s) PROVE WorkerInv'
  BY <1>44 DEF StorageLost, At, FoundTerminal, Leave, NoWrite, storeVars, ghostVars
<1>45. CASE UNCHANGED vars
  BY SMTT(60), <1>45 DEF vars
<1> HIDE DEF IInv, WorkerInv, TypeOK
<1> QED
  BY <1>1, <1>2, <1>3, <1>4, <1>5, <1>6, <1>7, <1>8, <1>9, <1>10, <1>11, <1>12, <1>13, <1>14, <1>15, <1>16, <1>17, <1>18, <1>19, <1>20, <1>21, <1>22, <1>23, <1>24, <1>25, <1>26, <1>27, <1>28, <1>29, <1>30, <1>31, <1>32, <1>33, <1>34, <1>35, <1>36, <1>37, <1>38, <1>39, <1>40, <1>41, <1>42, <1>43, <1>44, <1>45 DEF Next, ClientStep, Recovery, Tick, Executor, Fault

(* state.lock and what its holder has published.                            *)
LEMMA TxnStep ==
  ASSUME IInv, TypeOK', [Next]_vars
  PROVE  TxnInv'
<1> USE ConstantsAssumption DEF IInv, TypeOK, WorkerInv, TxnInv, Admitting, Cancelling, Settling, Committing, NoTxn, JobInv, Jobless, JobStatus, Record, Files, Terminal, Active, Recorded, Statuses, InExecutor, RunsInv, OutInv, Deciding
<1>1. ASSUME NEW c \in Clients, NEW t \in Tasks, NEW p \in Payloads, SubmitDirectory(c, t, p) PROVE TxnInv'
  BY <1>1 DEF SubmitDirectory, NewRecord, NoFiles, storeVars, serviceVars, ghostVars
<1>2. ASSUME NEW c \in Clients, NEW t \in Tasks, NEW p \in Payloads, SubmitDuplicate(c, t, p) PROVE TxnInv'
  BY <1>2 DEF SubmitDuplicate, SamePayload, storeVars, serviceVars, ghostVars
<1>3. ASSUME NEW c \in Clients, SubmitArtifacts(c) PROVE TxnInv'
  BY <1>3 DEF SubmitArtifacts, storeVars, serviceVars, ghostVars
<1>4. ASSUME NEW c \in Clients, SubmitCommit(c) PROVE TxnInv'
  BY <1>4 DEF SubmitCommit, Commit, storeVars, serviceVars, ghostVars
<1>5. ASSUME NEW c \in Clients, NEW t \in Tasks, CancelQueued(c, t) PROVE TxnInv'
  BY <1>5, CancelKeeps
<1>6. ASSUME NEW c \in Clients, NEW t \in Tasks, CancelHeld(c, t) PROVE TxnInv'
  BY <1>6 DEF CancelHeld, HeldTask, storeVars, serviceVars, ghostVars
<1>7. ASSUME NEW c \in Clients, CancelCommit(c) PROVE TxnInv'
  BY <1>7 DEF CancelCommit, Commit, storeVars, serviceVars, ghostVars
<1>8. ASSUME NEW c \in Clients, ClientFails(c) PROVE TxnInv'
  BY <1>8 DEF ClientFails, Abandon, storeVars, serviceVars, ghostVars
<1>9. ASSUME NEW s \in Services, Start(s) PROVE TxnInv'
  BY <1>9 DEF Start, At, WorkerFree, LeftBehind, Having, storeVars, ghostVars
<1>10. ASSUME NEW s \in Services, RecoverArtifacts(s) PROVE TxnInv'
  BY <1>10, RecoverKeeps
<1>11. ASSUME NEW s \in Services, RecoverPublish(s) PROVE TxnInv'
  BY <1>11, FinishSteps
<1>12. ASSUME NEW s \in Services, RecoverCommit(s) PROVE TxnInv'
  BY <1>12 DEF RecoverCommit, At, Commit, Take, storeVars, ghostVars
<1>13. ASSUME NEW s \in Services, Ready(s) PROVE TxnInv'
  BY <1>13 DEF Ready, At, storeVars, ghostVars
<1>14. ASSUME NEW s \in Services, Exit(s) PROVE TxnInv'
  BY <1>14 DEF Exit, At, Gone, NoWrite, storeVars, ghostVars, storeVars, ghostVars
<1>15. ASSUME NEW s \in Services, Stop(s) PROVE TxnInv'
  BY <1>15 DEF Stop, At, storeVars, ghostVars
<1>16. ASSUME NEW s \in Services, ReceiverDies(s) PROVE TxnInv'
  BY <1>16 DEF ReceiverDies, At, storeVars, ghostVars
<1>17. ASSUME NEW s \in Services, Crash(s) PROVE TxnInv'
  BY <1>17 DEF Crash, At, Gone, Abandon, storeVars, ghostVars
<1>18. ASSUME NEW s \in Services, Pick(s) PROVE TxnInv'
  BY <1>18 DEF Pick, At, Take, NoWrite, Having, storeVars, ghostVars
<1>19. ASSUME NEW s \in Services, Reserve(s) PROVE TxnInv'
  BY <1>19 DEF Reserve, At, Advance, Goto, storeVars, ghostVars
<1>20. ASSUME NEW s \in Services, ReserveLost(s) PROVE TxnInv'
  BY <1>20 DEF ReserveLost, At, FoundTerminal, Leave, NoWrite, storeVars, ghostVars
<1>21. ASSUME NEW s \in Services, Block(s) PROVE TxnInv'
  BY <1>21, FinishSteps
<1>22. ASSUME NEW s \in Services, MakeWorkspace(s) PROVE TxnInv'
  BY <1>22 DEF MakeWorkspace, At, Write, Mine, Goto, storeVars, ghostVars
<1>23. ASSUME NEW s \in Services, Prepared(s) PROVE TxnInv'
  BY <1>23 DEF Prepared, At, Goto, NoWrite, storeVars, ghostVars
<1>24. ASSUME NEW s \in Services, PrepareAborts(s) PROVE TxnInv'
  BY <1>24 DEF PrepareAborts, At, Decide, NoWrite, AbortStatus, storeVars, ghostVars
<1>25. ASSUME NEW s \in Services, StartRunning(s) PROVE TxnInv'
  BY <1>25 DEF StartRunning, At, Advance, Goto, storeVars, ghostVars
<1>26. ASSUME NEW s \in Services, RunningCancelled(s) PROVE TxnInv'
  BY <1>26, FinishSteps
<1>27. ASSUME NEW s \in Services, Invoke(s) PROVE TxnInv'
  BY <1>27 DEF Invoke, At, Write, Mine, Goto, storeVars, ghostVars
<1>28. ASSUME NEW s \in Services, SandboxEnds(s) PROVE TxnInv'
  BY <1>28 DEF SandboxEnds, At, Write, Mine, Decide, storeVars, ghostVars
<1>29. ASSUME NEW s \in Services, SandboxPasses(s) PROVE TxnInv'
  BY <1>29 DEF SandboxPasses, At, Write, Mine, Goto, storeVars, ghostVars
<1>30. ASSUME NEW s \in Services, SandboxPatch(s) PROVE TxnInv'
  BY <1>30 DEF SandboxPatch, At, Write, Mine, Decide, Verdict, storeVars, ghostVars
<1>31. ASSUME NEW s \in Services, CodingPatch(s) PROVE TxnInv'
  BY <1>31 DEF CodingPatch, At, Write, Mine, Goto, storeVars, ghostVars
<1>32. ASSUME NEW s \in Services, CodingTested(s) PROVE TxnInv'
  BY <1>32 DEF CodingTested, At, Write, Mine, Goto, storeVars, ghostVars
<1>33. ASSUME NEW s \in Services, CodingCompletes(s) PROVE TxnInv'
  BY <1>33 DEF CodingCompletes, At, Write, Mine, Decide, Verdict, storeVars, ghostVars
<1>34. ASSUME NEW s \in Services, CodingFails(s) PROVE TxnInv'
  BY <1>34 DEF CodingFails, At, Write, Mine, Decide, AbortStatus, InExecutor, storeVars, ghostVars
<1>35. ASSUME NEW s \in Services, ExecutorRaises(s) PROVE TxnInv'
  BY <1>35 DEF ExecutorRaises, At, Decide, NoWrite, storeVars, ghostVars
<1>36. ASSUME NEW s \in Services, Return(s) PROVE TxnInv'
  BY <1>36, FinishSteps
<1>37. ASSUME NEW s \in Services, AbortArtifact(s) PROVE TxnInv'
  BY <1>37 DEF AbortArtifact, At, Write, Mine, Goto, storeVars, ghostVars
<1>38. ASSUME NEW s \in Services, AbortFinish(s) PROVE TxnInv'
  BY <1>38, FinishSteps
<1>39. ASSUME NEW s \in Services, TickCommit(s) PROVE TxnInv'
  BY <1>39 DEF TickCommit, At, Commit, Leave, storeVars, ghostVars
<1>40. ASSUME NEW s \in Services, StorageError(s) PROVE TxnInv'
  BY <1>40 DEF StorageError, At, Abandon, Decide, storeVars, ghostVars
<1>41. ASSUME NEW s \in Services, StorageSettled(s) PROVE TxnInv'
  BY <1>41 DEF StorageSettled, At, Leave, NoWrite, storeVars, ghostVars
<1>42. ASSUME NEW s \in Services, StorageArtifact(s) PROVE TxnInv'
  BY <1>42 DEF StorageArtifact, At, Write, Mine, Goto, storeVars, ghostVars
<1>43. ASSUME NEW s \in Services, StorageFinish(s) PROVE TxnInv'
  BY <1>43, FinishSteps
<1>44. ASSUME NEW s \in Services, StorageLost(s) PROVE TxnInv'
  BY <1>44 DEF StorageLost, At, FoundTerminal, Leave, NoWrite, storeVars, ghostVars
<1>45. CASE UNCHANGED vars
  BY SMTT(60), <1>45 DEF vars
<1> HIDE DEF IInv, TypeOK, WorkerInv, TxnInv, Admitting, Cancelling, Settling, Committing, NoTxn, JobInv, Jobless, JobStatus, Record, Files, Terminal, Active, Recorded, Statuses, InExecutor, RunsInv, OutInv, Deciding
<1> QED
  BY <1>1, <1>2, <1>3, <1>4, <1>5, <1>6, <1>7, <1>8, <1>9, <1>10, <1>11, <1>12, <1>13, <1>14, <1>15, <1>16, <1>17, <1>18, <1>19, <1>20, <1>21, <1>22, <1>23, <1>24, <1>25, <1>26, <1>27, <1>28, <1>29, <1>30, <1>31, <1>32, <1>33, <1>34, <1>35, <1>36, <1>37, <1>38, <1>39, <1>40, <1>41, <1>42, <1>43, <1>44, <1>45 DEF Next, ClientStep, Recovery, Tick, Executor, Fault

(* The status of the task at hand.                                          *)
LEMMA JobStep ==
  ASSUME IInv, TypeOK', [Next]_vars
  PROVE  JobInv'
<1> USE ConstantsAssumption DEF IInv, TypeOK, WorkerInv, TxnInv, Admitting, Cancelling, Settling, Committing, NoTxn, JobInv, Jobless, JobStatus, Record, Terminal, Active, Recorded, Statuses, InExecutor, OwnerInv
<1>1. ASSUME NEW c \in Clients, NEW t \in Tasks, NEW p \in Payloads, SubmitDirectory(c, t, p) PROVE JobInv'
  BY <1>1 DEF SubmitDirectory, NewRecord, NoFiles, storeVars, serviceVars, ghostVars
<1>2. ASSUME NEW c \in Clients, NEW t \in Tasks, NEW p \in Payloads, SubmitDuplicate(c, t, p) PROVE JobInv'
  BY <1>2 DEF SubmitDuplicate, SamePayload, storeVars, serviceVars, ghostVars
<1>3. ASSUME NEW c \in Clients, SubmitArtifacts(c) PROVE JobInv'
  BY <1>3 DEF SubmitArtifacts, storeVars, serviceVars, ghostVars
<1>4. ASSUME NEW c \in Clients, SubmitCommit(c) PROVE JobInv'
  BY <1>4, AdmissionKeeps
<1>5. ASSUME NEW c \in Clients, NEW t \in Tasks, CancelQueued(c, t) PROVE JobInv'
  BY <1>5 DEF CancelQueued, Publish, storeVars, serviceVars, ghostVars
<1>6. ASSUME NEW c \in Clients, NEW t \in Tasks, CancelHeld(c, t) PROVE JobInv'
  BY <1>6 DEF CancelHeld, HeldTask, storeVars, serviceVars, ghostVars
<1>7. ASSUME NEW c \in Clients, CancelCommit(c) PROVE JobInv'
  BY SMTT(60), <1>7 DEF CancelCommit, Commit, storeVars, serviceVars, ghostVars
<1>8. ASSUME NEW c \in Clients, ClientFails(c) PROVE JobInv'
  BY <1>8 DEF ClientFails, Abandon, storeVars, serviceVars, ghostVars
<1>9. ASSUME NEW s \in Services, Start(s) PROVE JobInv'
  BY <1>9 DEF Start, At, WorkerFree, LeftBehind, Having, storeVars, ghostVars
<1>10. ASSUME NEW s \in Services, RecoverArtifacts(s) PROVE JobInv'
  BY <1>10, RecoverKeeps
<1>11. ASSUME NEW s \in Services, RecoverPublish(s) PROVE JobInv'
  BY <1>11, FinishSteps
<1>12. ASSUME NEW s \in Services, RecoverCommit(s) PROVE JobInv'
  BY <1>12 DEF RecoverCommit, At, Commit, Take, storeVars, ghostVars
<1>13. ASSUME NEW s \in Services, Ready(s) PROVE JobInv'
  BY <1>13 DEF Ready, At, storeVars, ghostVars
<1>14. ASSUME NEW s \in Services, Exit(s) PROVE JobInv'
  BY <1>14 DEF Exit, At, Gone, NoWrite, storeVars, ghostVars, storeVars, ghostVars
<1>15. ASSUME NEW s \in Services, Stop(s) PROVE JobInv'
  BY <1>15 DEF Stop, At, storeVars, ghostVars
<1>16. ASSUME NEW s \in Services, ReceiverDies(s) PROVE JobInv'
  BY <1>16 DEF ReceiverDies, At, storeVars, ghostVars
<1>17. ASSUME NEW s \in Services, Crash(s) PROVE JobInv'
  BY <1>17 DEF Crash, At, Gone, Abandon, storeVars, ghostVars
<1>18. ASSUME NEW s \in Services, Pick(s) PROVE JobInv'
  BY <1>18 DEF Pick, At, Take, NoWrite, Having, storeVars, ghostVars
<1>19. ASSUME NEW s \in Services, Reserve(s) PROVE JobInv'
  BY <1>19 DEF Reserve, At, Advance, Goto, storeVars, ghostVars
<1>20. ASSUME NEW s \in Services, ReserveLost(s) PROVE JobInv'
  BY <1>20 DEF ReserveLost, At, FoundTerminal, Leave, NoWrite, storeVars, ghostVars
<1>21. ASSUME NEW s \in Services, Block(s) PROVE JobInv'
  BY <1>21, FinishSteps
<1>22. ASSUME NEW s \in Services, MakeWorkspace(s) PROVE JobInv'
  BY <1>22 DEF MakeWorkspace, At, Write, Mine, Goto, storeVars, ghostVars
<1>23. ASSUME NEW s \in Services, Prepared(s) PROVE JobInv'
  BY <1>23 DEF Prepared, At, Goto, NoWrite, storeVars, ghostVars
<1>24. ASSUME NEW s \in Services, PrepareAborts(s) PROVE JobInv'
  BY <1>24 DEF PrepareAborts, At, Decide, NoWrite, AbortStatus, storeVars, ghostVars
<1>25. ASSUME NEW s \in Services, StartRunning(s) PROVE JobInv'
  BY <1>25 DEF StartRunning, At, Advance, Goto, storeVars, ghostVars
<1>26. ASSUME NEW s \in Services, RunningCancelled(s) PROVE JobInv'
  BY <1>26, FinishSteps
<1>27. ASSUME NEW s \in Services, Invoke(s) PROVE JobInv'
  BY <1>27 DEF Invoke, At, Write, Mine, Goto, storeVars, ghostVars
<1>28. ASSUME NEW s \in Services, SandboxEnds(s) PROVE JobInv'
  BY <1>28 DEF SandboxEnds, At, Write, Mine, Decide, storeVars, ghostVars
<1>29. ASSUME NEW s \in Services, SandboxPasses(s) PROVE JobInv'
  BY <1>29 DEF SandboxPasses, At, Write, Mine, Goto, storeVars, ghostVars
<1>30. ASSUME NEW s \in Services, SandboxPatch(s) PROVE JobInv'
  BY <1>30 DEF SandboxPatch, At, Write, Mine, Decide, Verdict, storeVars, ghostVars
<1>31. ASSUME NEW s \in Services, CodingPatch(s) PROVE JobInv'
  BY <1>31 DEF CodingPatch, At, Write, Mine, Goto, storeVars, ghostVars
<1>32. ASSUME NEW s \in Services, CodingTested(s) PROVE JobInv'
  BY <1>32 DEF CodingTested, At, Write, Mine, Goto, storeVars, ghostVars
<1>33. ASSUME NEW s \in Services, CodingCompletes(s) PROVE JobInv'
  BY <1>33 DEF CodingCompletes, At, Write, Mine, Decide, Verdict, storeVars, ghostVars
<1>34. ASSUME NEW s \in Services, CodingFails(s) PROVE JobInv'
  BY <1>34 DEF CodingFails, At, Write, Mine, Decide, AbortStatus, InExecutor, storeVars, ghostVars
<1>35. ASSUME NEW s \in Services, ExecutorRaises(s) PROVE JobInv'
  BY <1>35 DEF ExecutorRaises, At, Decide, NoWrite, storeVars, ghostVars
<1>36. ASSUME NEW s \in Services, Return(s) PROVE JobInv'
  BY <1>36, FinishSteps
<1>37. ASSUME NEW s \in Services, AbortArtifact(s) PROVE JobInv'
  BY <1>37 DEF AbortArtifact, At, Write, Mine, Goto, storeVars, ghostVars
<1>38. ASSUME NEW s \in Services, AbortFinish(s) PROVE JobInv'
  BY <1>38, FinishSteps
<1>39. ASSUME NEW s \in Services, TickCommit(s) PROVE JobInv'
  BY <1>39 DEF TickCommit, At, Commit, Leave, storeVars, ghostVars
<1>40. ASSUME NEW s \in Services, StorageError(s) PROVE JobInv'
  BY <1>40 DEF StorageError, At, Abandon, Decide, storeVars, ghostVars
<1>41. ASSUME NEW s \in Services, StorageSettled(s) PROVE JobInv'
  BY <1>41 DEF StorageSettled, At, Leave, NoWrite, storeVars, ghostVars
<1>42. ASSUME NEW s \in Services, StorageArtifact(s) PROVE JobInv'
  BY <1>42 DEF StorageArtifact, At, Write, Mine, Goto, storeVars, ghostVars
<1>43. ASSUME NEW s \in Services, StorageFinish(s) PROVE JobInv'
  BY <1>43, FinishSteps
<1>44. ASSUME NEW s \in Services, StorageLost(s) PROVE JobInv'
  BY <1>44 DEF StorageLost, At, FoundTerminal, Leave, NoWrite, storeVars, ghostVars
<1>45. CASE UNCHANGED vars
  BY SMTT(60), <1>45 DEF vars
<1> HIDE DEF IInv, TypeOK, WorkerInv, TxnInv, Admitting, Cancelling, Settling, Committing, NoTxn, JobInv, Jobless, JobStatus, Record, Terminal, Active, Recorded, Statuses, InExecutor, OwnerInv
<1> QED
  BY <1>1, <1>2, <1>3, <1>4, <1>5, <1>6, <1>7, <1>8, <1>9, <1>10, <1>11, <1>12, <1>13, <1>14, <1>15, <1>16, <1>17, <1>18, <1>19, <1>20, <1>21, <1>22, <1>23, <1>24, <1>25, <1>26, <1>27, <1>28, <1>29, <1>30, <1>31, <1>32, <1>33, <1>34, <1>35, <1>36, <1>37, <1>38, <1>39, <1>40, <1>41, <1>42, <1>43, <1>44, <1>45 DEF Next, ClientStep, Recovery, Tick, Executor, Fault

(* No reserved or running task is left without an owner.                    *)
LEMMA OwnerStep ==
  ASSUME IInv, TypeOK', [Next]_vars
  PROVE  OwnerInv'
<1> USE ConstantsAssumption DEF IInv, TypeOK, WorkerInv, TxnInv, Admitting, Cancelling, Settling, Committing, NoTxn, JobInv, Jobless, JobStatus, Record, Terminal, Active, Recorded, Statuses, InExecutor, OwnerInv, RecoveryPoints, Having
<1>1. ASSUME NEW c \in Clients, NEW t \in Tasks, NEW p \in Payloads, SubmitDirectory(c, t, p) PROVE OwnerInv'
  BY <1>1 DEF SubmitDirectory, NewRecord, NoFiles, storeVars, serviceVars, ghostVars
<1>2. ASSUME NEW c \in Clients, NEW t \in Tasks, NEW p \in Payloads, SubmitDuplicate(c, t, p) PROVE OwnerInv'
  BY <1>2 DEF SubmitDuplicate, SamePayload, storeVars, serviceVars, ghostVars
<1>3. ASSUME NEW c \in Clients, SubmitArtifacts(c) PROVE OwnerInv'
  BY <1>3 DEF SubmitArtifacts, storeVars, serviceVars, ghostVars
<1>4. ASSUME NEW c \in Clients, SubmitCommit(c) PROVE OwnerInv'
  BY <1>4 DEF SubmitCommit, Commit, storeVars, serviceVars, ghostVars
<1>5. ASSUME NEW c \in Clients, NEW t \in Tasks, CancelQueued(c, t) PROVE OwnerInv'
  BY <1>5 DEF CancelQueued, Publish, storeVars, serviceVars, ghostVars
<1>6. ASSUME NEW c \in Clients, NEW t \in Tasks, CancelHeld(c, t) PROVE OwnerInv'
  BY <1>6 DEF CancelHeld, HeldTask, storeVars, serviceVars, ghostVars
<1>7. ASSUME NEW c \in Clients, CancelCommit(c) PROVE OwnerInv'
  BY <1>7 DEF CancelCommit, Commit, storeVars, serviceVars, ghostVars
<1>8. ASSUME NEW c \in Clients, ClientFails(c) PROVE OwnerInv'
  BY <1>8 DEF ClientFails, Abandon, storeVars, serviceVars, ghostVars
<1>9. ASSUME NEW s \in Services, Start(s) PROVE OwnerInv'
  BY <1>9 DEF Start, At, WorkerFree, LeftBehind, Having, storeVars, ghostVars
<1>10. ASSUME NEW s \in Services, RecoverArtifacts(s) PROVE OwnerInv'
  BY <1>10 DEF RecoverArtifacts, At, Coding, storeVars, ghostVars
<1>11. ASSUME NEW s \in Services, RecoverPublish(s) PROVE OwnerInv'
  BY <1>11 DEF RecoverPublish, At, Finish, Settle, Publish, Recovered, Goto, storeVars, ghostVars
<1>12. ASSUME NEW s \in Services, RecoverCommit(s) PROVE OwnerInv'
  BY <1>12 DEF RecoverCommit, At, Commit, Take, storeVars, ghostVars
<1>13. ASSUME NEW s \in Services, Ready(s) PROVE OwnerInv'
  BY <1>13 DEF Ready, At, storeVars, ghostVars
<1>14. ASSUME NEW s \in Services, Exit(s) PROVE OwnerInv'
  BY <1>14 DEF Exit, At, Gone, NoWrite, storeVars, ghostVars, storeVars, ghostVars
<1>15. ASSUME NEW s \in Services, Stop(s) PROVE OwnerInv'
  BY <1>15 DEF Stop, At, storeVars, ghostVars
<1>16. ASSUME NEW s \in Services, ReceiverDies(s) PROVE OwnerInv'
  BY <1>16 DEF ReceiverDies, At, storeVars, ghostVars
<1>17. ASSUME NEW s \in Services, Crash(s) PROVE OwnerInv'
  BY <1>17 DEF Crash, At, Gone, Abandon, storeVars, ghostVars
<1>18. ASSUME NEW s \in Services, Pick(s) PROVE OwnerInv'
  BY <1>18 DEF Pick, At, Take, NoWrite, Having, storeVars, ghostVars
<1>19. ASSUME NEW s \in Services, Reserve(s) PROVE OwnerInv'
  BY <1>19 DEF Reserve, At, Advance, Goto, storeVars, ghostVars
<1>20. ASSUME NEW s \in Services, ReserveLost(s) PROVE OwnerInv'
  BY <1>20 DEF ReserveLost, At, FoundTerminal, Leave, NoWrite, storeVars, ghostVars
<1>21. ASSUME NEW s \in Services, Block(s) PROVE OwnerInv'
  BY <1>21 DEF Block, At, Finish, Publish, Goto, Settle, storeVars, ghostVars
<1>22. ASSUME NEW s \in Services, MakeWorkspace(s) PROVE OwnerInv'
  BY <1>22 DEF MakeWorkspace, At, Write, Mine, Goto, storeVars, ghostVars
<1>23. ASSUME NEW s \in Services, Prepared(s) PROVE OwnerInv'
  BY <1>23 DEF Prepared, At, Goto, NoWrite, storeVars, ghostVars
<1>24. ASSUME NEW s \in Services, PrepareAborts(s) PROVE OwnerInv'
  BY <1>24 DEF PrepareAborts, At, Decide, NoWrite, AbortStatus, storeVars, ghostVars
<1>25. ASSUME NEW s \in Services, StartRunning(s) PROVE OwnerInv'
  BY <1>25 DEF StartRunning, At, Advance, Goto, storeVars, ghostVars
<1>26. ASSUME NEW s \in Services, RunningCancelled(s) PROVE OwnerInv'
  BY <1>26 DEF RunningCancelled, At, Finish, Publish, Goto, Settle, storeVars, ghostVars
<1>27. ASSUME NEW s \in Services, Invoke(s) PROVE OwnerInv'
  BY <1>27 DEF Invoke, At, Write, Mine, Goto, storeVars, ghostVars
<1>28. ASSUME NEW s \in Services, SandboxEnds(s) PROVE OwnerInv'
  BY <1>28 DEF SandboxEnds, At, Write, Mine, Decide, storeVars, ghostVars
<1>29. ASSUME NEW s \in Services, SandboxPasses(s) PROVE OwnerInv'
  BY <1>29 DEF SandboxPasses, At, Write, Mine, Goto, storeVars, ghostVars
<1>30. ASSUME NEW s \in Services, SandboxPatch(s) PROVE OwnerInv'
  BY <1>30 DEF SandboxPatch, At, Write, Mine, Decide, Verdict, storeVars, ghostVars
<1>31. ASSUME NEW s \in Services, CodingPatch(s) PROVE OwnerInv'
  BY <1>31 DEF CodingPatch, At, Write, Mine, Goto, storeVars, ghostVars
<1>32. ASSUME NEW s \in Services, CodingTested(s) PROVE OwnerInv'
  BY <1>32 DEF CodingTested, At, Write, Mine, Goto, storeVars, ghostVars
<1>33. ASSUME NEW s \in Services, CodingCompletes(s) PROVE OwnerInv'
  BY <1>33 DEF CodingCompletes, At, Write, Mine, Decide, Verdict, storeVars, ghostVars
<1>34. ASSUME NEW s \in Services, CodingFails(s) PROVE OwnerInv'
  BY <1>34 DEF CodingFails, At, Write, Mine, Decide, AbortStatus, InExecutor, storeVars, ghostVars
<1>35. ASSUME NEW s \in Services, ExecutorRaises(s) PROVE OwnerInv'
  BY <1>35 DEF ExecutorRaises, At, Decide, NoWrite, storeVars, ghostVars
<1>36. ASSUME NEW s \in Services, Return(s) PROVE OwnerInv'
  BY <1>36 DEF Return, At, Finish, Publish, Goto, Settle, storeVars, ghostVars
<1>37. ASSUME NEW s \in Services, AbortArtifact(s) PROVE OwnerInv'
  BY <1>37 DEF AbortArtifact, At, Write, Mine, Goto, storeVars, ghostVars
<1>38. ASSUME NEW s \in Services, AbortFinish(s) PROVE OwnerInv'
  BY <1>38 DEF AbortFinish, At, Finish, Publish, Goto, Settle, storeVars, ghostVars
<1>39. ASSUME NEW s \in Services, TickCommit(s) PROVE OwnerInv'
  BY <1>39 DEF TickCommit, At, Commit, Leave, storeVars, ghostVars
<1>40. ASSUME NEW s \in Services, StorageError(s) PROVE OwnerInv'
  BY <1>40 DEF StorageError, At, Abandon, Decide, storeVars, ghostVars
<1>41. ASSUME NEW s \in Services, StorageSettled(s) PROVE OwnerInv'
  BY <1>41 DEF StorageSettled, At, Leave, NoWrite, storeVars, ghostVars
<1>42. ASSUME NEW s \in Services, StorageArtifact(s) PROVE OwnerInv'
  BY <1>42 DEF StorageArtifact, At, Write, Mine, Goto, storeVars, ghostVars
<1>43. ASSUME NEW s \in Services, StorageFinish(s) PROVE OwnerInv'
  BY <1>43 DEF StorageFinish, At, Finish, Publish, Goto, Settle, storeVars, ghostVars
<1>44. ASSUME NEW s \in Services, StorageLost(s) PROVE OwnerInv'
  BY <1>44 DEF StorageLost, At, FoundTerminal, Leave, NoWrite, storeVars, ghostVars
<1>45. CASE UNCHANGED vars
  BY SMTT(60), <1>45 DEF vars
<1> HIDE DEF IInv, TypeOK, WorkerInv, TxnInv, Admitting, Cancelling, Settling, Committing, NoTxn, JobInv, Jobless, JobStatus, Record, Terminal, Active, Recorded, Statuses, InExecutor, OwnerInv, RecoveryPoints, Having
<1> QED
  BY <1>1, <1>2, <1>3, <1>4, <1>5, <1>6, <1>7, <1>8, <1>9, <1>10, <1>11, <1>12, <1>13, <1>14, <1>15, <1>16, <1>17, <1>18, <1>19, <1>20, <1>21, <1>22, <1>23, <1>24, <1>25, <1>26, <1>27, <1>28, <1>29, <1>30, <1>31, <1>32, <1>33, <1>34, <1>35, <1>36, <1>37, <1>38, <1>39, <1>40, <1>41, <1>42, <1>43, <1>44, <1>45 DEF Next, ClientStep, Recovery, Tick, Executor, Fault

(* The count of invocations.                                                *)
LEMMA RunsStep ==
  ASSUME IInv, TypeOK', [Next]_vars
  PROVE  RunsInv'
<1> USE ConstantsAssumption DEF IInv, TypeOK, WorkerInv, TxnInv, Admitting, Cancelling, Settling, Committing, NoTxn, JobInv, Jobless, JobStatus, Record, Terminal, Active, Recorded, Statuses, InExecutor, RunsInv
<1>1. ASSUME NEW c \in Clients, NEW t \in Tasks, NEW p \in Payloads, SubmitDirectory(c, t, p) PROVE RunsInv'
  BY <1>1 DEF SubmitDirectory, NewRecord, NoFiles, storeVars, serviceVars, ghostVars
<1>2. ASSUME NEW c \in Clients, NEW t \in Tasks, NEW p \in Payloads, SubmitDuplicate(c, t, p) PROVE RunsInv'
  BY <1>2 DEF SubmitDuplicate, SamePayload, storeVars, serviceVars, ghostVars
<1>3. ASSUME NEW c \in Clients, SubmitArtifacts(c) PROVE RunsInv'
  BY <1>3 DEF SubmitArtifacts, storeVars, serviceVars, ghostVars
<1>4. ASSUME NEW c \in Clients, SubmitCommit(c) PROVE RunsInv'
  BY <1>4 DEF SubmitCommit, Commit, storeVars, serviceVars, ghostVars
<1>5. ASSUME NEW c \in Clients, NEW t \in Tasks, CancelQueued(c, t) PROVE RunsInv'
  BY <1>5 DEF CancelQueued, Publish, storeVars, serviceVars, ghostVars
<1>6. ASSUME NEW c \in Clients, NEW t \in Tasks, CancelHeld(c, t) PROVE RunsInv'
  BY <1>6 DEF CancelHeld, HeldTask, storeVars, serviceVars, ghostVars
<1>7. ASSUME NEW c \in Clients, CancelCommit(c) PROVE RunsInv'
  BY <1>7 DEF CancelCommit, Commit, storeVars, serviceVars, ghostVars
<1>8. ASSUME NEW c \in Clients, ClientFails(c) PROVE RunsInv'
  BY <1>8 DEF ClientFails, Abandon, storeVars, serviceVars, ghostVars
<1>9. ASSUME NEW s \in Services, Start(s) PROVE RunsInv'
  BY <1>9 DEF Start, At, WorkerFree, LeftBehind, Having, storeVars, ghostVars
<1>10. ASSUME NEW s \in Services, RecoverArtifacts(s) PROVE RunsInv'
  BY <1>10 DEF RecoverArtifacts, At, Coding, storeVars, ghostVars
<1>11. ASSUME NEW s \in Services, RecoverPublish(s) PROVE RunsInv'
  BY <1>11 DEF RecoverPublish, At, Finish, Settle, Publish, Recovered, Goto, storeVars, ghostVars
<1>12. ASSUME NEW s \in Services, RecoverCommit(s) PROVE RunsInv'
  BY <1>12 DEF RecoverCommit, At, Commit, Take, storeVars, ghostVars
<1>13. ASSUME NEW s \in Services, Ready(s) PROVE RunsInv'
  BY <1>13 DEF Ready, At, storeVars, ghostVars
<1>14. ASSUME NEW s \in Services, Exit(s) PROVE RunsInv'
  BY <1>14 DEF Exit, At, Gone, NoWrite, storeVars, ghostVars, storeVars, ghostVars
<1>15. ASSUME NEW s \in Services, Stop(s) PROVE RunsInv'
  BY <1>15 DEF Stop, At, storeVars, ghostVars
<1>16. ASSUME NEW s \in Services, ReceiverDies(s) PROVE RunsInv'
  BY <1>16 DEF ReceiverDies, At, storeVars, ghostVars
<1>17. ASSUME NEW s \in Services, Crash(s) PROVE RunsInv'
  BY <1>17 DEF Crash, At, Gone, Abandon, storeVars, ghostVars
<1>18. ASSUME NEW s \in Services, Pick(s) PROVE RunsInv'
  BY <1>18 DEF Pick, At, Take, NoWrite, Having, storeVars, ghostVars
<1>19. ASSUME NEW s \in Services, Reserve(s) PROVE RunsInv'
  BY <1>19, ReserveKeeps
<1>20. ASSUME NEW s \in Services, ReserveLost(s) PROVE RunsInv'
  BY <1>20 DEF ReserveLost, At, FoundTerminal, Leave, NoWrite, storeVars, ghostVars
<1>21. ASSUME NEW s \in Services, Block(s) PROVE RunsInv'
  BY <1>21 DEF Block, At, Finish, Publish, Goto, Settle, storeVars, ghostVars
<1>22. ASSUME NEW s \in Services, MakeWorkspace(s) PROVE RunsInv'
  BY <1>22 DEF MakeWorkspace, At, Write, Mine, Goto, storeVars, ghostVars
<1>23. ASSUME NEW s \in Services, Prepared(s) PROVE RunsInv'
  BY <1>23 DEF Prepared, At, Goto, NoWrite, storeVars, ghostVars
<1>24. ASSUME NEW s \in Services, PrepareAborts(s) PROVE RunsInv'
  BY <1>24 DEF PrepareAborts, At, Decide, NoWrite, AbortStatus, storeVars, ghostVars
<1>25. ASSUME NEW s \in Services, StartRunning(s) PROVE RunsInv'
  BY SMTT(60), <1>25 DEF StartRunning, At, Advance, Goto, storeVars, ghostVars
<1>26. ASSUME NEW s \in Services, RunningCancelled(s) PROVE RunsInv'
  BY <1>26 DEF RunningCancelled, At, Finish, Publish, Goto, Settle, storeVars, ghostVars
<1>27. ASSUME NEW s \in Services, Invoke(s) PROVE RunsInv'
  BY <1>27 DEF Invoke, At, Write, Mine, Goto, storeVars, ghostVars
<1>28. ASSUME NEW s \in Services, SandboxEnds(s) PROVE RunsInv'
  BY <1>28 DEF SandboxEnds, At, Write, Mine, Decide, storeVars, ghostVars
<1>29. ASSUME NEW s \in Services, SandboxPasses(s) PROVE RunsInv'
  BY <1>29 DEF SandboxPasses, At, Write, Mine, Goto, storeVars, ghostVars
<1>30. ASSUME NEW s \in Services, SandboxPatch(s) PROVE RunsInv'
  BY <1>30 DEF SandboxPatch, At, Write, Mine, Decide, Verdict, storeVars, ghostVars
<1>31. ASSUME NEW s \in Services, CodingPatch(s) PROVE RunsInv'
  BY <1>31 DEF CodingPatch, At, Write, Mine, Goto, storeVars, ghostVars
<1>32. ASSUME NEW s \in Services, CodingTested(s) PROVE RunsInv'
  BY <1>32 DEF CodingTested, At, Write, Mine, Goto, storeVars, ghostVars
<1>33. ASSUME NEW s \in Services, CodingCompletes(s) PROVE RunsInv'
  BY <1>33 DEF CodingCompletes, At, Write, Mine, Decide, Verdict, storeVars, ghostVars
<1>34. ASSUME NEW s \in Services, CodingFails(s) PROVE RunsInv'
  BY <1>34 DEF CodingFails, At, Write, Mine, Decide, AbortStatus, InExecutor, storeVars, ghostVars
<1>35. ASSUME NEW s \in Services, ExecutorRaises(s) PROVE RunsInv'
  BY <1>35 DEF ExecutorRaises, At, Decide, NoWrite, storeVars, ghostVars
<1>36. ASSUME NEW s \in Services, Return(s) PROVE RunsInv'
  BY <1>36 DEF Return, At, Finish, Publish, Goto, Settle, storeVars, ghostVars
<1>37. ASSUME NEW s \in Services, AbortArtifact(s) PROVE RunsInv'
  BY <1>37 DEF AbortArtifact, At, Write, Mine, Goto, storeVars, ghostVars
<1>38. ASSUME NEW s \in Services, AbortFinish(s) PROVE RunsInv'
  BY <1>38 DEF AbortFinish, At, Finish, Publish, Goto, Settle, storeVars, ghostVars
<1>39. ASSUME NEW s \in Services, TickCommit(s) PROVE RunsInv'
  BY <1>39 DEF TickCommit, At, Commit, Leave, storeVars, ghostVars
<1>40. ASSUME NEW s \in Services, StorageError(s) PROVE RunsInv'
  BY <1>40 DEF StorageError, At, Abandon, Decide, storeVars, ghostVars
<1>41. ASSUME NEW s \in Services, StorageSettled(s) PROVE RunsInv'
  BY <1>41 DEF StorageSettled, At, Leave, NoWrite, storeVars, ghostVars
<1>42. ASSUME NEW s \in Services, StorageArtifact(s) PROVE RunsInv'
  BY <1>42 DEF StorageArtifact, At, Write, Mine, Goto, storeVars, ghostVars
<1>43. ASSUME NEW s \in Services, StorageFinish(s) PROVE RunsInv'
  BY <1>43 DEF StorageFinish, At, Finish, Publish, Goto, Settle, storeVars, ghostVars
<1>44. ASSUME NEW s \in Services, StorageLost(s) PROVE RunsInv'
  BY <1>44 DEF StorageLost, At, FoundTerminal, Leave, NoWrite, storeVars, ghostVars
<1>45. CASE UNCHANGED vars
  BY <1>45 DEF vars
<1> HIDE DEF IInv, TypeOK, WorkerInv, TxnInv, Admitting, Cancelling, Settling, Committing, NoTxn, JobInv, Jobless, JobStatus, Record, Terminal, Active, Recorded, Statuses, InExecutor, RunsInv
<1> QED
  BY <1>1, <1>2, <1>3, <1>4, <1>5, <1>6, <1>7, <1>8, <1>9, <1>10, <1>11, <1>12, <1>13, <1>14, <1>15, <1>16, <1>17, <1>18, <1>19, <1>20, <1>21, <1>22, <1>23, <1>24, <1>25, <1>26, <1>27, <1>28, <1>29, <1>30, <1>31, <1>32, <1>33, <1>34, <1>35, <1>36, <1>37, <1>38, <1>39, <1>40, <1>41, <1>42, <1>43, <1>44, <1>45 DEF Next, ClientStep, Recovery, Tick, Executor, Fault

(* The decided outcome.                                                     *)
LEMMA OutStep ==
  ASSUME IInv, TypeOK', [Next]_vars
  PROVE  OutInv'
<1> USE ConstantsAssumption DEF IInv, TypeOK, OutInv, Deciding, Terminal, Committing, JobInv, Jobless
<1>1. ASSUME NEW c \in Clients, NEW t \in Tasks, NEW p \in Payloads, SubmitDirectory(c, t, p) PROVE OutInv'
  BY <1>1 DEF SubmitDirectory, NewRecord, NoFiles, storeVars, serviceVars, ghostVars
<1>2. ASSUME NEW c \in Clients, NEW t \in Tasks, NEW p \in Payloads, SubmitDuplicate(c, t, p) PROVE OutInv'
  BY <1>2 DEF SubmitDuplicate, SamePayload, storeVars, serviceVars, ghostVars
<1>3. ASSUME NEW c \in Clients, SubmitArtifacts(c) PROVE OutInv'
  BY <1>3 DEF SubmitArtifacts, storeVars, serviceVars, ghostVars
<1>4. ASSUME NEW c \in Clients, SubmitCommit(c) PROVE OutInv'
  BY <1>4 DEF SubmitCommit, Commit, storeVars, serviceVars, ghostVars
<1>5. ASSUME NEW c \in Clients, NEW t \in Tasks, CancelQueued(c, t) PROVE OutInv'
  BY <1>5 DEF CancelQueued, Publish, storeVars, serviceVars, ghostVars
<1>6. ASSUME NEW c \in Clients, NEW t \in Tasks, CancelHeld(c, t) PROVE OutInv'
  BY <1>6 DEF CancelHeld, HeldTask, storeVars, serviceVars, ghostVars
<1>7. ASSUME NEW c \in Clients, CancelCommit(c) PROVE OutInv'
  BY <1>7 DEF CancelCommit, Commit, storeVars, serviceVars, ghostVars
<1>8. ASSUME NEW c \in Clients, ClientFails(c) PROVE OutInv'
  BY <1>8 DEF ClientFails, Abandon, storeVars, serviceVars, ghostVars
<1>9. ASSUME NEW s \in Services, Start(s) PROVE OutInv'
  BY <1>9 DEF Start, At, WorkerFree, LeftBehind, Having, storeVars, ghostVars
<1>10. ASSUME NEW s \in Services, RecoverArtifacts(s) PROVE OutInv'
  BY <1>10 DEF RecoverArtifacts, At, Coding, storeVars, ghostVars
<1>11. ASSUME NEW s \in Services, RecoverPublish(s) PROVE OutInv'
  BY <1>11 DEF RecoverPublish, At, Finish, Settle, Publish, Recovered, Goto, storeVars, ghostVars
<1>12. ASSUME NEW s \in Services, RecoverCommit(s) PROVE OutInv'
  BY <1>12 DEF RecoverCommit, At, Commit, Take, storeVars, ghostVars
<1>13. ASSUME NEW s \in Services, Ready(s) PROVE OutInv'
  BY <1>13 DEF Ready, At, storeVars, ghostVars
<1>14. ASSUME NEW s \in Services, Exit(s) PROVE OutInv'
  BY <1>14 DEF Exit, At, Gone, NoWrite, storeVars, ghostVars, storeVars, ghostVars
<1>15. ASSUME NEW s \in Services, Stop(s) PROVE OutInv'
  BY <1>15 DEF Stop, At, storeVars, ghostVars
<1>16. ASSUME NEW s \in Services, ReceiverDies(s) PROVE OutInv'
  BY <1>16 DEF ReceiverDies, At, storeVars, ghostVars
<1>17. ASSUME NEW s \in Services, Crash(s) PROVE OutInv'
  BY <1>17 DEF Crash, At, Gone, Abandon, storeVars, ghostVars
<1>18. ASSUME NEW s \in Services, Pick(s) PROVE OutInv'
  BY <1>18 DEF Pick, At, Take, NoWrite, Having, storeVars, ghostVars
<1>19. ASSUME NEW s \in Services, Reserve(s) PROVE OutInv'
  BY <1>19 DEF Reserve, At, Advance, Goto, storeVars, ghostVars
<1>20. ASSUME NEW s \in Services, ReserveLost(s) PROVE OutInv'
  BY <1>20 DEF ReserveLost, At, FoundTerminal, Leave, NoWrite, storeVars, ghostVars
<1>21. ASSUME NEW s \in Services, Block(s) PROVE OutInv'
  BY <1>21 DEF Block, At, Finish, Publish, Goto, Settle, storeVars, ghostVars
<1>22. ASSUME NEW s \in Services, MakeWorkspace(s) PROVE OutInv'
  BY <1>22 DEF MakeWorkspace, At, Write, Mine, Goto, storeVars, ghostVars
<1>23. ASSUME NEW s \in Services, Prepared(s) PROVE OutInv'
  BY <1>23 DEF Prepared, At, Goto, NoWrite, storeVars, ghostVars
<1>24. ASSUME NEW s \in Services, PrepareAborts(s) PROVE OutInv'
  BY <1>24 DEF PrepareAborts, At, Decide, NoWrite, AbortStatus, storeVars, ghostVars
<1>25. ASSUME NEW s \in Services, StartRunning(s) PROVE OutInv'
  BY <1>25 DEF StartRunning, At, Advance, Goto, storeVars, ghostVars
<1>26. ASSUME NEW s \in Services, RunningCancelled(s) PROVE OutInv'
  BY <1>26 DEF RunningCancelled, At, Finish, Publish, Goto, Settle, storeVars, ghostVars
<1>27. ASSUME NEW s \in Services, Invoke(s) PROVE OutInv'
  BY <1>27 DEF Invoke, At, Write, Mine, Goto, storeVars, ghostVars
<1>28. ASSUME NEW s \in Services, SandboxEnds(s) PROVE OutInv'
  BY <1>28 DEF SandboxEnds, At, Write, Mine, Decide, storeVars, ghostVars
<1>29. ASSUME NEW s \in Services, SandboxPasses(s) PROVE OutInv'
  BY <1>29 DEF SandboxPasses, At, Write, Mine, Goto, storeVars, ghostVars
<1>30. ASSUME NEW s \in Services, SandboxPatch(s) PROVE OutInv'
  BY <1>30 DEF SandboxPatch, At, Write, Mine, Decide, Verdict, storeVars, ghostVars
<1>31. ASSUME NEW s \in Services, CodingPatch(s) PROVE OutInv'
  BY <1>31 DEF CodingPatch, At, Write, Mine, Goto, storeVars, ghostVars
<1>32. ASSUME NEW s \in Services, CodingTested(s) PROVE OutInv'
  BY <1>32 DEF CodingTested, At, Write, Mine, Goto, storeVars, ghostVars
<1>33. ASSUME NEW s \in Services, CodingCompletes(s) PROVE OutInv'
  BY <1>33 DEF CodingCompletes, At, Write, Mine, Decide, Verdict, storeVars, ghostVars
<1>34. ASSUME NEW s \in Services, CodingFails(s) PROVE OutInv'
  BY <1>34 DEF CodingFails, At, Write, Mine, Decide, AbortStatus, InExecutor, storeVars, ghostVars
<1>35. ASSUME NEW s \in Services, ExecutorRaises(s) PROVE OutInv'
  BY <1>35 DEF ExecutorRaises, At, Decide, NoWrite, storeVars, ghostVars
<1>36. ASSUME NEW s \in Services, Return(s) PROVE OutInv'
  BY <1>36 DEF Return, At, Finish, Publish, Goto, Settle, storeVars, ghostVars
<1>37. ASSUME NEW s \in Services, AbortArtifact(s) PROVE OutInv'
  BY <1>37 DEF AbortArtifact, At, Write, Mine, Goto, storeVars, ghostVars
<1>38. ASSUME NEW s \in Services, AbortFinish(s) PROVE OutInv'
  BY <1>38 DEF AbortFinish, At, Finish, Publish, Goto, Settle, storeVars, ghostVars
<1>39. ASSUME NEW s \in Services, TickCommit(s) PROVE OutInv'
  BY <1>39 DEF TickCommit, At, Commit, Leave, storeVars, ghostVars
<1>40. ASSUME NEW s \in Services, StorageError(s) PROVE OutInv'
  BY <1>40 DEF StorageError, At, Abandon, Decide, storeVars, ghostVars
<1>41. ASSUME NEW s \in Services, StorageSettled(s) PROVE OutInv'
  BY <1>41 DEF StorageSettled, At, Leave, NoWrite, storeVars, ghostVars
<1>42. ASSUME NEW s \in Services, StorageArtifact(s) PROVE OutInv'
  BY <1>42 DEF StorageArtifact, At, Write, Mine, Goto, storeVars, ghostVars
<1>43. ASSUME NEW s \in Services, StorageFinish(s) PROVE OutInv'
  BY <1>43 DEF StorageFinish, At, Finish, Publish, Goto, Settle, storeVars, ghostVars
<1>44. ASSUME NEW s \in Services, StorageLost(s) PROVE OutInv'
  BY <1>44 DEF StorageLost, At, FoundTerminal, Leave, NoWrite, storeVars, ghostVars
<1>45. CASE UNCHANGED vars
  BY <1>45 DEF vars
<1> HIDE DEF IInv, TypeOK, OutInv, Deciding, Terminal, Committing, JobInv, Jobless
<1> QED
  BY <1>1, <1>2, <1>3, <1>4, <1>5, <1>6, <1>7, <1>8, <1>9, <1>10, <1>11, <1>12, <1>13, <1>14, <1>15, <1>16, <1>17, <1>18, <1>19, <1>20, <1>21, <1>22, <1>23, <1>24, <1>25, <1>26, <1>27, <1>28, <1>29, <1>30, <1>31, <1>32, <1>33, <1>34, <1>35, <1>36, <1>37, <1>38, <1>39, <1>40, <1>41, <1>42, <1>43, <1>44, <1>45 DEF Next, ClientStep, Recovery, Tick, Executor, Fault

(* Terminal records and result.json.                                        *)
LEMMA EvidenceStep ==
  ASSUME IInv, TypeOK', [Next]_vars
  PROVE  TerminalEvidence'
<1> USE ConstantsAssumption DEF IInv, TypeOK, WorkerInv, TxnInv, Admitting, Cancelling, Settling, Committing, NoTxn, JobInv, Jobless, JobStatus, Record, Files, Terminal, Active, Recorded, Statuses, InExecutor, TerminalEvidence
<1>1. ASSUME NEW c \in Clients, NEW t \in Tasks, NEW p \in Payloads, SubmitDirectory(c, t, p) PROVE TerminalEvidence'
  BY <1>1 DEF SubmitDirectory, NewRecord, NoFiles, storeVars, serviceVars, ghostVars
<1>2. ASSUME NEW c \in Clients, NEW t \in Tasks, NEW p \in Payloads, SubmitDuplicate(c, t, p) PROVE TerminalEvidence'
  BY <1>2 DEF SubmitDuplicate, SamePayload, storeVars, serviceVars, ghostVars
<1>3. ASSUME NEW c \in Clients, SubmitArtifacts(c) PROVE TerminalEvidence'
  BY <1>3 DEF SubmitArtifacts, storeVars, serviceVars, ghostVars
<1>4. ASSUME NEW c \in Clients, SubmitCommit(c) PROVE TerminalEvidence'
  BY <1>4 DEF SubmitCommit, Commit, storeVars, serviceVars, ghostVars
<1>5. ASSUME NEW c \in Clients, NEW t \in Tasks, CancelQueued(c, t) PROVE TerminalEvidence'
  BY <1>5 DEF CancelQueued, Publish, storeVars, serviceVars, ghostVars
<1>6. ASSUME NEW c \in Clients, NEW t \in Tasks, CancelHeld(c, t) PROVE TerminalEvidence'
  BY <1>6 DEF CancelHeld, HeldTask, storeVars, serviceVars, ghostVars
<1>7. ASSUME NEW c \in Clients, CancelCommit(c) PROVE TerminalEvidence'
  BY <1>7 DEF CancelCommit, Commit, storeVars, serviceVars, ghostVars
<1>8. ASSUME NEW c \in Clients, ClientFails(c) PROVE TerminalEvidence'
  BY <1>8 DEF ClientFails, Abandon, storeVars, serviceVars, ghostVars
<1>9. ASSUME NEW s \in Services, Start(s) PROVE TerminalEvidence'
  BY <1>9 DEF Start, At, WorkerFree, LeftBehind, Having, storeVars, ghostVars
<1>10. ASSUME NEW s \in Services, RecoverArtifacts(s) PROVE TerminalEvidence'
  BY <1>10 DEF RecoverArtifacts, At, Coding, storeVars, ghostVars
<1>11. ASSUME NEW s \in Services, RecoverPublish(s) PROVE TerminalEvidence'
  BY <1>11, FinishSteps
<1>12. ASSUME NEW s \in Services, RecoverCommit(s) PROVE TerminalEvidence'
  BY <1>12 DEF RecoverCommit, At, Commit, Take, storeVars, ghostVars
<1>13. ASSUME NEW s \in Services, Ready(s) PROVE TerminalEvidence'
  BY <1>13 DEF Ready, At, storeVars, ghostVars
<1>14. ASSUME NEW s \in Services, Exit(s) PROVE TerminalEvidence'
  BY <1>14 DEF Exit, At, Gone, NoWrite, storeVars, ghostVars, storeVars, ghostVars
<1>15. ASSUME NEW s \in Services, Stop(s) PROVE TerminalEvidence'
  BY <1>15 DEF Stop, At, storeVars, ghostVars
<1>16. ASSUME NEW s \in Services, ReceiverDies(s) PROVE TerminalEvidence'
  BY <1>16 DEF ReceiverDies, At, storeVars, ghostVars
<1>17. ASSUME NEW s \in Services, Crash(s) PROVE TerminalEvidence'
  BY <1>17 DEF Crash, At, Gone, Abandon, storeVars, ghostVars
<1>18. ASSUME NEW s \in Services, Pick(s) PROVE TerminalEvidence'
  BY <1>18 DEF Pick, At, Take, NoWrite, Having, storeVars, ghostVars
<1>19. ASSUME NEW s \in Services, Reserve(s) PROVE TerminalEvidence'
  BY <1>19 DEF Reserve, At, Advance, Goto, storeVars, ghostVars
<1>20. ASSUME NEW s \in Services, ReserveLost(s) PROVE TerminalEvidence'
  BY <1>20 DEF ReserveLost, At, FoundTerminal, Leave, NoWrite, storeVars, ghostVars
<1>21. ASSUME NEW s \in Services, Block(s) PROVE TerminalEvidence'
  BY <1>21, FinishSteps
<1>22. ASSUME NEW s \in Services, MakeWorkspace(s) PROVE TerminalEvidence'
  BY <1>22 DEF MakeWorkspace, At, Write, Mine, Goto, storeVars, ghostVars
<1>23. ASSUME NEW s \in Services, Prepared(s) PROVE TerminalEvidence'
  BY <1>23 DEF Prepared, At, Goto, NoWrite, storeVars, ghostVars
<1>24. ASSUME NEW s \in Services, PrepareAborts(s) PROVE TerminalEvidence'
  BY <1>24 DEF PrepareAborts, At, Decide, NoWrite, AbortStatus, storeVars, ghostVars
<1>25. ASSUME NEW s \in Services, StartRunning(s) PROVE TerminalEvidence'
  BY <1>25 DEF StartRunning, At, Advance, Goto, storeVars, ghostVars
<1>26. ASSUME NEW s \in Services, RunningCancelled(s) PROVE TerminalEvidence'
  BY <1>26, FinishSteps
<1>27. ASSUME NEW s \in Services, Invoke(s) PROVE TerminalEvidence'
  BY <1>27 DEF Invoke, At, Write, Mine, Goto, storeVars, ghostVars
<1>28. ASSUME NEW s \in Services, SandboxEnds(s) PROVE TerminalEvidence'
  BY <1>28 DEF SandboxEnds, At, Write, Mine, Decide, storeVars, ghostVars
<1>29. ASSUME NEW s \in Services, SandboxPasses(s) PROVE TerminalEvidence'
  BY <1>29 DEF SandboxPasses, At, Write, Mine, Goto, storeVars, ghostVars
<1>30. ASSUME NEW s \in Services, SandboxPatch(s) PROVE TerminalEvidence'
  BY <1>30 DEF SandboxPatch, At, Write, Mine, Decide, Verdict, storeVars, ghostVars
<1>31. ASSUME NEW s \in Services, CodingPatch(s) PROVE TerminalEvidence'
  BY <1>31 DEF CodingPatch, At, Write, Mine, Goto, storeVars, ghostVars
<1>32. ASSUME NEW s \in Services, CodingTested(s) PROVE TerminalEvidence'
  BY <1>32 DEF CodingTested, At, Write, Mine, Goto, storeVars, ghostVars
<1>33. ASSUME NEW s \in Services, CodingCompletes(s) PROVE TerminalEvidence'
  BY <1>33 DEF CodingCompletes, At, Write, Mine, Decide, Verdict, storeVars, ghostVars
<1>34. ASSUME NEW s \in Services, CodingFails(s) PROVE TerminalEvidence'
  BY <1>34 DEF CodingFails, At, Write, Mine, Decide, AbortStatus, InExecutor, storeVars, ghostVars
<1>35. ASSUME NEW s \in Services, ExecutorRaises(s) PROVE TerminalEvidence'
  BY <1>35 DEF ExecutorRaises, At, Decide, NoWrite, storeVars, ghostVars
<1>36. ASSUME NEW s \in Services, Return(s) PROVE TerminalEvidence'
  BY <1>36, FinishSteps
<1>37. ASSUME NEW s \in Services, AbortArtifact(s) PROVE TerminalEvidence'
  BY <1>37 DEF AbortArtifact, At, Write, Mine, Goto, storeVars, ghostVars
<1>38. ASSUME NEW s \in Services, AbortFinish(s) PROVE TerminalEvidence'
  BY <1>38, FinishSteps
<1>39. ASSUME NEW s \in Services, TickCommit(s) PROVE TerminalEvidence'
  BY <1>39 DEF TickCommit, At, Commit, Leave, storeVars, ghostVars
<1>40. ASSUME NEW s \in Services, StorageError(s) PROVE TerminalEvidence'
  BY <1>40 DEF StorageError, At, Abandon, Decide, storeVars, ghostVars
<1>41. ASSUME NEW s \in Services, StorageSettled(s) PROVE TerminalEvidence'
  BY <1>41 DEF StorageSettled, At, Leave, NoWrite, storeVars, ghostVars
<1>42. ASSUME NEW s \in Services, StorageArtifact(s) PROVE TerminalEvidence'
  BY <1>42 DEF StorageArtifact, At, Write, Mine, Goto, storeVars, ghostVars
<1>43. ASSUME NEW s \in Services, StorageFinish(s) PROVE TerminalEvidence'
  BY <1>43, FinishSteps
<1>44. ASSUME NEW s \in Services, StorageLost(s) PROVE TerminalEvidence'
  BY <1>44 DEF StorageLost, At, FoundTerminal, Leave, NoWrite, storeVars, ghostVars
<1>45. CASE UNCHANGED vars
  BY SMTT(60), <1>45 DEF vars
<1> HIDE DEF IInv, TypeOK, WorkerInv, TxnInv, Admitting, Cancelling, Settling, Committing, NoTxn, JobInv, Jobless, JobStatus, Record, Files, Terminal, Active, Recorded, Statuses, InExecutor, TerminalEvidence
<1> QED
  BY <1>1, <1>2, <1>3, <1>4, <1>5, <1>6, <1>7, <1>8, <1>9, <1>10, <1>11, <1>12, <1>13, <1>14, <1>15, <1>16, <1>17, <1>18, <1>19, <1>20, <1>21, <1>22, <1>23, <1>24, <1>25, <1>26, <1>27, <1>28, <1>29, <1>30, <1>31, <1>32, <1>33, <1>34, <1>35, <1>36, <1>37, <1>38, <1>39, <1>40, <1>41, <1>42, <1>43, <1>44, <1>45 DEF Next, ClientStep, Recovery, Tick, Executor, Fault

(* A tick that writes nothing and goes to a point from which it cannot      *)
(* claim a success.                                                         *)
LEMMA QuietKeeps ==
  ASSUME IInv, NEW s \in Services, UNCHANGED <<rec, art, txn, runs>>,
         \A u \in Services \ {s} : pc'[u] = pc[u] /\ job'[u] = job[u] /\ out'[u] = out[u],
         pc'[s] \notin {"testing", "validated", "returned"} \cup Committing
  PROVE  SuccessInv'
<1>1. ASSUME NEW u \in Services
      PROVE  SuccessAt(u)'
  <2>1. CASE u = s
    BY <2>1 DEF SuccessAt
  <2>2. CASE u # s
    BY <2>2 DEF IInv, SuccessInv, SuccessAt, Evidence, Coding
  <2> QED
    BY <2>1, <2>2
<1>2. SuccessEvidence'
  <2>1. SuccessEvidence /\ rec' = rec /\ art' = art /\ runs' = runs
    BY DEF IInv, SuccessInv, SuccessAt
  <2> QED
    BY <2>1 DEF SuccessEvidence, Coding
<1> QED
  BY <1>1, <1>2 DEF SuccessInv

LEMMA QuietSteps ==
  ASSUME IInv, NEW s \in Services,
         \/ Exit(s) \/ StorageSettled(s) \/ StorageLost(s) \/ ReserveLost(s)
         \/ Prepared(s) \/ PrepareAborts(s) \/ ExecutorRaises(s) \/ Ready(s) \/ Pick(s)
  PROVE  SuccessInv'
<1>1. UNCHANGED <<rec, art, txn, runs>>
  BY DEF Exit, StorageSettled, StorageLost, ReserveLost, Prepared, PrepareAborts,
     ExecutorRaises, Ready, Pick, FoundTerminal, NoWrite, storeVars, ghostVars
<1>2. \A u \in Services \ {s} : pc'[u] = pc[u] /\ job'[u] = job[u] /\ out'[u] = out[u]
  BY DEF Exit, StorageSettled, StorageLost, ReserveLost, Prepared, PrepareAborts,
     ExecutorRaises, Ready, Pick, FoundTerminal, Gone, Leave, Goto, Decide, Take, IInv, TypeOK
<1>3. pc'[s] \in {"off", "idle", "prepared", "aborting", "picked"}
  BY DEF Exit, StorageSettled, StorageLost, ReserveLost, Prepared, PrepareAborts,
     ExecutorRaises, Ready, Pick, FoundTerminal, Gone, Leave, Goto, Decide, Take, IInv, TypeOK
<1> QED
  BY <1>1, <1>2, <1>3, QuietKeeps DEF Committing

(* A forward transition: the record keeps its payload and is not terminal.  *)
LEMMA AdvanceKeeps ==
  ASSUME IInv, NEW s \in Services, Reserve(s) \/ StartRunning(s)
  PROVE  SuccessInv'
<1>1. job[s] \in Tasks
  BY HasJob DEF IInv, Reserve, StartRunning, At, Jobless
<1>2. /\ art' = art /\ runs' = runs /\ txn' = txn /\ job' = job /\ out' = out
      /\ \A u \in Services \ {s} : pc'[u] = pc[u]
      /\ pc'[s] \in {"reserved", "launching"}
  BY DEF Reserve, StartRunning, Advance, Goto, ghostVars, IInv, TypeOK
<1>3. \A t \in Tasks : /\ rec'[t].payload = rec[t].payload
                       /\ rec'[t].status = "succeeded" => rec'[t] = rec[t]
  BY <1>1 DEF Reserve, StartRunning, Advance, IInv, TypeOK, Record
<1>4. ASSUME NEW u \in Services
      PROVE  SuccessAt(u)'
  <2>1. CASE u = s
    BY <1>2, <2>1 DEF SuccessAt, Committing
  <2>2. CASE u # s /\ pc[u] \in Jobless
    BY <1>2, <2>2 DEF SuccessAt, Committing, Jobless
  <2>3. CASE u # s /\ pc[u] \notin Jobless
    <3>1. job[u] \in Tasks /\ pc'[u] = pc[u]
      BY <1>2, <2>3, HasJob DEF IInv
    <3> QED
      BY <1>2, <1>3, <3>1 DEF IInv, SuccessInv, SuccessAt, Evidence, Coding
  <2> QED
    BY <2>1, <2>2, <2>3
<1>5. SuccessEvidence'
  <2>1. SuccessEvidence
    BY DEF IInv, SuccessInv, SuccessAt
  <2> QED
    BY <1>2, <1>3, <2>1 DEF SuccessEvidence, Coding
<1> QED
  BY <1>4, <1>5 DEF SuccessInv

(* Success and its evidence.                                                *)
LEMMA SuccessStep ==
  ASSUME IInv, TypeOK', [Next]_vars
  PROVE  SuccessInv'
<1>3. ASSUME NEW c \in Clients, SubmitArtifacts(c) PROVE SuccessInv'
  BY <1>3, ArtifactsKeep
<1>10. ASSUME NEW s \in Services, RecoverArtifacts(s) PROVE SuccessInv'
  BY <1>10, RecoverKeeps
<1>11. ASSUME NEW s \in Services, RecoverPublish(s) PROVE SuccessInv'
  BY <1>11, OtherOutcomes
<1>21. ASSUME NEW s \in Services, Block(s) PROVE SuccessInv'
  BY <1>21, OtherOutcomes
<1>22. ASSUME NEW s \in Services, MakeWorkspace(s) PROVE SuccessInv'
  BY <1>22, OtherWritesKeep
<1>26. ASSUME NEW s \in Services, RunningCancelled(s) PROVE SuccessInv'
  BY <1>26, OtherOutcomes
<1>27. ASSUME NEW s \in Services, Invoke(s) PROVE SuccessInv'
  BY <1>27, InvokeKeeps
<1>28. ASSUME NEW s \in Services, SandboxEnds(s) PROVE SuccessInv'
  BY <1>28, EndsKeeps
<1>29. ASSUME NEW s \in Services, SandboxPasses(s) PROVE SuccessInv'
  BY <1>29, OtherWritesKeep
<1>30. ASSUME NEW s \in Services, SandboxPatch(s) PROVE SuccessInv'
  BY <1>30, OtherWritesKeep
<1>31. ASSUME NEW s \in Services, CodingPatch(s) PROVE SuccessInv'
  BY <1>31, OtherWritesKeep
<1>32. ASSUME NEW s \in Services, CodingTested(s) PROVE SuccessInv'
  BY <1>32, OtherWritesKeep
<1>33. ASSUME NEW s \in Services, CodingCompletes(s) PROVE SuccessInv'
  BY <1>33, OtherWritesKeep
<1>34. ASSUME NEW s \in Services, CodingFails(s) PROVE SuccessInv'
  BY <1>34, FailsKeep
<1>36. ASSUME NEW s \in Services, Return(s) PROVE SuccessInv'
  BY <1>36, ReturnKeeps
<1>37. ASSUME NEW s \in Services, AbortArtifact(s) PROVE SuccessInv'
  BY <1>37, AbortKeeps
<1>38. ASSUME NEW s \in Services, AbortFinish(s) PROVE SuccessInv'
  BY <1>38, OtherOutcomes
<1>42. ASSUME NEW s \in Services, StorageArtifact(s) PROVE SuccessInv'
  BY <1>42, OtherWritesKeep
<1>43. ASSUME NEW s \in Services, StorageFinish(s) PROVE SuccessInv'
  BY <1>43, OtherOutcomes
<1>13. ASSUME NEW s \in Services, Ready(s) PROVE SuccessInv'
  BY <1>13, QuietSteps
<1>14. ASSUME NEW s \in Services, Exit(s) PROVE SuccessInv'
  BY <1>14, QuietSteps
<1>19. ASSUME NEW s \in Services, Reserve(s) PROVE SuccessInv'
  BY <1>19, AdvanceKeeps
<1>20. ASSUME NEW s \in Services, ReserveLost(s) PROVE SuccessInv'
  BY <1>20, QuietSteps
<1>25. ASSUME NEW s \in Services, StartRunning(s) PROVE SuccessInv'
  BY <1>25, AdvanceKeeps
<1>18. ASSUME NEW s \in Services, Pick(s) PROVE SuccessInv'
  BY <1>18, QuietSteps
<1>23. ASSUME NEW s \in Services, Prepared(s) PROVE SuccessInv'
  BY <1>23, QuietSteps
<1>24. ASSUME NEW s \in Services, PrepareAborts(s) PROVE SuccessInv'
  BY <1>24, QuietSteps
<1>35. ASSUME NEW s \in Services, ExecutorRaises(s) PROVE SuccessInv'
  BY <1>35, QuietSteps
<1>41. ASSUME NEW s \in Services, StorageSettled(s) PROVE SuccessInv'
  BY <1>41, QuietSteps
<1>44. ASSUME NEW s \in Services, StorageLost(s) PROVE SuccessInv'
  BY <1>44, QuietSteps
<1> USE ConstantsAssumption DEF IInv, TypeOK, WorkerInv, TxnInv, Admitting, Cancelling, Settling, Committing, NoTxn, JobInv, Jobless, JobStatus, Record, Files, Terminal, Active, Recorded, Statuses, InExecutor, RunsInv, OutInv, Deciding, SuccessInv, SuccessAt, SuccessEvidence, Evidence, Coding, OwnerInv
<1>1. ASSUME NEW c \in Clients, NEW t \in Tasks, NEW p \in Payloads, SubmitDirectory(c, t, p) PROVE SuccessInv'
  BY <1>1 DEF SubmitDirectory, NewRecord, NoFiles, storeVars, serviceVars, ghostVars
<1>2. ASSUME NEW c \in Clients, NEW t \in Tasks, NEW p \in Payloads, SubmitDuplicate(c, t, p) PROVE SuccessInv'
  BY <1>2 DEF SubmitDuplicate, SamePayload, storeVars, serviceVars, ghostVars
<1>4. ASSUME NEW c \in Clients, SubmitCommit(c) PROVE SuccessInv'
  BY <1>4 DEF SubmitCommit, Commit, storeVars, serviceVars, ghostVars
<1>5. ASSUME NEW c \in Clients, NEW t \in Tasks, CancelQueued(c, t) PROVE SuccessInv'
  BY <1>5 DEF CancelQueued, Publish, storeVars, serviceVars, ghostVars
<1>6. ASSUME NEW c \in Clients, NEW t \in Tasks, CancelHeld(c, t) PROVE SuccessInv'
  BY <1>6 DEF CancelHeld, HeldTask, storeVars, serviceVars, ghostVars
<1>7. ASSUME NEW c \in Clients, CancelCommit(c) PROVE SuccessInv'
  BY <1>7 DEF CancelCommit, Commit, storeVars, serviceVars, ghostVars
<1>8. ASSUME NEW c \in Clients, ClientFails(c) PROVE SuccessInv'
  BY <1>8 DEF ClientFails, Abandon, storeVars, serviceVars, ghostVars
<1>9. ASSUME NEW s \in Services, Start(s) PROVE SuccessInv'
  BY <1>9 DEF Start, At, WorkerFree, LeftBehind, Having, storeVars, ghostVars
<1>12. ASSUME NEW s \in Services, RecoverCommit(s) PROVE SuccessInv'
  BY <1>12 DEF RecoverCommit, At, Commit, Take, storeVars, ghostVars
<1>15. ASSUME NEW s \in Services, Stop(s) PROVE SuccessInv'
  BY <1>15 DEF Stop, At, storeVars, ghostVars
<1>16. ASSUME NEW s \in Services, ReceiverDies(s) PROVE SuccessInv'
  BY <1>16 DEF ReceiverDies, At, storeVars, ghostVars
<1>17. ASSUME NEW s \in Services, Crash(s) PROVE SuccessInv'
  BY <1>17 DEF Crash, At, Gone, Abandon, storeVars, ghostVars
<1>39. ASSUME NEW s \in Services, TickCommit(s) PROVE SuccessInv'
  BY <1>39 DEF TickCommit, At, Commit, Leave, storeVars, ghostVars
<1>40. ASSUME NEW s \in Services, StorageError(s) PROVE SuccessInv'
  BY <1>40 DEF StorageError, At, Abandon, Decide, storeVars, ghostVars
<1>45. CASE UNCHANGED vars
  BY <1>45 DEF vars
<1> HIDE DEF IInv, TypeOK, WorkerInv, TxnInv, Admitting, Cancelling, Settling, Committing, NoTxn, JobInv, Jobless, JobStatus, Record, Files, Terminal, Active, Recorded, Statuses, InExecutor, RunsInv, OutInv, Deciding, SuccessInv, SuccessAt, SuccessEvidence, Evidence, Coding, OwnerInv
<1> QED
  BY <1>1, <1>2, <1>3, <1>4, <1>5, <1>6, <1>7, <1>8, <1>9, <1>10, <1>11, <1>12, <1>13, <1>14, <1>15, <1>16, <1>17, <1>18, <1>19, <1>20, <1>21, <1>22, <1>23, <1>24, <1>25, <1>26, <1>27, <1>28, <1>29, <1>30, <1>31, <1>32, <1>33, <1>34, <1>35, <1>36, <1>37, <1>38, <1>39, <1>40, <1>41, <1>42, <1>43, <1>44, <1>45 DEF Next, ClientStep, Recovery, Tick, Executor, Fault

-----------------------------------------------------------------------------
(* IInv is inductive.                                                       *)
LEMMA InitInv == Init => IInv
<1> SUFFICES ASSUME Init PROVE IInv
  OBVIOUS
<1>1. NoRecord \in Record /\ NoFiles \in Files
  BY DEF NoRecord, Record, Statuses, NoFiles, Files, Tests, Agents
<1>2. TypeOK
  BY <1>1 DEF Init, TypeOK, NoTxn, Points
<1>3. WorkerInv /\ JobInv
  BY ConstantsAssumption DEF Init, WorkerInv, JobInv, Jobless
<1>4. \A t \in Tasks : rec[t].status = "absent"
  BY DEF Init, NoRecord
<1>5. TxnInv /\ RunsInv /\ OutInv
  BY <1>4 DEF Init, TxnInv, RunsInv, OutInv, Committing, InExecutor, Deciding
<1>6. OwnerInv
  BY <1>4 DEF Init, OwnerInv, Having, Active
<1>7. TerminalEvidence /\ SuccessInv
  BY <1>4 DEF Init, TerminalEvidence, SuccessInv, SuccessAt, SuccessEvidence, Terminal, Committing
<1> QED
  BY <1>2, <1>3, <1>5, <1>6, <1>7 DEF IInv

LEMMA InvStep == IInv /\ [Next]_vars => IInv'
<1> SUFFICES ASSUME IInv, [Next]_vars PROVE IInv'
  OBVIOUS
<1>1. TypeOK'
  BY TypeStep DEF IInv
<1>2. WorkerInv' /\ TxnInv' /\ JobInv' /\ OwnerInv'
  BY <1>1, WorkerStep, TxnStep, JobStep, OwnerStep
<1>3. RunsInv' /\ OutInv' /\ TerminalEvidence' /\ SuccessInv'
  BY <1>1, RunsStep, OutStep, EvidenceStep, SuccessStep
<1> QED
  BY <1>1, <1>2, <1>3 DEF IInv

LEMMA Inductive == Spec => []IInv
  BY InitInv, InvStep, PTL DEF Spec

(* Every variable of the store and of the processes keeps its type.         *)
THEOREM TypeCorrect == Spec => []TypeOK
<1>1. IInv => TypeOK
  BY DEF IInv
<1> QED
  BY <1>1, Inductive, PTL

(* No task is executed twice, whatever crashes, restarts, storage errors    *)
(* and resubmissions happen, for any number of tasks and processes.         *)
THEOREM NeverRunTwice == Spec => []AtMostOneRun
<1>1. IInv => AtMostOneRun
  BY DEF IInv, RunsInv, AtMostOneRun
<1> QED
  BY <1>1, Inductive, PTL

(* An executor works only on a task whose durable record says running, and  *)
(* no other service process works on that task.                             *)
THEOREM ExecutionIsExclusive == Spec => []ExecutingIsRunning
<1>1. IInv => ExecutingIsRunning
  <2> SUFFICES ASSUME IInv, NEW s \in Services, pc[s] \in InExecutor
               PROVE  /\ rec[job[s]].status = "running"
                      /\ \A u \in Services \ {s} : job[u] # job[s]
    BY DEF ExecutingIsRunning
  <2>1. job[s] \in Tasks /\ rec[job[s]].status = "running"
    BY DEF IInv, JobInv, JobStatus, Jobless, InExecutor
  <2>2. \A u \in Services \ {s} : pc[u] = "off" /\ job[u] = NoTask
    BY DEF IInv, WorkerInv, JobInv, Jobless, InExecutor
  <2> QED
    BY <2>1, <2>2, ConstantsAssumption
<1> QED
  BY <1>1, Inductive, PTL

(* Every terminal record is backed by the result.json of the same outcome.  *)
THEOREM OutcomeHasEvidence == Spec => []TerminalEvidence
<1>1. IInv => TerminalEvidence
  BY DEF IInv
<1> QED
  BY <1>1, Inductive, PTL

(* A task is recorded as succeeded only if it ran, its tests passed, its    *)
(* patch is there and no cancellation had been asked for.                   *)
THEOREM SuccessHasEvidence == Spec => []SuccessEvidence
<1>1. IInv => SuccessEvidence
  BY DEF IInv, SuccessInv, SuccessAt
<1> QED
  BY <1>1, Inductive, PTL

-----------------------------------------------------------------------------
(* How a step may change the record of a task, and the refinement.          *)

Flagged(t) ==
    /\ rec[t].status \in Active
    /\ rec'[t].status = rec[t].status /\ rec'[t].cancel
Reserved(t) ==
    /\ rec[t].status = "submitted" /\ ~rec[t].cancel
    /\ rec'[t].status = "reserved" /\ ~rec'[t].cancel
    /\ Having(Active) = {}
Started(t) ==
    /\ rec[t].status = "reserved" /\ ~rec[t].cancel
    /\ rec'[t].status = "running" /\ ~rec'[t].cancel
Settled(t) ==
    /\ rec[t].status \in Active \cup {"submitted"}
    /\ rec'[t].status \in Edges[rec[t].status] \cap Terminal
    /\ rec[t].status = "submitted" => rec'[t].status = "failed"
    /\ rec'[t].status = "succeeded" => runs[t] = 1 /\ ~rec[t].cancel
    /\ rec'[t].cancel = rec[t].cancel
Withdrawn(t) ==
    /\ rec[t].status = "submitted"
    /\ rec'[t].status = "cancelled" /\ rec'[t].cancel
Appeared(t) ==
    /\ rec[t].status = "absent"
    /\ rec'[t].status = "submitted" /\ ~rec'[t].cancel

RecordChange ==
    /\ UNCHANGED runs
    /\ \E t \in Tasks :
         /\ \A u \in Tasks \ {t} : rec'[u] = rec[u]
         /\ Appeared(t) \/ Flagged(t) \/ Reserved(t) \/ Started(t) \/ Settled(t)
            \/ Withdrawn(t)
Invocation ==
    /\ UNCHANGED <<rec, txn>>
    /\ \E t \in Tasks : /\ rec[t].status = "running" /\ runs[t] = 0
                        /\ runs' = [runs EXCEPT ![t] = 1]

(* The legal outcomes, computed from EDGES.                                 *)
LEMMA LegalOutcomes ==
  /\ \A x \in {"cancelled", "failed"} : x \in Edges["submitted"] \cap Terminal
  /\ \A x \in Terminal \ {"succeeded"} : x \in Edges["reserved"] \cap Terminal
  /\ \A x \in Terminal : x \in Edges["running"] \cap Terminal
  /\ "reserved" \in Edges["submitted"] /\ "running" \in Edges["reserved"]
  BY DEF Edges, Terminal, Statuses, Recorded, Active

(* The commit of a terminal transition of a service process.                *)
LEMMA ServiceCommits ==
  ASSUME IInv, NEW s \in Services, pc[s] \in Committing, Commit(s), UNCHANGED runs
  PROVE  RecordChange
<1>1. Settling(s)
  BY ConstantsAssumption DEF IInv, TxnInv, NoTxn, Commit, Settling, Admitting, Cancelling
<1>2. job[s] \in Tasks /\ rec[job[s]].status \in {"submitted", "reserved", "running"}
  BY HasJob DEF IInv, Committing, Jobless, JobStatus, InExecutor, Active
<1>3. /\ rec'[job[s]] = txn.to
      /\ \A u \in Tasks \ {job[s]} : rec'[u] = rec[u]
  BY <1>1, <1>2 DEF Commit, Settling, IInv, TypeOK
<1>4. txn.to.status = "succeeded" => runs[job[s]] = 1 /\ ~rec[job[s]].cancel
  BY <1>1, <1>2 DEF Settling, IInv, SuccessInv, SuccessAt, Evidence
<1>5. rec[job[s]].status = "reserved" => txn.to.status # "succeeded"
  BY <1>2, <1>4 DEF IInv, RunsInv
<1>6. Settled(job[s])
  BY <1>1, <1>2, <1>3, <1>4, <1>5, LegalOutcomes DEF Settled, Settling, Active
<1> QED
  BY <1>2, <1>3, <1>6 DEF RecordChange

(* The commits of the clients.                                              *)
LEMMA ClientCommits ==
  ASSUME IInv, NEW c \in Clients, SubmitCommit(c) \/ CancelCommit(c)
  PROVE  RecordChange
<1>1. txn.task \in Tasks /\ (Admitting(c) \/ Cancelling(c)) /\ Commit(c) /\ UNCHANGED runs
  BY TxnIsClients DEF IInv, SubmitCommit, CancelCommit, Commit, ghostVars
<1>2. /\ rec'[txn.task] = txn.to
      /\ \A u \in Tasks \ {txn.task} : rec'[u] = rec[u]
  BY <1>1 DEF Commit, IInv, TypeOK
<1>3. Admitting(c) => Appeared(txn.task)
  BY <1>2 DEF Admitting, Appeared
<1>4. Cancelling(c) => Withdrawn(txn.task)
  BY <1>2 DEF Cancelling, Withdrawn
<1> QED
  BY <1>1, <1>2, <1>3, <1>4 DEF RecordChange

(* The transitions that are one write.                                      *)
LEMMA Advances ==
  ASSUME IInv, NEW s \in Services, Reserve(s) \/ StartRunning(s)
  PROVE  RecordChange
<1>1. job[s] \in Tasks
  BY HasJob DEF Reserve, StartRunning, At, IInv, Jobless
<1>2. \A u \in Tasks \ {job[s]} : rec'[u] = rec[u]
  BY <1>1 DEF Reserve, StartRunning, Advance, IInv, TypeOK
<1>3. CASE Reserve(s)
  <2>1. rec[job[s]].status = "submitted" /\ ~rec[job[s]].cancel
    BY <1>3, HasJob DEF Reserve, Advance, At, IInv, Jobless, JobStatus, InExecutor
  <2>2. rec'[job[s]].status = "reserved" /\ rec'[job[s]].cancel = rec[job[s]].cancel
    BY <1>1, <1>3 DEF Reserve, Advance, IInv, TypeOK, Record
  <2>3. Having(Active) \subseteq {job[s]}
    BY <1>3 DEF Reserve, At, IInv, OwnerInv, RecoveryPoints
  <2>4. Having(Active) = {}
    BY <2>1, <2>3 DEF Having, Active
  <2> QED
    BY <1>1, <1>2, <1>3, <2>1, <2>2, <2>4
       DEF Reserve, Advance, RecordChange, Reserved, ghostVars
<1>4. CASE StartRunning(s)
  <2>1. rec[job[s]].status = "reserved" /\ ~rec[job[s]].cancel
    BY <1>4, HasJob DEF StartRunning, Advance, At, IInv, Jobless, JobStatus, InExecutor
  <2>2. rec'[job[s]].status = "running" /\ rec'[job[s]].cancel = rec[job[s]].cancel
    BY <1>1, <1>4 DEF StartRunning, Advance, IInv, TypeOK, Record
  <2> QED
    BY <1>1, <1>2, <1>4, <2>1, <2>2
       DEF StartRunning, Advance, RecordChange, Started, ghostVars
<1> QED
  BY <1>3, <1>4

LEMMA Flags ==
  ASSUME IInv, NEW c \in Clients, NEW t \in Tasks, CancelHeld(c, t)
  PROVE  RecordChange
<1>1. /\ rec'[t].status = rec[t].status /\ rec'[t].cancel
      /\ \A u \in Tasks \ {t} : rec'[u] = rec[u]
  BY DEF CancelHeld, IInv, TypeOK, Record
<1> QED
  BY <1>1 DEF CancelHeld, HeldTask, RecordChange, Flagged, ghostVars

LEMMA Invokes ==
  ASSUME IInv, NEW s \in Services, Invoke(s)
  PROVE  Invocation
<1>1. job[s] \in Tasks /\ rec[job[s]].status = "running"
  BY HasJob DEF Invoke, At, IInv, Jobless, JobStatus, InExecutor
<1>2. runs[job[s]] = 0
  BY DEF Invoke, At, IInv, RunsInv
<1>3. UNCHANGED <<rec, txn>>
  BY DEF Invoke, Write
<1>4. runs' = [runs EXCEPT ![job[s]] = 1]
  BY <1>2 DEF Invoke
<1> QED
  BY <1>1, <1>2, <1>3, <1>4 DEF Invocation

(* Every other step leaves the records and the invocations alone.           *)
LEMMA RecordStep ==
  ASSUME IInv, [Next]_vars
  PROVE  UNCHANGED <<rec, runs>> \/ RecordChange \/ Invocation
<1>1. CASE UNCHANGED vars
  BY <1>1 DEF vars
<1>2. ASSUME NEW c \in Clients, ClientStep(c) \/ ClientFails(c)
      PROVE  UNCHANGED <<rec, runs>> \/ RecordChange
  <2>1. CASE SubmitCommit(c) \/ CancelCommit(c)
    BY <2>1, ClientCommits
  <2>2. CASE \E t \in Tasks : CancelHeld(c, t)
    BY <2>2, Flags
  <2> QED
    BY <1>2, <2>1, <2>2 DEF ClientStep, ClientFails, SubmitDirectory, SubmitDuplicate,
       SubmitArtifacts, CancelQueued, storeVars, ghostVars
<1>3. ASSUME NEW s \in Services, Start(s) \/ Recovery(s) \/ Exit(s)
      PROVE  UNCHANGED <<rec, runs>> \/ RecordChange
  <2>1. CASE RecoverCommit(s)
    BY <2>1, ServiceCommits DEF RecoverCommit, At, Committing, ghostVars
  <2> QED
    BY <1>3, <2>1 DEF Start, Recovery, RecoverArtifacts, RecoverPublish, Finish, Ready, Exit,
       NoWrite, storeVars, ghostVars
<1>4. ASSUME NEW s \in Services, Tick(s)
      PROVE  UNCHANGED <<rec, runs>> \/ RecordChange
  <2>1. CASE TickCommit(s)
    BY <2>1, ServiceCommits DEF TickCommit, At, Committing, ghostVars
  <2>2. CASE Reserve(s) \/ StartRunning(s)
    BY <2>2, Advances
  <2> QED
    BY <1>4, <2>1, <2>2 DEF Tick, Pick, ReserveLost, FoundTerminal, Block, Finish,
       MakeWorkspace, Write, Prepared, PrepareAborts, RunningCancelled, Return,
       AbortArtifact, AbortFinish, StorageSettled, StorageArtifact, StorageFinish,
       StorageLost, NoWrite, storeVars, ghostVars
<1>5. ASSUME NEW s \in Services, Executor(s)
      PROVE  UNCHANGED <<rec, runs>> \/ Invocation
  <2>1. CASE Invoke(s)
    BY <2>1, Invokes
  <2> QED
    BY <1>5, <2>1 DEF Executor, SandboxEnds, SandboxPasses, SandboxPatch, CodingPatch,
       CodingTested, CodingCompletes, CodingFails, ExecutorRaises, Write, NoWrite,
       storeVars, ghostVars
<1>6. ASSUME NEW s \in Services, Stop(s) \/ ReceiverDies(s) \/ Crash(s) \/ StorageError(s)
      PROVE  UNCHANGED <<rec, runs>>
  BY <1>6 DEF Stop, ReceiverDies, Crash, StorageError, storeVars, ghostVars
<1> QED
  BY <1>1, <1>2, <1>3, <1>4, <1>5, <1>6 DEF Next, Fault

(* A terminal record never changes again.                                   *)
THEOREM OutcomeIsFinal == Spec => TerminalIsFinal
<1>1. IInv /\ [Next]_vars =>
        [\A t \in Tasks : rec[t].status \in Terminal => rec'[t] = rec[t]]_vars
  BY RecordStep DEF RecordChange, Invocation, Appeared, Flagged, Reserved, Started,
     Settled, Withdrawn, Active, Terminal
<1> QED
  BY <1>1, Inductive, PTL DEF Spec, TerminalIsFinal

(* Every change of status follows EDGES.                                    *)
THEOREM TransitionsAreLegal == Spec => OnlyLegalTransitions
<1>1. IInv /\ [Next]_vars =>
        [\A t \in Tasks : rec'[t].status # rec[t].status =>
            \/ rec[t].status = "absent" /\ rec'[t].status = "submitted"
            \/ rec'[t].status \in Edges[rec[t].status]]_vars
  BY RecordStep, LegalOutcomes DEF RecordChange, Invocation, Appeared, Flagged, Reserved,
     Started, Settled, Withdrawn
<1> QED
  BY <1>1, Inductive, PTL DEF Spec, OnlyLegalTransitions

(* A task that was never admitted has neither a payload nor a cancellation. *)
AbsentInv == \A t \in Tasks :
    rec[t].status = "absent" => ~rec[t].cancel /\ rec[t].payload = NoPayload

LEMMA AbsentIsClear == Spec => []AbsentInv
<1>1. Init => AbsentInv
  BY DEF Init, AbsentInv, NoRecord
<1>2. IInv /\ AbsentInv /\ [Next]_vars => AbsentInv'
  <2> SUFFICES ASSUME IInv, AbsentInv, [Next]_vars, NEW t \in Tasks,
                      rec'[t].status = "absent"
               PROVE  rec'[t] = rec[t]
    BY DEF AbsentInv
  <2> QED
    BY RecordStep DEF RecordChange, Invocation, Appeared, Flagged, Reserved, Started,
       Settled, Withdrawn, Active, Terminal
<1> QED
  BY <1>1, <1>2, Inductive, PTL DEF Spec

(* A durable cancellation flag wins over a concurrent success.              *)
THEOREM CancellationIsHonoured == Spec => CancellationWins
<1>1. IInv /\ AbsentInv /\ [Next]_vars =>
        [\A t \in Tasks : rec[t].cancel /\ rec'[t].status # rec[t].status
            => rec'[t].status \in Terminal \ {"succeeded"}]_vars
  <2> SUFFICES ASSUME IInv, AbsentInv, [Next]_vars, NEW t \in Tasks,
                      rec[t].cancel, rec'[t].status # rec[t].status
               PROVE  rec'[t].status \in Terminal \ {"succeeded"}
    OBVIOUS
  <2>1. rec[t].status # "absent"
    BY DEF AbsentInv
  <2> QED
    BY <2>1, RecordStep DEF RecordChange, Invocation, Appeared, Flagged, Reserved,
       Started, Settled, Withdrawn, Terminal
<1> QED
  BY <1>1, Inductive, AbsentIsClear, PTL DEF Spec, CancellationWins

-----------------------------------------------------------------------------
(* What was acknowledged is what is stored.                                 *)

(* The cancellation that a client has under way is of the stored payload.   *)
WithdrawnPayload(c) ==
    /\ txn.by = c
    /\ txn.to.status = "cancelled"
    /\ txn.to.payload # rec[txn.task].payload
WithdrawalKeeps == \A c \in Clients : ~WithdrawnPayload(c)
StoredInv == AcknowledgedIsStored /\ WithdrawalKeeps

(* How a step can change the operation under way and the record with it.    *)
Began(s) ==
    /\ txn = NoTxn /\ txn'.by = s /\ txn'.task \in Tasks
    /\ UNCHANGED <<rec, acked>>
Ended    == txn' = NoTxn
OneWrite(t) ==
    /\ txn = NoTxn /\ txn' = NoTxn
    /\ rec[t].status # "absent" /\ rec'[t].status \notin {"absent", "submitted"}
    /\ rec'[t].payload = rec[t].payload
    /\ \A u \in Tasks \ {t} : rec'[u] = rec[u]
    /\ UNCHANGED acked
OperationChange ==
    \/ UNCHANGED <<rec, txn, acked>>
    \/ Ended /\ UNCHANGED <<rec, acked>>
    \/ \E s \in Services : Began(s) \/ (Settling(s) /\ Commit(s) /\ UNCHANGED acked)
    \/ \E t \in Tasks : OneWrite(t)
    \/ \E c \in Clients, t \in Tasks, p \in Payloads :
         SubmitDirectory(c, t, p) \/ SubmitDuplicate(c, t, p)
    \/ \E c \in Clients, t \in Tasks : CancelQueued(c, t)
    \/ \E c \in Clients : SubmitCommit(c) \/ CancelCommit(c)

LEMMA FinishBegins ==
  ASSUME IInv, NEW s \in Services, pc[s] \notin Jobless, NEW status, NEW point,
         Finish(s, status, point)
  PROVE  OperationChange
<1>1. job[s] \in Tasks
  BY HasJob DEF IInv
<1>2. Began(s)
  BY <1>1 DEF Finish, Publish, Began, ghostVars, IInv, TypeOK, Record
<1> QED
  BY <1>2 DEF OperationChange

LEMMA AdvanceIsOneWrite ==
  ASSUME IInv, NEW s \in Services, Reserve(s) \/ StartRunning(s)
  PROVE  OperationChange
<1>1. job[s] \in Tasks /\ rec[job[s]].status # "absent"
  BY HasJob DEF Reserve, StartRunning, Advance, At, IInv, Jobless, JobStatus, InExecutor, Terminal
<1>2. rec[job[s]].status = "submitted" => pc[s] = "picked"
  BY HasJob DEF Reserve, StartRunning, At, IInv, Jobless, JobStatus
<1>3. OneWrite(job[s])
  BY <1>1, <1>2 DEF Reserve, StartRunning, Advance, OneWrite, IInv, TypeOK, Record, ghostVars
<1> QED
  BY <1>1, <1>3 DEF OperationChange

LEMMA FlagIsOneWrite ==
  ASSUME IInv, NEW c \in Clients, NEW t \in Tasks, CancelHeld(c, t)
  PROVE  OperationChange
<1>1. OneWrite(t)
  BY DEF CancelHeld, HeldTask, Active, OneWrite, IInv, TypeOK, Record, ghostVars
<1> QED
  BY <1>1 DEF OperationChange

LEMMA ServiceCommitEnds ==
  ASSUME IInv, NEW s \in Services, pc[s] \in Committing, Commit(s), UNCHANGED acked
  PROVE  OperationChange
<1>1. Settling(s)
  BY ConstantsAssumption DEF IInv, TxnInv, NoTxn, Commit, Settling, Admitting, Cancelling
<1> QED
  BY <1>1 DEF OperationChange

LEMMA OperationStep ==
  ASSUME IInv, [Next]_vars
  PROVE  OperationChange
<1>1. CASE UNCHANGED vars
  BY <1>1 DEF vars, OperationChange
<1>2. ASSUME NEW c \in Clients, ClientStep(c) \/ ClientFails(c) PROVE OperationChange
  <2>1. CASE \E t \in Tasks : CancelHeld(c, t)
    BY <2>1, FlagIsOneWrite
  <2>2. CASE SubmitArtifacts(c) \/ ClientFails(c)
    BY <2>2 DEF OperationChange, Ended, SubmitArtifacts, ClientFails, Abandon, ghostVars
  <2> QED
    BY <1>2, <2>1, <2>2 DEF ClientStep, OperationChange
<1>3. ASSUME NEW s \in Services, Start(s) \/ Recovery(s) \/ Exit(s) PROVE OperationChange
  <2>1. CASE RecoverCommit(s)
    BY <2>1, ServiceCommitEnds DEF RecoverCommit, At, Committing, ghostVars
  <2>2. CASE RecoverPublish(s)
    BY <2>2, FinishBegins DEF RecoverPublish, At, Jobless
  <2> QED
    BY <1>3, <2>1, <2>2 DEF Start, Recovery, RecoverArtifacts, Ready, Exit, NoWrite,
       storeVars, ghostVars, OperationChange
<1>4. ASSUME NEW s \in Services, Tick(s) PROVE OperationChange
  <2>1. CASE TickCommit(s)
    BY <2>1, ServiceCommitEnds DEF TickCommit, At, Committing, ghostVars
  <2>2. CASE Reserve(s) \/ StartRunning(s)
    BY <2>2, AdvanceIsOneWrite
  <2>3. CASE \/ Block(s) \/ RunningCancelled(s) \/ Return(s)
             \/ AbortFinish(s) \/ StorageFinish(s)
    BY <2>3, FinishBegins DEF Block, RunningCancelled, Return, AbortFinish, StorageFinish,
       At, Jobless
  <2> QED
    BY <1>4, <2>1, <2>2, <2>3 DEF Tick, Pick, ReserveLost, FoundTerminal, MakeWorkspace,
       Write, Prepared, PrepareAborts, AbortArtifact, StorageSettled, StorageArtifact,
       StorageLost, NoWrite, storeVars, ghostVars, OperationChange
<1>5. ASSUME NEW s \in Services, Executor(s) PROVE OperationChange
  BY <1>5 DEF Executor, Invoke, SandboxEnds, SandboxPasses, SandboxPatch, CodingPatch,
     CodingTested, CodingCompletes, CodingFails, ExecutorRaises, Write, NoWrite,
     storeVars, ghostVars, OperationChange
<1>6. ASSUME NEW s \in Services, Stop(s) \/ ReceiverDies(s) \/ Crash(s) \/ StorageError(s)
      PROVE  OperationChange
  BY <1>6 DEF Stop, ReceiverDies, Crash, StorageError, Abandon, storeVars, ghostVars,
     OperationChange, Ended
<1> QED
  BY <1>1, <1>2, <1>3, <1>4, <1>5, <1>6 DEF Next, Fault

(* Whatever the step, what is acknowledged stays what is stored.            *)
LEMMA StoredStep ==
  ASSUME IInv, AbsentInv, StoredInv, [Next]_vars
  PROVE  StoredInv'
<1>0. \A t \in Tasks : rec[t].status # "absent" => rec'[t].status # "absent"
  BY RecordStep DEF RecordChange, Invocation, Appeared, Flagged, Reserved, Started,
     Settled, Withdrawn, Active, Terminal
<1>1. CASE UNCHANGED <<rec, txn, acked>>
  BY <1>1 DEF StoredInv, AcknowledgedIsStored, WithdrawalKeeps, WithdrawnPayload
<1>2. CASE Ended /\ UNCHANGED <<rec, acked>>
  BY <1>2, ConstantsAssumption
     DEF Ended, NoTxn, StoredInv, AcknowledgedIsStored, WithdrawalKeeps, WithdrawnPayload
<1>3. ASSUME NEW s \in Services, Began(s) PROVE StoredInv'
  BY <1>3, ConstantsAssumption
     DEF Began, StoredInv, AcknowledgedIsStored, WithdrawalKeeps, WithdrawnPayload
<1>4. ASSUME NEW s \in Services, Settling(s), Commit(s), UNCHANGED acked PROVE StoredInv'
  <2>1. WithdrawalKeeps'
    BY <1>4, ConstantsAssumption DEF Commit, NoTxn, WithdrawalKeeps, WithdrawnPayload
  <2>2. /\ \A u \in Tasks \ {job[s]} : rec'[u] = rec[u]
        /\ job[s] \in Tasks => rec'[job[s]].payload = rec[job[s]].payload
    BY <1>4 DEF Settling, Commit, IInv, TypeOK
  <2> QED
    BY <1>0, <1>4, <2>1, <2>2 DEF StoredInv, AcknowledgedIsStored
<1>5. ASSUME NEW t \in Tasks, OneWrite(t) PROVE StoredInv'
  <2>1. WithdrawalKeeps'
    BY <1>5, ConstantsAssumption DEF OneWrite, NoTxn, WithdrawalKeeps, WithdrawnPayload
  <2> QED
    BY <1>0, <1>5, <2>1 DEF OneWrite, StoredInv, AcknowledgedIsStored
<1>6. ASSUME NEW c \in Clients, NEW t \in Tasks, NEW p \in Payloads, SubmitDirectory(c, t, p)
      PROVE  StoredInv'
  <2>1. txn'.to.status = "submitted" /\ UNCHANGED <<rec, acked>>
    BY <1>6 DEF SubmitDirectory, NewRecord, ghostVars
  <2> QED
    BY <2>1 DEF StoredInv, AcknowledgedIsStored, WithdrawalKeeps, WithdrawnPayload
<1>7. ASSUME NEW c \in Clients, NEW t \in Tasks, NEW p \in Payloads, SubmitDuplicate(c, t, p)
      PROVE  StoredInv'
  <2>1. WithdrawalKeeps'
    BY <1>7 DEF SubmitDuplicate, storeVars, StoredInv, WithdrawalKeeps, WithdrawnPayload
  <2>2. rec[t].status # "absent" /\ rec[t].payload = p
    BY <1>7, ConstantsAssumption DEF SubmitDuplicate, SamePayload, AbsentInv
  <2>3. /\ acked'[t] = acked[t] \cup {p}
        /\ \A u \in Tasks \ {t} : acked'[u] = acked[u]
    BY <1>7 DEF SubmitDuplicate, IInv, TypeOK
  <2> QED
    BY <1>7, <2>1, <2>2, <2>3 DEF SubmitDuplicate, storeVars, StoredInv, AcknowledgedIsStored
<1>8. ASSUME NEW c \in Clients, NEW t \in Tasks, CancelQueued(c, t) PROVE StoredInv'
  <2> DEFINE r == [rec[t] EXCEPT !.status = "cancelled", !.cancel = TRUE]
  <2>1. r.payload = rec[t].payload
    BY DEF IInv, TypeOK, Record
  <2> HIDE DEF r
  <2>2. Publish(c, t, r) /\ UNCHANGED <<rec, acked>>
    BY <1>8 DEF CancelQueued, r, ghostVars
  <2>3. txn'.task = t /\ txn'.to.payload = rec'[t].payload
    BY <2>1, <2>2 DEF Publish
  <2> QED
    BY <2>2, <2>3 DEF StoredInv, AcknowledgedIsStored, WithdrawalKeeps, WithdrawnPayload
<1>9. ASSUME NEW c \in Clients, SubmitCommit(c) PROVE StoredInv'
  <2>1. txn.task \in Tasks /\ rec[txn.task].status = "absent" /\ txn.to.status = "submitted"
    BY <1>9, TxnIsClients DEF IInv, SubmitCommit, Commit, Admitting, Cancelling
  <2>2. acked[txn.task] = {}
    BY <2>1 DEF StoredInv, AcknowledgedIsStored
  <2>3. /\ acked'[txn.task] = {txn.to.payload} /\ rec'[txn.task] = txn.to
        /\ \A u \in Tasks \ {txn.task} : acked'[u] = acked[u] /\ rec'[u] = rec[u]
    BY <1>9, <2>1, <2>2 DEF SubmitCommit, Commit, IInv, TypeOK
  <2>4. WithdrawalKeeps'
    BY <1>9, ConstantsAssumption DEF SubmitCommit, Commit, NoTxn, WithdrawalKeeps, WithdrawnPayload
  <2> QED
    BY <2>1, <2>3, <2>4 DEF StoredInv, AcknowledgedIsStored
<1>10. ASSUME NEW c \in Clients, CancelCommit(c) PROVE StoredInv'
  <2>1. txn.by = c /\ txn.to.status = "cancelled" /\ UNCHANGED acked
    BY <1>10 DEF CancelCommit, Commit, ghostVars
  <2>2. txn.to.payload = rec[txn.task].payload
    BY <2>1 DEF StoredInv, WithdrawalKeeps, WithdrawnPayload
  <2>3. \A u \in Tasks : rec'[u].payload = rec[u].payload
    BY <1>10, <2>2 DEF CancelCommit, Commit, IInv, TypeOK
  <2>4. WithdrawalKeeps'
    BY <1>10, ConstantsAssumption DEF CancelCommit, Commit, NoTxn, WithdrawalKeeps, WithdrawnPayload
  <2> QED
    BY <1>0, <2>1, <2>3, <2>4 DEF StoredInv, AcknowledgedIsStored
<1> QED
  BY <1>1, <1>2, <1>3, <1>4, <1>5, <1>6, <1>7, <1>8, <1>9, <1>10, OperationStep
     DEF OperationChange

LEMMA StoredAlways == Spec => []StoredInv
<1>1. Init => StoredInv
  BY ConstantsAssumption
     DEF Init, NoTxn, StoredInv, AcknowledgedIsStored, WithdrawalKeeps, WithdrawnPayload
<1>2. IInv /\ AbsentInv /\ StoredInv /\ [Next]_vars => StoredInv'
  BY StoredStep
<1> QED
  BY <1>1, <1>2, Inductive, AbsentIsClear, PTL DEF Spec

(* What was acknowledged is what is stored, whatever is interrupted, raced  *)
(* or repeated.                                                             *)
THEOREM AdmissionIsDurable == Spec => []AcknowledgedIsStored
<1>1. StoredInv => AcknowledgedIsStored
  BY DEF StoredInv
<1> QED
  BY <1>1, StoredAlways, PTL

-----------------------------------------------------------------------------
(* Retention. Admission has counted the records under the lock that it still *)
(* holds when it adds one.                                                  *)
HasRoom(c) == txn.by = c /\ txn.to.status = "submitted" => Cardinality(Admitted) < Capacity
RoomInv == \A c \in Clients : HasRoom(c)
RetentionInv == WithinRetention /\ RoomInv

LEMMA AdmittedIsFinite == IsFiniteSet(Admitted) /\ Cardinality(Admitted) \in Nat
<1>1. Admitted \in SUBSET Tasks
  BY DEF Admitted
<1> QED
  BY <1>1, ConstantsAssumption, FS_Subset, FS_CardinalityType DEF ConstantsAssumption

(* A step that admits nobody, and the admission of a task.                  *)
AdmitsNone == UNCHANGED Admitted /\ RoomInv'
Admits(t) ==
    /\ Cardinality(Admitted) < Capacity
    /\ Admitted' = Admitted \cup {t} /\ t \notin Admitted
    /\ txn' = NoTxn

(* The end of the operation under way, and a single write.                  *)
LEMMA NoTxnHasRoom == ASSUME txn' = NoTxn PROVE RoomInv'
  BY ConstantsAssumption DEF ConstantsAssumption, NoTxn, RoomInv, HasRoom

LEMMA OneRecord ==
  ASSUME NEW t \in Tasks, rec[t].status # "absent", rec'[t].status # "absent",
         \A u \in Tasks \ {t} : rec'[u] = rec[u]
  PROVE  UNCHANGED Admitted
  BY DEF Admitted

LEMMA CommitAdmitsNone ==
  ASSUME IInv, NEW p \in Procs, Commit(p), txn.task \in Tasks,
         rec[txn.task].status # "absent", txn.to.status \in Terminal
  PROVE  AdmitsNone
<1>1. /\ rec'[txn.task] = txn.to
      /\ \A u \in Tasks \ {txn.task} : rec'[u] = rec[u]
  BY DEF Commit, IInv, TypeOK
<1>2. rec'[txn.task].status # "absent"
  BY <1>1 DEF Terminal
<1>3. RoomInv'
  BY NoTxnHasRoom DEF Commit
<1> QED BY <1>1, <1>2, <1>3, OneRecord DEF AdmitsNone

LEMMA AdmissionAdmits ==
  ASSUME IInv, RoomInv, NEW c \in Clients, SubmitCommit(c)
  PROVE  \E t \in Tasks : Admits(t)
<1>1. /\ txn.by = c /\ txn.to.status = "submitted"
      /\ rec' = [rec EXCEPT ![txn.task] = txn.to] /\ txn' = NoTxn
  BY DEF SubmitCommit, Commit
<1>2. txn.task \in Tasks /\ rec[txn.task].status = "absent"
  BY <1>1, TxnIsClients DEF IInv, Admitting, Cancelling
<1>3. Cardinality(Admitted) < Capacity
  BY <1>1 DEF RoomInv, HasRoom
<1>4. \A u \in Tasks : rec'[u] = IF u = txn.task THEN txn.to ELSE rec[u]
  BY <1>1 DEF IInv, TypeOK
<1>5. Admits(txn.task)
  BY <1>1, <1>2, <1>3, <1>4 DEF Admits, Admitted
<1> QED
  BY <1>2, <1>5

LEMMA RetentionStep ==
  ASSUME IInv, RoomInv, [Next]_vars
  PROVE  AdmitsNone \/ \E t \in Tasks : Admits(t)
<1>1. CASE UNCHANGED <<rec, txn>>
  BY <1>1 DEF AdmitsNone, RoomInv, HasRoom, Admitted
<1>2. CASE Ended /\ UNCHANGED <<rec, acked>>
  BY <1>2, NoTxnHasRoom DEF Ended, AdmitsNone, Admitted
<1>3. ASSUME NEW s \in Services, Began(s) PROVE AdmitsNone
  BY <1>3, ConstantsAssumption
     DEF ConstantsAssumption, Began, AdmitsNone, RoomInv, HasRoom, Admitted
<1>4. ASSUME NEW s \in Services, Settling(s), Commit(s) PROVE AdmitsNone
  <2>1. txn.task \in Tasks /\ rec[txn.task].status # "absent"
    BY <1>4, HasJob DEF Settling, Committing, IInv, Jobless, JobStatus, InExecutor, Active
  <2> QED
    BY <1>4, <2>1, CommitAdmitsNone DEF Settling, Procs
<1>5. ASSUME NEW t \in Tasks, OneWrite(t) PROVE AdmitsNone
  BY <1>5, NoTxnHasRoom, OneRecord DEF OneWrite, AdmitsNone
<1>6. ASSUME NEW c \in Clients, NEW t \in Tasks, NEW p \in Payloads, SubmitDirectory(c, t, p)
      PROVE  AdmitsNone
  <2>1. UNCHANGED rec /\ Cardinality(Admitted) < Capacity
    BY <1>6 DEF SubmitDirectory
  <2>2. UNCHANGED Admitted
    BY <2>1 DEF Admitted
  <2> QED
    BY <2>1, <2>2 DEF AdmitsNone, RoomInv, HasRoom
<1>7. ASSUME NEW c \in Clients, NEW t \in Tasks, CancelQueued(c, t) PROVE AdmitsNone
  <2>1. UNCHANGED rec /\ txn'.to.status = "cancelled"
    BY <1>7 DEF CancelQueued, Publish, IInv, TypeOK, Record
  <2> QED
    BY <2>1 DEF AdmitsNone, RoomInv, HasRoom, Admitted
<1>8. ASSUME NEW c \in Clients, CancelCommit(c) PROVE AdmitsNone
  <2>1. Commit(c) /\ txn.by = c /\ txn.to.status = "cancelled"
    BY <1>8 DEF CancelCommit, Commit
  <2>2. txn.task \in Tasks /\ rec[txn.task].status = "submitted"
    BY <2>1, TxnIsClients DEF IInv, Admitting, Cancelling
  <2> QED
    BY <2>1, <2>2, CommitAdmitsNone DEF Procs, Terminal
<1> QED
  BY <1>1, <1>2, <1>3, <1>4, <1>5, <1>6, <1>7, <1>8, AdmissionAdmits, OperationStep
     DEF OperationChange, SubmitDuplicate, storeVars

LEMMA AdmissionHasRoom ==
  ASSUME NEW t \in Tasks, Admits(t)
  PROVE  WithinRetention' /\ RoomInv'
<1>1. /\ Admitted' = Admitted \cup {t} /\ t \notin Admitted
      /\ Cardinality(Admitted) < Capacity /\ txn' = NoTxn
  BY DEF Admits
<1>2. Cardinality(Admitted') = Cardinality(Admitted) + 1
  BY <1>1, AdmittedIsFinite, FS_AddElement
<1>3. WithinRetention'
  BY <1>1, <1>2, AdmittedIsFinite, ConstantsAssumption
     DEF ConstantsAssumption, WithinRetention
<1>4. RoomInv'
  BY <1>1, NoTxnHasRoom
<1> QED
  BY <1>3, <1>4

LEMMA RetentionAlways == Spec => []RetentionInv
<1>1. Init => RetentionInv
  <2> SUFFICES ASSUME Init PROVE RetentionInv
    OBVIOUS
  <2>1. Admitted = {}
    BY DEF Init, Admitted, NoRecord
  <2>2. WithinRetention
    BY <2>1, FS_EmptySet, ConstantsAssumption DEF ConstantsAssumption, WithinRetention
  <2>3. RoomInv
    BY ConstantsAssumption DEF ConstantsAssumption, Init, NoTxn, RoomInv, HasRoom
  <2> QED
    BY <2>2, <2>3 DEF RetentionInv
<1>2. IInv /\ RetentionInv /\ [Next]_vars => RetentionInv'
  <2> SUFFICES ASSUME IInv, RetentionInv, [Next]_vars PROVE RetentionInv'
    OBVIOUS
  <2>1. CASE AdmitsNone
    <3>1. Admitted' = Admitted /\ RoomInv' /\ WithinRetention
      BY <2>1 DEF AdmitsNone, RetentionInv
    <3>2. WithinRetention'
      BY <3>1 DEF WithinRetention
    <3> QED
      BY <3>1, <3>2 DEF RetentionInv
  <2>2. ASSUME NEW t \in Tasks, Admits(t) PROVE RetentionInv'
    <3>1. WithinRetention' /\ RoomInv'
      BY <2>2, AdmissionHasRoom
    <3> QED
      BY <3>1 DEF RetentionInv
  <2>3. RoomInv
    BY DEF RetentionInv
  <2> QED
    BY <2>1, <2>2, <2>3, RetentionStep
<1> QED
  BY <1>1, <1>2, Inductive, PTL DEF Spec

(* The store never retains more tasks than its capacity.                    *)
THEOREM RetentionIsBounded == Spec => []WithinRetention
<1>1. RetentionInv => WithinRetention
  BY DEF RetentionInv
<1> QED
  BY <1>1, RetentionAlways, PTL

-----------------------------------------------------------------------------
(* The directory of an interrupted admission refuses its UUID.              *)

(* A step is about one task at most: one that has a record, gets its         *)
(* directory, or is the subject of the operation under way.                 *)
Concerned(t) == \/ rec[t].status # "absent" \/ txn.task = t
                \/ ~art[t].dir /\ txn'.task = t
Concerns(t) ==
    /\ Concerned(t)
    /\ txn'.task \in {t, txn.task, NoTask}
    /\ \A u \in Tasks \ {t} : rec'[u] = rec[u] /\ art'[u] = art[u]
FilesRest == UNCHANGED <<rec, art>> /\ txn'.task \in {txn.task, NoTask}
OneConcern == FilesRest \/ \E t \in Tasks : Concerns(t)

LEMMA JobIsConcerned ==
  ASSUME IInv, NEW s \in Services, pc[s] \notin Jobless
  PROVE  job[s] \in Tasks /\ Concerned(job[s])
<1>1. job[s] \in Tasks /\ rec[job[s]].status \in JobStatus(pc[s])
  BY HasJob DEF IInv
<1> QED
  BY <1>1 DEF JobStatus, Recorded, Active, Terminal, Concerned

LEMMA CommitConcerns ==
  ASSUME IInv, NEW p \in Procs, Commit(p)
  PROVE  OneConcern
<1>1. CASE txn.task \in Tasks
  BY <1>1 DEF Commit, NoTxn, Concerns, Concerned, OneConcern, IInv, TypeOK
<1>2. CASE txn.task \notin Tasks
  BY <1>2, ConstantsAssumption
     DEF IInv, TxnInv, NoTxn, Commit, Admitting, Cancelling, Settling, JobInv, Jobless,
         Committing, Procs
<1> QED
  BY <1>1, <1>2

LEMMA FinishConcerns ==
  ASSUME IInv, NEW s \in Services, pc[s] \notin Jobless, NEW status, NEW point,
         Finish(s, status, point)
  PROVE  OneConcern
<1>1. job[s] \in Tasks /\ Concerned(job[s])
  BY JobIsConcerned
<1> QED
  BY <1>1 DEF Finish, Publish, Concerns, OneConcern, IInv, TypeOK

LEMMA WriteConcerns ==
  ASSUME IInv, NEW s \in Services, pc[s] \notin Jobless, NEW files, Write(s, files)
  PROVE  OneConcern
<1>1. job[s] \in Tasks /\ Concerned(job[s])
  BY JobIsConcerned
<1> QED
  BY <1>1 DEF Write, Concerns, OneConcern, IInv, TypeOK

LEMMA ClientConcerns ==
  ASSUME IInv, NEW c \in Clients, ClientStep(c)
  PROVE  OneConcern
<1>1. ASSUME NEW t \in Tasks, NEW p \in Payloads, SubmitDirectory(c, t, p) PROVE OneConcern
  BY <1>1 DEF SubmitDirectory, NewDirectory, Concerns, Concerned, OneConcern, IInv, TypeOK
<1>2. ASSUME NEW t \in Tasks, NEW p \in Payloads, SubmitDuplicate(c, t, p) PROVE OneConcern
  BY <1>2 DEF SubmitDuplicate, storeVars, FilesRest, OneConcern
<1>3. CASE SubmitArtifacts(c)
  <2>1. txn.task \in Tasks
    BY <1>3, TxnIsClients DEF SubmitArtifacts, IInv
  <2> QED
    BY <1>3, <2>1 DEF SubmitArtifacts, Concerns, Concerned, OneConcern, IInv, TypeOK
<1>4. CASE SubmitCommit(c) \/ CancelCommit(c)
  BY <1>4, CommitConcerns DEF SubmitCommit, CancelCommit, Procs
<1>5. ASSUME NEW t \in Tasks, CancelQueued(c, t) PROVE OneConcern
  BY <1>5 DEF CancelQueued, Publish, Concerns, Concerned, OneConcern, IInv, TypeOK
<1>6. ASSUME NEW t \in Tasks, CancelHeld(c, t) PROVE OneConcern
  BY <1>6 DEF CancelHeld, HeldTask, Active, Concerns, Concerned, OneConcern, IInv, TypeOK
<1> QED
  BY <1>1, <1>2, <1>3, <1>4, <1>5, <1>6 DEF ClientStep

LEMMA RecoveryConcerns ==
  ASSUME IInv, NEW s \in Services, Recovery(s)
  PROVE  OneConcern
<1>1. CASE RecoverArtifacts(s)
  <2>1. PICK t \in todo[s] :
          art' = [art EXCEPT ![t].test  = "not_completed",
                             ![t].agent = IF Coding(t) THEN "interrupted" ELSE @]
    BY <1>1 DEF RecoverArtifacts
  <2>2. t \in Tasks /\ rec[t].status # "absent"
    BY DEF IInv, OwnerInv, Having, Active
  <2> QED
    BY <1>1, <2>1, <2>2 DEF RecoverArtifacts, Concerns, Concerned, OneConcern, IInv, TypeOK
<1>2. CASE RecoverPublish(s)
  BY <1>2, FinishConcerns DEF RecoverPublish, At, Jobless
<1>3. CASE RecoverCommit(s)
  BY <1>3, CommitConcerns DEF RecoverCommit, Procs
<1>4. CASE Ready(s)
  BY <1>4 DEF Ready, storeVars, FilesRest, OneConcern
<1> QED
  BY <1>1, <1>2, <1>3, <1>4 DEF Recovery

LEMMA TickConcerns ==
  ASSUME IInv, NEW s \in Services, Tick(s)
  PROVE  OneConcern
<1>1. CASE \/ Block(s) \/ RunningCancelled(s) \/ Return(s)
           \/ AbortFinish(s) \/ StorageFinish(s)
  BY <1>1, FinishConcerns
     DEF Block, RunningCancelled, Return, AbortFinish, StorageFinish, At, Jobless
<1>2. CASE Reserve(s) \/ StartRunning(s)
  <2>1. job[s] \in Tasks /\ Concerned(job[s])
    BY <1>2, JobIsConcerned DEF Reserve, StartRunning, At, Jobless
  <2> QED
    BY <1>2, <2>1 DEF Reserve, StartRunning, Advance, Concerns, OneConcern, IInv, TypeOK
<1>3. CASE MakeWorkspace(s) \/ AbortArtifact(s) \/ StorageArtifact(s)
  BY <1>3, WriteConcerns DEF MakeWorkspace, AbortArtifact, StorageArtifact, At, Jobless
<1>4. CASE TickCommit(s)
  BY <1>4, CommitConcerns DEF TickCommit, Procs
<1>5. CASE \/ Pick(s) \/ ReserveLost(s) \/ Prepared(s) \/ PrepareAborts(s)
           \/ StorageSettled(s) \/ StorageLost(s)
  BY <1>5 DEF Pick, ReserveLost, FoundTerminal, Prepared, PrepareAborts, StorageSettled,
     StorageLost, NoWrite, storeVars, FilesRest, OneConcern
<1> QED
  BY <1>1, <1>2, <1>3, <1>4, <1>5 DEF Tick

LEMMA ExecutorConcerns ==
  ASSUME IInv, NEW s \in Services, Executor(s)
  PROVE  OneConcern
<1>1. CASE Invoke(s) \/ SandboxPasses(s) \/ SandboxPatch(s) \/ CodingPatch(s)
           \/ CodingTested(s) \/ CodingCompletes(s)
  BY <1>1, WriteConcerns DEF Invoke, SandboxPasses, SandboxPatch, CodingPatch, CodingTested,
     CodingCompletes, At, Jobless
<1>2. CASE SandboxEnds(s)
  BY <1>2, WriteConcerns DEF SandboxEnds, At, Jobless
<1>3. CASE CodingFails(s)
  BY <1>3, WriteConcerns DEF CodingFails, InExecutor, Jobless
<1>4. CASE ExecutorRaises(s)
  BY <1>4 DEF ExecutorRaises, NoWrite, storeVars, FilesRest, OneConcern
<1> QED
  BY <1>1, <1>2, <1>3, <1>4 DEF Executor

LEMMA StepConcerns ==
  ASSUME IInv, [Next]_vars
  PROVE  OneConcern
<1>1. CASE UNCHANGED vars
  BY <1>1 DEF vars, storeVars, FilesRest, OneConcern
<1>2. ASSUME NEW c \in Clients, ClientFails(c) PROVE OneConcern
  BY <1>2 DEF ClientFails, Abandon, NoTxn, FilesRest, OneConcern
<1>3. ASSUME NEW s \in Services, Start(s) \/ Exit(s) PROVE OneConcern
  BY <1>3 DEF Start, Exit, NoWrite, storeVars, FilesRest, OneConcern
<1>4. ASSUME NEW s \in Services, Stop(s) \/ ReceiverDies(s) \/ Crash(s) \/ StorageError(s)
      PROVE  OneConcern
  BY <1>4 DEF Stop, ReceiverDies, Crash, StorageError, Abandon, NoTxn, storeVars, FilesRest,
     OneConcern
<1> QED
  BY <1>1, <1>2, <1>3, <1>4, ClientConcerns, RecoveryConcerns, TickConcerns, ExecutorConcerns
     DEF Next, Fault

(* No submission, recovery or tick takes over the directory of an admission *)
(* that was interrupted, and nothing removes it.                            *)
THEOREM OrphansAreRefused == Spec => OrphanIsRefused
<1>1. IInv /\ [Next]_vars =>
        [\A t \in Tasks :
            rec[t].status = "absent" /\ art[t].dir /\ txn.task # t
              => txn'.task # t /\ rec'[t] = rec[t] /\ art'[t] = art[t]]_vars
  <2> SUFFICES ASSUME IInv, [Next]_vars, NEW t \in Tasks,
                      rec[t].status = "absent", art[t].dir, txn.task # t
               PROVE  txn'.task # t /\ rec'[t] = rec[t] /\ art'[t] = art[t]
    OBVIOUS
  <2>1. ~Concerned(t)
    BY DEF Concerned
  <2> QED
    BY <2>1, StepConcerns, ConstantsAssumption DEF OneConcern, FilesRest, Concerns
<1> QED
  BY <1>1, Inductive, PTL DEF Spec, OrphanIsRefused

-----------------------------------------------------------------------------
(* The runner implements TaskLifecycle.                                     *)

(* The phase of a task follows from its record's status and its runs.       *)
LEMMA Phases ==
  ASSUME IInv, NEW t \in Tasks
  PROVE  /\ rec[t].status = "absent" => PhaseOf(t) = "unknown"
         /\ rec[t].status = "submitted" => PhaseOf(t) = "queued"
         /\ rec[t].status = "reserved" => PhaseOf(t) = "held"
         /\ rec[t].status = "running" =>
              PhaseOf(t) = IF runs[t] = 0 THEN "held" ELSE "invoked"
         /\ rec[t].status \in Terminal => PhaseOf(t) = rec[t].status
  BY DEF PhaseOf, IInv, RunsInv, Active, Terminal

Phase == [t \in Tasks |-> PhaseOf(t)]
Asked == {t \in Tasks : rec[t].cancel}
Contract == [t \in Tasks |-> rec[t].payload]
Orphans  == {t \in Tasks : IsOrphan(t)}
Life     == <<Phase, Asked, Contract, Orphans>>

LEMMA InitRefines == Init => Lifecycle!Init
<1> SUFFICES ASSUME Init PROVE Lifecycle!Init
  OBVIOUS
<1>1. \A t \in Tasks : rec[t].status = "absent" /\ ~rec[t].cancel
                      /\ rec[t].payload = NoPayload /\ ~art[t].dir
  BY DEF Init, NoRecord, NoFiles
<1>2. \A t \in Tasks : PhaseOf(t) = "unknown"
  BY <1>1, InitInv, Phases
<1> QED
  BY <1>1, <1>2 DEF Lifecycle!Init, IsOrphan

(* A payload is stored with the record, and stays.                          *)
LEMMA ContractStep ==
  ASSUME IInv, AbsentInv, StoredInv, [Next]_vars, NEW t \in Tasks
  PROVE  /\ rec[t].status # "absent" => rec'[t].payload = rec[t].payload
         /\ rec[t].status = "absent" => rec'[t] = rec[t] \/ rec'[t].payload \in Payloads
<1>1. CASE UNCHANGED rec
  BY <1>1
<1>2. ASSUME NEW s \in Services, Settling(s), Commit(s)
      PROVE  rec'[t].payload = rec[t].payload /\ (rec[t].status = "absent" => rec'[t] = rec[t])
  <2>1. rec' = [rec EXCEPT ![job[s]] = txn.to] /\ txn.to.payload = rec[job[s]].payload
    BY <1>2 DEF Settling, Commit
  <2>2. rec[job[s]].status # "absent" \/ job[s] \notin Tasks
    BY <1>2, HasJob DEF Settling, Committing, IInv, Jobless, JobStatus, InExecutor, Active
  <2> QED
    BY <2>1, <2>2 DEF IInv, TypeOK
<1>3. ASSUME NEW u \in Tasks, OneWrite(u)
      PROVE  rec'[t].payload = rec[t].payload /\ (rec[t].status = "absent" => rec'[t] = rec[t])
  BY <1>3 DEF OneWrite
<1>4. ASSUME NEW c \in Clients, SubmitCommit(c)
      PROVE  /\ rec[t].status # "absent" => rec'[t] = rec[t]
             /\ rec[t].status = "absent" => rec'[t] = rec[t] \/ rec'[t].payload \in Payloads
  <2>1. /\ txn.task \in Tasks /\ rec[txn.task].status = "absent"
        /\ txn.to.payload \in Payloads /\ rec' = [rec EXCEPT ![txn.task] = txn.to]
    BY <1>4, TxnIsClients DEF IInv, SubmitCommit, Commit, Admitting, Cancelling
  <2> QED
    BY <2>1 DEF IInv, TypeOK
<1>5. ASSUME NEW c \in Clients, CancelCommit(c)
      PROVE  rec'[t].payload = rec[t].payload /\ (rec[t].status = "absent" => rec'[t] = rec[t])
  <2>1. /\ txn.by = c /\ txn.to.status = "cancelled" /\ rec' = [rec EXCEPT ![txn.task] = txn.to]
        /\ rec[txn.task].status = "submitted"
    BY <1>5, TxnIsClients DEF IInv, CancelCommit, Commit, Admitting, Cancelling
  <2>2. txn.to.payload = rec[txn.task].payload
    BY <2>1 DEF StoredInv, WithdrawalKeeps, WithdrawnPayload
  <2> QED
    BY <2>1, <2>2 DEF IInv, TypeOK
<1> QED
  BY <1>1, <1>2, <1>3, <1>4, <1>5, OperationStep
  DEF OperationChange, Ended, Began, SubmitDirectory, SubmitDuplicate, CancelQueued, storeVars

(* A task becomes an orphan when its admission is given up, and in no other *)
(* way; an orphan stays one.                                                *)
LEMMA OrphanStep ==
  ASSUME IInv, [Next]_vars, Orphans' # Orphans
  PROVE  /\ UNCHANGED <<rec, runs>>
         /\ \E u \in Tasks : rec[u].status = "absent" /\ Orphans' = Orphans \cup {u}
<1>1. ASSUME NEW u \in Orphans PROVE u \in Orphans'
  <2>1. u \in Tasks /\ ~Concerned(u)
    BY DEF Orphans, IsOrphan, Concerned
  <2>2. rec'[u] = rec[u] /\ art'[u] = art[u] /\ txn'.task # u
    BY <2>1, StepConcerns, ConstantsAssumption DEF OneConcern, FilesRest, Concerns, Orphans, IsOrphan
  <2> QED
    BY <2>2 DEF Orphans, IsOrphan
<1>2. PICK u \in Tasks : u \in Orphans' /\ u \notin Orphans
  BY <1>1 DEF Orphans
<1>3. \A v \in Tasks : rec'[v].status = "absent" => rec[v].status = "absent"
  BY RecordStep DEF RecordChange, Invocation, Appeared, Flagged, Reserved, Started, Settled,
     Withdrawn, Active, Terminal
<1>4. ASSUME NEW v \in Tasks, v \in Orphans', v \notin Orphans
      PROVE  rec[v].status = "absent" /\ rec'[v].status = "absent"
             /\ txn.task = v /\ txn'.task # v
  <2>1. rec[v].status = "absent" /\ rec'[v].status = "absent" /\ art'[v].dir /\ txn'.task # v
    BY <1>3, <1>4 DEF Orphans, IsOrphan
  <2>2. CASE art[v].dir
    BY <1>4, <2>1, <2>2 DEF Orphans, IsOrphan
  <2>3. CASE ~art[v].dir
    BY <2>1, <2>3, StepConcerns DEF OneConcern, FilesRest, Concerns, Concerned
  <2> QED
    BY <2>1, <2>2, <2>3
<1>5. Orphans' = Orphans \cup {u}
  BY <1>1, <1>2, <1>4 DEF Orphans
<1>6. UNCHANGED rec /\ txn' # txn
  <2>1. txn.task = u /\ txn'.task # u /\ rec'[u].status = "absent" /\ txn # NoTxn
    BY <1>2, <1>4, ConstantsAssumption DEF NoTxn
  <2>2. ASSUME NEW p, Commit(p), txn.to.status # "absent" PROVE FALSE
    BY <2>1, <2>2 DEF Commit, IInv, TypeOK
  <2>3. ASSUME NEW s \in Services, Settling(s), Commit(s) PROVE FALSE
    BY <2>2, <2>3 DEF Settling, Terminal
  <2>4. ASSUME NEW c \in Clients, SubmitCommit(c) \/ CancelCommit(c) PROVE FALSE
    BY <2>2, <2>4 DEF SubmitCommit, CancelCommit
  <2> QED
    BY <2>1, <2>3, <2>4, OperationStep
    DEF OperationChange, Ended, Began, OneWrite, SubmitDirectory, SubmitDuplicate, CancelQueued
<1>7. UNCHANGED runs
  BY <1>6, RecordStep DEF RecordChange, Invocation
<1> QED
  BY <1>2, <1>4, <1>5, <1>6, <1>7

(* A step that changes one task's phase changes one entry of the function.  *)
LEMMA OnePhase ==
  ASSUME NEW t \in Tasks, NEW phase, PhaseOf(t)' = phase,
         \A u \in Tasks \ {t} : PhaseOf(u)' = PhaseOf(u)
  PROVE  Phase' = [Phase EXCEPT ![t] = phase]
  BY DEF Phase

LEMMA ChangeRefines ==
  ASSUME IInv, IInv', AbsentInv, StoredInv, [Next]_vars, RecordChange, Orphans' = Orphans
  PROVE  [Lifecycle!Next]_Life
<1>1. PICK t \in Tasks :
        /\ \A u \in Tasks \ {t} : rec'[u] = rec[u]
        /\ Appeared(t) \/ Flagged(t) \/ Reserved(t) \/ Started(t) \/ Settled(t)
           \/ Withdrawn(t)
  BY DEF RecordChange
<1>2. UNCHANGED runs
  BY DEF RecordChange
<1>3. \A u \in Tasks \ {t} : PhaseOf(u)' = PhaseOf(u)
  BY <1>1, <1>2 DEF PhaseOf
<1>4. \A phase : PhaseOf(t)' = phase => Phase' = [Phase EXCEPT ![t] = phase]
  BY <1>3, OnePhase
<1>a. rec'[t].cancel = rec[t].cancel => Asked' = Asked
  BY <1>1 DEF Asked
<1>b. rec'[t].cancel => Asked' = Asked \cup {t}
  BY <1>1 DEF Asked
<1>c. rec[t].status # "absent" => Contract' = Contract
  BY <1>1, ContractStep DEF Contract
<1>5. CASE Appeared(t)
  <2>1. PhaseOf(t) = "unknown" /\ PhaseOf(t)' = "queued"
    BY <1>5 DEF Appeared, PhaseOf, Active
  <2>2. Asked' = Asked
    BY <1>1, <1>5 DEF Appeared, AbsentInv, Asked
  <2>3. PICK p \in Payloads : p = rec'[t].payload
    BY <1>5, ContractStep DEF Appeared
  <2>4. Contract' = [Contract EXCEPT ![t] = p]
    BY <1>1, <2>3 DEF Contract
  <2>5. t \notin Orphans
    <3>1. t \notin Orphans'
      BY <1>5 DEF Appeared, Orphans, IsOrphan
    <3> QED
      BY <3>1
  <2>6. Lifecycle!Admit(t, p)
    BY <1>4, <2>1, <2>2, <2>4, <2>5 DEF Lifecycle!Admit, Phase, Asked, Contract, Orphans
  <2> QED
    BY <2>3, <2>6 DEF Lifecycle!Next
<1>6. CASE Flagged(t)
  <2>1. PhaseOf(t)' = PhaseOf(t) /\ PhaseOf(t) \in Lifecycle!Held
    BY <1>2, <1>6 DEF Flagged, PhaseOf, Active, Lifecycle!Held
  <2>2. Phase' = Phase /\ Asked' = Asked \cup {t}
    BY <1>3, <1>6, <1>b, <2>1 DEF Phase, Flagged
  <2>c. Contract' = Contract
    BY <1>6, <1>c DEF Flagged, Active
  <2>3. Lifecycle!Ask(t)
    BY <2>c, <2>1, <2>2 DEF Lifecycle!Ask, Phase, Asked, Contract, Orphans
  <2> QED
    BY <2>3 DEF Lifecycle!Next
<1>7. CASE Reserved(t)
  <2>1. PhaseOf(t) = "queued" /\ PhaseOf(t)' = "held"
    BY <1>2, <1>7, Phases DEF Reserved, PhaseOf, Active, IInv, RunsInv
  <2>2. ASSUME NEW u \in Tasks PROVE PhaseOf(u) \notin Lifecycle!Held
    <3>1. rec[u].status \in {"absent", "submitted"} \cup Terminal
      BY <1>7 DEF Reserved, Having, IInv, TypeOK, Record, Statuses, Recorded, Active
    <3> QED
      BY <3>1, Phases DEF Lifecycle!Held, Terminal
  <2>3. Asked' = Asked
    BY <1>1, <1>7 DEF Reserved, Asked
  <2>c. Contract' = Contract
    BY <1>7, <1>c DEF Reserved, Active
  <2>4. Lifecycle!Hold(t)
    BY <2>c, <1>4, <2>1, <2>2, <2>3 DEF Lifecycle!Hold, Phase, Asked, Contract, Orphans
  <2> QED
    BY <2>4 DEF Lifecycle!Next
<1>8. CASE Started(t)
  <2>1. PhaseOf(t)' = PhaseOf(t)
    BY <1>2, <1>8 DEF Started, PhaseOf, Active
  <2>2. Asked' = Asked
    BY <1>1, <1>8 DEF Started, Asked
  <2>3. Contract' = Contract
    BY <1>8, <1>c DEF Started
  <2> QED
    BY <1>3, <2>1, <2>2, <2>3 DEF Phase, Life
<1>9. CASE Settled(t)
  <2>1. PhaseOf(t)' = rec'[t].status
    BY <1>9 DEF Settled, PhaseOf, Active, Terminal
  <2>2. rec'[t].status \in Lifecycle!Reachable(PhaseOf(t))
    <3>1. rec[t].status = "submitted" => PhaseOf(t) = "queued"
      BY Phases
    <3>2. rec[t].status \in Active =>
            PhaseOf(t) = IF runs[t] = 0 THEN "held" ELSE "invoked"
      BY DEF PhaseOf, Active
    <3> QED
      BY <1>9, <3>1, <3>2 DEF Settled, Active, Terminal, Lifecycle!Reachable, Lifecycle!Outcomes
  <2>3. Asked' = Asked
    BY <1>9, <1>a DEF Settled
  <2>4. rec'[t].status = "succeeded" => t \notin Asked
    BY <1>9 DEF Settled, Asked
  <2>c. Contract' = Contract
    BY <1>9, <1>c DEF Settled, Active
  <2>5. Lifecycle!Settle(t)
    BY <2>c, <1>4, <2>1, <2>2, <2>3, <2>4 DEF Lifecycle!Settle, Phase, Asked, Contract, Orphans
  <2> QED
    BY <2>5 DEF Lifecycle!Next
<1>10. CASE Withdrawn(t)
  <2>1. PhaseOf(t) = "queued" /\ PhaseOf(t)' = "cancelled"
    BY <1>10 DEF Withdrawn, PhaseOf, Active
  <2>2. Asked' = Asked \cup {t}
    BY <1>10, <1>b DEF Withdrawn
  <2>c. Contract' = Contract
    BY <1>10, <1>c DEF Withdrawn, Active
  <2>3. Lifecycle!Withdraw(t)
    BY <2>c, <1>4, <2>1, <2>2 DEF Lifecycle!Withdraw, Phase, Asked, Contract, Orphans
  <2> QED
    BY <2>3 DEF Lifecycle!Next
<1> QED
  BY <1>1, <1>5, <1>6, <1>7, <1>8, <1>9, <1>10

LEMMA InvocationRefines ==
  ASSUME IInv, Invocation, Orphans' = Orphans
  PROVE  [Lifecycle!Next]_Life
<1>1. PICK t \in Tasks : /\ rec[t].status = "running" /\ runs[t] = 0
                         /\ runs' = [runs EXCEPT ![t] = 1]
  BY DEF Invocation
<1>2. \A u \in Tasks \ {t} : PhaseOf(u)' = PhaseOf(u)
  BY <1>1 DEF Invocation, PhaseOf, IInv, TypeOK
<1>3. PhaseOf(t) = "held" /\ PhaseOf(t)' = "invoked"
  BY <1>1 DEF Invocation, PhaseOf, IInv, TypeOK, Active
<1>4. Asked' = Asked
  BY DEF Invocation, Asked
<1>5. Phase' = [Phase EXCEPT ![t] = "invoked"]
  BY <1>2, <1>3, OnePhase
<1>6. Lifecycle!Invoke(t)
  BY <1>3, <1>4, <1>5 DEF Lifecycle!Invoke, Invocation, Phase, Asked, Contract, Orphans
<1> QED
  BY <1>6 DEF Lifecycle!Next

LEMMA OrphanRefines ==
  ASSUME IInv, [Next]_vars, Orphans' # Orphans
  PROVE  Lifecycle!Next
<1>1. PICK u \in Tasks : rec[u].status = "absent" /\ Orphans' = Orphans \cup {u}
  BY OrphanStep
<1>2. Phase' = Phase /\ Asked' = Asked /\ Contract' = Contract
  BY OrphanStep DEF Phase, PhaseOf, Asked, Contract
<1>3. PhaseOf(u) = "unknown"
  BY <1>1, Phases
<1>4. Lifecycle!Orphan(u)
  BY <1>1, <1>2, <1>3 DEF Lifecycle!Orphan, Phase, Asked, Contract, Orphans
<1> QED
  BY <1>4 DEF Lifecycle!Next

(* The runner implements the life of a task that its clients rely on:       *)
(* admitted once and with one payload, unless an interrupted admission has  *)
(* orphaned it, held by one worker at a time, invoked once, settled once,   *)
(* and never with success after a cancellation.                             *)
THEOREM Refinement == Spec => ImplementsLifecycle
<1>1. Init => Lifecycle!Init
  BY InitRefines
<1>2. IInv /\ IInv' /\ AbsentInv /\ StoredInv /\ [Next]_vars => [Lifecycle!Next]_Life
  <2> SUFFICES ASSUME IInv, IInv', AbsentInv, StoredInv, [Next]_vars
               PROVE  [Lifecycle!Next]_Life
    OBVIOUS
  <2>1. CASE UNCHANGED <<rec, runs>> /\ Orphans' = Orphans
    BY <2>1 DEF Phase, PhaseOf, Asked, Contract, Life
  <2>2. CASE Orphans' # Orphans
    BY <2>2, OrphanRefines
  <2> QED
    BY <2>1, <2>2, RecordStep, ChangeRefines, InvocationRefines
<1> QED
  BY <1>1, <1>2, Inductive, AbsentIsClear, StoredAlways, PTL
     DEF Spec, ImplementsLifecycle, Lifecycle!Spec, Life, Phase, Asked, Contract, Orphans

=============================================================================
