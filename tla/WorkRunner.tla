----------------------------- MODULE WorkRunner -----------------------------
(***************************************************************************)
(* The Builder's Work Runner: the durable task store (work_store.py), the  *)
(* supervisor that executes one task at a time (work_runner.py) and the    *)
(* executors it calls (work_sandbox.execute, coding_execute.execute), with *)
(* the other processes that use the same store at the same time - the      *)
(* administrative CLI and the handoff receiver - and with what the code    *)
(* is written to survive: process and host crashes, SIGTERM, storage       *)
(* errors, and writes that stop between the artifact and the task record.  *)
(*                                                                         *)
(* A store operation runs under the exclusive flock on state.lock. The     *)
(* ones that write one file are one step; admission and every transition   *)
(* to a terminal status write artifacts first and the task record last,    *)
(* so they are several steps, held together by txn: the operation the      *)
(* holder of state.lock has under way. A process that dies releases its    *)
(* flock and leaves what it had written.                                   *)
(***************************************************************************)
EXTENDS Integers, FiniteSets

CONSTANTS
    Tasks,          \* task UUIDs
    Payloads,       \* canonical payloads that clients submit under a UUID
    CodingPayloads, \* those of task_type coding.patch-test.v1
    Services,       \* work_runner "serve" processes (systemd's, or one started by hand)
    Clients,        \* processes calling Store.submit / Store.cancel
    Capacity,       \* the store's retention capacity (256 in the code)
    CodingEnabled,  \* profile.json's coding_enabled
    NoTask, NoPayload, Nobody

ASSUME ConstantsAssumption ==
    /\ IsFiniteSet(Tasks)
    /\ CodingPayloads \subseteq Payloads
    /\ Services \cap Clients = {}
    /\ Capacity \in Nat
    /\ CodingEnabled \in BOOLEAN
    /\ NoTask \notin Tasks
    /\ NoPayload \notin Payloads
    /\ Nobody \notin Services \cup Clients

VARIABLES
    rec,       \* state/tasks/<UUID>.json: the task record, or NoRecord
    art,       \* audit/<UUID>/ and workspaces/<UUID>/: the files of each task
    txn,       \* what the holder of state.lock is doing
    worker,    \* the holder of worker.lock
    pc,        \* where each service process is
    job,       \* the task a service process is working on
    todo,      \* recovery's remaining records
    out,       \* the status a service process has decided on but not stored
    stopped,   \* the service process has received SIGTERM
    receiver,  \* its receiver child is alive
    runs,      \* how often the executor was invoked for each task
    acked      \* the payloads Store.submit has accepted under each UUID

storeVars   == <<rec, art, txn>>
serviceVars == <<worker, pc, job, todo, out, stopped, receiver>>
ghostVars   == <<runs, acked>>
vars        == <<rec, art, txn, worker, pc, job, todo, out, stopped, receiver,
                 runs, acked>>

-----------------------------------------------------------------------------
(* The task record and its legal transitions.                              *)

Active    == {"reserved", "running"}
Terminal  == {"succeeded", "failed", "blocked", "cancelled", "interrupted"}
Recorded  == {"submitted"} \cup Active \cup Terminal
Statuses  == {"absent"} \cup Recorded

Edges == [s \in Statuses |->
            CASE s = "submitted" -> {"reserved", "blocked", "cancelled", "failed"}
              [] s = "reserved"  -> {"running", "blocked", "failed", "cancelled",
                                     "interrupted"}
              [] s = "running"   -> Terminal
              [] OTHER           -> {}]

Procs  == Services \cup Clients
Record == [status : Statuses, attempts : {0, 1}, cancel : BOOLEAN,
           payload : Payloads \cup {NoPayload}]
NoRecord == [status |-> "absent", attempts |-> 0, cancel |-> FALSE,
             payload |-> NoPayload]

Tests  == {"none", "not_run", "not_completed", "failed", "passed"}
Agents == {"none", "not_started", "running", "completed", "failed",
           "cancelled", "interrupted"}
Files  == [dir : BOOLEAN, result : {"none"} \cup Recorded, test : Tests,
           patch : BOOLEAN, agent : Agents, workspace : BOOLEAN]
NoFiles == [dir |-> FALSE, result |-> "none", test |-> "none", patch |-> FALSE,
            agent |-> "none", workspace |-> FALSE]

InExecutor == {"executing", "testing", "validated"}

NoTxn == [by |-> Nobody, task |-> NoTask, to |-> NoRecord]

Having(statuses) == {t \in Tasks : rec[t].status \in statuses}
Admitted == {t \in Tasks : rec[t].status # "absent"}
Coding(t) == rec[t].payload \in CodingPayloads

(* The record Store.submit writes.                                          *)
NewRecord(p) == [status |-> "submitted", attempts |-> 0, cancel |-> FALSE,
                 payload |-> p]

-----------------------------------------------------------------------------
(* The store operations.                                                    *)

(* Seeded defect: result.json is not written with the terminal record.      *)
PublishRecordOnly(p, t, r) ==
    /\ txn' = [by |-> p, task |-> t, to |-> r]
    /\ UNCHANGED art

(* transition_locked to a terminal status: result.json first. What is to be *)
(* stored is kept in txn until the task record is written.                  *)
Publish(p, t, r) ==
    /\ art' = [art EXCEPT ![t].result = r.status]
    /\ txn' = [by |-> p, task |-> t, to |-> r]

(* The task record is replaced and state.lock released.                     *)
Commit(p) ==
    /\ txn.by = p
    /\ rec' = [rec EXCEPT ![txn.task] = txn.to]
    /\ txn' = NoTxn
    /\ UNCHANGED art

Abandon(p) == txn' = IF txn.by = p THEN NoTxn ELSE txn

-----------------------------------------------------------------------------
(* Clients: Store.submit and Store.cancel, under state.lock. What a client  *)
(* may not do - resubmit with another payload, exceed the capacity, cancel  *)
(* an unknown or a finished task - is an early return that changes nothing. *)

(* The audit directory of an interrupted admission makes mkdir fail.        *)
AnyDirectory(t) == TRUE   \* seeded defect: exist_ok
NewDirectory(t) == ~art[t].dir

(* Admission of an unknown UUID: mkdir of the audit directory.              *)
SubmitDirectory(c, t, p) ==
    /\ txn = NoTxn
    /\ rec[t].status = "absent"
    /\ Cardinality(Admitted) < Capacity
    /\ NewDirectory(t)
    /\ art' = [art EXCEPT ![t] = [NoFiles EXCEPT !.dir = TRUE]]
    /\ txn' = [by |-> c, task |-> t, to |-> NewRecord(p)]
    /\ UNCHANGED <<rec, serviceVars, ghostVars>>

(* The initial artifacts, result.json the last of them.                     *)
SubmitArtifacts(c) ==
    /\ txn.by = c
    /\ txn.to.status = "submitted"
    /\ art[txn.task].result = "none"
    /\ art' = [art EXCEPT
                 ![txn.task].result = "submitted",
                 ![txn.task].test   = "not_run",
                 ![txn.task].agent  = IF txn.to.payload \in CodingPayloads
                                      THEN "not_started" ELSE "none"]
    /\ UNCHANGED <<rec, txn, serviceVars, ghostVars>>

(* The task record is written last: the task exists from here on.           *)
SubmitCommit(c) ==
    /\ Commit(c)
    /\ txn.to.status = "submitted"
    /\ art[txn.task].result = "submitted"
    /\ acked' = [acked EXCEPT ![txn.task] = @ \cup {txn.to.payload}]
    /\ UNCHANGED <<serviceVars, runs>>

(* A known UUID is acknowledged again iff the payload hash is the same.     *)
AnyPayload(t, p)  == rec[t].payload # NoPayload   \* seeded defect: not compared
SamePayload(t, p) == rec[t].payload = p

SubmitDuplicate(c, t, p) ==
    /\ txn = NoTxn
    /\ SamePayload(t, p)
    /\ acked' = [acked EXCEPT ![t] = @ \cup {p}]
    /\ UNCHANGED <<storeVars, serviceVars, runs>>

(* Cancelling a queued task is a terminal transition.                       *)
CancelQueued(c, t) ==
    /\ txn = NoTxn
    /\ rec[t].status = "submitted"
    /\ Publish(c, t, [rec[t] EXCEPT !.status = "cancelled", !.cancel = TRUE])
    /\ UNCHANGED <<rec, serviceVars, ghostVars>>

CancelCommit(c) ==
    /\ Commit(c)
    /\ txn.to.status = "cancelled"
    /\ UNCHANGED <<serviceVars, ghostVars>>

(* Cancelling a task the worker holds only sets the durable flag.           *)
HeldTask(t)   == rec[t].status \in Active

CancelHeld(c, t) ==
    /\ txn = NoTxn
    /\ HeldTask(t)
    /\ rec' = [rec EXCEPT ![t].cancel = TRUE]
    /\ UNCHANGED <<art, txn, serviceVars, ghostVars>>

(* A client that dies, or whose write raises OSError, inside the operation. *)
ClientFails(c) ==
    /\ txn.by = c
    /\ Abandon(c)
    /\ UNCHANGED <<rec, art, serviceVars, ghostVars>>

-----------------------------------------------------------------------------
(* The supervisor's program point, its current task and its verdict.        *)

At(s, point) == pc[s] = point
Stopping(s)  == stopped[s] \/ ~receiver[s]

Goto(s, point) ==
    /\ pc' = [pc EXCEPT ![s] = point]
    /\ UNCHANGED <<worker, job, todo, out, stopped, receiver>>
Decide(s, status, point) ==
    /\ pc'  = [pc EXCEPT ![s] = point]
    /\ out' = [out EXCEPT ![s] = status]
    /\ UNCHANGED <<worker, job, todo, stopped, receiver>>
Take(s, t, point) ==
    /\ pc'  = [pc EXCEPT ![s] = point]
    /\ job' = [job EXCEPT ![s] = t]
    /\ UNCHANGED <<worker, todo, out, stopped, receiver>>
Leave(s, point) ==
    /\ pc'  = [pc EXCEPT ![s] = point]
    /\ job' = [job EXCEPT ![s] = NoTask]
    /\ out' = [out EXCEPT ![s] = "none"]
    /\ UNCHANGED <<worker, todo, stopped, receiver>>

(* What a step writes: nothing, or the files of the current task.           *)
NoWrite == UNCHANGED <<storeVars, ghostVars>>
Write(s, files) ==
    /\ art' = [art EXCEPT ![job[s]] = files]
    /\ UNCHANGED <<rec, txn>>
Mine(s) == art[job[s]]

-----------------------------------------------------------------------------
(* Store.transition, as the supervisor calls it for its current task.       *)

(* A client made the task terminal first; the record is returned as it is.  *)
FoundTerminal(s) ==
    /\ txn = NoTxn
    /\ rec[job[s]].status \in Terminal
    /\ Leave(s, "idle")
    /\ NoWrite

(* A transition to reserved or running is one write.                        *)
Advance(s, status, point) ==
    /\ txn = NoTxn
    /\ rec[job[s]].status \notin Terminal
    /\ ~rec[job[s]].cancel
    /\ rec' = [rec EXCEPT ![job[s]].status = status, ![job[s]].attempts = 1]
    /\ Goto(s, point)
    /\ UNCHANGED <<art, txn, ghostVars>>

(* Seeded defect: success is recorded in spite of a cancellation.           *)
SettleIgnoresCancel(t, status) == status

(* The requested cancellation replaces reserved, running and succeeded.     *)
Settle(t, status) ==
    IF rec[t].cancel /\ status \in {"reserved", "running", "succeeded"}
    THEN "cancelled" ELSE status

(* A terminal transition, up to its commit.                                 *)
Open(t)    == rec[t].status \notin Terminal

Finish(s, status, point) ==
    /\ txn = NoTxn
    /\ Open(job[s])
    /\ Publish(s, job[s], [rec[job[s]] EXCEPT !.status = Settle(job[s], status)])
    /\ Goto(s, point)
    /\ UNCHANGED <<rec, ghostVars>>

(* The task record of a finished tick is written. An OSError still reaches  *)
(* storage_failure from "committing", not from an exception handler.        *)
TickCommit(s) ==
    /\ pc[s] \in {"committing", "handler_commit"}
    /\ Commit(s)
    /\ Leave(s, "idle")
    /\ UNCHANGED ghostVars

-----------------------------------------------------------------------------
(* serve: worker.lock, recovery, the loop and its end.                      *)

NoLock     == TRUE                 \* seeded defect: serve takes no lock
WorkerFree == worker = Nobody

RunningOnly == Having({"running"}) \* seeded defect: reserved tasks are left alone
LeftBehind  == Having(Active)

(* worker.lock is taken without blocking - who finds it held gives up - and *)
(* recovery reads the records that an earlier process left behind.          *)
Start(s) ==
    /\ At(s, "off")
    /\ WorkerFree
    /\ worker' = s
    /\ pc'   = [pc EXCEPT ![s] = "recovering"]
    /\ todo' = [todo EXCEPT ![s] = LeftBehind]
    /\ UNCHANGED <<storeVars, job, out, stopped, receiver, ghostVars>>

(* test-result.json and agent-result.json, then the transition.             *)
RecoverArtifacts(s) ==
    /\ At(s, "recovering")
    /\ \E t \in todo[s] :
         /\ pc'   = [pc EXCEPT ![s] = "recovered"]
         /\ job'  = [job EXCEPT ![s] = t]
         /\ todo' = [todo EXCEPT ![s] = @ \ {t}]
         /\ art'  = [art EXCEPT ![t].test  = "not_completed",
                                ![t].agent = IF Coding(t) THEN "interrupted" ELSE @]
    /\ UNCHANGED <<rec, txn, worker, out, stopped, receiver, ghostVars>>

Requeued  == "submitted"           \* seeded defect: recovery retries the task
Recovered == "interrupted"

RecoverPublish(s) == At(s, "recovered") /\ Finish(s, Recovered, "recovery_commit")

RecoverCommit(s) ==
    /\ At(s, "recovery_commit")
    /\ Commit(s)
    /\ Take(s, NoTask, "recovering")
    /\ UNCHANGED ghostVars

(* Recovery done: spawn the receiver and enter the loop.                    *)
Ready(s) ==
    /\ At(s, "recovering")
    /\ todo[s] = {}
    /\ pc' = [pc EXCEPT ![s] = "idle"]
    /\ receiver' = [receiver EXCEPT ![s] = TRUE]
    /\ UNCHANGED <<storeVars, worker, job, todo, out, stopped, ghostVars>>

(* The process is gone: its flocks and its memory with it. The sandbox dies *)
(* with it (--die-with-parent); a receiver that outlives a service started  *)
(* by hand goes on as one of the clients.                                   *)
Gone(s) ==
    /\ pc'       = [pc EXCEPT ![s] = "off"]
    /\ job'      = [job EXCEPT ![s] = NoTask]
    /\ todo'     = [todo EXCEPT ![s] = {}]
    /\ out'      = [out EXCEPT ![s] = "none"]
    /\ stopped'  = [stopped EXCEPT ![s] = FALSE]
    /\ receiver' = [receiver EXCEPT ![s] = FALSE]
    /\ worker'   = Nobody

(* The loop ends between two ticks; the receiver is joined or terminated.   *)
ReceiverLost(s) == ~receiver[s]    \* seeded defect: a signal is not looked at
LoopEnds(s)     == Stopping(s)
Exit(s) == At(s, "idle") /\ LoopEnds(s) /\ Gone(s) /\ NoWrite

(* SIGTERM or SIGINT.                                                       *)
Stop(s) ==
    /\ ~At(s, "off")
    /\ ~stopped[s]
    /\ stopped' = [stopped EXCEPT ![s] = TRUE]
    /\ UNCHANGED <<storeVars, worker, pc, job, todo, out, receiver, ghostVars>>

ReceiverDies(s) ==
    /\ receiver[s]
    /\ receiver' = [receiver EXCEPT ![s] = FALSE]
    /\ UNCHANGED <<storeVars, worker, pc, job, todo, out, stopped, ghostVars>>

(* SIGKILL, host crash, or an exception that leaves serve: an OSError in    *)
(* recovery, in storage_failure or in tick's exception handlers.            *)
Crash(s) ==
    /\ ~At(s, "off")
    /\ Gone(s)
    /\ Abandon(s)
    /\ UNCHANGED <<rec, art, ghostVars>>

-----------------------------------------------------------------------------
(* One tick, up to the executor.                                            *)

(* tick reads every record without the lock and takes the submitted one     *)
(* with the least time of admission. That is the time of day, which can tie *)
(* and step back, and the directory is not read at one moment: whichever    *)
(* record is queued may be the one.                                         *)
Pick(s) ==
    /\ At(s, "idle")
    /\ ~Stopping(s)
    /\ \E t \in Having({"submitted"}) : Take(s, t, "picked")
    /\ NoWrite

Reserve(s)     == At(s, "picked") /\ Advance(s, "reserved", "reserved")
ReserveLost(s) == At(s, "picked") /\ FoundTerminal(s)

(* coding_not_enabled or insufficient_storage.                              *)
Block(s) == At(s, "reserved") /\ Finish(s, "blocked", "committing")

(* workspace.mkdir, then git.                                               *)
MakeWorkspace(s) ==
    /\ At(s, "reserved")
    /\ Coding(job[s]) => CodingEnabled
    /\ Write(s, [Mine(s) EXCEPT !.workspace = TRUE])
    /\ Goto(s, "preparing")
    /\ UNCHANGED ghostVars

(* A guard finds neither a stop nor a cancellation (nor the deadline).      *)
GuardPasses(s) == ~Stopping(s) /\ ~rec[job[s]].cancel

(* What a guard, or the work between two guards, may abort with: deadline,  *)
(* git's exit status and unexpected exceptions are "failed".                *)
AbortStatus(s) == {"failed"} \cup (IF Stopping(s) THEN {"interrupted"} ELSE {})
                             \cup (IF rec[job[s]].cancel THEN {"cancelled"} ELSE {})

Prepared(s) == At(s, "preparing") /\ GuardPasses(s) /\ Goto(s, "prepared") /\ NoWrite

(* Unsupported repository content is "blocked".                             *)
PrepareAborts(s) ==
    /\ At(s, "preparing")
    /\ \E status \in AbortStatus(s) \cup {"blocked"} : Decide(s, status, "aborting")
    /\ NoWrite

StartRunning(s) == At(s, "prepared") /\ Advance(s, "running", "launching")
RunningCancelled(s) ==
    /\ At(s, "prepared")
    /\ rec[job[s]].cancel
    /\ Finish(s, "running", "committing")

-----------------------------------------------------------------------------
(* The executors.                                                           *)

(* The sandbox is spawned, or the coding session records that it runs.      *)
Invoke(s) ==
    /\ At(s, "launching")
    /\ Write(s, [Mine(s) EXCEPT !.agent = IF Coding(job[s]) THEN "running" ELSE @])
    /\ runs' = [runs EXCEPT ![job[s]] = @ + 1]
    /\ Goto(s, "executing")
    /\ UNCHANGED acked

(* The fixture's process has been reaped without a valid result. Stop, then *)
(* cancellation, are looked at again after reaping.                         *)
SandboxEnds(s) ==
    /\ At(s, "executing")
    /\ ~Coding(job[s])
    /\ \E test \in {"not_completed"} \cup IF GuardPasses(s) THEN {"failed"} ELSE {} :
         Write(s, [Mine(s) EXCEPT !.test = test])
    /\ Decide(s, IF Stopping(s) THEN "interrupted"
                 ELSE IF rec[job[s]].cancel THEN "cancelled" ELSE "failed", "returned")
    /\ UNCHANGED ghostVars

NoVerdict == "none"                \* seeded defect: no outcome is returned
Verdict   == "succeeded"

(* Report and file are valid: test-result.json, patch.diff, then return.    *)
SandboxPasses(s) ==
    /\ At(s, "executing")
    /\ ~Coding(job[s])
    /\ GuardPasses(s)
    /\ Write(s, [Mine(s) EXCEPT !.test = "passed"])
    /\ Goto(s, "validated")
    /\ UNCHANGED ghostVars

SandboxPatch(s) ==
    /\ At(s, "validated")
    /\ ~Coding(job[s])
    /\ Write(s, [Mine(s) EXCEPT !.patch = TRUE])
    /\ Decide(s, Verdict, "returned")
    /\ UNCHANGED ghostVars

(* The coding session writes the validated patch before it runs the tests.  *)
CodingPatch(s) ==
    /\ At(s, "executing")
    /\ Coding(job[s])
    /\ GuardPasses(s)
    /\ Write(s, [Mine(s) EXCEPT !.patch = TRUE])
    /\ Goto(s, "testing")
    /\ UNCHANGED ghostVars

CodingTested(s) ==
    /\ At(s, "testing")
    /\ GuardPasses(s)
    /\ Write(s, [Mine(s) EXCEPT !.test = "passed"])
    /\ Goto(s, "validated")
    /\ UNCHANGED ghostVars

CodingCompletes(s) ==
    /\ At(s, "validated")
    /\ Coding(job[s])
    /\ Write(s, [Mine(s) EXCEPT !.agent = "completed"])
    /\ Decide(s, Verdict, "returned")
    /\ UNCHANGED ghostVars

(* Every exception of the session, a storage error included, is recorded    *)
(* in its artifacts and returned; the broker may report interrupted.        *)
CodingFails(s) ==
    /\ pc[s] \in InExecutor
    /\ Coding(job[s])
    /\ \E status \in AbortStatus(s) \cup {"interrupted"} :
         /\ Write(s, [Mine(s) EXCEPT !.agent = status, !.test = "not_completed"])
         /\ Decide(s, status, "returned")
    /\ UNCHANGED ghostVars

(* TimeoutExpired from kill_tree and anything else unexpected.              *)
ExecutorRaises(s) ==
    /\ At(s, "executing")
    /\ ~Coding(job[s])
    /\ Decide(s, "failed", "aborting")
    /\ NoWrite

-----------------------------------------------------------------------------
(* The end of the tick.                                                     *)

(* A stop seen after the executor returned overrides its outcome.           *)
Return(s) ==
    /\ At(s, "returned")
    /\ Finish(s, IF Stopping(s) THEN "interrupted" ELSE out[s], "committing")

(* except Abort, except Exception: test-result.json, then the transition.   *)
AbortArtifact(s) ==
    /\ At(s, "aborting")
    /\ Write(s, [Mine(s) EXCEPT !.test = "not_completed"])
    /\ Goto(s, "aborted")
    /\ UNCHANGED ghostVars

AbortFinish(s) == At(s, "aborted") /\ Finish(s, out[s], "handler_commit")

(* except OSError: what was being written may or may not have been.         *)
StorageError(s) ==
    /\ pc[s] \in {"picked", "reserved", "preparing", "prepared", "launching",
                  "executing", "testing", "validated", "returned", "committing"}
    /\ Abandon(s)
    /\ Decide(s, "failed", "storage")
    /\ UNCHANGED <<rec, art, ghostVars>>

(* storage_failure looks at the record outside the lock; if it is not       *)
(* terminal, test-result.json is written and then the transition is made.   *)
StorageSettled(s) ==
    /\ At(s, "storage")
    /\ rec[job[s]].status \in Terminal
    /\ Leave(s, "idle")
    /\ NoWrite

StorageArtifact(s) ==
    /\ At(s, "storage")
    /\ rec[job[s]].status \notin Terminal
    /\ Write(s, [Mine(s) EXCEPT !.test = "not_completed"])
    /\ Goto(s, "storage_final")
    /\ UNCHANGED ghostVars

StorageFinish(s) == At(s, "storage_final") /\ Finish(s, out[s], "handler_commit")
StorageLost(s)   == At(s, "storage_final") /\ FoundTerminal(s)

-----------------------------------------------------------------------------
Init ==
    /\ rec      = [t \in Tasks |-> NoRecord]
    /\ art      = [t \in Tasks |-> NoFiles]
    /\ txn      = NoTxn
    /\ worker   = Nobody
    /\ pc       = [s \in Services |-> "off"]
    /\ job      = [s \in Services |-> NoTask]
    /\ todo     = [s \in Services |-> {}]
    /\ out      = [s \in Services |-> "none"]
    /\ stopped  = [s \in Services |-> FALSE]
    /\ receiver = [s \in Services |-> FALSE]
    /\ runs     = [t \in Tasks |-> 0]
    /\ acked    = [t \in Tasks |-> {}]

ClientStep(c) ==
    \/ \E t \in Tasks, p \in Payloads : SubmitDirectory(c, t, p) \/ SubmitDuplicate(c, t, p)
    \/ SubmitArtifacts(c) \/ SubmitCommit(c)
    \/ \E t \in Tasks : CancelQueued(c, t) \/ CancelHeld(c, t)
    \/ CancelCommit(c)

Recovery(s) == RecoverArtifacts(s) \/ RecoverPublish(s) \/ RecoverCommit(s) \/ Ready(s)
Tick(s) ==
    \/ Pick(s) \/ Reserve(s) \/ ReserveLost(s) \/ Block(s) \/ MakeWorkspace(s)
    \/ Prepared(s) \/ PrepareAborts(s) \/ StartRunning(s) \/ RunningCancelled(s)
    \/ Return(s) \/ AbortArtifact(s) \/ AbortFinish(s) \/ TickCommit(s)
    \/ StorageSettled(s) \/ StorageArtifact(s)
    \/ StorageFinish(s) \/ StorageLost(s)
Executor(s) ==
    \/ Invoke(s) \/ SandboxEnds(s) \/ SandboxPasses(s) \/ SandboxPatch(s)
    \/ CodingPatch(s) \/ CodingTested(s) \/ CodingCompletes(s) \/ CodingFails(s)
    \/ ExecutorRaises(s)

(* What no schedule promises and no schedule can rule out.                  *)
Fault ==
    \/ \E c \in Clients : ClientFails(c)
    \/ \E s \in Services : Stop(s) \/ ReceiverDies(s) \/ Crash(s) \/ StorageError(s)

Next ==
    \/ \E c \in Clients : ClientStep(c)
    \/ \E s \in Services : Start(s) \/ Recovery(s) \/ Tick(s) \/ Executor(s) \/ Exit(s)
    \/ Fault

Spec == Init /\ [][Next]_vars

(* Fairness. A live process keeps executing its program, and deadlines and  *)
(* output limits end every git and sandbox process (work_sandbox.execute,   *)
(* Runner.guard). systemd restarts a failed service and starts it at boot.  *)
(* A client is only assumed to finish the store operation it has begun.     *)
Fairness ==
    /\ \A c \in Clients :
         WF_vars(SubmitArtifacts(c) \/ SubmitCommit(c) \/ CancelCommit(c))
    /\ \A s \in Services :
         WF_vars(Start(s) \/ Recovery(s) \/ Tick(s) \/ Executor(s) \/ Exit(s))

FairSpec == Spec /\ Fairness
-----------------------------------------------------------------------------
(* Correctness properties.                                                  *)

Points == {"off", "recovering", "recovered", "recovery_commit", "idle", "picked",
           "reserved", "preparing", "prepared", "launching", "executing",
           "testing", "validated", "returned", "committing", "aborting",
           "aborted", "storage", "storage_final", "handler_commit"}

(* The type invariant: every file and every process variable holds a value  *)
(* the code can give it.                                                    *)
TypeOK ==
    /\ rec \in [Tasks -> Record]
    /\ art \in [Tasks -> Files]
    /\ txn \in [by : Procs \cup {Nobody}, task : Tasks \cup {NoTask}, to : Record]
    /\ worker \in Services \cup {Nobody}
    /\ pc \in [Services -> Points]
    /\ job \in [Services -> Tasks \cup {NoTask}]
    /\ todo \in [Services -> SUBSET Tasks]
    /\ out \in [Services -> Terminal \cup {"none"}]
    /\ stopped \in [Services -> BOOLEAN]
    /\ receiver \in [Services -> BOOLEAN]
    /\ runs \in [Tasks -> Nat]
    /\ acked \in [Tasks -> SUBSET Payloads]

(* No second attempt: whatever crashes, restarts, storage errors and        *)
(* resubmissions happen, the executor is invoked at most once for a task    *)
(* (Runner.tick, Runner.recovery).                                          *)
AtMostOneRun == \A t \in Tasks : runs[t] <= 1

(* While an executor works on a task, its durable record says running and   *)
(* no other service process works on it: neither a client, nor a second     *)
(* "serve", nor that one's recovery can settle it underneath the executor.  *)
ExecutingIsRunning ==
    \A s \in Services : pc[s] \in InExecutor =>
        /\ rec[job[s]].status = "running"
        /\ \A u \in Services \ {s} : job[u] # job[s]

(* A terminal record is backed by the result.json of the same outcome:      *)
(* transition_locked publishes it first, and nothing overwrites it later.   *)
TerminalEvidence ==
    \A t \in Tasks : rec[t].status \in Terminal => art[t].result = rec[t].status

(* success is only recorded for a task that ran, whose tests passed, whose  *)
(* patch is there and whose coding session completed, and that nobody had   *)
(* asked to cancel.                                                         *)
SuccessEvidence ==
    \A t \in Tasks : rec[t].status = "succeeded" =>
        /\ runs[t] = 1
        /\ art[t].test = "passed"
        /\ art[t].patch
        /\ Coding(t) => art[t].agent = "completed"
        /\ ~rec[t].cancel

(* What was acknowledged is what is stored: every accepted submission has   *)
(* its durable record, records are never lost, and two different payloads   *)
(* are never both accepted under one UUID, however admissions are           *)
(* interrupted, raced and repeated (Store.submit).                          *)
AcknowledgedIsStored ==
    \A t \in Tasks : \A p \in acked[t] :
        rec[t].status # "absent" /\ rec[t].payload = p

(* A terminal record never changes again.                                   *)
TerminalIsFinal ==
    [][\A t \in Tasks : rec[t].status \in Terminal => rec'[t] = rec[t]]_vars

(* Every change of status follows EDGES: transition_locked's invalid        *)
(* transition error is never raised.                                        *)
OnlyLegalTransitions ==
    [][\A t \in Tasks : rec'[t].status # rec[t].status =>
          \/ rec[t].status = "absent" /\ rec'[t].status = "submitted"
          \/ rec'[t].status \in Edges[rec[t].status]]_vars

(* A durable cancellation flag wins over a concurrent success.              *)
CancellationWins ==
    [][\A t \in Tasks : rec[t].cancel /\ rec'[t].status # rec[t].status
          => rec'[t].status \in Terminal \ {"succeeded"}]_vars

(* The directory of an interrupted admission refuses its UUID from then on: *)
(* no later submission takes it over, and its files are retained.           *)
OrphanIsRefused ==
    [][\A t \in Tasks :
          rec[t].status = "absent" /\ art[t].dir /\ txn.task # t
            => txn'.task # t /\ rec'[t] = rec[t] /\ art'[t] = art[t]]_vars

(* The store never retains more tasks than its capacity: admission counts   *)
(* the records and adds one under the same lock, whoever dies in between.   *)
WithinRetention == Cardinality(Admitted) <= Capacity

(* The comment in transition_locked and work-runner-v01.md on a crash       *)
(* between artifact publication and the state commit: once result.json      *)
(* tells of an outcome that was not committed, the task can only become     *)
(* interrupted, or failed by the storage error that stopped the commit, or  *)
(* get that outcome after all.                                              *)
UncommittedIsInterrupted ==
    [][\A t \in Tasks :
          /\ art[t].result \in Terminal
          /\ rec[t].status \notin Terminal
          /\ txn.task # t
          /\ rec'[t].status # rec[t].status
          => rec'[t].status \in {"interrupted", "failed", art[t].result}]_vars

(* Once the environment is quiet - no crash, stop or storage error any more *)
(* - every task admitted is settled: none is stuck in the queue, in a       *)
(* half-finished attempt or behind a lock.                                  *)
Quiet == <>[][~Fault]_vars
EveryTaskSettles ==
    Quiet => \A t \in Tasks :
        rec[t].status \in Recorded ~> rec[t].status \in Terminal

(* A stop request ends the service process: no task is waited for longer    *)
(* than its guard takes to see it.                                          *)
StopEnds == Quiet => \A s \in Services : stopped[s] ~> pc[s] = "off"
-----------------------------------------------------------------------------
(* The phase of a task in terms of its record and its invocations.          *)
PhaseOf(t) ==
    CASE rec[t].status = "absent"                  -> "unknown"
      [] rec[t].status = "submitted"               -> "queued"
      [] rec[t].status \in Active /\ runs[t] = 0   -> "held"
      [] rec[t].status \in Active /\ runs[t] # 0   -> "invoked"
      [] OTHER                                     -> rec[t].status

(* The directory is there, but neither the record nor an admission that     *)
(* would write it.                                                          *)
IsOrphan(t) == rec[t].status = "absent" /\ art[t].dir /\ txn.task # t

Lifecycle == INSTANCE TaskLifecycle WITH
    task     <- [t \in Tasks |-> PhaseOf(t)],
    asked    <- {t \in Tasks : rec[t].cancel},
    payload  <- [t \in Tasks |-> rec[t].payload],
    orphaned <- {t \in Tasks : IsOrphan(t)}

(* The runner implements the life of a task that its clients rely on:       *)
(* admitted once, with one payload, unless an interrupted admission has     *)
(* orphaned it, held by one worker at a time, invoked once, settled once,   *)
(* and never with success after a cancellation.                             *)
ImplementsLifecycle == Lifecycle!Spec
=============================================================================
