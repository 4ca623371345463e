# Verification of Personal AI Brain

TLA+ models of the parts of `personal_ai_brain` that keep durable state, with
model-checking runs (TLC) and machine-checked proofs (TLAPS). Paths are relative
to the repository; `control_worker.py` stands for
`src/personal_ai_brain/control_worker.py`, and so on.

## 1. The system

Personal AI Brain runs on two hosts. On the *Homelab*, the Core writes periodic
reports and the **control worker** executes requests that arrive as GitHub issues.
On the *Builder*, the **Work Runner** executes coding tasks, at most one at a time,
in a sandbox without network; its receiver takes tasks from the control worker
through two directories (the **handoff**), and a coding task talks to a model
through the **inference broker**, which keeps a budget. Beside them, the
**watched ledger** keeps what was watched, corrects it and delivers it to other
services; the **Tautulli reconciliation** feeds it.

Nothing here is a database server. Almost every component is a short-lived or
restartable process that reads JSON files, decides, and replaces one file at a time
with write-fsync-rename-fsync. What is hard about such code is what the models are
about: two processes between one's read and its write, a death between two writes
that belong together, a call whose answer is lost, a retry of what was already done.

### Inventory

| Component | State | Operations | Talks to |
|---|---|---|---|
| Work store, `work_store.py` | `state/tasks/<UUID>.json`, `audit/<UUID>/`, `state.lock` | `submit`, `cancel`, `transition`, `storage_failure`, `records` | runner, receiver, CLI: all under the flock |
| Work runner, `work_runner.py` | `worker.lock`, workspaces, the current task | `serve`, `recovery`, `guard`, `prepare`, `tick` | store, sandbox, coding session; child process: receiver |
| Work sandbox, `work_sandbox.py` | artifacts of one task | `execute` | called by `tick` |
| Coding session, `coding_execute.py`, `coding_agent.py`, `coding_protocol.py` | artifacts of one task, `agent-status` | `execute`, turn protocol | called by `tick`; broker's socket |
| Work handoff, `work_handoff.py` | inbox, outbox | `Directory.read/publish`, `Client.invoke`, `Server.tick/process` | control worker's handlers; store |
| Control worker, `control_worker.py` | `requests/`, `issues/`, `status.json`, `worker.lock` | `process`, `tick`, `serve` | GitHub; the capabilities, `work.*` through the handoff |
| Control registry, `control.py` | - | `parse_request`, `Registry.resolve`, the capabilities | called by the control worker |
| GitHub transport, `github_issues.py` | - | list, get, comment, close | GitHub |
| Inference broker and usage ledger, `inference_broker.py`, `inference_usage.py` | one `<UUID>.json` per task under `ledger.lock`; `service.lock`; one child per connection | `start`, `reserve`, `usage`, `finish`, `recover`; `serve`, `supervise`, `loop` | coding session, provider |
| Coding workspace and policy, `coding_workspace.py`, ... | files of one candidate | snapshot, apply, test | coding session |
| Watched ledger, `watched_ledger.py` | SQLite: events, links, supersessions, deliveries | `ingest`, `link`, `supersede`, deliveries | reconciliation, targets |
| Tautulli reconciliation, `tautulli_reconciliation.py` | cursor table | `reconcile` | Tautulli, ledger |
| Core runtime, `runtime.py` | `run.lock`, run directories, `latest.json`, heartbeat | `run_job`, `collect`, `classify`, `health` | the three classes below; read by the capabilities |
| Core agent, `core_agent.py` | - | reads the map and every state, findings on each, report | the Project OS files on GitHub, through the run's cache |
| State quality, `state_quality.py` | - | findings on one state by schema, status, date and attention | the same cache |
| State integrity and rollup proposal, `state_integrity.py`, `rollup_proposal.py` | - | findings on how states fit the map and each other; the root that they should add up to | the same cache |
| Command line, machine snapshot, agent registry, installers, acceptance scripts | - | print, serialise, validate, install | all of the above |

What is hard, and what makes each part correct:

* **Work store and runner.** Clients, a second `serve` and systemd's restart use the
  same store; each terminal transition is two writes; cancellation arrives at any
  time; a storage error can interrupt any of it. Correct: no task is executed twice,
  an outcome is final and backed by its artifacts, success excludes a cancellation
  and requires passing tests, the queue drains.
* **Work handoff.** Link-and-unlink publication without a lock, callers that time out
  while their request goes on, receivers that die between the operation and its
  response. Correct: messages are final, an acknowledged handoff stays readable, a
  response is true of the store, every request is answered.
* **Control worker.** Four kinds of writes and two effects on GitHub per request, with
  a crash or a lost response between any two, while users edit and reopen issues.
  Correct: one invocation per request UUID, one answer per issue which agrees with
  the ledger, every issue is reached.
* **Inference ledger.** A reservation before each paid call; a child that is killed
  in the middle, or goes on after its broker was killed. Correct: budgets are never
  exceeded, an unknown turn stays charged, nobody but its child uses a session.
* **Watched ledger, reconciliation, deliveries.** Echoes before their links, runs that
  overlap, crashes between ingestion and cursor; a sender that dies with a request under
  way, answers that are late or lost. Correct: no event is lost or imported as two, the
  target applies an event once, and a terminal delivery says what the target has.
* **Core runtime and its classes.** Jobs start together and die between the two writes
  that publish a run; three classes look at the same files one after another while the
  files change, and each leaves some cases to another. Correct: `latest.json` only moves on
  to complete, later runs; what a run finds and what it proposes fit each other; a
  run that finds nothing has seen only states in order; a proposal, once applied, leaves
  nothing to propose and brings no new problem.

`PROJECT.json` lists each of these hazards at its line, with the properties that
would catch it.

## 2. The modules

| Module | Models | Extended by |
|---|---|---|
| `TaskLifecycle` | what the runner promises about a task (abstract) | instantiated by the next two |
| `WorkRunner` | store, runner, sandbox outcomes, coding session | `MCWorkRunner`, `WorkRunnerProofs` |
| `WorkRunnerProofs` | the theorems about `WorkRunner` | |
| `WorkHandoff` | inbox, outbox, callers, receiver, over `TaskLifecycle` | `MCWorkHandoff`, `WorkHandoffProofs` |
| `RequestDesk` | what the control worker promises its users (abstract) | instantiated by the next one |
| `ControlWorker` | the issue queue and its ledger | `MCControlWorker`, `ControlWorkerProofs` |
| `SpendingAccount` | what the usage ledger promises of the money (abstract) | instantiated by the next one |
| `InferenceBroker` | broker, its children, usage ledger, the agent's side of the session | `MCInferenceBroker`, `InferenceBrokerProofs` |
| `WatchedLedger` | the ledger's tables, and ingestion into them | `Reconciliation` |
| `HistoryImport` | what the reconciliation promises of the history (abstract) | instantiated by the next one |
| `Reconciliation` | overlapping runs of `watched-reconcile` over `WatchedLedger` | `MCReconciliation`, `ReconciliationProofs` |
| `AtMostOnce` | what the deliveries promise of the target (abstract) | instantiated by the next one |
| `Deliveries` | the ledger's outbound deliveries, with the sender that it asks for | `MCDeliveries`, `DeliveriesProofs` |
| `Rollup` | what a project's files say: the engine's proposal, the integrity checker's findings (no variables) | `StateQuality` |
| `StateQuality` | what is held against one state, and what a run reports in all (no variables) | `CoreRuntime` |
| `Publication` | what the Core's runs amount to (abstract) | instantiated by the next one |
| `CoreRuntime` | the jobs of `runtime.py` over these operators | `MCCoreRuntime`, `CoreRuntimeProofs` |
| `...Proofs` | the theorems about the module of that name; `CoreRuntimeProofs` also those about `Rollup` and `StateQuality` | |

### WorkRunner

| Variable | In the code |
|---|---|
| `rec` | `state/tasks/<UUID>.json`: status, attempts, `cancel_requested`, payload |
| `art` | the files of `audit/<UUID>/` that decide anything: the directory, `result.json`, the test report, the patch, the agent status; and the workspace directory |
| `txn` | the two-write operation that the holder of `state.lock` has under way |
| `worker` | the holder of `worker.lock` |
| `pc`, `job`, `todo`, `out`, `stopped`, `receiver` | a service process: program point, current task, records left to recover, status decided and not yet stored, SIGTERM received, receiver child alive |
| `runs`, `acked` | history only: invocations of an executor, accepted payloads |

A store operation that writes one file is one step, because `state.lock` is held. One
that writes artifacts and then the record (admission and every terminal transition)
is one step per write, with `txn` in between, so that a crash, a SIGKILL of a client
or an `OSError` can stop it there. `Publish`/`Commit` are the two halves of
`transition_locked`. `Pick`, `Reserve`, `MakeWorkspace`, `Prepared`, `StartRunning`,
`Invoke`, the executor's steps, `Return` and `Finish` are `tick` in the order of its
statements; `AbortArtifact`, `AbortFinish` and the `Storage...` actions are its three
`except` clauses; `RecoverArtifacts`, `RecoverPublish` and `RecoverCommit` are
`recovery`. `Pick` may choose any queued record: `tick` sorts by the time of day of the
admission, which can tie and step back, over a directory that is not read at one moment.

`TaskLifecycle` is the abstract specification: seven actions over the phase of each
task, the payload it was admitted with, the tasks whose cancellation was asked for and
those whose admission was interrupted. `WorkRunner` implements it under the mapping
`PhaseOf` and `IsOrphan` (run `runner_safety`, theorem `Refinement`), and it is what
`WorkHandoff` uses in place of the store: its steps on the store are written as steps of
`TaskLifecycle`, so what is shown about the handoff is shown of a store that the runner's is
an instance of.

### WorkHandoff

`inbox` and `outbox` map a request UUID to the message under that name. A message
keeps two links from `os.link` to `os.unlink`; a publisher in between, or dead in
between, is what `temp = "linked"` (callers), `at = "unlinking"` and `torn`
(receiver) record, and `SingleLink` is `Directory.read`'s check of `st_nlink`.
`Invoke`, `CheckCapacity`, `WriteTemporary`, `Link`, `Unlink`, `ReadReply`, `GiveUp`
are `Client.invoke`; `Scan`, `Read`, the operations, `PublishReply`, `LinkReply`,
`UnlinkReply` are `Server.tick` and `process`. The store steps of the worker and of
the CLI (`Work`, `Admin...`) are those of `TaskLifecycle`, interleaved freely.
`SubmitRefused` may happen to any contract and does not last: a contract that is dated too
far ahead, or that found the store full, can be admitted later, under another ID or by the
CLI. `RepliesAreTrue` therefore says nothing of a refusal.

### ControlWorker

`requests`, `delivery` and `cursor` are the three kinds of files, `issue` and
`comments` what is on GitHub, `at`, `scan`, `page`, `now` and `record` the local
state of `tick` and `process`. One action is one durable write, one transport call or
one handler call, so `TickFails` and `Crash`, enabled at every point, cover failures
before and after each effect: a comment whose response is lost is `Post` followed by
`TickFails`. `Reject` may happen to any body, since the verdict of `parse_request`
depends on the clock and that of `resolve` on the deployed registry.

`RequestDesk` is the abstract specification: six actions over the requests, the calls of
their handlers and the answers to issues, without workers, lock, pages, delivery records or
failures. `ControlWorker` implements it with `requests`, `runs` and `comments` in their
places: everything else the worker keeps is invisible to its users.

### InferenceBroker

| Variable | In the code |
|---|---|
| `usage` | the ledger's `<UUID>.json`: status, provider, the turns with their month |
| `month` | the calendar month that `reserve` charges |
| `lock` | the holder of `service.lock` |
| `at`, `child` | a broker process: program point; its child, which can outlive it: program point, task |
| `conn`, `mail`, `answer` | the connection: which broker or child of one still has it open, messages the agent has not read, the brokers whose child has a tool result to read |
| `agent` | `BrokerAgent.run`: where it is, its task, messages heard, how it returned |
| `paid` | history only: requests made to the provider |

A ledger operation replaces one file under `ledger.lock` and is one step: `StartSession`
is `start`, `Reserve` is `reserve`, `Account` is `usage`, `Complete` and
`RecordFailure` are `finish`, `Recover` is `recover`, one record at a time. `Request`,
`AskForTool`, `ReadResult`, `SendComplete` and `SendFailure` are what `loop` does between
them, and `ChildFails` is its exception clause at every point. `StartBroker`,
`Accept`, `Decline`, `Reap` and `Expire` are `serve` and `supervise`; `Hear`, `Answer`,
`NoMore` and `AgentAborts` are the agent.

`BrokerEnds` is a stop, an error in recovery or a kill. A broker that is killed leaves its child
alive: the child has called `os.setsid`, has the connection, does not hold `service.lock`, and
`reserve`, `usage` and `finish` do not look at the status of the record. `OrphanEnds` is its
end. Whether another broker can start beside it depends on who starts brokers. `Unit` are those
of systemd's unit, which is one control group (`KillMode=control-group`): what is left of it is
killed before the unit is started again (`Cleared`). A broker started by hand finds the lock free
at once, recovers the orphan's record and listens; the orphan then goes on to charge, pay for and
finish a session whose record says interrupted. That is what the code does, and the properties
say what holds in spite of it: nothing is spent beyond the budgets or without a charge, the orphan
touches its own session only, and a session whose broker lives is never settled by recovery.
Where `Unit` are all brokers, none runs beside an orphan (`AloneInv` in the proofs).

Money is counted in reservations of `TurnReserve`, and failure codes are one status, `failed`:
nothing reads them to decide.

`SpendingAccount` is the abstract specification: the session, the charges and the payments of each
task and the calendar, which six actions of a task and one of the calendar change, and the
sessions that are `adrift`: nobody watches over their user. A session may be lost from sight only
while it is open, and only such a session is used after it was closed. `InferenceBroker`
implements it without brokers, connections or locks: `Reserve` charges, `Request` pays, `Account`
learns what a turn cost, a recovery closes a session, charges and all, and `Adrift` are the
sessions of children whose broker is off.

### WatchedLedger and Reconciliation

| Variable | In the code |
|---|---|
| `events` | `watch_events`: the source event ID under each fingerprint |
| `links` | `external_event_links`: the event of each source event ID |
| `stored` | the cursor's row in `source_cursors` |
| `history` | Tautulli's `session_history`: whether each row passes the filter of `read_after` |
| `at`, `cursor`, `batch`, `print` | a run of the command: program point, cursor as it knows it, rows left, fingerprint of the current observation |

`WatchedLedger` has the tables and the transactions on them; `Reconciliation` has the
processes. The fingerprint is unique and stands for the event's row; an observation that
cannot be identified has its source ID in the fingerprint. SQLite takes a lock at the
first INSERT, so each SELECT of `ingest_observation` (`LookupId`, `LookupLink`,
`LookupPrint`) is a step of its own and the transaction (`Insert`) another: what the
unique indexes refuse ends the run (`Finish`). `Start`, `Initialize`, `Read`,
`Normalize` and `Advance` are `reconcile_tautulli` in its order. `Normalize` may choose any
viewing or none, since Plex's metadata of a row changes between two runs. `Webhook` is the
normalizer's other use, an observation without a source ID. `Stop` is every exception
and every crash; a run that waits for the database's lock is one that takes no step.

Two runs that overlap can store one row as a quarantined event *and* link it to an
identified one, when Plex changes its mind between them; `OneViewingPerRow` therefore
speaks of identified viewings.

`HistoryImport` is the abstract specification: three actions over the history, the rows
imported, the viewings that each is counted as, and the cursor. `Reconciliation` implements it
without runs, batches, lookups or transactions: `Insert` imports a row, `Initialize` and
`Advance` store a position, `Webhook` is not to be seen. A cursor may go back, since a late run
writes its own, but it never stands where a row behind it is missing.

### Deliveries

| Variable | In the code |
|---|---|
| `state` | `sync_deliveries.state` of an event's row |
| `past` | rows whose `started_at` is stale, or whose `next_attempt_at` is due |
| `at`, `runnable`, `current` | the sender: program point, IDs that recovery returned, the row at work |
| `wire`, `applied` | requests that can still reach the target; how often it has applied an event |

`Create`, `Transition`, `RecordFailure` and `Begin` are `create_delivery`,
`transition_delivery`, `record_delivery_failure` and `recover_restart_work`. The ledger has no
network client, so whether a delivery is repeated depends on the order in which a caller
uses it. The module takes the caller that `docs/watched-event-ledger.md` describes and
marks it external: one sender at a time, which commits `in_flight` before it sends
and records what came of it. It may die, and an answer may be late or lost, at any
point; `Reconcile` looks at the target once the request can no longer reach it. What the
ledger contributes, and the seeded defects change, is which rows a restart returns and
which outcomes count as uncertain.

`AtMostOnce` is the abstract specification: four actions over the word of each row ("no",
"maybe", "never", "done") and the target's count. `Deliveries` implements it without sender,
wire, deadlines or restarts: a row in flight and an ambiguous one say "maybe", one that waits
to be sent or sent again says "no", and only under a "maybe" does the target apply anything.

### Rollup, StateQuality and CoreRuntime

`Rollup` states two pieces of code that never meet in the program: `Proposed` and
`Changes` are `RollupProposalEngine`, `Holds` and `Findings` are
`StateIntegrityChecker`. Both take what was read of one project: the entries of
the project map, the root's state, the workstreams' states, any of which may have
`Failed`. A list of workstreams is a set of paths, a date is a day or 0, and `status`
stands for the four narrative fields (`status`, `phase`, `current_gate`,
`exact_next_action`), which the engine treats alike. `Settles` is what the two owe each
other: with the proposal applied, the engine has no further change and the checker no
finding that a proposal could have answered. Two kinds of findings are exempt. A status
conflict is left when more than one workstream blocks, and then the proposal says that it
needs a synthesis by hand. And the two classes disagree on which workstreams block:
`deferred_manual` does not for the engine and does for the checker, and the engine
takes a missing status from the map where the checker takes `unknown`. `Disputed` are
exactly these workstreams, and `Disputable` the findings they can cause.

`StateQuality` is about one state and its entry in the map. `Held` says which finding each
of `CoreAgent` and `ProjectStateQualityChecker` has of it, `Threshold` how old it may be
(`FreshnessPolicy` and the entry's own `freshness_days`), `Report` everything that a run
finds in one project with the three classes together. How the `verification` and `sync`
sections are written is one of a few forms, because the classes read them differently: an
absent section is an error of the schema, an empty date is for `CoreAgent` to report, a
date without quotes has no age. Other errors of the schema are a set of flaws of the
file. `Sound` says what an empty report is worth and names its one hole: a state that
does not block and has no date is left by each class to the other (`Overlooked`).
`BringsNothingNew` says what a proposal may bring on the root: only what its workstreams have
themselves, but for an age that nobody asked for before (`Unasked`). A root that is
`not_active` has no age; if it takes the status of its one active workstream, and that one
has no date, the root's own old date makes it stale at the next run, which no workstream
is. And a date without quotes has no age until the proposal quotes it.

| Variable | In the code |
|---|---|
| `at`, `run` | a process in `run_job`: program point, number of its `run_id` |
| `cache` | `RunReader.cache`, failures included |
| `findings`, `changes` | the findings of the three classes, the proposal |
| `status` | `result["status"]` |
| `runs`, `results`, `latest` | runs started, `runs/<run_id>/result.json`, `latest.json` |

`Start` takes `run.lock` and makes the run directory; a job that finds it taken returns
`busy` and is no step. `Fetch` is one call of `get_text` for a file that is not in the
cache: the file's content is chosen at that moment, since its owner may have changed it
at any time, and stays for the rest of the run. `CoreAgent.collect` asks for every file
before the checkers do (`Whole`). `Check` and `Propose` are `collect`, `Classify` is
`classify` with the command's artifacts, `Fails` the `except Exception` clause,
`WriteResult` and `WriteLatest` the last two writes, `Dies` a killed process or a write
that raises. `NoCredential` is a job without a token. `Raise` is a section of a state, or an
entry of the map, that is not a mapping: `CoreAgent` raises on it, and the job ends as a
runtime failure that hides whatever else there was to report.

`Publication` is the abstract specification: six actions for one run at a time, which looks
at the whole project in *one* step, is judged by what it saw, leaves one result, and may
then be announced as the latest or vanish. It has no processes, no lock and no cache; what
a project says (`Report`, `Changes`) is a parameter. `CoreRuntime` implements it: `AtWork` is
the job that holds `run.lock`, and what it has read counts as seen once its findings and its
proposal are there. So every outcome of a run, whatever files changed while it was reading, is
one that a look at some project in a single moment could have had.

## 3. The runs

| Run | Instance | Shows |
|---|---|---|
| `runner_safety` | 2 tasks of either kind, 2 services, 2 clients, capacity 2 | no task is run twice or settled without evidence, an accepted task is stored, orphans are refused, and the runner implements `TaskLifecycle` |
| `runner_queue_drains` | 2 tasks, 1 service, 1 client | `EveryTaskSettles`, `StopEnds` |
| `runner_uncommitted_result` | 1 task, 1 service, 1 client | violation: finding 1 |
| `handoff_safety` | 2 calls, 2 request IDs, 1 task, 2 contracts, all operations, capacity 2 | messages are final, acknowledgements durable, responses true |
| `handoff_answers` | the same with submissions only | `RequestIsAnswered` |
| `handoff_capacity` | 2 calls, capacity 2 | violation: finding 2 |
| `control_safety` | 2 issues, 2 requests, 2 workers, 1 edit | one answer per issue, true answers, recorded answers posted, and the worker implements `RequestDesk`: one acceptance, one invocation and one outcome per request |
| `control_answers` | 2 issues, 1 request, 1 worker, pages of one issue, 1 edit | `IssuesAreAnswered` |
| `inference_safety` | 2 tasks, 2 brokers outside a unit, 2 months, 2 turns a task, 1 real turn a month | budgets hold, the ledger implements `SpendingAccount`, a live session is not settled by others while its broker lives, completion is accounted for, the end of a session is heard |
| `reconciliation` | 3 rows, 2 viewings, 2 runs, watermark 1, overlap 1, batches of 2 | no row skipped, and the runs implement `HistoryImport`: a row is imported for good, as one viewing at most; `RowsAreImported` |
| `core_runtime` | 2 jobs, 2 runs, 1 project with up to 2 workstreams, a path that its map does not know, 6 statuses, dates that are missing, old, recent and ahead | the jobs implement `Publication`: runs are serial, with one look at the project each, and announced when they are complete; findings and proposal fit each other, proposals settle and bring nothing new, a run that is ok is sound |
| `deliveries` | 3 events, 1 sender | the rows and the target implement `AtMostOnce`; `DeliveriesSettle` |

Why the bounds are enough. Two tasks are what order and mutual exclusion between tasks need;
two services are a process and the one that replaces or competes with it, and two clients
are two concurrent admissions or a submission against a cancellation. Attempts, crashes and
restarts are not bounded. In the handoff, two calls under one ID race each other, and under
two IDs reach the one task in either order; capacity 2 is reached by the two calls. In the
control worker, two issues with the same body are the duplicate, one edit turns one request
into another or reopens an issue after it is closed; page sizes 1 and 2 make the cursor move
and wrap. `MaxEdits` and `MaxIssue` bound the users only. In the inference broker a task has
one turn after another and a month has room for one real turn: two tasks compete for it, a
task of two real turns needs both months, and one of a synthetic provider has its own limit
only. Two brokers compete for the lock, and one recovers what the other's child still works
on; with `Unit` empty or one of the two, the run is the same, since a name of a broker is
used again only when its child is gone. Sessions, reconnections and crashes are not bounded.
In the reconciliation the first row is below the watermark and inside the overlap, and the
third is outside the first batch, so the cursor must move for it to be read. Three
deliveries are one at work, one left by a dead run and one that waits; requests, restarts
and reconciliations are not bounded, and `applied` counts to 2, which is already wrong. In
the core runtime a second run is what can follow or race the first, the workstreams are
parked or not, with and without a status in the map or in the file, and each date has its
own case: missing, stale, fresh, ahead of `Today`, without quotes; a third workstream adds
nothing new, and the theorems hold for any number. Deadlock is checked in every run but
`core_runtime`, which stops when the runs that `MaxRuns` allows have ended.

Every property has a *seeded defect*: an operator defined next to the one it would
replace and marked so. With `LockFree` replaced by `NoLock`, for example, two control
workers settle the same request differently and `AnswersAreTrue` fails.

### Fairness

Liveness properties are implications: if faults (crashes, storage errors, stops, and
for the control worker users) come to an end, then ... They use weak fairness only,
one condition per process:

* a live process goes on executing its program: git, sandbox and HTTP calls have
  timeouts, the handler of a capability is under `deadline(120)`;
* the services are restarted: `Restart=on-failure` in
  `deploy/personal-ai-brain-builder.service`, `restart: unless-stopped` in
  `compose.control.yaml`; one that an operator stopped is assumed to be started again;
* the scheduler starts `watched-reconcile` periodically (`docs/watched-event-ledger.md`);
* for the deliveries: the sender is run again, time passes for a row with a deadline, the
  target answers a request that reaches it, and somebody reconciles an ambiguous row. The
  repository has neither the sender nor a command to reconcile yet; its documentation asks
  for both;
* a client need only finish the store operation that it has begun. Nothing makes it
  begin one.

`InferenceBroker` has no liveness property: that sessions are settled is the theorem
`ListeningBrokersAreSettled`, an invariant. No fairness is assumed between two processes
that want the same lock, and none of the properties needs it.

### Findings

1. `runner_uncommitted_result`: a cancellation of a *queued* task that dies between
   `result.json` and the record is not recovered as interrupted, as
   `work_store.py:114` and `docs/work-runner-v01.md:68` say of such crashes. Recovery looks
   at reserved and running tasks only; the task is executed later although its
   `result.json` says cancelled.
2. `handoff_capacity`: a directory can retain more entries than its capacity
   (`docs/remote-work-submission-v01.md:61`), after which every scan of the receiver raises.

Five more observations were made while modelling and are described here without a run
of their own:

* A caller that looks at the outbox between the receiver's link and unlink gets
  `invalid_transport_file`, an outcome that `docs/remote-work-submission-v01.md:29` does not
  list, without any crash.
* An issue found again after a crash is validated again (`control_worker.py:95`) before its
  reservation is looked at. If it is rejected now, because it is more than seven days old
  or its capability is gone, the reservation stays in `processing`, where
  `docs/control-bridge.md:76` says that it becomes an interrupted failure. `OneAnswer` and
  `OneInvocation` hold all the same.
* A broker that is started by hand and killed leaves its child alive: the next broker recovers the
  child's record, which the child goes on to charge and to finish (`BrokerEnds`, `Adrift`).
* A section that is not a mapping ends a job as a runtime failure, although the
  state quality checker has a finding for it (`Raise`).
* A missing date of a state that does not block is reported by nobody (`Overlooked`).

## 4. The proofs

`WorkRunnerProofs` proves for *every* finite set of tasks, every set of payloads,
services and clients, and every capacity, from `ConstantsAssumption` alone:

| Theorem | Property |
|---|---|
| `TypeCorrect` | `TypeOK` |
| `NeverRunTwice` | `AtMostOneRun` |
| `ExecutionIsExclusive` | `ExecutingIsRunning` |
| `OutcomeHasEvidence` | `TerminalEvidence` |
| `SuccessHasEvidence` | `SuccessEvidence` |
| `OutcomeIsFinal` | `TerminalIsFinal` |
| `TransitionsAreLegal` | `OnlyLegalTransitions` |
| `CancellationIsHonoured` | `CancellationWins` |
| `AdmissionIsDurable` | `AcknowledgedIsStored` |
| `OrphansAreRefused` | `OrphanIsRefused` |
| `RetentionIsBounded` | `WithinRetention` |
| `Refinement` | `ImplementsLifecycle` |

None of these properties is inductive: that a task is not run twice follows from
who holds which lock, what each process has read, and what is half written. The
inductive invariant `IInv` says it, in conjuncts that the proof handles one lemma each:

* `WorkerInv`: a service process is running exactly if it holds `worker.lock`;
* `TxnInv`: what the operation under way may store, given who runs it and where it is;
* `JobInv`: at each program point, the status that the record of the current task
  can have, whatever clients did since it was read;
* `OwnerInv`: a held task outside recovery is the current task of the process that
  holds `worker.lock`;
* `RunsInv`: how often the executor has been invoked, from the status and the point;
* `OutInv`: the status decided on but not stored is one that the record can go to;
* `TerminalEvidence` and `SuccessInv`: what the artifacts say, given the status.

`Publish`, `Commit`, `Finish` and `Advance` occur in many actions; what they change
and keep is stated once, in lemmas. `RecordStep` says which records a step can change
and how; the action properties and the refinement follow from it and `IInv`.
`CancellationIsHonoured` needs in addition that no record exists with a cancellation
before its admission (`AbsentInv`), and `AdmissionIsDurable` that an accepted payload is the
record's, or on its way there in `txn`. `OrphansAreRefused` needs that every step is about
one task at most (`StepConcerns`), and that one has a record, gets its directory, or has the
operation under way. `Refinement` also has to know which steps make an orphan (`OrphanStep`)
and that a payload is written once (`ContractStep`). `RetentionIsBounded`
needs that the admission under way has room (`RoomInv`): it has counted the records under the
lock that it still holds.

`WorkHandoffProofs` proves, for any callers, request IDs, tasks, contracts and capacity, from
`HandoffAssumption` and `NoneIsNoMessage`:

| Theorem | Property |
|---|---|
| `TypeCorrect` | `TypeOK` |
| `AcknowledgementsAreDurable` | `AcknowledgedIsDurable` |
| `ResponsesAreTrue` | `RepliesAreTrue` |
| `MessagesAreFinal` | `PublishedIsFinal` |
| `AnsweredRequestsRest` | `NoEffectAfterReply` |

Its invariant `IInv` has one conjunct per place that knows something. `ClientInv`: a call
with a linked temporary owns the message under that name, and there is one such call for an
ID; a call that was acknowledged has its own message in the inbox, and nobody has it linked,
so it stays readable. `ReceiverInv` and `OutboxInv`: what the receiver is about to say, and
what has been said, is true. A step of the store by another process (`StoreMoves`)
falsifies none of it: phases only go forward, and a contract once admitted stays
(`TruthStays`). The steps are split accordingly into what they do to the store, to the
callers and to the receiver, and a lemma for each of the three says what rests. `WorkHandoff`
assumes of the store no more than that its steps are those of `TaskLifecycle`, under which
`WorkRunner` has been shown to stay (`Refinement`).

`ControlWorkerProofs` proves, for any issues, requests, workers and page size, from
`ControlAssumption` and `NoneIsNoRecord`:

| Theorem | Property |
|---|---|
| `TypeCorrect` | `TypeOK` |
| `PromiseIsKept` | `ImplementsDesk` |
| `HandlersRunOnce` | `OneInvocation` |
| `AnswersAreOne` | `OneAnswer` |
| `AnswersTellTheLedger` | `AnswersAreTrue` |
| `PostedIsPosted` | `PostedIsThere` |
| `OutcomesStay` | `OutcomeIsKept` |

The core is `Agrees`: what a record that may be delivered to an issue says, against the
ledger of requests and the number of invocations. `WorkerInv` says at which points the
worker's record agrees, `DeliveryInv` that the issue's file does, `CommentsInv` that a comment
is the one in that file. `LedgerKeeps`, that a settled request is never changed, carries them
through the steps of others, and `Exclusive` (one worker in a tick) through the rest.
With the invariant, `PromiseIsKept` is one lemma for each step that the desk sees: a
reservation accepts, a duplicate may settle what a dead worker left, the handler's call
calls, its outcome settles, and the first comment answers.

`InferenceBrokerProofs` proves, for any tasks, brokers and months and any budgets, from
`BrokerAssumption` and `NoneIsNoRecord`:

| Theorem | Property |
|---|---|
| `TypeCorrect` | `TypeOK` |
| `BudgetsAreKept` | `BudgetsHold` |
| `LiveSessionsAreReserved` | `LiveSessionIsReserved` |
| `CompletionsAreAccounted` | `CompleteIsAccounted` |
| `SessionEndsAreHeard` | `EndIsHeard` |
| `LedgerIsAnAccount` | `ImplementsAccount` |
| `NoChargeIsTakenBack` | `ChargesStay` |
| `ListeningBrokersAreSettled` | `ListeningIsSettled` |

`LockInv`: a broker at work has the lock, and one that has a child supervises it or has left it
alone. `SoleInv`: one child at most has got past the start of a task's session, because a task
that has a record gets no other. `LiveInv`: a child that is watched over, or belongs to the only
unit, has a reserved record; `AloneInv`: such a unit has one child in all, which is why nothing
is reserved when it listens. `LedgerInv` and `MonthInv`: paid requests are covered by turns, and
turns by both budgets; the second is about the cardinality of the turns charged to a month, and
every step of the ledger opens a record, adds a turn, settles a turn or closes a record, of which
one alone charges. `ChildInv`: what a child may rely on at each point, be its record reserved or
interrupted. `LinkInv` and `ToldInv`: how the connection, the messages and the child's task belong
together, also after the broker has died and another one runs. `SessionEndsAreHeard` has an
invariant of its own, `HearInv`: what the agent has heard and what is in the mail are at most
three messages a turn and a last one. `LedgerIsAnAccount` needs no other invariant: `MoneyStep`
says that a step moves the calendar, pays for one request in a usable session that has a charge
left, or changes one record, and that a record is completed only when every turn of it is
accounted for; `RecordIsMoney` says which step of the account that is; and `NextDrifts` that a
session is lost from sight only while it is reserved.

`ReconciliationProofs` proves, for any history, runs, watermark, overlap and limit, from
`LedgerAssumption` and `ReconciliationAssumption`:

| Theorem | Property |
|---|---|
| `TypeCorrect` | `TypeOK` |
| `NothingIsSkipped` | `NothingSkipped` |
| `RowsAreOneViewing` | `OneViewingPerRow` |
| `RunsAreAnImport` | `ImplementsImport` |
| `NothingIsBackfilled` | `NoBackfill` |

`RunInv`: the cursor of a run has only handled rows below it (`HandledUpTo`), its batch is
the next rows of the window (`BatchIsNext`), and at each point between the lookups and the
insertion, what the run believes of the tables. Tables only grow (`TablesGrow`), which is why
what another run has done never takes this back, and why a cursor that is written late is
below the truth and not above it. `EventsAreLinked` gives `OneViewingPerRow`. A batch
leaves out no row in front of its last one (`WindowIsFull`), which is about counting rows.
`RunsAreAnImport` needs in addition that the first cursor is the watermark, and is there before
anything is imported (`Begun`); `InsertsOne` says that an insertion concerns the tables of the
current row alone, and `EventsAreLinked` that its viewing, once there, is the linked one.

`DeliveriesProofs` proves `TypeCorrect` (`TypeOK`), `TargetsAgree` (`TargetAgrees`) and
`DeliveriesAreAtMostOnce` (`ImplementsAtMostOnce`) for any events, from `DeliveriesAssumption`. `RowSays` is what a row in each state says of the target
whoever left it so; `SenderKnows` is what the sender knows of the row that it is at. A row that a
dead run left in flight says nothing of `applied`, which is why it may only become
`ambiguous`. The same invariant carries the refinement: a transition changes the word of one
row (`OneWord`), and a row whose word becomes "no" or "never" has no request under way.

`CoreRuntimeProofs` proves, from `RollupAssumption`, `TodayAssumption`,
`RuntimeAssumption` and `NothingAssumption`, for any number of jobs, runs, workstreams, dates and statuses, and
whatever the files contain:

| Theorem | Property |
|---|---|
| `EveryProposalSettles` | `Settles(v)`, for every view `v` of a project |
| `NothingReportedIsSound` | `Sound(v)`, for every view `v` |
| `ProposalIsNoWorse` | `BringsNothingNew(v)`, for every view `v` |
| `RuntimeTypeCorrect` | `TypeOK` |
| `FindingsOfOneView` | `FindingsAgree` |
| `ProposalsSettle` | `ProposalSettles` |
| `OkRunsAreSound` | `OkIsSound` |
| `ProposalsBringNothingNew` | `ProposalBringsNothingNew` |
| `LatestIsNewest` | `LatestMovesForward` |
| `RunsAreSerial` | `ImplementsPublication` |

`EveryProposalSettles` has three parts. The proposal is a fixed point of the engine
(`ProposalIsStable`): the map, the states and so the workstreams that block are the same
after the change, and the newest date of the root and its workstreams is now the root's
(`FreshestIsStable`; `Maximum` takes the greatest of a set of dates as the least of their
distances to the last day). The findings that are left are exempt (`FindingsAreAnswered`),
one case per finding. A conflict that is left was there before and needs a synthesis
(`ConflictIsKnown`): if one workstream alone blocked, the root would have its status.
`NothingReportedIsSound` goes through the forms in which a date and a section can be written
and names the class that reports each. `ProposalIsNoWorse` follows from where the proposed
root's fields come from: its date is that of an active workstream or its own, and so is its
status. It speaks of files that have a date only where a section writes one (`Dated`), as
`RuntimeAssumption` says of all. That a finding is about a field that the proposal changes
(`FindingIsAddressed`) follows, since otherwise it would be left.

The jobs' inductive invariant `Inv` is `TypeOK` with `Alone` (one job at work, by
`run.lock`), `Numbered` (its run was started after the one of `latest.json`),
`Concluded` (a result is what the run's `result.json` says) and `OneView` (from
the checks on, everything has been read, and the findings and the proposal are of that).

`RunsAreSerial` needs three more conjuncts (`RunsInv`). `Undecided`: a run that is not judged
has no status, and one that is not recorded no result, so a result is never replaced. `Named`:
nothing is read but what a map names, so a failed read that `classify` counts is one of the
project's. `Fit`: what the checkers went through raises on nothing. A whole and fit cache is
then a project that can be looked at in one moment (`WholeIsProject`), and `Propose` is the
step in which the abstract run looks; reading and checking before it are not to be seen. One
lemma for each step of a job says which step of the publication it is.

Model-checked only: liveness, which is out of the prover's reach (`EveryTaskSettles`,
`StopEnds`, `RequestIsAnswered`, `IssuesAreAnswered`, `RowsAreImported`, `DeliveriesSettle`).
Proved only, since a run would add nothing to the proof:
`ExecutingIsRunning`, `OnlyLegalTransitions`, `OutcomeIsKept`, `NoBackfill`,
`ListeningIsSettled` (of systemd's unit alone), `WithinRetention`, `OneInvocation` (the calls
of `ImplementsDesk`),
`LatestMovesForward` (the announcements of `ImplementsPublication`), `OneViewingPerRow` (the
counts of `ImplementsImport`), `ChargesStay` (the charges of `ImplementsAccount`), `TargetAgrees`
(the words of `ImplementsAtMostOnce`), and `TerminalIsFinal` and
`CancellationWins`, which `ImplementsLifecycle` checks in substance.

## 5. What the models leave out

* File formats, sizes, ownership and path checks, redaction, wording. A file is what
  its readers distinguish; a corrupt file does not occur, since every write is a
  rename of a synced temporary. An `fsync` that is lost with the power is not modelled
  apart from the crash before the rename.
* The isolation of the sandbox (bubblewrap's arguments, limits): it is I/O, and the
  model keeps its outcomes.
* Time. A deadline that can expire is a step that may happen; the two seconds of
  `Client.invoke` and the seven days of `parse_request` are nondeterministic.
* Health reports, heartbeats and backoff delays: nothing reads them to decide.
* One issue that fails for ever holds up those created after it (`tick` goes in
  order and a failed tick has no cursor). That is the code's documented order;
  `IssuesAreAnswered` assumes that failures stop.
* Reconciliation with `--limit` not above `--overlap`, which the code accepts: every batch is
  then filled by the overlap and the cursor stays. `ReconciliationAssumption` excludes it.
* A row that can never be imported (its metadata deleted from Plex, say) stops every run
  at its position, as `docs/watched-event-ledger.md` says of errors; `RowsAreImported`
  assumes that failures end.
* The Core's heartbeat and health report, and three findings of `CoreAgent` on the map alone
  (`state_path_missing`, `workstream_state_path_missing`, `repository_missing`). The order,
  ids and owners in the root's list of workstreams.
* A root whose `workstreams`, or whose `generated_from`, is a scalar: `StateIntegrityChecker`
  raises on it (`state_integrity.py:184`, `226`) and the run ends as a runtime failure, as with
  the sections that `Raise` is about. `RootFile` has no such root.
* A `status` that is there but null. `Status` takes it for a missing one; the engine takes
  the map's status only when the key is missing (`rollup_proposal.py:138`), reads null as
  `None`, which blocks, and may propose null for the root.
* The order in which the runner serves the queue. It is that of wall-clock timestamps, which
  promise no order of admission; no property is about it.
* The migration boundary of the watched ledger, which no command sets, and
  `supersede_event`: no command calls it and nothing in the repository computes which event
  of a chain of corrections is the active one, so there is no behaviour to compare a chain with.
* Two senders of deliveries at once, or an operator who settles a row under the sender. The
  ledger does not defend against them (it updates by ID alone) and `recover_restart_work`
  presupposes one sender.
* `CodingWorkspace`: one process on private files, whose verdicts are outcomes in `WorkRunner`.
* The machine snapshot, the agent registry, the command line, installers and acceptance
  scripts: they serialise, validate, print or install, and keep no state.

## 6. Plan

Done: every module of the table above, and the proofs of every invariant and action property
that a run checks. What is left, in this order:

1. `CodingWorkspace`: candidate changes, snapshots and the test gate of one session, if it
   ever keeps a workspace across attempts.
2. The capabilities of the control registry that read the Core's artifacts: `latest.json`
   followed by `result.json`, against a run that ends in between.
3. A sender of deliveries and a reader of corrections, once the repository has them: the
   external caller of `Deliveries` would become a module, and supersession a property.
