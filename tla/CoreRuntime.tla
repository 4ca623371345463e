---------------------------- MODULE CoreRuntime ----------------------------
(***************************************************************************)
(* The manual jobs of runtime.py: processes that take run.lock, read the   *)
(* project map and the states of one project from GitHub, check them       *)
(* (StateQuality) and propose a rollup (Rollup), and leave result.json and *)
(* latest.json.                                                            *)
(*                                                                         *)
(* The files belong to others, who change them at any time: what a job     *)
(* reads is whatever they contain at that moment. A job that finds         *)
(* run.lock taken returns busy and changes nothing.                        *)
(***************************************************************************)
EXTENDS StateQuality

CONSTANTS
    Jobs,     \* processes that run one job at a time
    MaxRuns,  \* bound on the number of runs
    Maps,     \* what the map, the root and the states may contain
    Roots,
    Files,
    NotRead,
    NoList    \* a map whose projects are no list

ASSUME RuntimeAssumption ==
    /\ MaxRuns \in Nat
    /\ \A m \in Maps : \E ps \in SUBSET Paths : m \in MapsOver(ps)
    /\ Roots \subseteq RootFile /\ Files \subseteq StateFile
    /\ \A f \in Roots \cup Files : f.form \notin {"string", "untyped"} => f.date = 0
    /\ Maps \cap {Failed, NoList} = {}
    /\ NotRead \notin Maps \cup Roots \cup Files \cup {Failed, NoList}

VARIABLES
    at,        \* program point of each job
    run,       \* its run_id: runs are numbered as they start
    cache,     \* RunReader.cache: the map, the root and the states read
    findings,  \* the codes of the findings of the run
    changes,   \* of RollupProposalEngine
    status,    \* the status of the result, once there is one
    runs,      \* runs started
    results,   \* result.json of each run directory, or None
    latest     \* latest.json: a run and its status

job  == <<at, run, cache, findings, changes, status>>
vars == <<job, runs, results, latest>>

Runs     == 1..MaxRuns
Outcomes == {"ok", "findings", "source_read_failure", "runtime_failure"}
Views    == [map   : Maps \cup {NotRead, Failed, NoList},
             root  : Roots \cup {NotRead, Failed},
             files : [Paths -> Files \cup {NotRead, Failed}]]
Empty    == [map |-> NotRead, root |-> NotRead, files |-> [p \in Paths |-> NotRead]]

ASSUME NothingAssumption == None \notin Outcomes \cup Views

Init ==
    /\ at       = [j \in Jobs |-> "off"]
    /\ run      = [j \in Jobs |-> 0]
    /\ cache    = [j \in Jobs |-> Empty]
    /\ findings = [j \in Jobs |-> {}]
    /\ changes  = [j \in Jobs |-> {}]
    /\ status   = [j \in Jobs |-> None]
    /\ runs     = 0
    /\ results  = [r \in Runs |-> None]
    /\ latest   = None

(* flock of run.lock, which a process holds until it ends.                  *)
Unlocked(j) == FALSE                                        \* seeded defect
Locked(j)   == \E k \in Jobs \ {j} : at[k] # "off"

Start(j) ==
    /\ at[j] = "off" /\ ~Locked(j) /\ runs < MaxRuns
    /\ at'   = [at EXCEPT ![j] = "reading"]
    /\ run'  = [run EXCEPT ![j] = runs + 1]
    /\ runs' = runs + 1
    /\ UNCHANGED <<cache, findings, changes, status, results, latest>>

(* What the process has in memory is of no use any more.                    *)
Forget(j) ==
    /\ cache'    = [cache EXCEPT ![j] = Empty]
    /\ findings' = [findings EXCEPT ![j] = {}]
    /\ changes'  = [changes EXCEPT ![j] = {}]

(* The result is decided: what is left is to write it.                      *)
Conclude(j, outcome) ==
    /\ at'     = [at EXCEPT ![j] = "concluded"]
    /\ status' = [status EXCEPT ![j] = outcome]
    /\ Forget(j)
    /\ UNCHANGED <<run, runs, results, latest>>

NoCredentialSilent(j) ==                                    \* seeded defect
    /\ at[j] = "reading" /\ cache[j] = Empty
    /\ at' = [at EXCEPT ![j] = "concluded"]
    /\ UNCHANGED <<run, cache, findings, changes, status, runs, results, latest>>

NoCredential(j) ==
    /\ at[j] = "reading" /\ cache[j] = Empty
    /\ Conclude(j, "source_read_failure")

(* RunReader.get_text reads a file that is not in the cache, and keeps its  *)
(* content or its failure for the rest of the run. CoreAgent.collect asks   *)
(* for every file first: the map, the root, then the states it names, and   *)
(* looks at each as soon as it has it.                                      *)
Mapped(j) == cache[j].map \in Maps
Unread(j) == {p \in Paths : Mapped(j) /\ p \in Workstreams(cache[j])
                            /\ cache[j].files[p] = NotRead}
Whole(j)  == /\ cache[j].map # NotRead
             /\ Mapped(j) => cache[j].root # NotRead
             /\ Unread(j) = {}

ReadStates(j) ==
    ({cache[j].root} \cup {cache[j].files[p] : p \in Paths}) \ {NotRead, Failed}
Unfit(j) == \E f \in ReadStates(j) : Raises(f)

Fetch(j) ==
    /\ at[j] \in {"reading", "proposing"} /\ ~Whole(j) /\ ~Unfit(j)
    /\ \/ /\ cache[j].map = NotRead
          /\ \E m \in Maps \cup {Failed, NoList} : cache' = [cache EXCEPT ![j].map = m]
       \/ /\ Mapped(j) /\ cache[j].root = NotRead
          /\ \E r \in Roots \cup {Failed} : cache' = [cache EXCEPT ![j].root = r]
       \/ /\ Mapped(j) /\ cache[j].root # NotRead
          /\ \E p \in Unread(j), f \in Files \cup {Failed} :
               cache' = [cache EXCEPT ![j].files[p] = f]
    /\ UNCHANGED <<at, run, findings, changes, status, runs, results, latest>>

(* CoreAgent comes to a section, or to an entry of the map, that is no      *)
(* mapping. The checkers would have reported it.                            *)
Raise(j) ==
    /\ at[j] = "reading"
    /\ Unfit(j) \/ (Mapped(j) /\ cache[j].map.garbled)
    /\ Conclude(j, "runtime_failure")

Found(j) ==
    IF Mapped(j) THEN Report(cache[j])
    ELSE {code \in {"project_map_invalid"} : cache[j].map = NoList}

(* The checkers come after CoreAgent, which has read every file.            *)
CheckForgetting(j) ==                                       \* seeded defect
    /\ at[j] = "reading" /\ Whole(j)
    /\ at' = [at EXCEPT ![j] = "proposing"]
    /\ findings' = [findings EXCEPT ![j] = Found(j)]
    /\ cache' = [cache EXCEPT ![j].root = NotRead]
    /\ UNCHANGED <<run, changes, status, runs, results, latest>>

Check(j) ==
    /\ at[j] = "reading" /\ Whole(j) /\ ~Unfit(j)
    /\ Mapped(j) => ~cache[j].map.garbled
    /\ at' = [at EXCEPT ![j] = "proposing"]
    /\ findings' = [findings EXCEPT ![j] = Found(j)]
    /\ UNCHANGED <<run, cache, changes, status, runs, results, latest>>

Propose(j) ==
    /\ at[j] = "proposing" /\ Whole(j)
    /\ at' = [at EXCEPT ![j] = "collected"]
    /\ changes' = [changes EXCEPT ![j] = IF Mapped(j) THEN Changes(cache[j]) ELSE {}]
    /\ UNCHANGED <<run, cache, findings, status, runs, results, latest>>

(* classify, then the snapshot and the report of the command.               *)
Unreadable(j) == \/ cache[j].map = Failed \/ cache[j].root = Failed
                 \/ \E p \in Paths : cache[j].files[p] = Failed
Classify(j) ==
    /\ at[j] = "collected"
    /\ \/ Unreadable(j) /\ Conclude(j, "source_read_failure")
       \/ ~Unreadable(j) /\ findings[j] # {} /\ Conclude(j, "findings")
       \/ ~Unreadable(j) /\ findings[j] = {} /\ Conclude(j, "ok")

(* An artifact of the command cannot be written.                            *)
Fails(j) ==
    /\ at[j] = "collected"
    /\ Conclude(j, "runtime_failure")

WriteResult(j) ==
    /\ at[j] = "concluded"
    /\ results' = [results EXCEPT ![run[j]] = status[j]]
    /\ at' = [at EXCEPT ![j] = "written"]
    /\ UNCHANGED <<run, cache, findings, changes, status, runs, latest>>

(* run.lock is released when the process ends, here or where it is killed   *)
(* or cannot write a file.                                                  *)
End(j) ==
    /\ at'     = [at EXCEPT ![j] = "off"]
    /\ run'    = [run EXCEPT ![j] = 0]
    /\ status' = [status EXCEPT ![j] = None]
    /\ Forget(j)
    /\ UNCHANGED <<runs, results>>

WriteLatest(j) ==
    /\ at[j] = "written"
    /\ latest' = [run |-> run[j], status |-> status[j]]
    /\ End(j)

Dies(j) ==
    /\ at[j] # "off"
    /\ End(j)
    /\ UNCHANGED latest

Next == \E j \in Jobs :
    \/ Start(j) \/ NoCredential(j) \/ Fetch(j) \/ Raise(j) \/ Check(j)
    \/ Propose(j) \/ Classify(j) \/ Fails(j) \/ WriteResult(j) \/ WriteLatest(j) \/ Dies(j)

Spec == Init /\ [][Next]_vars
-----------------------------------------------------------------------------
TypeOK ==
    /\ at \in [Jobs -> {"off", "reading", "proposing", "collected", "concluded", "written"}]
    /\ run \in [Jobs -> 0..MaxRuns] /\ runs \in 0..MaxRuns
    /\ cache \in [Jobs -> Views]
    /\ findings \in [Jobs -> SUBSET Codes]
    /\ changes \in [Jobs -> SUBSET Fields]
    /\ status \in [Jobs -> Outcomes \cup {None}]
    /\ results \in [Runs -> Outcomes \cup {None}]
    /\ latest \in [run : Runs, status : Outcomes] \cup {None}

(* latest.json only moves on to the result of a later run, whose own        *)
(* result.json says the same, whatever jobs start together and die.         *)
LatestMovesForward ==
    [][latest' # latest =>
         /\ latest # None => latest'.run > latest.run
         /\ results'[latest'.run] = latest'.status]_vars

(* The findings and the proposal of a run are of one view, although their   *)
(* owners change the files while it reads them: each finding is about a     *)
(* field that the proposal changes, unless it is a status conflict, or the  *)
(* checker and the engine disagree on a workstream (RunReader's cache).     *)
FindingsAgree ==
    \A j \in Jobs : at[j] = "collected" /\ Mapped(j) =>
        \A code \in (findings[j] \cap DOMAIN About) \ Disputable(cache[j]) :
            code = Conflict \/ About[code] \in changes[j]

(* The proposal of a run, when it is applied to what the run read, settles  *)
(* the project (Rollup, Settles).                                           *)
ProposalSettles ==
    \A j \in Jobs : at[j] = "collected" /\ Mapped(j) => Settles(cache[j])

(* A run that ends ok has vouched for every state that it read: it is fit   *)
(* for all three classes, synced, and as recent as the policy wants, or it  *)
(* is one that no class looks at (StateQuality, Sound).                     *)
OkIsSound ==
    \A j \in Jobs : at[j] = "collected" /\ findings[j] = {} /\ Mapped(j) =>
        Sound(cache[j])

(* The proposal of a run does not move a problem to the root that the       *)
(* workstreams it was made from do not have (BringsNothingNew).             *)
ProposalBringsNothingNew ==
    \A j \in Jobs : at[j] = "collected" /\ Mapped(j) => BringsNothingNew(cache[j])
-----------------------------------------------------------------------------
(* The run at work is that of the job that holds run.lock. What it has read *)
(* counts as seen when it has its findings and its proposal.                *)
AtWork  == {j \in Jobs : at[j] # "off"}
Worker  == CHOOSE j \in AtWork : TRUE
Looking == AtWork # {} /\ at[Worker] = "collected"

RunAtWork   == IF AtWork = {} THEN 0 ELSE run[Worker]
StatusSoFar == IF AtWork = {} THEN None ELSE status[Worker]
ViewSeen    == IF Looking THEN cache[Worker] ELSE None
FoundInIt   == IF Looking THEN findings[Worker] ELSE {}
ProposedFor == IF Looking THEN changes[Worker] ELSE {}

Publisher == INSTANCE Publication WITH
    working <- RunAtWork, verdict <- StatusSoFar,
    saw <- ViewSeen, found <- FoundInIt, proposed <- ProposedFor

(* Jobs that start together, read one file after another and die anywhere   *)
(* amount to one run after another, each with one look at the project: what *)
(* is found and what is proposed are of the same moment, a result is        *)
(* written once, and the latest is only announced after it.                 *)
ImplementsPublication == Publisher!Spec
=============================================================================
