---------------------------- MODULE Publication ----------------------------
(***************************************************************************)
(* What the Core's runs amount to, whatever jobs start together, die, and  *)
(* read file after file while the files change: one run after another,     *)
(* each of which looks at the whole project at one moment, is judged by    *)
(* what it saw, leaves one result, and may then be announced as the latest.*)
(***************************************************************************)
EXTENDS Integers

CONSTANTS
    MaxRuns, Paths, Maps, Roots, Files,
    None, Failed, NotRead, NoList,
    Workstreams(_), Raises(_),   \* the workstreams of a project, a state that is no mapping
    Report(_), Changes(_)        \* the findings on a project, the fields to change

VARIABLES
    working,   \* the run at work, or 0
    saw,       \* what it has seen of the project, or None
    found,     \* the findings on that
    proposed,  \* and the fields that it proposes to change
    verdict,   \* its status, once it is judged
    runs,      \* the runs begun
    results,   \* the result of each run, or None
    latest     \* the run announced last, and its status

current == <<working, saw, found, proposed, verdict>>
Runs    == 1..MaxRuns

Init ==
    /\ working = 0 /\ saw = None /\ found = {} /\ proposed = {} /\ verdict = None
    /\ runs    = 0
    /\ results = [r \in Runs |-> None]
    /\ latest  = None

Begin ==
    /\ working = 0 /\ runs < MaxRuns
    /\ runs'    = runs + 1
    /\ working' = runs + 1
    /\ UNCHANGED <<saw, found, proposed, verdict, results, latest>>

\* The whole project: its map, and if that is one, the root and every state in it.
HasMap(v) == v.map \in Maps
States(v) == {v.root} \cup {v.files[p] : p \in Workstreams(v)}
Projects ==
    {v \in [map : Maps \cup {Failed, NoList}, root : Roots \cup {Failed, NotRead},
            files : [Paths -> Files \cup {Failed, NotRead}]] :
       HasMap(v) => /\ NotRead \notin States(v) /\ ~v.map.garbled
                    /\ \A f \in States(v) \ {Failed} : ~Raises(f)}

Look ==
    /\ working # 0 /\ saw = None /\ verdict = None
    /\ saw' \in Projects
    /\ found'    = IF HasMap(saw') THEN Report(saw')
                   ELSE {code \in {"project_map_invalid"} : saw'.map = NoList}
    /\ proposed' = IF HasMap(saw') THEN Changes(saw') ELSE {}
    /\ UNCHANGED <<working, verdict, runs, results, latest>>

\* A run can fail at any time, also before it has looked. All else is said of what it saw.
Unread(v) == v.map = Failed \/ (HasMap(v) /\ Failed \in States(v))
Deserves(outcome) ==
    CASE outcome = "runtime_failure"     -> TRUE
      [] outcome = "source_read_failure" -> saw = None \/ Unread(saw)
      [] outcome = "findings"            -> saw # None /\ ~Unread(saw) /\ found # {}
      [] outcome = "ok"                  -> saw # None /\ ~Unread(saw) /\ found = {}

Judge ==
    /\ working # 0 /\ verdict = None
    /\ \E outcome \in {"ok", "findings", "source_read_failure", "runtime_failure"} :
         Deserves(outcome) /\ verdict' = outcome
    /\ saw' = None /\ found' = {} /\ proposed' = {}
    /\ UNCHANGED <<working, runs, results, latest>>

Record ==
    /\ working # 0 /\ verdict # None /\ results[working] = None
    /\ results' = [results EXCEPT ![working] = verdict]
    /\ UNCHANGED <<current, runs, latest>>

Cease ==
    /\ working # 0
    /\ working' = 0 /\ saw' = None /\ found' = {} /\ proposed' = {} /\ verdict' = None
    /\ UNCHANGED <<runs, results>>

Announce ==
    /\ verdict # None /\ results[working] = verdict
    /\ latest' = [run |-> working, status |-> verdict]
    /\ Cease

Vanish == Cease /\ UNCHANGED latest

Next == Begin \/ Look \/ Judge \/ Record \/ Announce \/ Vanish

Spec == Init /\ [][Next]_<<current, runs, results, latest>>
=============================================================================
