---------------------------- MODULE StateQuality ----------------------------
(***************************************************************************)
(* What is held against one state file, given its entry in the project     *)
(* map: by CoreAgent as it collects the state, and by                      *)
(* ProjectStateQualityChecker, which knows the schema and how old a state  *)
(* may be. Each leaves to the other what it takes to be the other's.       *)
(***************************************************************************)
EXTENDS Rollup

CONSTANT Today

ASSUME TodayAssumption == Today \in Nat

(* FreshnessPolicy, with which runtime.py calls the checker: days that a    *)
(* state may be old, by the attention of its entry.                         *)
AttentionDays ==
    [urgent_time_bound |-> 2, active |-> 7, active_secondary |-> 14,
     needs_refresh |-> 0, background |-> 30]
DisabledAttention == {"deferred", "deferred_until_feasibility", "parked", "none", "future"}
DefaultDays == 14

MaxAgeDays(attention) ==
    IF attention \in DisabledAttention THEN None
    ELSE IF attention \in DOMAIN AttentionDays THEN AttentionDays[attention]
    ELSE DefaultDays

(* freshness_days replaces the policy, and disables it when it is null.     *)
Threshold(e) == IF e.days \in {Unset, -1} THEN MaxAgeDays(e.attention) ELSE e.days

NonFreshStatuses      == NonBlockingStatuses
StaleStatuses         == {"stale_needs_refresh", "needs_initialization"}
NonCurrentMapStatuses ==
    {"future_project_not_initialized", "future_unassigned", "deferred_manual", "synced_but_old"}

(* CoreAgent reads an empty last_verified where there is none. Any section  *)
(* that is neither a mapping nor empty makes it raise an exception.         *)
BlankIfThere(f) == f.form \in {"missing", "absent", "null"}         \* seeded defect
Blank(f)  == \/ f.form \in {"missing", "absent", "null"}
             \/ f.form = "string" /\ f.date = 0
Raises(f) == "scalar" \in {f.form, f.sync}

Aging(f) == f.status \notin NonFreshStatuses
Age(f)   == Today - f.date

(* The checker knows the age of a state when its date is a string.          *)
Aged(f, e)  == /\ Aging(f) /\ Threshold(e) # None
               /\ f.form = "string" /\ f.date # 0
Stale(f, e) == Aged(f, e) /\ Age(f) > Threshold(e)

(* Errors of the schema that come from how the two sections are written.    *)
Sections(f) == {f.form, f.sync}
Written(f) ==
    {code \in SchemaCodes :
        \/ code = "state_required_field_missing"
           /\ (f.status = None \/ "absent" \in Sections(f))
        \/ code = "state_field_type_invalid"
           /\ {"null", "scalar", "untyped"} \cap Sections(f) # {}
        \/ code = "state_nested_field_missing" /\ "missing" \in Sections(f)}

RecordCodes ==
    SchemaCodes \cup
    {"state_not_synced", "state_needs_refresh", "map_marks_state_non_current",
     "verification_date_missing", "verification_date_invalid", "sync_status_unknown",
     "freshness_override_invalid", "verification_date_in_future", "state_stale_by_policy"}

Held(f, e, code) ==
    CASE code = "state_not_synced"            -> Blocks(e) /\ f.sync # "synced"
      [] code = "state_needs_refresh"         -> Blocks(e) /\ f.status \in StaleStatuses
      [] code = "map_marks_state_non_current" -> /\ Blocks(e) /\ f.status # "future_unassigned"
                                                 /\ e.status \in NonCurrentMapStatuses
      [] code = "verification_date_missing"   -> Blocks(e) /\ Blank(f)
      [] code = "verification_date_invalid"   -> f.form = "text"
      [] code = "sync_status_unknown"         -> f.sync = "other"
      [] code = "freshness_override_invalid"  -> Aging(f) /\ e.days = -1
      [] code = "verification_date_in_future" -> Aged(f, e) /\ f.date > Today
      [] code = "state_stale_by_policy"       -> Stale(f, e)
      [] OTHER                                -> code \in f.flaws \cup Written(f)

Notes(f, e) == {code \in RecordCodes : Held(f, e, code)}

(* The states that were read, each with its entry.                          *)
Documents(v) ==
    {<<v.files[p], v.map.streams[p]>> : p \in Children(v)} \cup
    (IF v.root = Failed THEN {} ELSE {<<v.root, v.map.top>>})

(* The scope of a workstream's state is one of its flaws.                   *)
ScopeNotes(v) ==
    IF v.root = Failed THEN {}
    ELSE IF Workstreams(v) # {}
    THEN {code \in {"state_scope_mismatch"} : v.root.scope # "project_rollup"}
    ELSE {code \in {"state_scope_unexpected"} : v.root.scope # "project"}

(* Everything that a run finds in the files of one project.                 *)
Codes == DOMAIN About \cup RecordCodes \cup
         {"state_scope_unexpected", "rollup_sync_conflict", "project_map_invalid"}
Report(v) ==
    Findings(v) \cup ScopeNotes(v)
    \cup {code \in {"rollup_sync_conflict"} : SyncConflict(v)}
    \cup UNION {Notes(d[1], d[2]) : d \in Documents(v)}
-----------------------------------------------------------------------------
(* A state that was verified as recently as its entry wants. A state        *)
(* without a date that does not block is overlooked: the checker leaves it  *)
(* to CoreAgent, which does not look at the date of what does not block.    *)
Current(f, e) ==
    \/ ~Aging(f) \/ Threshold(e) = None
    \/ f.date # 0 /\ f.date <= Today /\ Age(f) <= Threshold(e)
Overlooked(f, e) == ~Blocks(e) /\ f.date = 0

(* Where there is nothing to report, everything is synced, current and      *)
(* readable to all three classes.                                           *)
Sound(v) ==
    Report(v) = {} =>
      \A d \in Documents(v) :
        /\ ~Raises(d[1])
        /\ Blocks(d[2]) => d[1].sync = "synced" /\ ~Blank(d[1])
        /\ Current(d[1], d[2]) \/ Overlooked(d[1], d[2])

(* What a proposal brings on a root that was not held against it, and what  *)
(* would be held against the active workstreams if they were the root. The  *)
(* age of a state whose date has no quotes is not known before the proposal *)
(* quotes it, and that of a root whose status is not active is not asked    *)
(* for before the proposal replaces the status.                             *)
AgeCodes   == {"verification_date_in_future", "state_stale_by_policy"}
Brought(v) == Notes(Proposed(v), v.map.top) \ Notes(v.root, v.map.top)
Unasked(v) == {code \in AgeCodes :
                  \/ ~Aging(v.root)
                  \/ \E p \in Active(v) : v.files[p].form = "untyped"}
Known(v)   == Unasked(v) \cup UNION {Notes(v.files[p], v.map.top) : p \in Active(v)}

(* A proposal brings no problem on the root that the workstreams that it is *)
(* made from do not have themselves.                                        *)
BringsNothingNew(v) == Rolls(v) => Brought(v) \subseteq Known(v)
=============================================================================
