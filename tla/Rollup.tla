------------------------------- MODULE Rollup -------------------------------
(***************************************************************************)
(* One project with workstreams in the Project OS, as a run has read it:   *)
(* the project map's entries, the root state and the workstream states.    *)
(* StateIntegrityChecker judges the root, RollupProposalEngine proposes    *)
(* changes of it; the two are written apart, each with its own idea of     *)
(* which workstreams block.                                                *)
(*                                                                         *)
(* A workstream is its state path, also in the lists of the root: what the *)
(* engine does beyond, which is to correct their order, their ids and      *)
(* their owners, no finding is about. A date that is missing or malformed  *)
(* is 0. status stands for the four narrative fields, which are treated    *)
(* alike. StateQuality says how a state is written: form, sync and flaws.  *)
(***************************************************************************)
EXTENDS Integers

CONSTANTS
    Paths,      \* state paths, those that no map knows included
    Statuses,   \* values of the field status
    LastDay,    \* dates are 1..LastDay
    None,       \* the field is not there, or null
    Unset,      \* freshness_days is not there
    Failed      \* a file that could not be read or parsed

FutureStatuses      == {"future_unassigned", "future_project_not_initialized", "not_active"}
NonBlockingStatuses == FutureStatuses \cup {"deferred_manual"}
TerminalStatuses    == {"completed", "paused", "inactive", "archived"}

(* The same set in CoreAgent, in the checker and in the engine. urgent,     *)
(* active, active_secondary and any other value are attention that blocks.  *)
NonBlockingAttention == {"deferred", "parked", "none", "future", "background"}
Attentions == NonBlockingAttention \cup
    {"urgent_time_bound", "active", "active_secondary", "needs_refresh",
     "deferred_until_feasibility", "unspecified"}

(* A section of a state, verification or sync, is a mapping, not there,     *)
(* null or another empty value, or a scalar. last_verified is a string, a   *)
(* text that is no date, not a string (a date without quotes), or missing.  *)
NoSection == {"absent", "null", "scalar"}
Forms     == {"string", "text", "untyped", "missing"} \cup NoSection
Syncs     == {"synced", "pending", "other", "missing"} \cup NoSection

(* Errors of the schema that are independent of everything else.            *)
SchemaCodes ==
    {"state_schema_version_unsupported", "state_required_field_missing",
     "state_field_type_invalid", "state_nested_field_missing",
     "state_nested_field_invalid", "sync_storage_mismatch", "state_scope_mismatch"}

RootFile ==
    [scope    : {"project", "project_rollup"},
     declared : SUBSET Paths,       \* workstreams
     sources  : SUBSET Paths,       \* rollup_policy.generated_from
     closed   : BOOLEAN,            \* specialist_writes_root is false
     tolerant : BOOLEAN,            \* future_workstreams_do_not_block_rollup
     date     : 0..LastDay,
     status   : Statuses \cup {None},
     form     : Forms, sync : Syncs, flaws : SUBSET SchemaCodes]
StateFile ==
    [date : 0..LastDay, status : Statuses \cup {None},
     form : Forms, sync : Syncs, flaws : SUBSET SchemaCodes]
MapEntry ==
    [attention : Attentions,        \* core_attention, or the project's
     days      : -1..LastDay \cup {None, Unset},    \* -1: not a legal override
     status    : Statuses \cup {None}]

(* A map: the project's entry, those of its workstreams, and whether there  *)
(* is one among these that is no mapping.                                   *)
MapsOver(ps) == [top : MapEntry, streams : [ps -> MapEntry], garbled : BOOLEAN]

ASSUME RollupAssumption ==
    /\ LastDay \in Nat
    /\ {None, Unset} \cap Int = {}
    /\ None \notin Statuses \cup NonBlockingStatuses \cup TerminalStatuses \cup {"active"}
    /\ Failed \notin RootFile \cup StateFile

(* What a run has read: the map, the root and the states of the             *)
(* workstreams, each of them or Failed.                                     *)
Workstreams(v) == DOMAIN v.map.streams
Children(v)    == {p \in Workstreams(v) : v.files[p] # Failed}
Rolls(v)    == v.root # Failed /\ Children(v) # {}

Blocks(e)   == e.attention \notin NonBlockingAttention
Unparked(v) == {p \in Children(v) : Blocks(v.map.streams[p])}

(* RollupProposalEngine: a state file without a status has the map's.       *)
Status(v, p) == IF v.files[p].status = None THEN v.map.streams[p].status ELSE v.files[p].status
UnparkedOnly(v) == Unparked(v)                              \* seeded defect
Active(v)    == {p \in Unparked(v) : Status(v, p) \notin NonBlockingStatuses}

(* StateIntegrityChecker: without a status it is unknown, which blocks.     *)
Required(v)  == {p \in Unparked(v) : v.files[p].status \notin FutureStatuses}

(* The workstreams on which the two disagree, and the findings that they    *)
(* can be the reason of.                                                    *)
Disputed(v)   == Required(v) \ Active(v)
Disputable(v) == IF Disputed(v) = {} THEN {}
                 ELSE {"rollup_missing_active_source", "rollup_outdated"}
-----------------------------------------------------------------------------
(* The root as the proposal would have it. The newest date is proposed when *)
(* the root has none or an older one; the narrative when exactly one        *)
(* workstream blocks.                                                       *)
Oldest(dates) == CHOOSE d \in dates : \A e \in dates : d <= e   \* seeded defect
Newest(dates) == CHOOSE d \in dates : \A e \in dates : e <= d
Freshest(v)   == Newest({v.root.date} \cup {v.files[p].date : p \in Active(v)})

Narrated(v) == {p \in Active(v) : Active(v) = {p} /\ v.files[p].status # None}
Narrative(v) ==
    IF Narrated(v) = {} THEN v.root.status
                        ELSE v.files[CHOOSE p \in Narrated(v) : TRUE].status

Proposed(v) ==
    [scope    |-> "project_rollup",
     declared |-> Workstreams(v),
     sources  |-> Active(v),
     closed   |-> TRUE,
     tolerant |-> v.root.tolerant \/ Active(v) # Children(v),
     date     |-> Freshest(v),
     status   |-> Narrative(v),
     form     |-> IF Freshest(v) = v.root.date THEN v.root.form ELSE "string",
     sync     |-> v.root.sync, flaws |-> v.root.flaws]

Fields == {"scope", "declared", "sources", "closed", "tolerant", "date", "status"}

(* The changes of the proposal, by the fields of the root.                  *)
Changes(v) == IF Rolls(v) THEN {f \in Fields : Proposed(v)[f] # v.root[f]} ELSE {}
Manual(v)  == Active(v) # {} /\ \A p \in Active(v) : Active(v) # {p}

(* The root after somebody has made the changes.                            *)
Applied(v) == [v EXCEPT !.root = Proposed(v)]
-----------------------------------------------------------------------------
(* What StateIntegrityChecker holds against the root.                       *)
Holds(v, code) ==
    CASE code = "multi_workstream_root_not_rollup"      -> v.root.scope # "project_rollup"
      [] code = "rollup_missing_workstream_declaration" -> ~(Workstreams(v) \subseteq v.root.declared)
      [] code = "rollup_declares_unknown_workstream"    -> ~(v.root.declared \subseteq Workstreams(v))
      [] code = "rollup_missing_active_source"          -> ~(Required(v) \subseteq v.root.sources)
      [] code = "rollup_generated_from_unknown_source"  -> ~(v.root.sources \subseteq Workstreams(v))
      [] code = "rollup_outdated" ->
           v.root.date # 0 /\ \E p \in Required(v) : v.files[p].date > v.root.date
      [] code = "rollup_status_conflict" ->
           /\ v.root.status \in TerminalStatuses
           /\ \E p \in Required(v) : v.files[p].status = "active"

(* The field of the root that each finding is about.                        *)
About == [multi_workstream_root_not_rollup      |-> "scope",
          rollup_missing_workstream_declaration |-> "declared",
          rollup_declares_unknown_workstream    |-> "declared",
          rollup_missing_active_source          |-> "sources",
          rollup_generated_from_unknown_source  |-> "sources",
          rollup_outdated                       |-> "date",
          rollup_status_conflict                |-> "status"]
Findings(v) == IF Rolls(v) THEN {code \in DOMAIN About : Holds(v, code)} ELSE {}

Conflict == "rollup_status_conflict"

(* A root that claims to be synced above a state that is not: no field of a *)
(* proposal is about it.                                                    *)
SyncConflict(v) ==
    /\ Rolls(v) /\ v.root.sync = "synced"
    /\ \E p \in Required(v) : v.files[p].sync # "synced"
-----------------------------------------------------------------------------
(* A proposal settles the project: when its changes are made, the engine    *)
(* has no further change, and the checker nothing to say but of workstreams *)
(* on which the two disagree. A proposal never makes a status conflict, and *)
(* leaves one only when it asks for a synthesis by hand.                    *)
Settles(v) ==
    Rolls(v) =>
      LET w == Applied(v)
      IN  /\ Changes(w) = {}
          /\ Findings(w) \subseteq Disputable(v) \cup {Conflict}
          /\ Conflict \in Findings(w) => Manual(v) /\ Conflict \in Findings(v)
=============================================================================
