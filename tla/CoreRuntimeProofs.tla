------------------------- MODULE CoreRuntimeProofs -------------------------
(***************************************************************************)
(* A rollup proposal settles every project, whatever its map and states    *)
(* contain; and the safety properties of the jobs, for any number of jobs, *)
(* runs and workstreams.                                                   *)
(***************************************************************************)
EXTENDS CoreRuntime, WellFoundedInduction, TLAPS

(* Newest is the maximum of a set of dates, which has one.                  *)
LEMMA Maximum ==
  ASSUME NEW S, S \subseteq 0..LastDay, S # {}
  PROVE  /\ Newest(S) \in S
         /\ \A d \in S : d <= Newest(S)
<1> DEFINE T == {LastDay - d : d \in S}
           R == {ss \in Nat \X Nat : ss[1] < ss[2]}
<1>1. LastDay \in Nat
  BY RollupAssumption
<1>2. T \subseteq Nat /\ T # {}
  <2>1. \A d \in S : d \in 0..LastDay
    OBVIOUS
  <2>2. \A d \in S : LastDay - d \in Nat
    BY <1>1, <2>1
  <2> QED  BY <2>2
<1>3. IsWellFoundedOn(R, Nat)
  BY NatLessThanWellFounded DEF OpToRel
<1>4. PICK m \in T : \A t \in T : ~(<<t, m>> \in R)
  <2> HIDE DEF T, R
  <2> QED  BY <1>2, <1>3, WFMin
<1>5. \A t \in T : ~(t < m)
  BY <1>2, <1>4
<1>6. PICK d \in S : m = LastDay - d
  BY <1>4
<1>7. \A e \in S : e <= d
  <2> TAKE e \in S
  <2>1. LastDay - e \in T
    OBVIOUS
  <2>2. d \in 0..LastDay /\ e \in 0..LastDay
    OBVIOUS
  <2> QED  BY <1>1, <1>5, <1>6, <2>1, <2>2
<1> QED  BY <1>7 DEF Newest

-----------------------------------------------------------------------------
(* A project that has been read as a whole.                                 *)
IsView(v) ==
    /\ v = [map |-> v.map, root |-> v.root, files |-> v.files]
    /\ \E ps \in SUBSET Paths : v.map \in MapsOver(ps)
    /\ v.root \in RootFile \cup {Failed}
    /\ \A p \in Workstreams(v) : v.files[p] \in StateFile \cup {Failed}

(* A date that is not 0 was written, with or without quotes.                *)
Dated(f) == f.date # 0 => f.form \in {"string", "untyped"}

(* Nothing but the root is different once the changes are made.             *)
LEMMA AppliedView ==
  ASSUME NEW v, IsView(v)
  PROVE  /\ Applied(v).map = v.map
         /\ Applied(v).files = v.files
         /\ Applied(v).root = Proposed(v)
  BY DEF IsView, Applied

LEMMA SameWorkstreams ==
  ASSUME NEW v, NEW w, w.map = v.map, w.files = v.files
  PROVE  /\ Children(w) = Children(v)
         /\ Active(w) = Active(v)
         /\ Required(w) = Required(v)
         /\ Disputed(w) = Disputed(v)
         /\ Narrated(w) = Narrated(v)
  BY DEF Workstreams, Children, Unparked, Active, Status, Required, Disputed, Narrated

(* Every child is a state that was read.                                    *)
LEMMA ChildFile ==
  ASSUME NEW v, IsView(v), NEW p \in Children(v)
  PROVE  v.files[p] \in StateFile
  BY DEF IsView, Children

LEMMA ActiveIsChild ==
  ASSUME NEW v
  PROVE  Active(v) \subseteq Children(v) /\ Required(v) \subseteq Children(v)
  BY DEF Active, Required, Unparked

(* Freshest is the newest of the dates, and stays so when the root has it.  *)
LEMMA Dates ==
  ASSUME NEW v, IsView(v), Rolls(v)
  PROVE  /\ Freshest(v) \in 0..LastDay
         /\ v.root.date <= Freshest(v)
         /\ \A p \in Active(v) : v.files[p].date <= Freshest(v)
<1> DEFINE D == {v.root.date} \cup {v.files[p].date : p \in Active(v)}
<1>1. v.root.date \in 0..LastDay
  BY DEF IsView, Rolls, RootFile
<1>2. \A p \in Active(v) : v.files[p].date \in 0..LastDay
  BY ActiveIsChild, ChildFile DEF StateFile
<1>3. D \subseteq 0..LastDay /\ D # {}
  BY <1>1, <1>2
<1>4. Newest(D) \in D /\ \A d \in D : d <= Newest(D)
  <2> HIDE DEF D
  <2> QED  BY <1>3, Maximum
<1>5. Freshest(v) = Newest(D)
  BY DEF Freshest
<1> QED  BY <1>3, <1>4, <1>5

LEMMA FreshestIsOne ==
  ASSUME NEW v, IsView(v), Rolls(v)
  PROVE  Freshest(v) \in {v.root.date} \cup {v.files[p].date : p \in Active(v)}
<1> DEFINE D == {v.root.date} \cup {v.files[p].date : p \in Active(v)}
<1>1. D \subseteq 0..LastDay /\ D # {}
  BY ActiveIsChild, ChildFile DEF StateFile, IsView, Rolls, RootFile
<1>2. Newest(D) \in D
  <2> HIDE DEF D
  <2> QED  BY <1>1, Maximum
<1> QED  BY <1>2 DEF Freshest

LEMMA FreshestIsStable ==
  ASSUME NEW v, IsView(v), Rolls(v)
  PROVE  Freshest(Applied(v)) = Freshest(v)
<1> DEFINE f == Freshest(v)
           E == {f} \cup {v.files[p].date : p \in Active(v)}
<1>1. f \in 0..LastDay /\ \A p \in Active(v) : v.files[p].date <= f
  BY Dates
<1>2. \A p \in Active(v) : v.files[p].date \in 0..LastDay
  BY ActiveIsChild, ChildFile DEF StateFile
<1>3. E \subseteq 0..LastDay /\ E # {} /\ f \in E /\ \A e \in E : e <= f
  <2> HIDE DEF f
  <2> QED  BY <1>1, <1>2
<1>4. Newest(E) = f
  <2>1. Newest(E) \in E /\ \A e \in E : e <= Newest(E)
    <3> HIDE DEF E, f
    <3> QED  BY <1>3, Maximum
  <2> HIDE DEF E, f
  <2>2. Newest(E) <= f /\ f <= Newest(E) /\ Newest(E) \in 0..LastDay /\ f \in 0..LastDay
    BY <1>3, <2>1
  <2> QED  BY <2>2
<1>5. Freshest(Applied(v)) = Newest(E)
  <2>1. Applied(v).root.date = f
    <3>1. Applied(v).root = Proposed(v)
      BY AppliedView
    <3>2. Proposed(v).date = f
      BY DEF Proposed
    <3> QED  BY <3>1, <3>2
  <2>2. Active(Applied(v)) = Active(v) /\ Applied(v).files = v.files
    BY AppliedView, SameWorkstreams
  <2> QED  BY <2>1, <2>2 DEF Freshest
<1> QED  BY <1>4, <1>5

(* The engine has no change to make of a root that it has proposed.         *)
LEMMA ProposalIsStable ==
  ASSUME NEW v, IsView(v), Rolls(v)
  PROVE  Changes(Applied(v)) = {}
<1> DEFINE w == Applied(v)
<1>1. /\ w.map = v.map /\ w.files = v.files /\ w.root = Proposed(v)
      /\ Children(w) = Children(v) /\ Active(w) = Active(v) /\ Narrated(w) = Narrated(v)
  BY AppliedView, SameWorkstreams
<1>2. /\ Proposed(v).tolerant = (v.root.tolerant \/ Active(v) # Children(v))
      /\ Proposed(v).status = Narrative(v)
  BY DEF Proposed
<1>3. Narrative(w) = Narrative(v)
  BY <1>1, <1>2 DEF Narrative
<1>4. Freshest(w) = Freshest(v)
  BY FreshestIsStable
<1>5. (w.root.tolerant \/ Active(w) # Children(w)) = (v.root.tolerant \/ Active(v) # Children(v))
  BY <1>1, <1>2
<1>6. Proposed(w) = Proposed(v)
  <2>1. /\ Proposed(v).date = Freshest(v) /\ Proposed(v).sync = v.root.sync
        /\ Proposed(v).flaws = v.root.flaws
    BY DEF Proposed
  <2> HIDE DEF w
  <2>2. (IF Freshest(w) = w.root.date THEN w.root.form ELSE "string") = Proposed(v).form
    BY <1>1, <1>4, <2>1
  <2>3. Workstreams(w) = Workstreams(v)
    BY <1>1 DEF Workstreams
  <2>4. Proposed(v).form = (IF Freshest(v) = v.root.date THEN v.root.form ELSE "string")
    BY DEF Proposed
  <2> QED  BY <1>1, <1>3, <1>4, <1>5, <2>1, <2>2, <2>3, <2>4 DEF Proposed
<1>7. \A f \in Fields : Proposed(w)[f] = w.root[f]
  BY <1>1, <1>6
<1> QED  BY <1>7 DEF Changes

(* What is proposed is a root.                                              *)
LEMMA ProposalIsRoot ==
  ASSUME NEW v, IsView(v), Rolls(v)
  PROVE  Proposed(v) \in RootFile
<1>1. v.root \in RootFile /\ Workstreams(v) \subseteq Paths
  BY DEF IsView, Rolls, MapsOver, Workstreams
<1>2. Active(v) \subseteq Paths
  BY <1>1, ActiveIsChild DEF Children
<1>3. Narrative(v) \in Statuses \cup {None}
  <2>1. CASE Narrated(v) = {}
    BY <1>1, <2>1 DEF Narrative, RootFile
  <2>2. CASE Narrated(v) # {}
    <3>1. PICK p : p = (CHOOSE q \in Narrated(v) : TRUE) /\ p \in Narrated(v)
      BY <2>2
    <3>2. p \in Children(v)
      BY <3>1, ActiveIsChild DEF Narrated
    <3>3. v.files[p].status \in Statuses \cup {None}
      BY <3>2, ChildFile DEF StateFile
    <3> QED  BY <2>2, <3>1, <3>3 DEF Narrative
  <2> QED  BY <2>1, <2>2
<1>4. Freshest(v) \in 0..LastDay
  BY Dates
<1>5. (v.root.tolerant \/ Active(v) # Children(v)) \in BOOLEAN
  BY <1>1 DEF RootFile
<1>6. (IF Freshest(v) = v.root.date THEN v.root.form ELSE "string") \in Forms
  BY <1>1 DEF RootFile, Forms
<1> QED  BY <1>1, <1>2, <1>3, <1>4, <1>5, <1>6 DEF Proposed, RootFile

(* Every finding that is left has to do with a disputed workstream, or is a *)
(* status conflict.                                                         *)
LEMMA FindingsAreAnswered ==
  ASSUME NEW v, IsView(v), Rolls(v), NEW code \in Findings(Applied(v))
  PROVE  code \in Disputable(v) \cup {Conflict}
<1> DEFINE w == Applied(v)
<1>1. /\ w.map = v.map /\ w.files = v.files /\ w.root = Proposed(v)
      /\ Active(w) = Active(v) /\ Required(w) = Required(v)
  BY AppliedView, SameWorkstreams
<1>2. /\ w.root.scope = "project_rollup"
      /\ w.root.declared = Workstreams(v)
      /\ w.root.sources = Active(v)
      /\ w.root.date = Freshest(v)
  BY <1>1 DEF Proposed
<1>3. Holds(w, code) /\ code \in DOMAIN About
  BY DEF Findings
<1>4. Active(v) \subseteq Workstreams(v) /\ Workstreams(w) = Workstreams(v)
  BY <1>1, ActiveIsChild DEF Children, Workstreams
<1>5. CASE Disputed(v) = {}
  <2>1. Required(v) \subseteq Active(v)
    BY <1>5 DEF Disputed
  <2>2. \A p \in Required(v) : ~(v.files[p].date > Freshest(v))
    <3> TAKE p \in Required(v)
    <3>1. v.files[p].date <= Freshest(v) /\ Freshest(v) \in 0..LastDay
      BY <2>1, Dates
    <3>2. v.files[p].date \in 0..LastDay
      BY ActiveIsChild, ChildFile DEF StateFile
    <3> QED  BY <3>1, <3>2
  <2> HIDE DEF w
  <2>3. code = Conflict
    BY <1>1, <1>2, <1>3, <1>4, <2>1, <2>2 DEF Holds, About, Conflict
  <2> QED  BY <2>3
<1>6. CASE Disputed(v) # {}
  <2> HIDE DEF w
  <2>1. code \in {"rollup_missing_active_source", "rollup_outdated", Conflict}
    BY <1>1, <1>2, <1>3, <1>4 DEF Holds, About, Conflict
  <2> QED  BY <1>6, <2>1 DEF Disputable
<1> QED  BY <1>5, <1>6

(* A conflict after the changes was there before, and needs a synthesis:    *)
(* when one workstream alone blocks, the root gets its status.              *)
LEMMA ConflictIsKnown ==
  ASSUME NEW v, IsView(v), Rolls(v), Conflict \in Findings(Applied(v))
  PROVE  Manual(v) /\ Conflict \in Findings(v)
<1> DEFINE w == Applied(v)
<1>1. /\ w.files = v.files /\ w.root = Proposed(v) /\ Required(w) = Required(v)
  BY AppliedView, SameWorkstreams
<1>2. Holds(w, Conflict)
  BY DEF Findings
<1>3. w.root.status = Narrative(v)
  BY <1>1 DEF Proposed
<1>4. PICK p \in Required(v) : v.files[p].status = "active" /\ Narrative(v) \in TerminalStatuses
  BY <1>1, <1>2, <1>3 DEF Holds, Conflict
<1>5. v.files[p].status # None
  BY <1>4, RollupAssumption
<1>6. p \in Active(v)
  BY <1>4, <1>5 DEF Required, Active, Unparked, Status, NonBlockingStatuses, FutureStatuses
<1>7. Active(v) # {p}
  <2> SUFFICES ASSUME Active(v) = {p} PROVE FALSE
    OBVIOUS
  <2>1. Narrated(v) = {p}
    BY <1>5 DEF Narrated
  <2>2. Narrative(v) = v.files[p].status
    BY <2>1 DEF Narrative
  <2> QED  BY <1>4, <2>2 DEF TerminalStatuses
<1>8. Manual(v) /\ Narrated(v) = {}
  BY <1>6, <1>7 DEF Manual, Narrated
<1>9. v.root.status \in TerminalStatuses
  BY <1>4, <1>8 DEF Narrative
<1>10. Holds(v, Conflict) /\ Conflict \in DOMAIN About
  BY <1>4, <1>9 DEF Holds, Conflict, About
<1> QED  BY <1>8, <1>10 DEF Findings

(* A rollup proposal settles the project it was made for.                   *)
THEOREM EveryProposalSettles ==
  ASSUME NEW v, IsView(v)
  PROVE  Settles(v)
  BY ProposalIsStable, FindingsAreAnswered, ConflictIsKnown DEF Settles

(* A finding is about a field that the proposal changes: if it were not,    *)
(* the finding would still be there when the changes are made.              *)
LEMMA FindingIsAddressed ==
  ASSUME NEW v, IsView(v), NEW code \in Findings(v) \ Disputable(v)
  PROVE  code = Conflict \/ About[code] \in Changes(v)
<1> SUFFICES ASSUME code # Conflict, About[code] \notin Changes(v)
             PROVE  FALSE
  OBVIOUS
<1> DEFINE w == Applied(v)
<1>1. Rolls(v) /\ code \in DOMAIN About /\ Holds(v, code)
  BY DEF Findings
<1>2. About[code] \in Fields /\ Proposed(v)[About[code]] = v.root[About[code]]
  BY <1>1 DEF Changes, About, Fields
<1>3. /\ w.map = v.map /\ w.files = v.files /\ w.root = Proposed(v)
      /\ Children(w) = Children(v) /\ Required(w) = Required(v)
      /\ Workstreams(w) = Workstreams(v)
  BY AppliedView, SameWorkstreams DEF Workstreams
<1>4. w.root # Failed
  BY <1>3, ProposalIsRoot, <1>1, RollupAssumption
<1>5. Holds(w, code)
  <2>1. /\ About[code] = "scope" => w.root.scope = v.root.scope
        /\ About[code] = "declared" => w.root.declared = v.root.declared
        /\ About[code] = "sources" => w.root.sources = v.root.sources
        /\ About[code] = "date" => w.root.date = v.root.date
    <3> HIDE DEF w
    <3>1. w.root = Proposed(v) /\ Proposed(v)[About[code]] = v.root[About[code]]
      BY <1>2, <1>3
    <3>2. /\ v.root.scope = v.root["scope"] /\ w.root.scope = w.root["scope"]
          /\ v.root.declared = v.root["declared"] /\ w.root.declared = w.root["declared"]
          /\ v.root.sources = v.root["sources"] /\ w.root.sources = w.root["sources"]
          /\ v.root.date = v.root["date"] /\ w.root.date = w.root["date"]
      OBVIOUS
    <3> QED  BY <3>1, <3>2
  <2> HIDE DEF w
  <2>2. CASE code = "multi_workstream_root_not_rollup"
    BY <1>1, <2>1, <2>2 DEF Holds, About
  <2>3. CASE code = "rollup_missing_workstream_declaration"
    BY <1>1, <1>3, <2>1, <2>3 DEF Holds, About
  <2>4. CASE code = "rollup_declares_unknown_workstream"
    BY <1>1, <1>3, <2>1, <2>4 DEF Holds, About
  <2>5. CASE code = "rollup_missing_active_source"
    BY <1>1, <1>3, <2>1, <2>5 DEF Holds, About
  <2>6. CASE code = "rollup_generated_from_unknown_source"
    BY <1>1, <1>3, <2>1, <2>6 DEF Holds, About
  <2>7. CASE code = "rollup_outdated"
    BY <1>1, <1>3, <2>1, <2>7 DEF Holds, About
  <2> QED  BY <1>1, <2>2, <2>3, <2>4, <2>5, <2>6, <2>7 DEF About, Conflict
<1>6. code \in Findings(w)
  <2> HIDE DEF w
  <2> QED  BY <1>1, <1>3, <1>4, <1>5 DEF Findings, Rolls
<1> QED  BY <1>1, <1>6, FindingsAreAnswered

-----------------------------------------------------------------------------
(* The codes of a report; what of it is about the rollup is the integrity   *)
(* checker's.                                                               *)
LEMMA ReportCodes ==
  ASSUME NEW v
  PROVE  /\ Report(v) \subseteq Codes
         /\ Report(v) \cap DOMAIN About \subseteq Findings(v)
<1>1. Findings(v) \subseteq DOMAIN About
  BY DEF Findings
<1>2. /\ UNION {Notes(d[1], d[2]) : d \in Documents(v)} \subseteq RecordCodes
      /\ RecordCodes \subseteq Codes
  BY DEF Notes, Codes
<1>3. ScopeNotes(v) \subseteq {"state_scope_mismatch", "state_scope_unexpected"}
  BY DEF ScopeNotes
<1>4. {code \in {"rollup_sync_conflict"} : SyncConflict(v)} \subseteq {"rollup_sync_conflict"}
  OBVIOUS
<1>5. {"state_scope_mismatch", "state_scope_unexpected", "rollup_sync_conflict"} \subseteq Codes
  BY DEF Codes, RecordCodes, SchemaCodes
<1>6. DOMAIN About \cap (RecordCodes \cup {"state_scope_unexpected", "rollup_sync_conflict"}) = {}
  BY DEF About, RecordCodes, SchemaCodes
<1>7. "state_scope_mismatch" \in RecordCodes /\ DOMAIN About \subseteq Codes
  BY DEF RecordCodes, SchemaCodes, Codes
<1> HIDE DEF Report
<1> QED  BY <1>1, <1>2, <1>3, <1>4, <1>5, <1>6, <1>7 DEF Report

(* The codes of a record that are held for what its sections look like.     *)
LEMMA SectionNotes ==
  ASSUME NEW f, NEW e
  PROVE  /\ {"null", "scalar", "untyped"} \cap Sections(f) # {}
              => "state_field_type_invalid" \in Notes(f, e)
         /\ "absent" \in Sections(f) => "state_required_field_missing" \in Notes(f, e)
         /\ "missing" \in Sections(f) => "state_nested_field_missing" \in Notes(f, e)
         /\ f.form = "text" => "verification_date_invalid" \in Notes(f, e)
  BY DEF Notes, Held, RecordCodes, SchemaCodes, Written

LEMMA RecordNotes ==
  ASSUME NEW f, NEW e
  PROVE  /\ "state_not_synced" \in Notes(f, e) <=> Blocks(e) /\ f.sync # "synced"
         /\ "verification_date_missing" \in Notes(f, e) <=> Blocks(e) /\ Blank(f)
         /\ "verification_date_in_future" \in Notes(f, e) <=> Aged(f, e) /\ f.date > Today
         /\ "state_stale_by_policy" \in Notes(f, e) <=> Aged(f, e) /\ Age(f) > Threshold(e)
  BY DEF Notes, Held, RecordCodes, Stale

LEMMA DocumentTypes ==
  ASSUME NEW v, IsView(v), NEW d \in Documents(v)
  PROVE  /\ d[1].form \in Forms /\ d[1].date \in 0..LastDay
         /\ d[2] \in MapEntry
<1>1. PICK ps \in SUBSET Paths : v.map \in MapsOver(ps)
  BY DEF IsView
<1>2. ASSUME NEW p \in Children(v), d = <<v.files[p], v.map.streams[p]>>
      PROVE  d[1] \in StateFile /\ d[2] \in MapEntry
  BY <1>1, <1>2, ChildFile DEF MapsOver, Children, Workstreams
<1>3. ASSUME v.root # Failed, d = <<v.root, v.map.top>>
      PROVE  d[1] \in RootFile /\ d[2] \in MapEntry
  BY <1>1, <1>3 DEF MapsOver, IsView
<1> QED  BY <1>2, <1>3 DEF Documents, StateFile, RootFile

(* Where nothing is reported, there is nothing wrong but what no class      *)
(* looks at.                                                                *)
THEOREM NothingReportedIsSound ==
  ASSUME NEW v, IsView(v)
  PROVE  Sound(v)
<1> SUFFICES ASSUME Report(v) = {}, NEW d \in Documents(v)
             PROVE  /\ ~Raises(d[1])
                    /\ Blocks(d[2]) => d[1].sync = "synced" /\ ~Blank(d[1])
                    /\ Current(d[1], d[2]) \/ Overlooked(d[1], d[2])
  BY DEF Sound
<1> DEFINE f == d[1]
           e == d[2]
<1>1. Notes(f, e) = {}
  BY DEF Report
<1>2. f.form \in Forms /\ f.date \in 0..LastDay /\ e \in MapEntry
  BY DocumentTypes
<1> HIDE DEF f, e
<1>3. /\ {"null", "scalar", "untyped"} \cap Sections(f) = {}
      /\ "absent" \notin Sections(f) /\ "missing" \notin Sections(f) /\ f.form # "text"
  BY <1>1, SectionNotes
<1>4. ~Raises(f) /\ f.form = "string"
  BY <1>2, <1>3 DEF Sections, Raises, Forms, NoSection
<1>5. Blocks(e) => f.sync = "synced" /\ ~Blank(f)
  BY <1>1, RecordNotes
<1>6. Current(f, e) \/ Overlooked(f, e)
  <2>1. CASE f.date = 0
    BY <1>4, <1>5, <2>1 DEF Current, Overlooked, Blank
  <2>2. CASE f.date # 0
    <3> SUFFICES ASSUME Aging(f), Threshold(e) # None
                 PROVE  f.date <= Today /\ Age(f) <= Threshold(e)
      BY <2>2 DEF Current
    <3>1. Aged(f, e)
      BY <1>4, <2>2 DEF Aged
    <3>2. ~(f.date > Today) /\ ~(Age(f) > Threshold(e))
      BY <1>1, <3>1, RecordNotes
    <3>3. Threshold(e) \in Int
      BY <1>2, RollupAssumption DEF Threshold, MaxAgeDays, MapEntry, AttentionDays, DefaultDays
    <3>4. Age(f) \in Int /\ f.date \in Int /\ Today \in Int
      BY <1>2, RollupAssumption, TodayAssumption DEF Age
    <3> QED  BY <3>2, <3>3, <3>4
  <2> QED  BY <2>1, <2>2
<1> QED  BY <1>4, <1>5, <1>6 DEF f, e

(* The codes of a root that a proposal can bring, and those it cannot: the  *)
(* fields that these are about are left alone, or get better.               *)
LEMMA OtherNotes ==
  ASSUME NEW f, NEW e, NEW code \in Notes(f, e),
         code \notin {"state_needs_refresh", "map_marks_state_non_current",
                      "freshness_override_invalid"} \cup AgeCodes
  PROVE  \A g : /\ g.sync = f.sync /\ g.flaws = f.flaws
                /\ g.status = None \/ f.status # None
                /\ (f.form = g.form /\ f.date = g.date) \/ (f.form = "string" /\ f.date # 0)
                => code \in Notes(g, e)
<1> SUFFICES ASSUME NEW g, g.sync = f.sync, g.flaws = f.flaws,
                    g.status = None \/ f.status # None,
                    (f.form = g.form /\ f.date = g.date) \/ (f.form = "string" /\ f.date # 0)
             PROVE  code \in Notes(g, e)
  OBVIOUS
<1>1. code \in RecordCodes /\ Held(f, e, code)
  BY DEF Notes
<1>2. CASE code \in {"state_not_synced", "sync_status_unknown"}
  BY <1>1, <1>2 DEF Notes, Held
<1>3. CASE code \in {"verification_date_missing", "verification_date_invalid"}
  BY <1>1, <1>3 DEF Notes, Held, Blank
<1>4. CASE code \in SchemaCodes
  <2>1. code \in f.flaws \cup Written(f)
    BY <1>1, <1>4 DEF Held, SchemaCodes
  <2>2. "string" \notin {"null", "scalar", "untyped", "absent", "missing"}
    OBVIOUS
  <2>3. code \in g.flaws \cup Written(g)
    BY <2>1, <2>2 DEF Written, Sections
  <2> QED  BY <1>1, <1>4, <2>3 DEF Notes, Held, SchemaCodes
<1> QED  BY <1>1, <1>2, <1>3, <1>4 DEF RecordCodes, AgeCodes

(* What a proposal brings on the root is held against a workstream that it  *)
(* is made from.                                                            *)
THEOREM ProposalIsNoWorse ==
  ASSUME NEW v, IsView(v), \A p \in Children(v) : Dated(v.files[p])
  PROVE  BringsNothingNew(v)
<1> SUFFICES ASSUME Rolls(v), NEW code \in Brought(v) PROVE code \in Known(v)
  BY DEF BringsNothingNew
<1> DEFINE e == v.map.top
           f == Proposed(v)
           g == v.root
<1>1. code \in Notes(f, e) /\ code \notin Notes(g, e) /\ code \in RecordCodes
  BY DEF Brought, Notes
<1>2. /\ f.sync = g.sync /\ f.flaws = g.flaws /\ f.status = Narrative(v)
      /\ f.date = Freshest(v)
      /\ f.form = IF Freshest(v) = g.date THEN g.form ELSE "string"
  BY DEF Proposed
<1>3. f.date \in 0..LastDay /\ g.date \in 0..LastDay /\ g.date <= f.date /\ LastDay \in Nat
  BY <1>2, Dates, RollupAssumption DEF IsView, Rolls, RootFile
<1>4. (f.form = g.form /\ f.date = g.date) \/ (f.form = "string" /\ f.date # 0)
  <2> HIDE DEF f, g
  <2>1. CASE f.date = g.date
    BY <1>2, <2>1
  <2>2. CASE f.date # g.date
    <3>1. f.date # 0
      BY <1>3, <2>2
    <3> QED  BY <1>2, <2>2, <3>1
  <2> QED  BY <2>1, <2>2
<1>5. f.status = g.status \/ \E p \in Active(v) : f.status = v.files[p].status /\ f.status # None
  <2>1. CASE Narrated(v) = {}
    BY <1>2, <2>1 DEF Narrative
  <2>2. CASE Narrated(v) # {}
    <3>1. PICK p : p = (CHOOSE q \in Narrated(v) : TRUE) /\ p \in Narrated(v)
      BY <2>2
    <3> QED  BY <1>2, <2>2, <3>1 DEF Narrative, Narrated
  <2> QED  BY <2>1, <2>2
<1>6. \A p \in Active(v) : Notes(v.files[p], e) \subseteq Known(v)
  BY DEF Known
<1> HIDE DEF e, f, g
<1>7. CASE code \notin {"state_needs_refresh", "map_marks_state_non_current",
                       "freshness_override_invalid"} \cup AgeCodes
  BY <1>1, <1>2, <1>4, <1>5, <1>7, OtherNotes
<1>8. CASE code \in {"state_needs_refresh", "map_marks_state_non_current",
                    "freshness_override_invalid"}
  <2>1. \A h : h.status = f.status => code \in Notes(h, e)
    BY <1>1, <1>8 DEF Notes, Held, Aging
  <2> QED  BY <1>1, <1>5, <1>6, <2>1
<1>9. CASE code \in AgeCodes
  <2> SUFFICES ASSUME Aging(g), \A p \in Active(v) : v.files[p].form # "untyped"
               PROVE  code \in Known(v)
    <3>1. code \in Unasked(v) => code \in Known(v)
      BY DEF Known
    <3> QED  BY <1>9, <3>1 DEF Unasked, g
  <2>1. Aged(f, e) /\ f.date # 0
    BY <1>1, <1>9, RecordNotes DEF AgeCodes, Aged
  <2>2. f.form # g.form \/ f.date # g.date
    <3> SUFFICES ASSUME f.form = g.form, f.date = g.date PROVE FALSE
      OBVIOUS
    <3>1. Aged(g, e) /\ Age(g) = Age(f)
      BY <2>1 DEF Aged, Age
    <3> QED  BY <1>1, <1>9, <2>1, <3>1, RecordNotes DEF AgeCodes
  <2>3. PICK p \in Active(v) : v.files[p].date = f.date
    <3>1. f.date # g.date
      BY <1>2, <2>2
    <3>2. Freshest(v) \in {v.root.date} \cup {v.files[p].date : p \in Active(v)}
      BY FreshestIsOne
    <3> QED  BY <1>2, <3>1, <3>2 DEF g
  <2> DEFINE h == v.files[p]
  <2>4. h.form = "string"
    BY <2>1, <2>3, ActiveIsChild DEF Dated
  <2>5. Aging(h)
    BY <2>3, RollupAssumption DEF Active, Status, Aging, NonFreshStatuses
  <2> HIDE DEF h
  <2>6. Aged(h, e) /\ h.date = f.date /\ Age(h) = Age(f)
    BY <2>1, <2>3, <2>4, <2>5 DEF Aged, Age, h
  <2>7. code \in Notes(h, e)
    BY <1>1, <1>9, <2>6, RecordNotes DEF AgeCodes
  <2> QED  BY <1>6, <2>7 DEF h
<1> QED  BY <1>7, <1>8, <1>9

-----------------------------------------------------------------------------
(* The invariant of the jobs: at most one is at work, on a run later than   *)
(* the one of latest.json; from the checks on it has read everything, and   *)
(* what it found and proposes is of that.                                   *)
Alone == \A j, k \in Jobs : at[j] # "off" /\ at[k] # "off" => j = k

Numbered ==
    /\ \A j \in Jobs : at[j] # "off" =>
         /\ run[j] \in 1..runs
         /\ latest # None => latest.run < run[j]
    /\ latest # None => latest.run <= runs

Concluded ==
    \A j \in Jobs :
        /\ at[j] \in {"concluded", "written"} => status[j] \in Outcomes
        /\ at[j] = "written" => results[run[j]] = status[j]

OneView ==
    \A j \in Jobs :
        /\ at[j] \in {"proposing", "collected"} =>
             /\ Whole(j)
             /\ findings[j] = Found(j)
        /\ at[j] = "collected" =>
             changes[j] = IF Mapped(j) THEN Changes(cache[j]) ELSE {}

Inv == TypeOK /\ Alone /\ Numbered /\ Concluded /\ OneView

(* What has been read as a whole, without a map that failed, is a view.     *)
LEMMA WholeIsView ==
  ASSUME TypeOK, NEW j \in Jobs, Whole(j), Mapped(j)
  PROVE  /\ IsView(cache[j])
         /\ \A p \in Children(cache[j]) : Dated(cache[j].files[p])
<1>1. cache[j] \in [map   : Maps \cup {NotRead, Failed, NoList},
                   root  : Roots \cup {NotRead, Failed},
                   files : [Paths -> Files \cup {NotRead, Failed}]]
  BY DEF TypeOK, Views
<1>2. PICK ps \in SUBSET Paths : cache[j].map \in MapsOver(ps)
  BY RuntimeAssumption DEF Mapped
<1>3. cache[j].root \in RootFile \cup {Failed}
  BY <1>1, RuntimeAssumption DEF Whole
<1>4. Workstreams(cache[j]) \subseteq Paths
  BY <1>2 DEF MapsOver, Workstreams
<1>6. \A p \in Workstreams(cache[j]) :
        cache[j].files[p] \in Files \cup {Failed} /\ cache[j].files[p] \in StateFile \cup {Failed}
  BY <1>1, <1>4, RuntimeAssumption DEF Whole, Unread
<1>5. cache[j] = [map |-> cache[j].map, root |-> cache[j].root, files |-> cache[j].files]
  BY <1>1
<1>7. \A p \in Children(cache[j]) : Dated(cache[j].files[p])
  BY <1>6, RuntimeAssumption DEF Children, Dated
<1> QED  BY <1>2, <1>3, <1>5, <1>6, <1>7 DEF IsView

LEMMA InitInv == Init => Inv
<1> SUFFICES ASSUME Init PROVE Inv
  OBVIOUS
<1>1. TypeOK
  BY RuntimeAssumption DEF Init, TypeOK, Views, Empty, Runs
<1>2. Alone /\ Numbered /\ Concluded /\ OneView
  BY DEF Init, Alone, Numbered, Concluded, OneView
<1> QED  BY <1>1, <1>2 DEF Inv

(* A job at work has a run that was started.                                *)
LEMMA RunOfJob ==
  ASSUME TypeOK, Numbered, NEW j \in Jobs, at[j] # "off"
  PROVE  run[j] \in Runs /\ run[j] <= runs
<1>1. runs \in 0..MaxRuns
  BY DEF TypeOK
<1>2. run[j] \in 1..runs
  BY DEF Numbered
<1> QED  BY <1>1, <1>2, RuntimeAssumption DEF Runs

LEMMA TypePreserved == TypeOK /\ Numbered /\ Concluded /\ [Next]_vars => TypeOK'
<1> SUFFICES ASSUME TypeOK, Numbered, Concluded, [Next]_vars PROVE TypeOK'
  OBVIOUS
<1> USE RuntimeAssumption
<1>0. Empty \in Views
  BY DEF Empty, Views
<1>1. ASSUME NEW j \in Jobs, Start(j) PROVE TypeOK'
  BY <1>1 DEF TypeOK, Start
<1>2. ASSUME NEW j \in Jobs, NEW o \in Outcomes, Conclude(j, o) PROVE TypeOK'
  BY <1>0, <1>2 DEF TypeOK, Conclude, Forget
<1>3. ASSUME NEW j \in Jobs, Fetch(j) PROVE TypeOK'
  <2>0. cache \in [Jobs -> Views] /\ cache[j] \in Views
    BY DEF TypeOK
  <2>1. cache' \in [Jobs -> Views]
    <3>1. CASE \E m \in Maps \cup {Failed, NoList} : cache' = [cache EXCEPT ![j].map = m]
      <4>1. PICK m \in Maps \cup {Failed, NoList} : cache' = [cache EXCEPT ![j] = [cache[j] EXCEPT !.map = m]]
        BY <3>1
      <4>2. [cache[j] EXCEPT !.map = m] \in Views
        BY <2>0 DEF Views
      <4> QED  BY <2>0, <4>1, <4>2
    <3>2. CASE \E r \in Roots \cup {Failed} : cache' = [cache EXCEPT ![j].root = r]
      <4>1. PICK r \in Roots \cup {Failed} : cache' = [cache EXCEPT ![j] = [cache[j] EXCEPT !.root = r]]
        BY <3>2
      <4>2. [cache[j] EXCEPT !.root = r] \in Views
        BY <2>0 DEF Views
      <4> QED  BY <2>0, <4>1, <4>2
    <3>3. CASE \E p \in Unread(j), f \in Files \cup {Failed} :
                 cache' = [cache EXCEPT ![j].files[p] = f]
      <4>1. PICK p \in Unread(j), f \in Files \cup {Failed} :
              cache' = [cache EXCEPT ![j] = [cache[j] EXCEPT !.files = [cache[j].files EXCEPT ![p] = f]]]
        BY <3>3
      <4>2. [cache[j].files EXCEPT ![p] = f] \in [Paths -> Files \cup {NotRead, Failed}]
        BY <2>0 DEF Views
      <4>3. [cache[j] EXCEPT !.files = [cache[j].files EXCEPT ![p] = f]] \in Views
        BY <2>0, <4>2 DEF Views
      <4> QED  BY <2>0, <4>1, <4>3
    <3> QED  BY <1>3, <3>1, <3>2, <3>3 DEF Fetch
  <2> QED  BY <1>3, <2>1 DEF TypeOK, Fetch
<1>4. ASSUME NEW j \in Jobs, Check(j) PROVE TypeOK'
  <2>1. Found(j) \in SUBSET Codes
    BY ReportCodes DEF Found, Codes
  <2> QED  BY <1>4, <2>1 DEF TypeOK, Check
<1>5. ASSUME NEW j \in Jobs, Propose(j) PROVE TypeOK'
  <2>1. (IF Mapped(j) THEN Changes(cache[j]) ELSE {}) \in SUBSET Fields
    BY DEF Changes
  <2> QED  BY <1>5, <2>1 DEF TypeOK, Propose
<1>6. ASSUME NEW j \in Jobs, WriteResult(j) PROVE TypeOK'
  BY <1>6 DEF TypeOK, WriteResult, Concluded
<1>7. ASSUME NEW j \in Jobs, End(j) PROVE latest' \in [run : Runs, status : Outcomes] \cup {None} => TypeOK'
  BY <1>0, <1>7 DEF TypeOK, End, Forget
<1>8. ASSUME NEW j \in Jobs, WriteLatest(j) PROVE TypeOK'
  <2>1. run[j] \in Runs
    BY <1>8, RunOfJob DEF WriteLatest
  <2>2. status[j] \in Outcomes
    BY <1>8 DEF WriteLatest, Concluded
  <2> QED  BY <1>7, <1>8, <2>1, <2>2 DEF WriteLatest
<1>9. ASSUME NEW j \in Jobs, Dies(j) PROVE TypeOK'
  BY <1>7, <1>9 DEF Dies, TypeOK
<1>10. CASE UNCHANGED vars
  BY <1>10 DEF TypeOK, vars, job
<1> QED
  BY <1>1, <1>2, <1>3, <1>4, <1>5, <1>6, <1>8, <1>9, <1>10
  DEF Next, NoCredential, Raise, Classify, Fails, Outcomes

LEMMA AlonePreserved == TypeOK /\ Alone /\ [Next]_vars => Alone'
<1> SUFFICES ASSUME TypeOK, Alone, [Next]_vars PROVE Alone'
  OBVIOUS
<1>1. ASSUME NEW j \in Jobs, Start(j) PROVE Alone'
  BY <1>1 DEF TypeOK, Alone, Start, Locked
<1>2. ASSUME NEW j \in Jobs, at[j] # "off",
             \A k \in Jobs \ {j} : at'[k] = at[k]
      PROVE  Alone'
  BY <1>2 DEF Alone
<1>3. CASE UNCHANGED vars
  BY <1>3 DEF Alone, vars, job
<1> QED
  BY <1>1, <1>2, <1>3 DEF Next, NoCredential, Fetch, Raise, Check, Propose, Classify, Fails,
     Conclude, WriteResult, WriteLatest, Dies, End, TypeOK

LEMMA NumberedPreserved == Inv /\ [Next]_vars => Numbered'
<1> SUFFICES ASSUME Inv, [Next]_vars PROVE Numbered'
  OBVIOUS
<1> USE DEF Inv
<1>0. /\ runs \in Nat /\ \A j \in Jobs : run[j] \in Nat
      /\ latest # None => latest.run \in Nat
  BY RuntimeAssumption DEF TypeOK, Runs
<1>1. ASSUME NEW j \in Jobs, Start(j) PROVE Numbered'
  BY <1>0, <1>1 DEF TypeOK, Numbered, Start
<1>2. ASSUME NEW j \in Jobs, at[j] # "off", UNCHANGED <<run, runs, latest>>,
             \A k \in Jobs \ {j} : at'[k] = at[k]
      PROVE  Numbered'
  BY <1>2 DEF Numbered
<1>3. ASSUME NEW j \in Jobs, at[j] # "off", End(j), UNCHANGED latest PROVE Numbered'
  BY <1>3 DEF TypeOK, Numbered, End
<1>4. ASSUME NEW j \in Jobs, WriteLatest(j) PROVE Numbered'
  <2>1. \A k \in Jobs : at'[k] = "off"
    BY <1>4 DEF Alone, WriteLatest, End, TypeOK
  <2>2. latest'.run = run[j] /\ run[j] <= runs /\ runs' = runs
    BY <1>4, RunOfJob DEF WriteLatest, End
  <2> QED  BY <2>1, <2>2 DEF Numbered
<1>5. CASE UNCHANGED vars
  BY <1>5 DEF Numbered, vars, job
<1> QED
  BY <1>1, <1>2, <1>3, <1>4, <1>5 DEF Next, NoCredential, Fetch, Raise, Check, Propose, Classify,
     Fails, Conclude, WriteResult, Dies, TypeOK

LEMMA ConcludedPreserved == Inv /\ [Next]_vars => Concluded'
<1> SUFFICES ASSUME Inv, [Next]_vars PROVE Concluded'
  OBVIOUS
<1> USE DEF Inv
<1>1. ASSUME NEW j \in Jobs, NEW o \in Outcomes, at[j] # "off", Conclude(j, o) PROVE Concluded'
  BY <1>1 DEF TypeOK, Concluded, Conclude
<1>2. ASSUME NEW j \in Jobs, WriteResult(j) PROVE Concluded'
  <2>1. \A k \in Jobs \ {j} : at'[k] = "off"
    BY <1>2 DEF Alone, WriteResult, TypeOK
  <2>2. run[j] \in Runs
    BY <1>2, RunOfJob DEF WriteResult
  <2>3. results'[run'[j]] = status'[j] /\ status'[j] \in Outcomes
    BY <1>2, <2>2 DEF WriteResult, Concluded, TypeOK
  <2> QED  BY <2>1, <2>3 DEF Concluded
<1>3. ASSUME NEW j \in Jobs, at'[j] \notin {"concluded", "written"},
             UNCHANGED results,
             \A k \in Jobs \ {j} : at'[k] = at[k] /\ status'[k] = status[k] /\ run'[k] = run[k]
      PROVE  Concluded'
  BY <1>3 DEF Concluded
<1>4. CASE UNCHANGED vars
  BY <1>4 DEF Concluded, vars, job
<1>5. ASSUME NEW j \in Jobs,
             Start(j) \/ Fetch(j) \/ Check(j) \/ Propose(j) \/ WriteLatest(j) \/ Dies(j)
      PROVE  Concluded'
  BY <1>3, <1>5 DEF Start, Fetch, Check, Propose, WriteLatest, Dies, End, TypeOK
<1>6. ASSUME NEW j \in Jobs, NoCredential(j) \/ Raise(j) \/ Classify(j) \/ Fails(j) PROVE Concluded'
  BY <1>1, <1>6 DEF NoCredential, Raise, Classify, Fails, Outcomes
<1> QED  BY <1>2, <1>4, <1>5, <1>6 DEF Next

LEMMA OneViewPreserved == TypeOK /\ OneView /\ [Next]_vars => OneView'
<1> SUFFICES ASSUME TypeOK, OneView, [Next]_vars PROVE OneView'
  OBVIOUS
<1> DEFINE Seen(j) ==
      /\ at[j] \in {"proposing", "collected"} =>
           /\ Whole(j)
           /\ findings[j] = Found(j)
      /\ at[j] = "collected" =>
           changes[j] = IF Mapped(j) THEN Changes(cache[j]) ELSE {}
<1>0. (\A j \in Jobs : Seen(j)) /\ ((\A j \in Jobs : Seen(j)') => OneView')
  BY DEF OneView
<1>1. ASSUME NEW k \in Jobs, at'[k] = at[k], cache'[k] = cache[k],
             findings'[k] = findings[k], changes'[k] = changes[k]
      PROVE  Seen(k)'
  BY <1>0, <1>1 DEF Found, Whole, Mapped, Unread, Workstreams
<1>2. ASSUME NEW j \in Jobs, Seen(j)',
             \A k \in Jobs \ {j} : /\ at'[k] = at[k] /\ cache'[k] = cache[k]
                                 /\ findings'[k] = findings[k] /\ changes'[k] = changes[k]
      PROVE  OneView'
  <2> HIDE DEF Seen
  <2> QED  BY <1>0, <1>1, <1>2
<1>3. ASSUME NEW j \in Jobs, at'[j] \notin {"proposing", "collected"} PROVE Seen(j)'
  BY <1>3
<1>4. ASSUME NEW j \in Jobs, Fetch(j) PROVE Seen(j)'
  BY <1>0, <1>4 DEF Fetch
<1>5. ASSUME NEW j \in Jobs, Check(j) PROVE Seen(j)'
  <2>1. /\ Whole(j)' /\ Found(j)' = Found(j) /\ at'[j] = "proposing"
    BY <1>5 DEF Check, Found, Whole, Mapped, Unread, TypeOK
  <2>2. findings'[j] = Found(j)
    BY <1>5 DEF Check, TypeOK
  <2> QED  BY <2>1, <2>2
<1>6. ASSUME NEW j \in Jobs, Propose(j) PROVE Seen(j)'
  <2>1. /\ Whole(j)' /\ Found(j)' = Found(j) /\ findings' = findings
        /\ (Mapped(j)' <=> Mapped(j)) /\ cache' = cache
    BY <1>6 DEF Propose, Found, Whole, Mapped, Unread
  <2>2. changes'[j] = IF Mapped(j) THEN Changes(cache[j]) ELSE {}
    BY <1>6 DEF Propose, TypeOK
  <2>3. findings[j] = Found(j)
    BY <1>0, <1>6 DEF Propose
  <2> QED  BY <2>1, <2>2, <2>3
<1>7. ASSUME NEW j \in Jobs, Start(j) \/ Fetch(j) \/ Check(j) \/ Propose(j) PROVE OneView'
  <2>1. Seen(j)'
    BY <1>3, <1>4, <1>5, <1>6, <1>7 DEF Start, TypeOK
  <2>2. \A k \in Jobs \ {j} : /\ at'[k] = at[k] /\ cache'[k] = cache[k]
                            /\ findings'[k] = findings[k] /\ changes'[k] = changes[k]
    BY <1>7 DEF Start, Fetch, Check, Propose, TypeOK
  <2> HIDE DEF Seen
  <2> QED  BY <1>2, <2>1, <2>2
<1>8. ASSUME NEW j \in Jobs, NoCredential(j) \/ Raise(j) \/ Classify(j) \/ Fails(j) \/ WriteResult(j)
                             \/ WriteLatest(j) \/ Dies(j)
      PROVE  OneView'
  <2>1. at'[j] \notin {"proposing", "collected"}
    BY <1>8 DEF NoCredential, Raise, Classify, Fails, Conclude, WriteResult, WriteLatest, Dies, End, TypeOK
  <2>2. \A k \in Jobs \ {j} : /\ at'[k] = at[k] /\ cache'[k] = cache[k]
                            /\ findings'[k] = findings[k] /\ changes'[k] = changes[k]
    BY <1>8 DEF NoCredential, Raise, Classify, Fails, Conclude, WriteResult, WriteLatest, Dies, End,
       Forget, TypeOK
  <2> QED  BY <1>2, <1>3, <2>1, <2>2
<1>9. CASE UNCHANGED vars
  <2> HIDE DEF Seen
  <2> QED  BY <1>0, <1>1, <1>9 DEF vars, job
<1> QED  BY <1>7, <1>8, <1>9 DEF Next

(* The invariant holds in every state of every behaviour.                   *)
THEOREM Invariant == Spec => []Inv
<1>1. Inv /\ [Next]_vars => Inv'
  BY TypePreserved, AlonePreserved, NumberedPreserved, ConcludedPreserved, OneViewPreserved
  DEF Inv
<1> QED  BY InitInv, <1>1, PTL DEF Spec

(* The jobs, their results and latest.json have their types.                *)
THEOREM RuntimeTypeCorrect == Spec => []TypeOK
  BY Invariant, PTL DEF Inv

(* The findings and the proposal of a run are of the one view it has read,  *)
(* so that a finding is about what the proposal changes.                    *)
THEOREM FindingsOfOneView == Spec => []FindingsAgree
<1>1. Inv => FindingsAgree
  <2> SUFFICES ASSUME Inv, NEW j \in Jobs, at[j] = "collected", Mapped(j),
                      NEW code \in (findings[j] \cap DOMAIN About) \ Disputable(cache[j])
               PROVE  code = Conflict \/ About[code] \in changes[j]
    BY DEF FindingsAgree
  <2>1. Whole(j) /\ findings[j] = Report(cache[j]) /\ changes[j] = Changes(cache[j])
    BY DEF Inv, OneView, Found
  <2>3. code \in Findings(cache[j])
    BY <2>1, ReportCodes
  <2>2. IsView(cache[j])
    BY <2>1, WholeIsView DEF Inv
  <2> QED  BY <2>1, <2>2, <2>3, FindingIsAddressed
<1> QED  BY Invariant, <1>1, PTL

(* A run that has found nothing has read nothing that is out of order, but  *)
(* for the dates that no class looks at.                                    *)
THEOREM OkRunsAreSound == Spec => []OkIsSound
<1>1. Inv => OkIsSound
  BY WholeIsView, NothingReportedIsSound DEF Inv, OneView, OkIsSound
<1> QED  BY Invariant, <1>1, PTL

(* Every proposal that a job makes settles what the job has read.           *)
THEOREM ProposalsSettle == Spec => []ProposalSettles
<1>1. Inv => ProposalSettles
  BY WholeIsView, EveryProposalSettles DEF Inv, OneView, ProposalSettles
<1> QED  BY Invariant, <1>1, PTL

(* No proposal moves a problem to the root that the workstreams it is made  *)
(* from do not have.                                                        *)
THEOREM ProposalsBringNothingNew == Spec => []ProposalBringsNothingNew
<1>1. Inv => ProposalBringsNothingNew
  BY WholeIsView, ProposalIsNoWorse DEF Inv, OneView, ProposalBringsNothingNew
<1> QED  BY Invariant, <1>1, PTL

(* latest.json never goes back to an earlier run, and says what the result  *)
(* of its run says.                                                         *)
THEOREM LatestIsNewest == Spec => LatestMovesForward
<1>1. Inv /\ [Next]_vars => [latest' # latest =>
         /\ latest # None => latest'.run > latest.run
         /\ results'[latest'.run] = latest'.status]_vars
  <2> SUFFICES ASSUME Inv, Next, latest' # latest
               PROVE  /\ latest # None => latest'.run > latest.run
                      /\ results'[latest'.run] = latest'.status
    OBVIOUS
  <2>1. PICK j \in Jobs : WriteLatest(j)
    BY DEF Next, Start, NoCredential, Fetch, Raise, Check, Propose, Classify, Fails, Conclude,
       WriteResult, Dies
  <2>2. latest # None => latest.run \in Nat
    BY RuntimeAssumption DEF Inv, TypeOK, Runs
  <2>3. run[j] \in Nat /\ (latest # None => latest.run < run[j])
    BY <2>1, RunOfJob, RuntimeAssumption DEF Inv, WriteLatest, Numbered, Runs
  <2>4. latest' = [run |-> run[j], status |-> status[j]] /\ results' = results
        /\ results[run[j]] = status[j]
    BY <2>1 DEF Inv, Concluded, WriteLatest, End
  <2> QED  BY <2>2, <2>3, <2>4
<1> QED  BY Invariant, <1>1, PTL DEF Spec, LatestMovesForward

-----------------------------------------------------------------------------
(* What it takes, beyond the invariant, to see the jobs as one run after    *)
(* another: a run that was not judged has no status and no result, and one  *)
(* that has not begun has neither.                                          *)
Undecided ==
    /\ \A j \in Jobs :
         /\ at[j] \notin {"concluded", "written"} => status[j] = None
         /\ at[j] \notin {"off", "written"} => results[run[j]] = None
    /\ \A r \in Runs : r > runs => results[r] = None

(* Nothing is read but what a map names.                                    *)
Named ==
    \A j \in Jobs :
        /\ cache[j].root # NotRead => Mapped(j)
        /\ \A p \in Paths : cache[j].files[p] # NotRead =>
             Mapped(j) /\ p \in Workstreams(cache[j])

(* What the checkers have gone through was fit to be gone through.          *)
Fit ==
    \A j \in Jobs : at[j] \in {"proposing", "collected"} =>
        ~Unfit(j) /\ (Mapped(j) => ~cache[j].map.garbled)

RunsInv == Inv /\ Undecided /\ Named /\ Fit

LEMMA UndecidedPreserved == Inv /\ Undecided /\ [Next]_vars => Undecided'
<1> SUFFICES ASSUME Inv, Undecided, [Next]_vars PROVE Undecided'
  OBVIOUS
<1>0. runs \in Nat /\ MaxRuns \in Nat /\ \A j \in Jobs : run[j] \in Nat
  BY RuntimeAssumption DEF Inv, TypeOK
<1>1. ASSUME NEW j \in Jobs, Start(j) PROVE Undecided'
  <2>1. \A k \in Jobs \ {j} : at'[k] = "off" /\ status'[k] = status[k] /\ at[k] = "off"
    BY <1>1 DEF Start, Locked, Inv, TypeOK
  <2>2. status'[j] = None /\ run'[j] = runs + 1 /\ runs + 1 \in Runs /\ at'[j] = "reading"
    <3>1. status'[j] = None
      BY <1>1 DEF Start, Undecided
    <3>2. run'[j] = runs + 1 /\ at'[j] = "reading"
      BY <1>1 DEF Start, Inv, TypeOK
    <3>3. runs + 1 \in Runs
      BY <1>0, <1>1 DEF Start, Runs
    <3> QED  BY <3>1, <3>2, <3>3
  <2>3. results'[run'[j]] = None /\ results' = results /\ runs' = runs + 1
    BY <1>0, <1>1, <2>2 DEF Start, Undecided
  <2>4. \A r \in Runs : r > runs' => results'[r] = None
    BY <1>0, <2>3 DEF Undecided, Runs
  <2> QED  BY <2>1, <2>2, <2>3, <2>4 DEF Undecided
<1>2. ASSUME NEW j \in Jobs, WriteResult(j) PROVE Undecided'
  <2>1. \A k \in Jobs \ {j} : at'[k] = "off" /\ status'[k] = status[k] /\ at[k] = "off"
    BY <1>2 DEF WriteResult, Inv, Alone, TypeOK
  <2>2. at'[j] = "written"
    BY <1>2 DEF WriteResult, Inv, TypeOK
  <2>3. run[j] <= runs /\ run[j] \in Runs
    BY <1>2, RunOfJob DEF WriteResult, Inv
  <2>4. \A r \in Runs : r > runs' => results'[r] = None
    BY <1>0, <1>2, <2>3 DEF WriteResult, Undecided, Runs, Inv, TypeOK
  <2> QED  BY <2>1, <2>2, <2>4 DEF Undecided
<1>3. ASSUME NEW j \in Jobs, UNCHANGED <<runs, results, run>>,
             \A k \in Jobs \ {j} : at'[k] = at[k] /\ status'[k] = status[k],
             at[j] \notin {"off", "written"}, at'[j] \notin {"off", "written"},
             at'[j] \notin {"concluded"} => status'[j] = None
      PROVE  Undecided'
  BY <1>3 DEF Undecided
<1>4. ASSUME NEW j \in Jobs, End(j) PROVE Undecided'
  BY <1>4 DEF Undecided, End, Inv, TypeOK
<1>5. ASSUME NEW j \in Jobs,
             NoCredential(j) \/ Fetch(j) \/ Raise(j) \/ Check(j) \/ Propose(j) \/ Classify(j) \/ Fails(j)
      PROVE  Undecided'
  <2>1. at[j] \in {"reading", "proposing", "collected"} /\ status[j] = None
    BY <1>5 DEF Undecided, NoCredential, Fetch, Raise, Check, Propose, Classify, Fails
  <2>2. /\ UNCHANGED <<runs, results, run>>
        /\ \A k \in Jobs \ {j} : at'[k] = at[k] /\ status'[k] = status[k]
        /\ \/ at'[j] = "concluded"
           \/ at'[j] \in {"reading", "proposing", "collected"} /\ status' = status
    BY <1>5 DEF NoCredential, Fetch, Raise, Check, Propose, Classify, Fails, Conclude, Inv, TypeOK
  <2> QED  BY <1>3, <2>1, <2>2
<1>6. CASE UNCHANGED vars
  BY <1>6 DEF Undecided, vars, job
<1> QED  BY <1>1, <1>2, <1>4, <1>5, <1>6 DEF Next, WriteLatest, Dies

LEMMA NamedPreserved == TypeOK /\ Named /\ [Next]_vars => Named'
<1> SUFFICES ASSUME TypeOK, Named, [Next]_vars PROVE Named'
  OBVIOUS
<1> DEFINE Fine(v) == /\ v.root # NotRead => v.map \in Maps
                      /\ \A p \in Paths : v.files[p] # NotRead =>
                           v.map \in Maps /\ p \in DOMAIN v.map.streams
<1>0. /\ \A j \in Jobs : Fine(cache[j])
      /\ (\A j \in Jobs : Fine(cache'[j])) => Named'
  BY DEF Named, Mapped, Workstreams
<1>1. Fine(Empty)
  BY DEF Empty
<1>2. \A j \in Jobs : cache[j] \in Views
  BY DEF TypeOK
<1>3. ASSUME NEW j \in Jobs, Fine(cache'[j]), \A k \in Jobs \ {j} : cache'[k] = cache[k]
      PROVE  Named'
  <2> HIDE DEF Fine
  <2> QED  BY <1>0, <1>3
<1>4. ASSUME NEW j \in Jobs, Fetch(j) PROVE Named'
  <2>1. CASE cache[j].map = NotRead /\ \E m \in Maps \cup {Failed, NoList} : cache' = [cache EXCEPT ![j].map = m]
    <3>1. /\ cache'[j].root = cache[j].root /\ cache'[j].files = cache[j].files
          /\ \A k \in Jobs \ {j} : cache'[k] = cache[k]
      BY <1>2, <2>1 DEF TypeOK, Views
    <3>2. cache[j].map \notin Maps
      BY <2>1, RuntimeAssumption
    <3> QED  BY <1>0, <1>3, <3>1, <3>2
  <2>2. CASE Mapped(j) /\ \E r \in Roots \cup {Failed} : cache' = [cache EXCEPT ![j].root = r]
    <3>1. /\ cache'[j].map = cache[j].map /\ cache'[j].files = cache[j].files
          /\ \A k \in Jobs \ {j} : cache'[k] = cache[k]
      BY <1>2, <2>2 DEF TypeOK, Views
    <3> QED  BY <1>0, <1>3, <2>2, <3>1 DEF Mapped
  <2>3. CASE Mapped(j) /\ \E p \in Unread(j), f \in Files \cup {Failed} :
               cache' = [cache EXCEPT ![j].files[p] = f]
    <3>1. PICK p \in Unread(j), f \in Files \cup {Failed} : cache' = [cache EXCEPT ![j].files[p] = f]
      BY <2>3
    <3>2. /\ cache'[j].map = cache[j].map /\ cache'[j].root = cache[j].root
          /\ \A q \in Paths \ {p} : cache'[j].files[q] = cache[j].files[q]
          /\ \A k \in Jobs \ {j} : cache'[k] = cache[k]
      BY <1>2, <3>1 DEF TypeOK, Views
    <3>3. p \in DOMAIN cache[j].map.streams
      BY DEF Unread, Workstreams
    <3> QED  BY <1>0, <1>3, <2>3, <3>2, <3>3 DEF Mapped
  <2> QED  BY <1>4, <2>1, <2>2, <2>3 DEF Fetch
<1>5. ASSUME NEW j \in Jobs, Forget(j) PROVE Named'
  <2>1. cache'[j] = Empty /\ \A k \in Jobs \ {j} : cache'[k] = cache[k]
    BY <1>5 DEF Forget, TypeOK
  <2> HIDE DEF Fine
  <2> QED  BY <1>1, <1>3, <2>1
<1>6. CASE cache' = cache
  <2> HIDE DEF Fine
  <2> QED  BY <1>0, <1>6
<1> QED  BY <1>4, <1>5, <1>6 DEF Next, Start, NoCredential, Raise, Check, Propose, Classify, Fails,
            Conclude, WriteResult, WriteLatest, Dies, End, vars, job

LEMMA FitPreserved == Inv /\ Fit /\ [Next]_vars => Fit'
<1> SUFFICES ASSUME Inv, Fit, [Next]_vars PROVE Fit'
  OBVIOUS
<1>1. ASSUME NEW k \in Jobs, at'[k] = at[k], cache'[k] = cache[k]
      PROVE  at'[k] \in {"proposing", "collected"} => ~Unfit(k)' /\ (Mapped(k)' => ~cache'[k].map.garbled)
  BY <1>1 DEF Fit, Unfit, ReadStates, Mapped
<1>2. ASSUME NEW j \in Jobs, Check(j) \/ Propose(j) PROVE Fit'
  <2>1. /\ ~Unfit(j) /\ (Mapped(j) => ~cache[j].map.garbled) /\ cache' = cache
        /\ \A k \in Jobs \ {j} : at'[k] = at[k]
    BY <1>2 DEF Check, Propose, Fit, Inv, TypeOK
  <2>2. ~Unfit(j)' /\ (Mapped(j)' => ~cache'[j].map.garbled)
    BY <2>1 DEF Unfit, ReadStates, Mapped
  <2> QED  BY <1>1, <2>1, <2>2 DEF Fit
<1>3. ASSUME NEW j \in Jobs, at'[j] \notin {"proposing", "collected"},
             \A k \in Jobs \ {j} : at'[k] = at[k] /\ cache'[k] = cache[k]
      PROVE  Fit'
  BY <1>1, <1>3 DEF Fit
<1>4. ASSUME NEW j \in Jobs, Fetch(j) PROVE Fit'
  <2>1. at[j] # "proposing"
    BY <1>4 DEF Fetch, Inv, OneView
  <2>2. at' = at /\ \A k \in Jobs \ {j} : cache'[k] = cache[k]
    BY <1>4 DEF Fetch, Inv, TypeOK
  <2>3. at'[j] \notin {"proposing", "collected"}
    BY <1>4, <2>1, <2>2 DEF Fetch
  <2> QED  BY <1>3, <2>2, <2>3
<1>5. ASSUME NEW j \in Jobs, Start(j) \/ WriteResult(j) PROVE Fit'
  BY <1>3, <1>5 DEF Start, WriteResult, Inv, TypeOK
<1>6. ASSUME NEW j \in Jobs,
             NoCredential(j) \/ Raise(j) \/ Classify(j) \/ Fails(j) \/ WriteLatest(j) \/ Dies(j)
      PROVE  Fit'
  BY <1>3, <1>6 DEF NoCredential, Raise, Classify, Fails, Conclude, WriteLatest, Dies, End, Forget, Inv, TypeOK
<1>7. CASE UNCHANGED vars
  BY <1>1, <1>7 DEF Fit, vars, job
<1> QED  BY <1>2, <1>4, <1>5, <1>6, <1>7 DEF Next

LEMMA RunsInvariant == Spec => []RunsInv
<1>1. Init => Undecided /\ Named /\ Fit
  BY DEF Init, Undecided, Named, Fit, Empty
<1>2. RunsInv /\ [Next]_vars => Undecided' /\ Named' /\ Fit'
  BY UndecidedPreserved, NamedPreserved, FitPreserved DEF RunsInv, Inv
<1>3. Inv /\ [Next]_vars => Inv'
  BY TypePreserved, AlonePreserved, NumberedPreserved, ConcludedPreserved, OneViewPreserved
  DEF Inv
<1>4. Init => RunsInv
  BY InitInv, <1>1 DEF RunsInv
<1>5. RunsInv /\ [Next]_vars => RunsInv'
  BY <1>2, <1>3 DEF RunsInv
<1> QED  BY <1>4, <1>5, PTL DEF Spec

-----------------------------------------------------------------------------
(* What there is to see of the jobs is what the one at work has.            *)
LEMMA TheOnlyOne == ASSUME NEW e PROVE (CHOOSE x \in {e} : TRUE) = e
  OBVIOUS

LEMMA SeenOfWorker ==
  ASSUME NEW j \in Jobs, AtWork = {j}
  PROVE  /\ RunAtWork = run[j] /\ StatusSoFar = status[j]
         /\ at[j] = "collected" =>
              ViewSeen = cache[j] /\ FoundInIt = findings[j] /\ ProposedFor = changes[j]
         /\ at[j] # "collected" =>
              ViewSeen = None /\ FoundInIt = {} /\ ProposedFor = {}
<1>1. Worker = j /\ AtWork # {}
  BY TheOnlyOne DEF Worker
<1> QED  BY <1>1 DEF RunAtWork, StatusSoFar, ViewSeen, FoundInIt, ProposedFor, Looking

LEMMA SeenOfWorkerNext ==
  ASSUME NEW j \in Jobs, AtWork' = {j}
  PROVE  /\ RunAtWork' = run'[j] /\ StatusSoFar' = status'[j]
         /\ at'[j] = "collected" =>
              ViewSeen' = cache'[j] /\ FoundInIt' = findings'[j] /\ ProposedFor' = changes'[j]
         /\ at'[j] # "collected" =>
              ViewSeen' = None /\ FoundInIt' = {} /\ ProposedFor' = {}
<1>1. Worker' = j /\ AtWork' # {}
  BY TheOnlyOne DEF Worker
<1> QED  BY <1>1 DEF RunAtWork, StatusSoFar, ViewSeen, FoundInIt, ProposedFor, Looking

(* While a job is at work it is the only one, before and after a step of it.*)
LEMMA WorkerAlone ==
  ASSUME TypeOK, Alone, NEW j \in Jobs, at[j] # "off", \A k \in Jobs \ {j} : at'[k] = at[k]
  PROVE  /\ AtWork = {j}
         /\ at'[j] # "off" => AtWork' = {j}
         /\ at'[j] = "off" => AtWork' = {}
  BY DEF AtWork, Alone

(* With nobody at work there is nothing to see.                             *)
LEMMA NothingSeen ==
  /\ AtWork = {} => /\ RunAtWork = 0 /\ StatusSoFar = None
                    /\ ViewSeen = None /\ FoundInIt = {} /\ ProposedFor = {}
  /\ AtWork' = {} => /\ RunAtWork' = 0 /\ StatusSoFar' = None
                     /\ ViewSeen' = None /\ FoundInIt' = {} /\ ProposedFor' = {}
  BY DEF RunAtWork, StatusSoFar, ViewSeen, FoundInIt, ProposedFor, Looking

(* What has been read as a whole and was fit to be checked is a project     *)
(* that can be looked at in one moment, and no file of it is unreadable but *)
(* those that the map names.                                                *)
LEMMA WholeIsProject ==
  ASSUME RunsInv, NEW j \in Jobs, at[j] \in {"proposing", "collected"}
  PROVE  /\ cache[j] \in Publisher!Projects
         /\ Publisher!HasMap(cache[j]) <=> Mapped(j)
<1>1. Whole(j) /\ ~Unfit(j) /\ (Mapped(j) => ~cache[j].map.garbled)
  BY DEF RunsInv, Inv, OneView, Fit
<1>2. cache[j] \in Views
  BY DEF RunsInv, Inv, TypeOK
<1>3. cache[j] \in [map : Maps \cup {Failed, NoList}, root : Roots \cup {Failed, NotRead},
                    files : [Paths -> Files \cup {Failed, NotRead}]]
  BY <1>1, <1>2 DEF Views, Whole
<1>4. ASSUME Mapped(j)
      PROVE  /\ NotRead \notin Publisher!States(cache[j])
             /\ \A f \in Publisher!States(cache[j]) \ {Failed} : ~Raises(f)
  <2>1. Workstreams(cache[j]) \subseteq Paths
    BY <1>4, RuntimeAssumption DEF Mapped, MapsOver, Workstreams
  <2>2. cache[j].root # NotRead /\ \A p \in Workstreams(cache[j]) : cache[j].files[p] # NotRead
    BY <1>1, <1>4, <2>1 DEF Whole, Unread
  <2>3. Publisher!States(cache[j]) \ {Failed} \subseteq ReadStates(j)
    BY <2>1, <2>2 DEF Publisher!States, ReadStates
  <2>4. NotRead \notin Publisher!States(cache[j])
    BY <2>2 DEF Publisher!States
  <2> QED  BY <1>1, <2>3, <2>4 DEF Unfit
<1>5. Publisher!HasMap(cache[j]) <=> Mapped(j)
  BY DEF Publisher!HasMap, Mapped
<1> QED  BY <1>1, <1>3, <1>4, <1>5 DEF Publisher!Projects

LEMMA UnreadableIsUnread ==
  ASSUME RunsInv, NEW j \in Jobs, at[j] = "collected"
  PROVE  Unreadable(j) <=> Publisher!Unread(cache[j])
<1>1. Failed # NotRead /\ Failed \notin Maps
  BY RuntimeAssumption
<1>2. Publisher!HasMap(cache[j]) <=> Mapped(j)
  BY WholeIsProject
<1>3. Mapped(j) => Workstreams(cache[j]) \subseteq Paths
  BY RuntimeAssumption DEF Mapped, MapsOver, Workstreams
<1>4. /\ cache[j].root = Failed => Mapped(j)
      /\ \A p \in Paths : cache[j].files[p] = Failed => Mapped(j) /\ p \in Workstreams(cache[j])
  BY <1>1 DEF RunsInv, Named
<1> QED  BY <1>2, <1>3, <1>4 DEF Unreadable, Publisher!Unread, Publisher!States
-----------------------------------------------------------------------------
(* Each step of a job is a step of the publication, or none.                *)
LEMMA StartBegins ==
  ASSUME RunsInv, NEW j \in Jobs, Start(j)
  PROVE  Publisher!Begin
<1>1. AtWork = {} /\ AtWork' = {j} /\ at'[j] = "reading" /\ run'[j] = runs + 1
  BY DEF RunsInv, Inv, TypeOK, Start, Locked, AtWork
<1>2. status'[j] = None
  BY DEF RunsInv, Undecided, Start
<1>3. runs < MaxRuns /\ runs' = runs + 1 /\ results' = results /\ latest' = latest
  BY DEF Start
<1> QED  BY <1>1, <1>2, <1>3, SeenOfWorkerNext, NothingSeen DEF Publisher!Begin

LEMMA ProposeLooks ==
  ASSUME RunsInv, NEW j \in Jobs, Propose(j)
  PROVE  Publisher!Look
<1>1. AtWork = {j} /\ AtWork' = {j} /\ at[j] = "proposing" /\ at'[j] = "collected"
  BY WorkerAlone DEF RunsInv, Inv, TypeOK, Propose
<1>2. run[j] # 0 /\ status[j] = None
  BY <1>1, RunOfJob DEF RunsInv, Inv, Undecided, Runs
<1>3. /\ findings[j] = Found(j) /\ UNCHANGED <<run, cache, findings, status, runs, results, latest>>
      /\ changes'[j] = IF Mapped(j) THEN Changes(cache[j]) ELSE {}
  BY <1>1 DEF RunsInv, Inv, TypeOK, OneView, Propose
<1>4. /\ RunAtWork = run[j] /\ RunAtWork' = run[j] /\ StatusSoFar = None /\ StatusSoFar' = None
      /\ ViewSeen = None /\ ViewSeen' = cache[j]
      /\ FoundInIt' = findings[j] /\ ProposedFor' = changes'[j]
  BY <1>1, <1>2, <1>3, SeenOfWorker, SeenOfWorkerNext
<1>5. cache[j] \in Publisher!Projects /\ (Publisher!HasMap(cache[j]) <=> Mapped(j))
  BY <1>1, WholeIsProject
<1>6. FoundInIt' = IF Publisher!HasMap(ViewSeen') THEN Report(ViewSeen')
                   ELSE {code \in {"project_map_invalid"} : ViewSeen'.map = NoList}
  BY <1>3, <1>4, <1>5 DEF Found
<1>7. ProposedFor' = IF Publisher!HasMap(ViewSeen') THEN Changes(ViewSeen') ELSE {}
  BY <1>3, <1>4, <1>5
<1> QED  BY <1>2, <1>3, <1>4, <1>5, <1>6, <1>7 DEF Publisher!Look

(* A job that concludes judges its run, which it may only do as it deserves.*)
LEMMA ConcludeJudges ==
  ASSUME RunsInv, NEW j \in Jobs, at[j] \in {"reading", "collected"},
         NEW outcome \in Outcomes, Conclude(j, outcome), Publisher!Deserves(outcome)
  PROVE  Publisher!Judge
<1>1. at'[j] = "concluded" /\ \A k \in Jobs \ {j} : at'[k] = at[k]
  BY DEF RunsInv, Inv, TypeOK, Conclude
<1>2. AtWork = {j} /\ AtWork' = {j}
  BY <1>1, WorkerAlone DEF RunsInv, Inv
<1>3. run[j] # 0 /\ status[j] = None /\ status'[j] = outcome
  <2>1. run[j] # 0
    BY RunOfJob DEF RunsInv, Inv, Runs
  <2>2. status[j] = None /\ status'[j] = outcome
    BY DEF RunsInv, Inv, TypeOK, Undecided, Conclude
  <2> QED  BY <2>1, <2>2
<1>4. UNCHANGED <<run, runs, results, latest>>
  BY DEF Conclude
<1>5. /\ RunAtWork = run[j] /\ RunAtWork' = run[j] /\ StatusSoFar = None /\ StatusSoFar' = outcome
      /\ ViewSeen' = None /\ FoundInIt' = {} /\ ProposedFor' = {}
  BY <1>1, <1>2, <1>3, <1>4, SeenOfWorker, SeenOfWorkerNext
<1> QED  BY <1>3, <1>4, <1>5 DEF Publisher!Judge, Outcomes

LEMMA JudgeSteps ==
  ASSUME RunsInv, NEW j \in Jobs,
         NoCredential(j) \/ Raise(j) \/ Classify(j) \/ Fails(j)
  PROVE  Publisher!Judge
<1>1. CASE Raise(j) \/ Fails(j)
  <2>1. Publisher!Deserves("runtime_failure")
    BY DEF Publisher!Deserves
  <2>2. at[j] \in {"reading", "collected"} /\ Conclude(j, "runtime_failure")
    BY <1>1 DEF Raise, Fails
  <2> QED  BY <2>1, <2>2, ConcludeJudges DEF Outcomes
<1>2. CASE NoCredential(j)
  <2>1. at[j] = "reading" /\ Conclude(j, "source_read_failure")
    BY <1>2 DEF NoCredential
  <2>2. AtWork = {j}
    BY <2>1 DEF AtWork, RunsInv, Inv, Alone
  <2>3. ViewSeen = None
    BY <2>1, <2>2, SeenOfWorker
  <2>4. Publisher!Deserves("source_read_failure")
    BY <2>3 DEF Publisher!Deserves
  <2> QED  BY <2>1, <2>4, ConcludeJudges DEF Outcomes
<1>3. CASE Classify(j)
  <2>1. at[j] = "collected"
    BY <1>3 DEF Classify
  <2>2. AtWork = {j}
    BY <2>1 DEF AtWork, RunsInv, Inv, Alone
  <2>3. ViewSeen = cache[j] /\ FoundInIt = findings[j]
    BY <2>1, <2>2, SeenOfWorker
  <2>4. ViewSeen # None
    BY <2>3, NothingAssumption DEF RunsInv, Inv, TypeOK
  <2>5. Unreadable(j) <=> Publisher!Unread(ViewSeen)
    BY <2>1, <2>3, UnreadableIsUnread
  <2>6. CASE Unreadable(j) /\ Conclude(j, "source_read_failure")
    <3>1. Publisher!Deserves("source_read_failure")
      BY <2>5, <2>6 DEF Publisher!Deserves
    <3> QED  BY <2>1, <2>6, <3>1, ConcludeJudges DEF Outcomes
  <2>7. CASE ~Unreadable(j) /\ findings[j] # {} /\ Conclude(j, "findings")
    <3>1. Publisher!Deserves("findings")
      BY <2>3, <2>4, <2>5, <2>7 DEF Publisher!Deserves
    <3> QED  BY <2>1, <2>7, <3>1, ConcludeJudges DEF Outcomes
  <2>8. CASE ~Unreadable(j) /\ findings[j] = {} /\ Conclude(j, "ok")
    <3>1. Publisher!Deserves("ok")
      BY <2>3, <2>4, <2>5, <2>8 DEF Publisher!Deserves
    <3> QED  BY <2>1, <2>8, <3>1, ConcludeJudges DEF Outcomes
  <2> QED  BY <1>3, <2>6, <2>7, <2>8 DEF Classify
<1> QED  BY <1>1, <1>2, <1>3

LEMMA WriteResultRecords ==
  ASSUME RunsInv, NEW j \in Jobs, WriteResult(j)
  PROVE  Publisher!Record
<1>1. at[j] = "concluded" /\ at'[j] = "written" /\ \A k \in Jobs \ {j} : at'[k] = at[k]
  BY DEF RunsInv, Inv, TypeOK, WriteResult
<1>2. AtWork = {j} /\ AtWork' = {j}
  BY <1>1, WorkerAlone DEF RunsInv, Inv
<1>3. run[j] # 0 /\ status[j] # None /\ results[run[j]] = None
  BY <1>1, RunOfJob, NothingAssumption DEF RunsInv, Inv, Concluded, Undecided, Runs
<1>4. /\ UNCHANGED <<run, status, runs, latest>>
      /\ results' = [results EXCEPT ![run[j]] = status[j]]
  BY DEF WriteResult
<1>5. /\ RunAtWork = run[j] /\ RunAtWork' = run[j]
      /\ StatusSoFar = status[j] /\ StatusSoFar' = status[j]
      /\ UNCHANGED <<ViewSeen, FoundInIt, ProposedFor>>
  BY <1>1, <1>2, <1>4, SeenOfWorker, SeenOfWorkerNext
<1> QED  BY <1>3, <1>4, <1>5 DEF Publisher!Record, Publisher!current

LEMMA EndCeases ==
  ASSUME RunsInv, NEW j \in Jobs, at[j] # "off", End(j)
  PROVE  Publisher!Cease /\ AtWork = {j}
<1>1. at'[j] = "off" /\ \A k \in Jobs \ {j} : at'[k] = at[k]
  BY DEF RunsInv, Inv, TypeOK, End
<1>2. AtWork = {j} /\ AtWork' = {}
  BY <1>1, WorkerAlone DEF RunsInv, Inv
<1>3. RunAtWork = run[j] /\ run[j] # 0
  BY <1>2, SeenOfWorker, RunOfJob DEF RunsInv, Inv, Runs
<1> QED  BY <1>2, <1>3, NothingSeen DEF Publisher!Cease, End

LEMMA WriteLatestAnnounces ==
  ASSUME RunsInv, NEW j \in Jobs, WriteLatest(j)
  PROVE  Publisher!Announce
<1>1. at[j] = "written" /\ latest' = [run |-> run[j], status |-> status[j]]
  BY DEF WriteLatest
<1>2. Publisher!Cease /\ AtWork = {j}
  BY <1>1, EndCeases DEF WriteLatest
<1>3. status[j] # None /\ results[run[j]] = status[j]
  BY <1>1, NothingAssumption DEF RunsInv, Inv, Concluded
<1>4. RunAtWork = run[j] /\ StatusSoFar = status[j]
  BY <1>2, SeenOfWorker
<1> QED  BY <1>1, <1>2, <1>3, <1>4 DEF Publisher!Announce

(* Reading and checking are not to be seen: the look is taken when the      *)
(* proposal is there.                                                       *)
LEMMA ReadingIsUnseen ==
  ASSUME RunsInv, NEW j \in Jobs, Fetch(j) \/ Check(j)
  PROVE  UNCHANGED <<Publisher!current, runs, results, latest>>
<1>1. /\ at[j] \in {"reading", "proposing"} /\ at'[j] \in {"reading", "proposing"}
      /\ \A k \in Jobs \ {j} : at'[k] = at[k]
      /\ UNCHANGED <<run, status, runs, results, latest>>
  BY DEF RunsInv, Inv, TypeOK, Fetch, Check
<1>2. AtWork = {j} /\ AtWork' = {j}
  BY <1>1, WorkerAlone DEF RunsInv, Inv
<1>3. UNCHANGED <<RunAtWork, StatusSoFar, ViewSeen, FoundInIt, ProposedFor>>
  BY <1>1, <1>2, SeenOfWorker, SeenOfWorkerNext
<1> QED  BY <1>1, <1>3 DEF Publisher!current

LEMMA NextPublishes ==
  RunsInv /\ [Next]_vars =>
    [Publisher!Next]_<<Publisher!current, runs, results, latest>>
<1> SUFFICES ASSUME RunsInv, [Next]_vars
             PROVE  Publisher!Next \/ UNCHANGED <<Publisher!current, runs, results, latest>>
  OBVIOUS
<1>1. CASE Next
  <2> PICK j \in Jobs :
        \/ Start(j) \/ NoCredential(j) \/ Fetch(j) \/ Raise(j) \/ Check(j) \/ Propose(j)
        \/ Classify(j) \/ Fails(j) \/ WriteResult(j) \/ WriteLatest(j) \/ Dies(j)
    BY <1>1 DEF Next
  <2>1. CASE Dies(j)
    BY <2>1, EndCeases DEF Dies, Publisher!Vanish, Publisher!Next
  <2> QED  BY <2>1, StartBegins, ProposeLooks, JudgeSteps, WriteResultRecords,
              WriteLatestAnnounces, ReadingIsUnseen DEF Publisher!Next
<1>2. CASE UNCHANGED vars
  BY <1>2 DEF vars, job, Publisher!current, RunAtWork, StatusSoFar, ViewSeen, FoundInIt,
     ProposedFor, Looking, Worker, AtWork
<1> QED  BY <1>1, <1>2

(* Whatever jobs start together, die, and read file after file while the    *)
(* files change: they amount to one run after another, each with one look   *)
(* at the whole project, a verdict that what was seen deserves, and one     *)
(* result, that is announced only after it is written.                      *)
THEOREM RunsAreSerial == Spec => ImplementsPublication
<1>1. Init => Publisher!Init
  <2> SUFFICES ASSUME Init PROVE Publisher!Init
    OBVIOUS
  <2>1. AtWork = {}
    BY DEF Init, AtWork
  <2> QED  BY <2>1, NothingSeen DEF Init, Publisher!Init, Runs, Publisher!Runs
<1> QED  BY <1>1, NextPublishes, RunsInvariant, PTL
         DEF Spec, ImplementsPublication, Publisher!Spec
=============================================================================
