--------------------------- MODULE MCCoreRuntime ---------------------------
(* Small instances of CoreRuntime for TLC: one project with up to two       *)
(* workstreams, and a path that its map does not know. The dates are those  *)
(* of a state that is fresh for all but the first kind of attention, stale  *)
(* for all, and ahead of the day of the run.                                *)
EXTENDS CoreRuntime, TLC

CONSTANTS a, b, x

MCPaths    == {a, b, x}
MCStatuses == {"active", "paused", "not_active", "deferred_manual", "stale_needs_refresh",
               "synced_but_old"}

Old   == 1
Fresh == Today - 4
Ahead == LastDay

Entry(attention, days, s) == [attention |-> attention, days |-> days, status |-> s]
Map(top, streams)         == [top |-> top, streams |-> streams, garbled |-> FALSE]
Top                       == Entry("active", Unset, None)
MCMaps ==
    {Map(Top, <<>>), [Map(Top, a :> Top) EXCEPT !.garbled = TRUE],
     Map(Entry("background", Unset, None), a :> Entry("background", None, None)),
     Map(Entry("active", -1, "synced_but_old"), a :> Entry("unspecified", Fresh, "not_active"))}
    \cup {Map(Top, a :> Entry("active", Unset, s) @@ b :> Entry(attention, Unset, t)) :
            s \in {None, "not_active"}, attention \in {"active", "parked"},
            t \in {None, "deferred_manual"}}

Root(scope, ps, flag, d, s) ==
    [scope |-> scope, declared |-> ps, sources |-> ps, closed |-> flag, tolerant |-> flag,
     date |-> d, status |-> s, form |-> "string", sync |-> "synced", flaws |-> {}]
MCRoots ==
    {Root("project", {}, FALSE, Fresh, "active"),
     [Root("project", {}, FALSE, 0, None) EXCEPT !.form = "null"],
     [Root("project_rollup", {a}, TRUE, 0, "not_active") EXCEPT !.sync = "scalar"],
     [Root("project_rollup", {a, x}, TRUE, Old, "paused") EXCEPT !.sync = "pending"],
     [Root("project_rollup", {a}, TRUE, 0, "not_active") EXCEPT !.form = "text"]}
    \cup {Root("project_rollup", {a, b}, TRUE, d, s) :
            d \in {0, Fresh}, s \in {"active", "paused"}}

File(d, s) == [date |-> d, status |-> s, form |-> "string", sync |-> "synced", flaws |-> {}]
MCFiles ==
    {File(Fresh, "active"), File(0, "active"), File(Fresh, None), File(Old, "stale_needs_refresh"),
     File(Ahead, "not_active"), File(Ahead, "deferred_manual"),
     [File(Ahead, "active") EXCEPT !.form = "untyped"],
     [File(0, "paused") EXCEPT !.form = "missing", !.sync = "other"],
     [File(Fresh, "active") EXCEPT !.sync = "absent", !.flaws = {"sync_storage_mismatch"}]}

Symmetric == Permutations(Jobs)
=============================================================================
