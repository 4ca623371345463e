---------------------------- MODULE Reconciliation ----------------------------
(***************************************************************************)
(* The Tautulli reconciliation (tautulli_reconciliation.py, with the       *)
(* normalizer plex_observation.py) over the watched ledger.                *)
(*                                                                         *)
(* A scheduler starts the command again and again, and nothing keeps two   *)
(* runs apart. A run reads the cursor and a batch of rows behind it, and   *)
(* imports the rows in order: three SELECTs, a transaction for the event,  *)
(* a transaction for the cursor.                                           *)
(***************************************************************************)
EXTENDS WatchedLedger, Sequences, FiniteSets, FiniteSetsExt

CONSTANTS
    Runs,       \* processes of the command
    Watermark,  \* --initial-watermark
    Overlap,    \* --overlap
    Limit       \* --limit

(* The command accepts any limit. One that the overlap fills never gets     *)
(* past the cursor.                                                         *)
ASSUME ReconciliationAssumption ==
    /\ Watermark \in 0..Rows
    /\ {Overlap, Limit} \subseteq Nat /\ Limit > Overlap

VARIABLES
    history, \* Tautulli's rows: whether each is a completed session of the user
    stored,  \* the cursor in source_cursors, or None
    at,      \* where each run is
    cursor,  \* what it takes the cursor to be
    batch,   \* the rows that it has read and not handled
    print    \* the fingerprint of its current observation

runVars == <<at, cursor, batch, print>>
vars    == <<tables, history, stored, runVars>>

-----------------------------------------------------------------------------
Current(r)     == Min(batch[r])
Goto(r, point) == at' = [at EXCEPT ![r] = point]

(* Tautulli stores a session when it ends.                                  *)
Watch(completed) ==
    /\ Len(history) < Rows
    /\ history' = Append(history, completed)
    /\ UNCHANGED <<tables, stored, runVars>>

(* Another adapter of the same source delivers an observation of its own.   *)
Webhook(v) == CreateUnnumbered(v) /\ UNCHANGED <<history, stored, runVars>>

-----------------------------------------------------------------------------
(* reconcile_tautulli.                                                      *)

Start(r) ==
    /\ at[r] = "idle"
    /\ Goto(r, IF stored = None THEN "new" ELSE "reading")
    /\ cursor' = [cursor EXCEPT ![r] = IF stored = None THEN Watermark ELSE stored]
    /\ UNCHANGED <<tables, history, stored, batch, print>>

Initialize(r) ==
    /\ at[r] = "new"
    /\ stored' = cursor[r]
    /\ Goto(r, "reading")
    /\ UNCHANGED <<tables, history, cursor, batch, print>>

FromStart(r) == 0                                    \* seeded defect
Behind(r)    == IF cursor[r] > Overlap THEN cursor[r] - Overlap ELSE 0

(* read_after: the first rows behind the position.                          *)
Watched   == {i \in DOMAIN history : history[i]}
Window(r) == {i \in Watched : /\ i > Behind(r)
                              /\ Cardinality(Watched \cap (Behind(r) + 1)..i) <= Limit}

(* A row of the overlap is only counted.                                    *)
New(r)        == {i \in Window(r) : i > cursor[r]}

Read(r) ==
    /\ at[r] = "reading"
    /\ batch' = [batch EXCEPT ![r] = New(r)]
    /\ Goto(r, "next")
    /\ UNCHANGED <<tables, history, stored, cursor, print>>

(* normalize_plex_observation: what Plex identifies the row as changes with *)
(* its metadata, and it may be nothing.                                     *)
Normalize(r) ==
    /\ at[r] = "next" /\ batch[r] # {}
    /\ \E p \in Viewings \cup {Current(r)} : print' = [print EXCEPT ![r] = p]
    /\ Goto(r, "by id")
    /\ UNCHANGED <<tables, history, stored, cursor, batch>>

(* ingest_observation.                                                      *)
Unlinked  == "ingested"                              \* seeded defect: the ID is not recorded
Duplicate == "link"

Lookup(r, point, found, hit, miss) ==
    /\ at[r] = point
    /\ Goto(r, IF found THEN hit ELSE miss)
    /\ UNCHANGED <<tables, history, stored, cursor, batch, print>>

LookupId(r)    == Lookup(r, "by id", KnownId(Current(r)), "ingested", "by link")
LookupLink(r)  == Lookup(r, "by link", LinkedId(Current(r)), "ingested", "by print")
LookupPrint(r) == Lookup(r, "by print", Stored(print[r]), Duplicate, "create")

Insert(r) ==
    /\ \/ at[r] = "create" /\ Create(Current(r), print[r])
       \/ at[r] = "link" /\ Link(Current(r), print[r]) /\ UNCHANGED events
    /\ Goto(r, "ingested")
    /\ UNCHANGED <<history, stored, cursor, batch, print>>

NextPosition(r) == Current(r) + 1                    \* seeded defect
Position(r)     == Current(r)

(* _store_cursor. Another run may have stored a later position meanwhile.   *)
Advance(r) ==
    /\ at[r] = "ingested"
    /\ stored' = Position(r)
    /\ cursor' = [cursor EXCEPT ![r] = Position(r)]
    /\ batch'  = [batch EXCEPT ![r] = @ \ {Current(r)}]
    /\ print'  = [print EXCEPT ![r] = None]
    /\ Goto(r, "next")
    /\ UNCHANGED <<tables, history>>

End(r) ==
    /\ Goto(r, "idle")
    /\ cursor' = [cursor EXCEPT ![r] = 0]
    /\ batch'  = [batch EXCEPT ![r] = {}]
    /\ print'  = [print EXCEPT ![r] = None]
    /\ UNCHANGED <<tables, history, stored>>

(* The batch is done; or the current row clashes with what another run or   *)
(* adapter has stored since it was looked up.                               *)
Finish(r) ==
    /\ \/ at[r] = "next" /\ batch[r] = {}
       \/ at[r] = "create" /\ ~CanCreate(Current(r), print[r])
       \/ at[r] = "link" /\ ~CanLink(Current(r), print[r])
    /\ End(r)

(* Any other exception: Tautulli, Plex, the payload, the lock of the        *)
(* database, the hook; or the death of the process.                         *)
Stop(r) == at[r] # "idle" /\ End(r)

-----------------------------------------------------------------------------
Init ==
    /\ LedgerInit
    /\ history = <<>>
    /\ stored  = None
    /\ at      = [r \in Runs |-> "idle"]
    /\ cursor  = [r \in Runs |-> 0]
    /\ batch   = [r \in Runs |-> {}]
    /\ print   = [r \in Runs |-> None]

Run(r) == Start(r) \/ Initialize(r) \/ Read(r) \/ Normalize(r) \/ LookupId(r) \/ LookupLink(r)
          \/ LookupPrint(r) \/ Insert(r) \/ Advance(r) \/ Finish(r)

Next == \/ \E completed \in BOOLEAN : Watch(completed)
        \/ \E v \in Viewings : Webhook(v)
        \/ \E r \in Runs : Run(r) \/ Stop(r)

Spec == Init /\ [][Next]_vars

(* Fairness. The scheduler starts the command periodically, and a run goes  *)
(* on: its calls have timeouts.                                             *)
FairSpec == Spec /\ \A r \in Runs : WF_vars(Run(r))
-----------------------------------------------------------------------------
(* Correctness properties.                                                  *)

(* Type invariant; a batch is ahead of its run's cursor.                    *)
TypeOK ==
    /\ events \in [Prints -> Ids \cup {None, NoEvent}]
    /\ links \in [Ids -> Prints \cup {None}]
    /\ history \in Seq(BOOLEAN) /\ Len(history) <= Rows
    /\ stored \in Watermark..Rows \cup {None}
    /\ at \in [Runs -> {"idle", "new", "reading", "next", "by id", "by link", "by print",
                        "create", "link", "ingested"}]
    /\ cursor \in [Runs -> 0..Rows] /\ batch \in [Runs -> SUBSET Ids]
    /\ print \in [Runs -> Prints \cup {None}]

(* watched-event-ledger.md: each event is ingested durably before its       *)
(* cursor position advances. The cursor never passes a watched row that has *)
(* no event, whatever run stored it, across crashes and overlapping runs.   *)
Handled(i) == KnownId(i) \/ LinkedId(i)
NothingSkipped ==
    stored # None => \A i \in Watched :
        Watermark < i /\ i <= stored => Handled(i)

(* The same document: no accidental backfill. No row at or below the        *)
(* accepted watermark is ever imported, though the overlap reads it.        *)
NoBackfill == \A i \in Ids : Handled(i) => i > Watermark

(* The identified viewings that a row is counted as.                        *)
Counted(i) == {v \in Viewings : events[v] = i \/ links[i] = v}

(* A row is counted as at most one identified viewing, although runs that   *)
(* overlap look it up and insert it at the same time and Plex identifies it *)
(* differently for each.                                                    *)
OneViewingPerRow ==
    \A i \in Ids : Cardinality(Counted(i)) <= 1

(* Once runs stop failing, every watched row behind the watermark is        *)
(* imported, although a run that is late can set the cursor back.           *)
Quiet == <>[][\A r \in Runs : Stop(r) => Finish(r)]_vars
RowsAreImported ==
    Quiet => \A i \in (Watermark + 1)..Rows :
               i \in Watched ~> Handled(i)
-----------------------------------------------------------------------------
(* Overlapping runs and webhooks amount to the import of a history: what is *)
(* imported stays so, as the viewing that it was first taken for, and a     *)
(* cursor is a promise about all rows behind it, whichever run wrote it.    *)
Imported == INSTANCE HistoryImport WITH
    imported <- {i \in Ids : Handled(i)},
    counted  <- [i \in Ids |-> Counted(i)],
    cursor   <- stored

ImplementsImport == Imported!Spec
=============================================================================
