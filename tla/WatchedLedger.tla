---------------------------- MODULE WatchedLedger ----------------------------
(***************************************************************************)
(* The tables of the watched-event ledger (watched_ledger.py) that imports *)
(* use, and what ingest_observation does to them, in the pieces that other *)
(* connections can come between: a SELECT outside a transaction sees what  *)
(* is committed at that time, and the first INSERT takes SQLite's write    *)
(* lock until the commit.                                                  *)
(***************************************************************************)
EXTENDS Naturals

CONSTANTS
    Viewings,  \* identified viewings of one source: media and exact time
    Rows,      \* the source's event IDs are 1..Rows
    None

ASSUME LedgerAssumption ==
    /\ Rows \in Nat \ {0}
    /\ None \notin Viewings \cup (0..Rows) /\ Viewings \cap (0..Rows) = {}

VARIABLES
    events,  \* watch_events: the source event ID under each fingerprint, or NoEvent
    links    \* external_event_links: the event of each source event ID, or None

tables == <<events, links>>

Ids     == 1..Rows
NoEvent == 0

(* event_fingerprint: an observation without identity has its source ID in  *)
(* its fingerprint, and is quarantined.                                     *)
Prints == Viewings \cup Ids
Quarantined(p) == p \in Ids

Stored(p)   == events[p] # NoEvent
KnownId(i)  == \E p \in Prints : events[p] = i
LinkedId(i) == links[i] # None

(* link_external_event: the same link again is fine, another one is refused.*)
Relink(i, p)  == TRUE                                \* seeded defect
CanLink(i, p) == links[i] \in {None, p}
Link(i, p) == CanLink(i, p) /\ links' = [links EXCEPT ![i] = p]

(* The INSERT and the link in its transaction: both or, when a unique index *)
(* or the check of the link refuses, none.                                  *)
CanCreate(i, p) ==
    /\ ~Stored(p) /\ ~KnownId(i)
    /\ Quarantined(p) \/ CanLink(i, p)
Create(i, p) ==
    /\ CanCreate(i, p)
    /\ events' = [events EXCEPT ![p] = i]
    /\ links'  = IF Quarantined(p) THEN links ELSE [links EXCEPT ![i] = p]

(* An identified observation without a source event ID.                     *)
CreateUnnumbered(v) ==
    /\ ~Stored(v)
    /\ events' = [events EXCEPT ![v] = None]
    /\ UNCHANGED links

LedgerInit ==
    /\ events = [p \in Prints |-> NoEvent]
    /\ links  = [i \in Ids |-> None]
=============================================================================
