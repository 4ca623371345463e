------------------------- MODULE ReconciliationProofs -------------------------
(* The safety properties of Reconciliation, for any number of overlapping   *)
(* runs, rows and viewings and any watermark, overlap and limit.            *)
EXTENDS Reconciliation, FiniteSetTheorems, WellFoundedInduction, TLAPS

LEMMA Minimum ==
  ASSUME NEW S, S \subseteq Ids, S # {}
  PROVE  Min(S) \in S /\ \A i \in S : Min(S) <= i
<1> DEFINE R == {ss \in Nat \X Nat : ss[1] < ss[2]}
<1>1. S \subseteq Nat
  BY LedgerAssumption DEF Ids
<1>2. IsWellFoundedOn(R, Nat)
  BY NatLessThanWellFounded DEF OpToRel
<1>3. PICK m \in S : \A i \in S : ~(<<i, m>> \in R)
  <2> HIDE DEF R
  <2> QED BY <1>1, <1>2, WFMin
<1>4. ASSUME NEW i \in S PROVE m <= i
  <2>1. i \in Nat /\ m \in Nat /\ ~(<<i, m>> \in R)
    BY <1>1, <1>3
  <2>2. ~(i < m)
    BY <2>1
  <2> QED BY <2>1, <2>2
<1> QED BY <1>4 DEF Min

-----------------------------------------------------------------------------
(* The invariant.                                                           *)

(* Positions that the command can be at.                                    *)
Reachable(n) == n \in Watermark..Rows /\ (n = Watermark \/ n \in DOMAIN history)

(* Every watched row up to n is imported, but for the accepted ones.        *)
HandledUpTo(n) == \A i \in Watched : Watermark < i /\ i <= n => Handled(i)

Importing == {"by id", "by link", "by print", "create", "link", "ingested"}

(* The batch is what comes next: no watched row in front of one of its rows *)
(* is missing.                                                              *)
BatchIsNext(r) ==
    /\ batch[r] \subseteq Watched
    /\ \A i \in batch[r] : cursor[r] < i
    /\ \A i \in batch[r] : \A j \in Watched : cursor[r] < j /\ j < i => j \in batch[r]

RunInv(r) ==
    /\ at[r] # "idle" => Reachable(cursor[r]) /\ HandledUpTo(cursor[r])
    /\ at[r] \in Importing \cup {"next"} => BatchIsNext(r)
    /\ at[r] \in Importing => batch[r] # {} /\ print[r] \in Prints
    /\ at[r] = "ingested" => Handled(Current(r))

(* An identified event with a source ID has its link.                       *)
EventsAreLinked == \A v \in Viewings : \A i \in Ids : events[v] = i => links[i] = v

StoredInv == stored # None => Reachable(stored) /\ HandledUpTo(stored)

IInv == TypeOK /\ EventsAreLinked /\ NoBackfill /\ StoredInv /\ \A r \in Runs : RunInv(r)

-----------------------------------------------------------------------------
(* Numbers, viewings and None are different things.                         *)
LEMMA Kinds ==
    /\ Rows \in Nat /\ Watermark \in 0..Rows /\ Overlap \in Nat /\ Limit \in Nat
    /\ Ids = 1..Rows /\ NoEvent = 0
    /\ None \notin Viewings /\ None \notin 0..Rows /\ Viewings \cap (0..Rows) = {}
  BY LedgerAssumption, ReconciliationAssumption DEF Ids, NoEvent

LEMMA WatchedRows ==
    ASSUME TypeOK
    PROVE  /\ DOMAIN history = 1..Len(history) /\ Len(history) \in Nat
           /\ Watched \subseteq DOMAIN history /\ DOMAIN history \subseteq Ids
<1>1. history \in Seq(BOOLEAN) /\ Len(history) <= Rows
  BY DEF TypeOK
<1>2. DOMAIN history = 1..Len(history) /\ Len(history) \in Nat
  BY <1>1
<1>3. DOMAIN history \subseteq Ids
  BY <1>1, <1>2, Kinds
<1> QED BY <1>2, <1>3 DEF Watched

(* A window has every watched row between its beginning and any of its rows.*)
LEMMA WindowIsFull ==
    ASSUME TypeOK, NEW r \in Runs, NEW i \in Window(r), NEW j \in Watched,
           Behind(r) < j, j < i
    PROVE  j \in Window(r)
<1> DEFINE Upto(n) == Watched \cap (Behind(r) + 1)..n
<1>1. i \in Ids /\ j \in Ids /\ Behind(r) \in Nat
  <2>1. i \in Ids /\ j \in Ids
    BY WatchedRows DEF Window
  <2>2. cursor[r] \in Nat
    <3>1. cursor \in [Runs -> 0..Rows]
      BY DEF TypeOK
    <3> QED BY <3>1, Kinds
  <2>3. Behind(r) \in Nat
    BY <2>2, Kinds DEF Behind
  <2> QED BY <2>1, <2>3
<1>2. IsFiniteSet(Upto(i))
  <2>1. IsFiniteSet((Behind(r) + 1)..i)
    BY <1>1, Kinds, FS_Interval
  <2>2. Upto(i) \in SUBSET ((Behind(r) + 1)..i)
    OBVIOUS
  <2> HIDE DEF Upto
  <2> QED BY <2>1, <2>2, FS_Subset
<1>3. Upto(j) \in SUBSET Upto(i)
  BY <1>1, Kinds
<1>4. Cardinality(Upto(i)) <= Limit
  BY DEF Window
<1>5. Cardinality(Upto(j)) <= Limit
  <2> HIDE DEF Upto
  <2>1. Cardinality(Upto(j)) <= Cardinality(Upto(i)) /\ IsFiniteSet(Upto(j))
    BY <1>2, <1>3, FS_Subset
  <2>2. Cardinality(Upto(j)) \in Nat /\ Cardinality(Upto(i)) \in Nat
    BY <1>2, <2>1, FS_CardinalityType
  <2> QED BY <1>4, <2>1, <2>2, Kinds
<1> QED BY <1>5 DEF Window

(* What is imported stays so, whoever does what to the tables.              *)
TablesGrow ==
    /\ \A p \in Prints : events[p] # NoEvent => events'[p] = events[p]
    /\ \A i \in Ids : links[i] # None => links'[i] = links[i]

LEMMA HandledStays ==
    ASSUME TypeOK, TablesGrow, NEW i \in Ids, Handled(i)
    PROVE  Handled(i)'
<1>1. CASE KnownId(i)
  <2>1. PICK p \in Prints : events[p] = i
    BY <1>1 DEF KnownId
  <2>2. events'[p] = i
    BY <2>1, Kinds DEF TablesGrow
  <2> QED BY <2>2 DEF Handled, KnownId
<1>2. CASE LinkedId(i)
  BY <1>2 DEF TablesGrow, LinkedId, Handled
<1> QED BY <1>1, <1>2 DEF Handled

(* A run that takes no step is as it was, when the tables and the history   *)
(* only grow.                                                               *)
HistoryGrows ==
    /\ DOMAIN history \subseteq DOMAIN history'
    /\ \A i \in DOMAIN history : history'[i] = history[i]
    /\ \A i \in DOMAIN history' \ DOMAIN history : \A j \in DOMAIN history : j < i
    /\ \A i \in DOMAIN history' \ DOMAIN history : Len(history) < i

LEMMA UpToStays ==
    ASSUME IInv, TypeOK', TablesGrow, HistoryGrows, NEW n, Reachable(n), HandledUpTo(n)
    PROVE  Reachable(n)' /\ HandledUpTo(n)'
<1>1. TypeOK
  BY DEF IInv
<1>2. Reachable(n)'
  BY DEF Reachable, HistoryGrows
<1>3. ASSUME NEW i \in Watched', Watermark < i, i <= n PROVE Handled(i)'
  <2>1. i \in DOMAIN history' /\ history'[i] /\ i \in Ids
    <3>1. i \in DOMAIN history' /\ history'[i]
      BY <1>3 DEF Watched
    <3>2. history' \in Seq(BOOLEAN) /\ Len(history') <= Rows
      BY DEF TypeOK
    <3> QED BY <3>1, <3>2, Kinds
  <2>2. i \in DOMAIN history
    BY <1>3, <2>1, Kinds DEF Reachable, HistoryGrows
  <2>3. Handled(i)
    BY <1>3, <2>1, <2>2 DEF HandledUpTo, Watched, HistoryGrows
  <2> QED BY <1>1, <2>1, <2>3, HandledStays
<1> QED BY <1>2, <1>3 DEF HandledUpTo

LEMMA BatchStays ==
    ASSUME IInv, TypeOK', HistoryGrows, NEW r \in Runs, BatchIsNext(r),
           batch'[r] = batch[r], cursor'[r] = cursor[r]
    PROVE  BatchIsNext(r)'
<1>1. batch[r] \subseteq Watched'
  BY DEF BatchIsNext, Watched, HistoryGrows
<1>2. ASSUME NEW i \in batch[r], NEW j \in Watched', cursor[r] < j, j < i PROVE j \in batch[r]
  <2>1. i \in DOMAIN history /\ j \in DOMAIN history'
    BY <1>2 DEF BatchIsNext, Watched
  <2>2. i \in Nat
    BY <2>1, WatchedRows, Kinds DEF IInv
  <2>3. CASE j \in DOMAIN history
    BY <1>2, <2>3 DEF BatchIsNext, Watched, HistoryGrows
  <2>4. CASE j \notin DOMAIN history
    <3>1. i < j /\ j \in Nat
      <4>1. history' \in Seq(BOOLEAN)
        BY DEF TypeOK
      <4>2. DOMAIN history' \subseteq Nat
        BY <4>1
      <4> QED BY <2>1, <2>4, <4>2 DEF HistoryGrows
    <3> QED BY <1>2, <3>1, <2>2
  <2> QED BY <2>3, <2>4
<1> QED BY <1>1, <1>2 DEF BatchIsNext

LEMMA RunStays ==
    ASSUME IInv, TypeOK', TablesGrow, HistoryGrows, NEW r \in Runs,
           at'[r] = at[r], cursor'[r] = cursor[r], batch'[r] = batch[r], print'[r] = print[r]
    PROVE  RunInv(r)'
<1>1. RunInv(r) /\ TypeOK
  BY DEF IInv
<1>2. at[r] # "idle" => Reachable(cursor[r])' /\ HandledUpTo(cursor[r])'
  BY <1>1, UpToStays DEF RunInv
<1>3. at[r] \in Importing \cup {"next"} => BatchIsNext(r)'
  BY <1>1, BatchStays DEF RunInv
<1>4. at[r] = "ingested" => Handled(Current(r))'
  <2> SUFFICES ASSUME at[r] = "ingested" PROVE Handled(Current(r))'
    OBVIOUS
  <2>1. batch[r] # {} /\ batch[r] \subseteq Ids
    BY <1>1, WatchedRows DEF RunInv, BatchIsNext, Importing
  <2>2. Current(r) \in Ids /\ Current(r)' = Current(r) /\ Handled(Current(r))
    BY <1>1, <2>1, Minimum DEF Current, RunInv
  <2>3. Handled(Current(r))' <=> \E i \in Ids : i = Current(r) /\ Handled(i)'
    BY <2>2 DEF Handled, KnownId, LinkedId
  <2> QED BY <1>1, <2>2, <2>3, HandledStays
<1> QED BY <1>1, <1>2, <1>3, <1>4 DEF RunInv, HandledUpTo, Reachable

-----------------------------------------------------------------------------
(* A step of run r keeps the invariant when it keeps these parts of it.     *)
OthersRest(r) == \A q \in Runs \ {r} :
    /\ at'[q] = at[q] /\ cursor'[q] = cursor[q]
    /\ batch'[q] = batch[q] /\ print'[q] = print[q]

LEMMA HistoryRests ==
    ASSUME TypeOK, history' = history
    PROVE  HistoryGrows
  BY WatchedRows DEF HistoryGrows

LEMMA StepKeeps ==
    ASSUME IInv, TypeOK', NEW r \in Runs, history' = history, TablesGrow,
           EventsAreLinked', NoBackfill', OthersRest(r), RunInv(r)',
           stored' = stored \/ StoredInv'
    PROVE  IInv'
<1>1. TypeOK /\ HistoryGrows
  BY HistoryRests DEF IInv
<1>2. StoredInv'
  <2>1. CASE stored' = stored
    <3>1. stored # None => Reachable(stored)' /\ HandledUpTo(stored)'
      BY <1>1, <2>1, UpToStays DEF IInv, StoredInv
    <3> QED BY <2>1, <3>1 DEF StoredInv, Reachable, HandledUpTo
  <2> QED BY <2>1
<1>3. ASSUME NEW q \in Runs PROVE RunInv(q)'
  <2>1. CASE q = r
    BY <2>1
  <2>2. CASE q # r
    BY <1>1, <2>2, RunStays DEF OthersRest
  <2> QED BY <2>1, <2>2
<1> QED BY <1>2, <1>3 DEF IInv

(* Steps that leave the tables alone.                                       *)
LEMMA LocalKeeps ==
    ASSUME IInv, TypeOK', NEW r \in Runs, UNCHANGED <<tables, history>>,
           OthersRest(r), RunInv(r)', stored' = stored \/ StoredInv'
    PROVE  IInv'
<1>1. TablesGrow
  BY DEF TablesGrow, tables
<1>2. EventsAreLinked'
  BY DEF IInv, EventsAreLinked, tables
<1>3. NoBackfill'
  BY DEF IInv, NoBackfill, Handled, KnownId, LinkedId, tables
<1> QED BY <1>1, <1>2, <1>3, StepKeeps

(* What the current row of a run is.                                        *)
LEMMA CurrentRow ==
    ASSUME IInv, NEW r \in Runs, at[r] \in Importing \/ (at[r] = "next" /\ batch[r] # {})
    PROVE  /\ Current(r) \in batch[r] /\ Current(r) \in Watched /\ Current(r) \in Ids
           /\ \A i \in batch[r] : Current(r) <= i
           /\ cursor[r] < Current(r) /\ Watermark < Current(r)
           /\ batch[r] \subseteq Ids
<1>1. TypeOK /\ RunInv(r)
  BY DEF IInv
<1>2. batch[r] # {} /\ BatchIsNext(r) /\ Reachable(cursor[r])
  BY <1>1 DEF RunInv, Importing
<1>3. batch[r] \subseteq Ids
  BY <1>1, <1>2, WatchedRows DEF BatchIsNext
<1>4. Current(r) \in batch[r] /\ \A i \in batch[r] : Current(r) <= i
  BY <1>2, <1>3, Minimum DEF Current
<1>5. Current(r) \in Watched /\ cursor[r] < Current(r)
  BY <1>2, <1>4 DEF BatchIsNext
<1>6. Watermark < Current(r)
  BY <1>2, <1>3, <1>4, <1>5, Kinds DEF Reachable
<1> QED BY <1>3, <1>4, <1>5, <1>6

LEMMA StartKeeps == ASSUME IInv, NEW r \in Runs, Start(r) PROVE IInv'
<1>1. TypeOK /\ StoredInv
  BY DEF IInv
<1>2. stored \in Watermark..Rows \cup {None} /\ cursor \in [Runs -> 0..Rows]
  BY <1>1 DEF TypeOK
<1>3. TypeOK'
  <2>1. (IF stored = None THEN Watermark ELSE stored) \in 0..Rows
    BY <1>2, Kinds
  <2> QED BY <1>1, <2>1 DEF TypeOK, Start, Goto, tables
<1>4. /\ at'[r] \in {"new", "reading"}
      /\ cursor'[r] = IF stored = None THEN Watermark ELSE stored
      /\ UNCHANGED <<tables, history, stored>>
  BY <1>1 DEF Start, Goto, TypeOK
<1>5. Reachable(cursor'[r]) /\ HandledUpTo(cursor'[r])
  <2>1. CASE stored = None
    <3>1. cursor'[r] = Watermark /\ Watermark \in Watermark..Rows
      BY <1>4, <2>1, Kinds
    <3>2. \A i \in Watched : ~(Watermark < i /\ i <= Watermark)
      BY <1>1, WatchedRows, Kinds
    <3> QED BY <3>1, <3>2 DEF Reachable, HandledUpTo
  <2>2. CASE stored # None
    BY <1>1, <1>4, <2>2 DEF StoredInv
  <2> QED BY <2>1, <2>2
<1>6. RunInv(r)'
  <2>1. Reachable(cursor[r])' /\ HandledUpTo(cursor[r])'
    BY <1>4, <1>5 DEF Reachable, HandledUpTo, Watched, Handled, KnownId, LinkedId, tables
  <2> QED BY <1>4, <2>1 DEF RunInv, Importing
<1>7. OthersRest(r)
  BY <1>1 DEF OthersRest, Start, Goto, TypeOK
<1> QED BY <1>3, <1>4, <1>6, <1>7, LocalKeeps

LEMMA InitializeKeeps == ASSUME IInv, NEW r \in Runs, Initialize(r) PROVE IInv'
<1>1. TypeOK /\ RunInv(r)
  BY DEF IInv
<1>2. Reachable(cursor[r]) /\ HandledUpTo(cursor[r]) /\ stored' = cursor[r]
  BY <1>1 DEF RunInv, Initialize
<1>3. /\ at'[r] = "reading" /\ OthersRest(r)
      /\ UNCHANGED <<tables, history, cursor, batch, print>>
  BY <1>1 DEF Initialize, Goto, TypeOK, OthersRest
<1>4. TypeOK'
  <2>1. stored' \in Watermark..Rows
    BY <1>2 DEF Reachable
  <2> QED BY <1>1, <2>1 DEF TypeOK, Initialize, Goto, tables
<1>5. StoredInv'
  BY <1>2, <1>3 DEF StoredInv, Reachable, HandledUpTo, Watched, Handled, KnownId, LinkedId, tables
<1>6. RunInv(r)'
  BY <1>2, <1>3 DEF RunInv, Importing, Reachable, HandledUpTo, Watched, Handled, KnownId, LinkedId,
                    tables
<1> QED BY <1>3, <1>4, <1>5, <1>6, LocalKeeps

(* Steps in which the tables, the history and the cursors rest.             *)
LEMMA MoveKeeps ==
    ASSUME IInv, TypeOK', NEW r \in Runs, UNCHANGED <<tables, history, stored, cursor>>,
           OthersRest(r), at[r] # "idle",
           at'[r] \in Importing \cup {"next"} => BatchIsNext(r)',
           at'[r] \in Importing => batch'[r] # {} /\ print'[r] \in Prints,
           at'[r] = "ingested" => Handled(Current(r))'
    PROVE  IInv'
<1>1. Reachable(cursor[r])' /\ HandledUpTo(cursor[r])'
  BY DEF IInv, RunInv, Reachable, HandledUpTo, Watched, Handled, KnownId, LinkedId, tables
<1>2. RunInv(r)'
  BY <1>1 DEF RunInv
<1> QED BY <1>2, LocalKeeps

LEMMA ReadKeeps == ASSUME IInv, NEW r \in Runs, Read(r) PROVE IInv'
<1>1. TypeOK /\ RunInv(r)
  BY DEF IInv
<1>2. New(r) \subseteq Watched /\ New(r) \subseteq Ids /\ cursor[r] \in Nat /\ cursor \in [Runs -> 0..Rows]
  <2>1. cursor \in [Runs -> 0..Rows]
    BY <1>1 DEF TypeOK
  <2>2. New(r) \subseteq Watched
    BY DEF New, Window
  <2> QED BY <1>1, <2>1, <2>2, WatchedRows, Kinds
<1>3. TypeOK'
  BY <1>1, <1>2 DEF TypeOK, Read, Goto, tables
<1>4. /\ at'[r] = "next" /\ batch'[r] = New(r) /\ OthersRest(r) /\ at[r] = "reading"
      /\ UNCHANGED <<tables, history, stored, cursor>>
  BY <1>1 DEF Read, Goto, TypeOK, OthersRest
<1>5. ASSUME NEW i \in New(r), NEW j \in Watched, cursor[r] < j, j < i PROVE j \in New(r)
  <2>1. Behind(r) \in Nat /\ Behind(r) <= cursor[r] /\ j \in Nat
    BY <1>1, <1>2, Kinds, WatchedRows DEF Behind
  <2>2. Behind(r) < j /\ i \in Window(r)
    BY <1>2, <1>5, <2>1 DEF New
  <2>3. j \in Window(r)
    BY <1>1, <1>5, <2>2, WindowIsFull
  <2> QED BY <1>2, <1>5, <2>1, <2>3 DEF New
<1>6. \A i \in New(r) : cursor[r] < i
  BY <1>2 DEF New
<1>7. BatchIsNext(r)'
  BY <1>2, <1>4, <1>5, <1>6 DEF BatchIsNext, Watched
<1> QED BY <1>3, <1>4, <1>7, MoveKeeps DEF Importing

LEMMA NormalizeKeeps == ASSUME IInv, NEW r \in Runs, Normalize(r) PROVE IInv'
<1>1. TypeOK /\ RunInv(r)
  BY DEF IInv
<1>2. at[r] = "next" /\ batch[r] # {} /\ Current(r) \in Ids
  BY CurrentRow DEF Normalize
<1>3. PICK p \in Viewings \cup {Current(r)} : print' = [print EXCEPT ![r] = p]
  BY DEF Normalize
<1>4. p \in Prints
  BY <1>2, <1>3 DEF Prints
<1>5. TypeOK'
  BY <1>1, <1>3, <1>4 DEF TypeOK, Normalize, Goto, tables
<1>6. /\ at'[r] = "by id" /\ print'[r] = p /\ OthersRest(r)
      /\ UNCHANGED <<tables, history, stored, cursor, batch>>
  BY <1>1, <1>3 DEF Normalize, Goto, TypeOK, OthersRest
<1>7. BatchIsNext(r)'
  BY <1>1, <1>2, <1>6 DEF RunInv, BatchIsNext, Watched
<1> QED BY <1>2, <1>4, <1>5, <1>6, <1>7, MoveKeeps

LEMMA LookupKeeps ==
    ASSUME IInv, NEW r \in Runs, LookupId(r) \/ LookupLink(r) \/ LookupPrint(r)
    PROVE  IInv'
<1>1. TypeOK /\ RunInv(r)
  BY DEF IInv
<1>2. /\ at[r] \in Importing
      /\ at'[r] \in Importing
      /\ OthersRest(r)
      /\ UNCHANGED <<tables, history, stored, cursor, batch, print>>
      /\ at'[r] = "ingested" => Handled(Current(r))
  BY <1>1 DEF LookupId, LookupLink, LookupPrint, Lookup, Goto, TypeOK, OthersRest, Importing,
              Handled, Duplicate
<1>3. TypeOK'
  <2>1. at' \in [Runs -> {"idle", "new", "reading", "next", "by id", "by link", "by print",
                          "create", "link", "ingested"}]
    BY <1>1 DEF LookupId, LookupLink, LookupPrint, Lookup, Goto, TypeOK, Duplicate
  <2> QED BY <1>1, <1>2, <2>1 DEF TypeOK, tables
<1>4. BatchIsNext(r)' /\ batch'[r] # {} /\ print'[r] \in Prints
  BY <1>1, <1>2 DEF RunInv, BatchIsNext, Watched
<1>5. at'[r] = "ingested" => Handled(Current(r))'
  BY <1>2 DEF Handled, KnownId, LinkedId, Current, tables
<1>6. at[r] # "idle"
  BY <1>2 DEF Importing
<1> QED BY <1>2, <1>3, <1>4, <1>5, <1>6, MoveKeeps

(* What an insertion does to the tables: the current row gets an event, or  *)
(* the link to one, and nothing else changes.                               *)
Inserted(r) ==
    LET i == Current(r)
        p == print[r]
    IN  /\ i \in Ids /\ i # None /\ i # NoEvent /\ Watermark < i /\ i \in Watched
        /\ p \in Prints /\ p # None /\ batch[r] # {} /\ BatchIsNext(r)
        /\ at'[r] = "ingested" /\ OthersRest(r)
        /\ UNCHANGED <<history, stored, cursor, batch, print>>
        /\ events' \in [Prints -> Ids \cup {None, NoEvent}]
        /\ links' \in [Ids -> Prints \cup {None}]
        /\ TablesGrow
        /\ \A j \in Ids \ {i} : links'[j] = links[j]
        /\ \A q \in Prints \ {p} : events'[q] = events[q]
        /\ events' = events \/ events[p] = NoEvent
        /\ events'[p] = i \/ (events' = events /\ links'[i] = p)

LEMMA InsertsOne == ASSUME IInv, NEW r \in Runs, Insert(r) PROVE Inserted(r)
<1> DEFINE i == Current(r)
           p == print[r]
<1>1. TypeOK /\ RunInv(r)
  BY DEF IInv
<1>2. at[r] \in {"create", "link"}
  BY DEF Insert
<1>3. /\ i \in Ids /\ i # None /\ i # NoEvent /\ Watermark < i /\ i \in Watched
      /\ p \in Prints /\ p # None /\ batch[r] # {} /\ BatchIsNext(r)
  <2>1. i \in Ids /\ Watermark < i /\ i \in Watched
    BY <1>2, CurrentRow DEF Importing
  <2>2. p \in Prints /\ batch[r] # {} /\ BatchIsNext(r)
    BY <1>1, <1>2 DEF RunInv, Importing
  <2> QED BY <2>1, <2>2, Kinds DEF Prints
<1>4. /\ at'[r] = "ingested" /\ OthersRest(r)
      /\ UNCHANGED <<history, stored, cursor, batch, print>>
  BY <1>1 DEF Insert, Goto, TypeOK, OthersRest
<1>5. \/ Create(i, p)
      \/ Link(i, p) /\ events' = events
  BY DEF Insert
<1>6. /\ events \in [Prints -> Ids \cup {None, NoEvent}]
      /\ links \in [Ids -> Prints \cup {None}]
  BY <1>1 DEF TypeOK
<1> HIDE DEF i, p
<1>7. /\ events' \in [Prints -> Ids \cup {None, NoEvent}]
      /\ links' \in [Ids -> Prints \cup {None}]
      /\ TablesGrow
      /\ \A j \in Ids \ {i} : links'[j] = links[j]
      /\ \A q \in Prints \ {p} : events'[q] = events[q]
      /\ events' = events \/ events[p] = NoEvent
      /\ events'[p] = i \/ (events' = events /\ links'[i] = p)
  <2>1. CASE Create(i, p)
    <3>1. events[p] = NoEvent /\ events' = [events EXCEPT ![p] = i]
      BY <2>1 DEF Create, CanCreate, Stored
    <3>2. \/ links' = links
          \/ links[i] \in {None, p} /\ links' = [links EXCEPT ![i] = p]
      BY <2>1 DEF Create, CanCreate, CanLink
    <3> QED BY <1>3, <1>6, <3>1, <3>2 DEF TablesGrow
  <2>2. CASE Link(i, p) /\ events' = events
    <3>1. links[i] \in {None, p} /\ links' = [links EXCEPT ![i] = p]
      BY <2>2 DEF Link, CanLink
    <3> QED BY <1>3, <1>6, <2>2, <3>1 DEF TablesGrow
  <2> QED BY <1>5, <2>1, <2>2
<1> QED BY <1>3, <1>4, <1>7 DEF Inserted, i, p

LEMMA InsertKeeps == ASSUME IInv, NEW r \in Runs, Insert(r) PROVE IInv'
<1> DEFINE i == Current(r)
           p == print[r]
<1>0. Inserted(r)
  BY InsertsOne
<1>1. TypeOK /\ RunInv(r) /\ EventsAreLinked /\ NoBackfill
  BY DEF IInv
<1>2. at[r] \in {"create", "link"}
  BY DEF Insert
<1>3. /\ i \in Ids /\ i # None /\ i # NoEvent /\ Watermark < i
      /\ p \in Prints /\ p # None /\ batch[r] # {} /\ BatchIsNext(r)
  BY <1>0 DEF Inserted
<1>4. /\ at'[r] = "ingested" /\ OthersRest(r)
      /\ UNCHANGED <<history, stored, cursor, batch, print>>
  BY <1>0 DEF Inserted
<1>5. \/ Create(i, p)
      \/ Link(i, p) /\ events' = events
  BY DEF Insert
<1>6. /\ events \in [Prints -> Ids \cup {None, NoEvent}]
      /\ links \in [Ids -> Prints \cup {None}]
  BY <1>1 DEF TypeOK
<1>7. /\ events' \in [Prints -> Ids \cup {None, NoEvent}]
      /\ links' \in [Ids -> Prints \cup {None}]
      /\ TablesGrow
      /\ \A j \in Ids \ {i} : links'[j] = links[j]
      /\ \A q \in Prints \ {p} : events'[q] = events[q]
      /\ events'[p] = i \/ (events' = events /\ links'[i] = p)
  BY <1>0 DEF Inserted
<1> HIDE DEF i, p
<1>8. EventsAreLinked'
  <2> SUFFICES ASSUME NEW v \in Viewings, NEW j \in Ids, events'[v] = j PROVE links'[j] = v
    BY DEF EventsAreLinked
  <2>0. v \in Prints /\ v \notin Ids /\ v # None /\ j # None
    BY Kinds DEF Prints
  <2>1. CASE events[v] = j
    <3>1. links[j] = v
      BY <1>1, <2>1 DEF EventsAreLinked
    <3> QED BY <1>7, <2>0, <3>1 DEF TablesGrow
  <2>2. CASE events[v] # j
    <3>1. v = p /\ events' # events /\ Create(i, p)
      BY <1>5, <1>7, <2>0, <2>2 DEF Link
    <3>2. events' = [events EXCEPT ![p] = i] /\ ~Quarantined(p)
      BY <2>0, <3>1 DEF Create, Quarantined
    <3>3. j = i /\ links' = [links EXCEPT ![i] = p]
      BY <1>3, <1>6, <3>1, <3>2 DEF Create
    <3> QED BY <1>3, <1>6, <3>1, <3>3
  <2> QED BY <2>1, <2>2
<1>9. NoBackfill'
  <2> SUFFICES ASSUME NEW j \in Ids, Handled(j)' PROVE j > Watermark
    BY DEF NoBackfill
  <2>1. CASE j = i
    BY <1>3, <2>1, Kinds
  <2>2. CASE j # i
    <3>1. Handled(j)
      <4>1. CASE KnownId(j)'
        <5>1. PICK q \in Prints : events'[q] = j
          BY <4>1 DEF KnownId
        <5>2. events[q] = j
          BY <1>7, <2>2, <5>1
        <5> QED BY <5>2 DEF Handled, KnownId
      <4>2. CASE LinkedId(j)'
        BY <1>7, <2>2, <4>2 DEF Handled, LinkedId
      <4> QED BY <4>1, <4>2 DEF Handled
    <3> QED BY <1>1, <3>1 DEF NoBackfill
  <2> QED BY <2>1, <2>2
<1>10. TypeOK'
  BY <1>1, <1>7 DEF TypeOK, Insert, Goto
<1>11. RunInv(r)'
  <2>1. HistoryGrows
    BY <1>1, <1>4, HistoryRests
  <2>2. Reachable(cursor[r])' /\ HandledUpTo(cursor[r])'
    BY <1>1, <1>2, <1>4, <1>7, <1>10, <2>1, UpToStays DEF RunInv
  <2>3. BatchIsNext(r)'
    BY <1>3, <1>4 DEF BatchIsNext, Watched
  <2>4. (\E q \in Prints : events'[q] = i) \/ links'[i] # None
    BY <1>3, <1>7
  <2>5. Handled(Current(r))'
    BY <1>4, <2>4 DEF i, Handled, KnownId, LinkedId, Current
  <2> QED BY <1>3, <1>4, <2>2, <2>3, <2>5 DEF RunInv, p
<1> QED BY <1>4, <1>7, <1>8, <1>9, <1>10, <1>11, StepKeeps

LEMMA AdvanceKeeps == ASSUME IInv, NEW r \in Runs, Advance(r) PROVE IInv'
<1> DEFINE i == Current(r)
<1>1. TypeOK /\ RunInv(r)
  BY DEF IInv
<1>2. at[r] = "ingested"
  BY DEF Advance
<1>3. /\ i \in batch[r] /\ i \in Watched /\ i \in Ids /\ batch[r] \subseteq Ids
      /\ \A j \in batch[r] : i <= j
      /\ cursor[r] < i /\ Watermark < i
  BY <1>2, CurrentRow DEF Importing
<1>4. Handled(i) /\ BatchIsNext(r) /\ HandledUpTo(cursor[r])
  BY <1>1, <1>2 DEF RunInv, Importing
<1>5. /\ at'[r] = "next" /\ OthersRest(r) /\ stored' = i /\ cursor'[r] = i
      /\ batch'[r] = batch[r] \ {i}
      /\ UNCHANGED <<tables, history>>
  BY <1>1 DEF Advance, Goto, TypeOK, OthersRest, Position
<1>6. i \in Watermark..Rows /\ i \in 0..Rows
  BY <1>3, Kinds
<1>7. TypeOK'
  BY <1>1, <1>6 DEF TypeOK, Advance, Goto, Position, tables
<1> HIDE DEF i
<1>8. Reachable(i) /\ HandledUpTo(i)
  <2>1. Reachable(i)
    BY <1>3, <1>6 DEF Reachable, Watched
  <2>2. ASSUME NEW j \in Watched, Watermark < j, j <= i PROVE Handled(j)
    <3>0. j \in Nat /\ i \in Nat /\ cursor[r] \in Nat
      <4>1. cursor \in [Runs -> 0..Rows]
        BY <1>1 DEF TypeOK
      <4> QED BY <1>1, <1>3, <4>1, WatchedRows, Kinds
    <3>1. CASE j <= cursor[r]
      BY <1>4, <2>2, <3>1 DEF HandledUpTo
    <3>2. CASE j = i
      BY <1>4, <3>2
    <3>3. CASE cursor[r] < j /\ j < i
      <4>1. j \in batch[r]
        BY <1>3, <1>4, <3>3 DEF BatchIsNext
      <4> QED BY <1>3, <3>0, <3>3, <4>1
    <3> QED BY <2>2, <3>0, <3>1, <3>2, <3>3
  <2> QED BY <2>1, <2>2 DEF HandledUpTo
<1>9. StoredInv'
  BY <1>5, <1>8 DEF StoredInv, Reachable, HandledUpTo, Watched, Handled, KnownId, LinkedId, tables
<1>10. BatchIsNext(r)'
  <2>1. \A j \in batch'[r] : j \in Watched' /\ i < j
    BY <1>3, <1>4, <1>5, Kinds DEF BatchIsNext, Watched
  <2>2. ASSUME NEW j \in batch'[r], NEW k \in Watched', i < k, k < j PROVE k \in batch'[r]
    <3>1. k \in Watched /\ j \in batch[r] /\ j \in Nat /\ k \in Nat /\ i \in Nat
      BY <1>1, <1>3, <1>5, <2>2, WatchedRows, Kinds DEF Watched
    <3>2. cursor[r] < k
      <4>1. cursor \in [Runs -> 0..Rows]
        BY <1>1 DEF TypeOK
      <4> QED BY <1>3, <2>2, <3>1, <4>1, Kinds
    <3>3. k \in batch[r]
      BY <1>4, <2>2, <3>1, <3>2 DEF BatchIsNext
    <3> QED BY <1>5, <2>2, <3>1, <3>3
  <2> QED BY <1>5, <2>1, <2>2 DEF BatchIsNext
<1>11. Reachable(cursor[r])' /\ HandledUpTo(cursor[r])'
  BY <1>5, <1>8 DEF Reachable, HandledUpTo, Watched, Handled, KnownId, LinkedId, tables
<1>12. RunInv(r)'
  BY <1>5, <1>10, <1>11 DEF RunInv, Importing
<1> QED BY <1>5, <1>7, <1>9, <1>12, LocalKeeps

LEMMA EndKeeps == ASSUME IInv, NEW r \in Runs, End(r) PROVE IInv'
<1>1. TypeOK
  BY DEF IInv
<1>2. at'[r] = "idle" /\ OthersRest(r) /\ UNCHANGED <<tables, history, stored>>
  BY <1>1 DEF End, Goto, TypeOK, OthersRest
<1>3. TypeOK'
  <2>1. 0 \in 0..Rows
    BY Kinds
  <2> QED BY <1>1, <2>1 DEF TypeOK, End, Goto, tables
<1>4. RunInv(r)'
  BY <1>2 DEF RunInv, Importing
<1> QED BY <1>2, <1>3, <1>4, LocalKeeps

(* A session ends.                                                          *)
LEMMA WatchKeeps == ASSUME IInv, NEW completed \in BOOLEAN, Watch(completed) PROVE IInv'
<1>1. TypeOK /\ StoredInv
  BY DEF IInv
<1>2. history \in Seq(BOOLEAN) /\ Len(history) < Rows /\ history' = Append(history, completed)
  BY <1>1 DEF TypeOK, Watch
<1>3. /\ history' \in Seq(BOOLEAN) /\ Len(history') = Len(history) + 1
      /\ DOMAIN history = 1..Len(history) /\ DOMAIN history' = 1..(Len(history) + 1)
      /\ \A i \in DOMAIN history : history'[i] = history[i]
      /\ Len(history) \in Nat
  BY <1>2
<1>4. HistoryGrows
  BY <1>3 DEF HistoryGrows
<1>5. TypeOK'
  <2>1. Len(history') <= Rows
    BY <1>2, <1>3, Kinds
  <2> QED BY <1>1, <1>3, <2>1 DEF TypeOK, Watch, tables, runVars
<1>6. TablesGrow
  BY DEF TablesGrow, Watch, tables
<1>7. ASSUME NEW r \in Runs PROVE RunInv(r)'
  BY <1>4, <1>5, <1>6, RunStays DEF Watch, runVars
<1>8. StoredInv'
  <2>1. stored # None => Reachable(stored)' /\ HandledUpTo(stored)'
    BY <1>1, <1>4, <1>5, <1>6, UpToStays DEF StoredInv, Watch
  <2> QED BY <2>1 DEF StoredInv, Watch
<1>9. EventsAreLinked' /\ NoBackfill'
  BY DEF IInv, EventsAreLinked, NoBackfill, Handled, KnownId, LinkedId, Watch, tables
<1> QED BY <1>5, <1>7, <1>8, <1>9 DEF IInv

(* Another adapter stores an event of its own.                              *)
LEMMA WebhookKeeps == ASSUME IInv, NEW v \in Viewings, Webhook(v) PROVE IInv'
<1>1. TypeOK /\ StoredInv /\ EventsAreLinked /\ NoBackfill
  BY DEF IInv
<1>2. /\ v \in Prints /\ events[v] = NoEvent /\ events' = [events EXCEPT ![v] = None]
      /\ UNCHANGED <<links, history, stored, runVars>>
  BY DEF Webhook, CreateUnnumbered, Stored, Prints
<1>3. events \in [Prints -> Ids \cup {None, NoEvent}]
  BY <1>1 DEF TypeOK
<1>4. TypeOK'
  BY <1>1, <1>2 DEF TypeOK, runVars
<1>5. TablesGrow
  BY <1>2, <1>3 DEF TablesGrow
<1>6. HistoryGrows
  BY <1>1, <1>2, HistoryRests
<1>7. \A p \in Prints : \A i \in Ids : events'[p] = i => events[p] = i
  BY <1>2, <1>3, Kinds
<1>8. EventsAreLinked'
  BY <1>1, <1>2, <1>7 DEF EventsAreLinked, Prints
<1>9. NoBackfill'
  BY <1>1, <1>2, <1>7 DEF NoBackfill, Handled, KnownId, LinkedId
<1>10. ASSUME NEW r \in Runs PROVE RunInv(r)'
  BY <1>2, <1>4, <1>5, <1>6, RunStays DEF runVars
<1>11. StoredInv'
  <2>1. stored # None => Reachable(stored)' /\ HandledUpTo(stored)'
    BY <1>1, <1>2, <1>4, <1>5, <1>6, UpToStays DEF StoredInv
  <2> QED BY <1>2, <2>1 DEF StoredInv
<1> QED BY <1>4, <1>8, <1>9, <1>10, <1>11 DEF IInv

LEMMA InitIInv == Init => IInv
<1> SUFFICES ASSUME Init PROVE IInv
  OBVIOUS
<1>1. TypeOK
  <2>1. history = <<>> /\ history \in Seq(BOOLEAN) /\ Len(history) = 0
    BY DEF Init
  <2> QED BY <2>1, Kinds DEF Init, LedgerInit, TypeOK
<1>2. EventsAreLinked
  BY Kinds DEF Init, LedgerInit, EventsAreLinked, Prints
<1>3. NoBackfill
  BY Kinds DEF Init, LedgerInit, NoBackfill, Handled, KnownId, LinkedId
<1>4. StoredInv
  BY DEF Init, StoredInv
<1>5. ASSUME NEW r \in Runs PROVE RunInv(r)
  BY DEF Init, RunInv, Importing
<1> QED BY <1>1, <1>2, <1>3, <1>4, <1>5 DEF IInv

LEMMA NextIInv == IInv /\ [Next]_vars => IInv'
<1> SUFFICES ASSUME IInv, [Next]_vars PROVE IInv'
  OBVIOUS
<1>1. ASSUME NEW completed \in BOOLEAN, Watch(completed) PROVE IInv'
  BY <1>1, WatchKeeps
<1>2. ASSUME NEW v \in Viewings, Webhook(v) PROVE IInv'
  BY <1>2, WebhookKeeps
<1>3. ASSUME NEW r \in Runs, Run(r) \/ Stop(r) PROVE IInv'
  <2>1. CASE Start(r) \/ Initialize(r) \/ Read(r) \/ Normalize(r)
    BY <2>1, StartKeeps, InitializeKeeps, ReadKeeps, NormalizeKeeps
  <2>2. CASE LookupId(r) \/ LookupLink(r) \/ LookupPrint(r)
    BY <2>2, LookupKeeps
  <2>3. CASE Insert(r) \/ Advance(r)
    BY <2>3, InsertKeeps, AdvanceKeeps
  <2>4. CASE Finish(r) \/ Stop(r)
    BY <2>4, EndKeeps DEF Finish, Stop
  <2> QED BY <1>3, <2>1, <2>2, <2>3, <2>4 DEF Run
<1>4. CASE UNCHANGED vars
  BY <1>4 DEF vars, tables, runVars, IInv, TypeOK, EventsAreLinked, NoBackfill, StoredInv, RunInv,
              Reachable, HandledUpTo, BatchIsNext, Current, Handled, KnownId, LinkedId, Watched
<1> QED BY <1>1, <1>2, <1>3, <1>4 DEF Next

LEMMA IInvSafe == IInv => TypeOK /\ NothingSkipped /\ NoBackfill /\ OneViewingPerRow
<1> SUFFICES ASSUME IInv PROVE TypeOK /\ NothingSkipped /\ NoBackfill /\ OneViewingPerRow
  OBVIOUS
<1>1. TypeOK /\ NoBackfill
  BY DEF IInv
<1>2. NothingSkipped
  BY DEF IInv, StoredInv, HandledUpTo, NothingSkipped
<1>3. ASSUME NEW i \in Ids PROVE Cardinality(Counted(i)) <= 1
  <2>1. Counted(i) \in SUBSET {links[i]}
    BY DEF IInv, EventsAreLinked, Counted
  <2>2. IsFiniteSet({links[i]}) /\ Cardinality({links[i]}) = 1
    BY FS_Singleton
  <2> QED BY <2>1, <2>2, FS_Subset
<1> QED BY <1>1, <1>2, <1>3 DEF OneViewingPerRow

(* Every state is of its type: a batch has rows, a cursor is a position     *)
(* behind the watermark (reconcile_tautulli).                               *)
THEOREM TypeCorrect == Spec => []TypeOK
  BY InitIInv, NextIInv, IInvSafe, PTL DEF Spec

(* The cursor never passes a watched row that has no event, however many    *)
(* runs overlap, stop or come late (_store_cursor, ingest_observation).     *)
THEOREM NothingIsSkipped == Spec => []NothingSkipped
  BY InitIInv, NextIInv, IInvSafe, PTL DEF Spec

(* No row at or below the accepted watermark is ever imported: the filter   *)
(* of the overlap in reconcile_tautulli.                                    *)
THEOREM NothingIsBackfilled == Spec => []NoBackfill
  BY InitIInv, NextIInv, IInvSafe, PTL DEF Spec

(* A row is never counted as two viewings, whatever Plex identifies it as   *)
(* for the runs that import it (link_external_event's check).               *)
THEOREM RowsAreOneViewing == Spec => []OneViewingPerRow
  BY InitIInv, NextIInv, IInvSafe, PTL DEF Spec

-----------------------------------------------------------------------------
(* Beyond the invariant, the import of a history has to begin at the        *)
(* watermark: the first cursor is stored before anything is imported.       *)
Begun == \A r \in Runs :
    /\ at[r] = "new" => cursor[r] = Watermark
    /\ at[r] \notin {"idle", "new"} => stored # None

LEMMA BegunPreserved == IInv /\ Begun /\ [Next]_vars => Begun'
<1> SUFFICES ASSUME IInv, Begun, [Next]_vars PROVE Begun'
  OBVIOUS
<1>0. TypeOK
  BY DEF IInv
<1>1. ASSUME NEW r \in Runs, OthersRest(r), stored' # None \/ stored' = stored,
             at'[r] = "new" => cursor'[r] = Watermark,
             at'[r] \notin {"idle", "new"} => stored' # None
      PROVE  Begun'
  BY <1>1 DEF Begun, OthersRest
<1>2. ASSUME NEW r \in Runs, Start(r) PROVE Begun'
  <2>1. OthersRest(r) /\ stored' = stored
    BY <1>0, <1>2 DEF Start, Goto, OthersRest, TypeOK
  <2>2. /\ at'[r] = IF stored = None THEN "new" ELSE "reading"
        /\ cursor'[r] = IF stored = None THEN Watermark ELSE stored
    BY <1>0, <1>2 DEF Start, Goto, TypeOK
  <2> QED BY <1>1, <2>1, <2>2
<1>3. ASSUME NEW r \in Runs, Initialize(r) PROVE Begun'
  <2>1. OthersRest(r) /\ stored' = Watermark /\ at'[r] = "reading"
    BY <1>0, <1>3 DEF Initialize, Goto, OthersRest, TypeOK, Begun
  <2>2. Watermark # None
    BY Kinds
  <2> QED BY <1>1, <2>1, <2>2
<1>4. ASSUME NEW r \in Runs, Advance(r) PROVE Begun'
  <2>1. OthersRest(r) /\ stored' = Current(r) /\ at'[r] = "next"
    BY <1>0, <1>4 DEF Advance, Goto, OthersRest, TypeOK, Position
  <2>2. Current(r) # None
    <3>1. Current(r) \in Ids
      BY <1>4, CurrentRow DEF Advance, Importing
    <3> QED BY <3>1, Kinds
  <2> QED BY <1>1, <2>1, <2>2
<1>5. ASSUME NEW r \in Runs, at[r] \notin {"idle", "new"}, stored' = stored, OthersRest(r),
             at'[r] # "new"
      PROVE  Begun'
  BY <1>1, <1>5 DEF Begun
<1>6. ASSUME NEW r \in Runs,
             Read(r) \/ Normalize(r) \/ LookupId(r) \/ LookupLink(r) \/ LookupPrint(r) \/ Insert(r)
      PROVE  Begun'
  <2>1. /\ at[r] \notin {"idle", "new"} /\ stored' = stored /\ OthersRest(r)
        /\ at'[r] # "new"
    BY <1>0, <1>6 DEF Read, Normalize, LookupId, LookupLink, LookupPrint, Lookup, Insert, Goto,
                      OthersRest, TypeOK, Duplicate
  <2> QED BY <1>5, <2>1
<1>7. ASSUME NEW r \in Runs, End(r) PROVE Begun'
  <2>1. at'[r] = "idle" /\ stored' = stored /\ OthersRest(r)
    BY <1>0, <1>7 DEF End, Goto, OthersRest, TypeOK
  <2> QED BY <1>1, <2>1
<1>8. CASE UNCHANGED <<stored, runVars>>
  BY <1>8 DEF Begun, runVars
<1> QED BY <1>2, <1>3, <1>4, <1>6, <1>7, <1>8
        DEF Next, Run, Finish, Stop, Watch, Webhook, vars

-----------------------------------------------------------------------------
(* Each step is one of the import of a history, or none.                    *)
importVars == <<history, {i \in Ids : Handled(i)}, [i \in Ids |-> Counted(i)], stored>>

LEMMA SameTables ==
    ASSUME UNCHANGED tables
    PROVE  /\ {i \in Ids : Handled(i)}' = {i \in Ids : Handled(i)}
           /\ [i \in Ids |-> Counted(i)]' = [i \in Ids |-> Counted(i)]
  BY DEF tables, Handled, KnownId, LinkedId, Counted

LEMMA WatchImports ==
    ASSUME NEW completed \in BOOLEAN, Watch(completed)
    PROVE  Imported!Watch(completed)
  BY SameTables DEF Watch, Imported!Watch

(* Another adapter's event belongs to no row.                               *)
LEMMA WebhookIsUnseen ==
    ASSUME IInv, NEW v \in Viewings, Webhook(v)
    PROVE  UNCHANGED importVars
<1>1. /\ events \in [Prints -> Ids \cup {None, NoEvent}] /\ v \in Prints
      /\ events[v] = NoEvent /\ events' = [events EXCEPT ![v] = None]
      /\ UNCHANGED <<links, history, stored>>
  BY DEF IInv, TypeOK, Webhook, CreateUnnumbered, Stored, Prints
<1>2. \A p \in Prints : \A i \in Ids : events'[p] = i <=> events[p] = i
  BY <1>1, Kinds
<1>3. \A i \in Ids : Handled(i)' <=> Handled(i)
  BY <1>1, <1>2 DEF Handled, KnownId, LinkedId
<1>4. \A i \in Ids : Counted(i)' = Counted(i)
  BY <1>1, <1>2 DEF Counted, Prints
<1> QED BY <1>1, <1>3, <1>4 DEF importVars

LEMMA InsertImports ==
    ASSUME IInv, IInv', NEW r \in Runs, Insert(r)
    PROVE  Imported!Import(Current(r))
<1>0. PICK i \in Ids, p \in Prints : i = Current(r) /\ p = print[r]
  BY InsertsOne DEF Inserted
<1>1. /\ i \in Ids /\ Watermark < i /\ i \in Watched /\ p \in Prints /\ i # NoEvent
      /\ \A j \in Ids \ {i} : links'[j] = links[j]
      /\ \A q \in Prints \ {p} : events'[q] = events[q]
      /\ events' = events \/ events[p] = NoEvent
      /\ events'[p] = i \/ (events' = events /\ links'[i] = p)
      /\ TablesGrow /\ UNCHANGED <<history, stored>>
  BY <1>0, InsertsOne DEF Inserted
<1>2. p # None /\ \A j \in Ids : j # None /\ j # NoEvent
  BY <1>1, Kinds DEF Prints
<1>3. \A j \in Ids \ {i} : \A q \in Prints : events'[q] = j <=> events[q] = j
  BY <1>1, <1>2
<1>4. {j \in Ids : Handled(j)}' = {j \in Ids : Handled(j)} \cup {i}
  <2>1. \A j \in Ids \ {i} : Handled(j)' <=> Handled(j)
    BY <1>1, <1>3 DEF Handled, KnownId, LinkedId
  <2>2. Handled(i)'
    BY <1>1, <1>2 DEF Handled, KnownId, LinkedId
  <2> QED BY <1>1, <2>1, <2>2
<1>5. \A j \in Ids \ {i} : Counted(j)' = Counted(j)
  BY <1>1, <1>3 DEF Counted, Prints
<1>6. Counted(i) \subseteq {links[i]} /\ Counted(i)' \subseteq {links'[i]}
  BY <1>1 DEF IInv, EventsAreLinked, Counted
<1>7. \/ Counted(i)' = Counted(i)
      \/ Counted(i) = {} /\ \E v \in Viewings : Counted(i)' = {v}
  <2>1. CASE links[i] \in Viewings
    <3>1. links'[i] = links[i]
      BY <1>1, <2>1, Kinds DEF TablesGrow
    <3>2. links[i] \in Counted(i) /\ links'[i] \in Counted(i)'
      BY <2>1, <3>1 DEF Counted
    <3> QED BY <1>6, <3>1, <3>2
  <2>2. CASE links[i] \notin Viewings
    <3>1. Counted(i) = {}
      BY <1>6, <2>2 DEF Counted
    <3>2. Counted(i)' = {} \/ Counted(i)' = {links'[i]}
      BY <1>6
    <3>3. Counted(i)' \subseteq Viewings
      BY DEF Counted
    <3> QED BY <3>1, <3>2, <3>3
  <2> QED BY <2>1, <2>2
<1>8. \/ [j \in Ids |-> Counted(j)]' = [j \in Ids |-> Counted(j)]
      \/ /\ Counted(i) = {}
         /\ \E v \in Viewings :
              [j \in Ids |-> Counted(j)]' = [[j \in Ids |-> Counted(j)] EXCEPT ![i] = {v}]
  <2>1. CASE Counted(i)' = Counted(i)
    BY <1>5, <2>1
  <2>2. CASE Counted(i) = {} /\ \E v \in Viewings : Counted(i)' = {v}
    <3>1. PICK v \in Viewings : Counted(i)' = {v}
      BY <2>2
    <3>2. [j \in Ids |-> Counted(j)]' = [[j \in Ids |-> Counted(j)] EXCEPT ![i] = {v}]
      BY <1>5, <3>1
    <3> QED BY <2>2, <3>2
  <2> QED BY <1>7, <2>1, <2>2
<1>9. [j \in Ids |-> Counted(j)][i] = Counted(i)
  BY <1>1
<1> QED BY <1>0, <1>1, <1>4, <1>8, <1>9 DEF Imported!Import, Imported!Watched, Watched

(* A cursor is stored by the first run, and by every run for each row.      *)
LEMMA CursorPositions ==
    ASSUME IInv, Begun, NEW r \in Runs, Initialize(r) \/ Advance(r)
    PROVE  \E n \in {Watermark} \cup Imported!Watched : Imported!Position(n)
<1>0. Imported!Watched = Watched
  BY DEF Imported!Watched, Watched
<1>1. TypeOK /\ RunInv(r)
  BY DEF IInv
<1>2. CASE Initialize(r)
  <2>1. stored' = Watermark /\ UNCHANGED <<tables, history>>
    BY <1>2 DEF Initialize, Begun
  <2>2. \A i \in Watched : ~(Watermark < i /\ i <= Watermark)
    BY <1>1, WatchedRows, Kinds
  <2> QED BY <1>0, <2>1, <2>2, SameTables DEF Imported!Position
<1>3. CASE Advance(r)
  <2>1. stored' = Current(r) /\ UNCHANGED <<tables, history>> /\ at[r] = "ingested"
    BY <1>3 DEF Advance, Position
  <2>2. Current(r) \in Watched /\ Watermark < Current(r) /\ stored # None
    BY <2>1, CurrentRow DEF Importing, Begun
  <2>3. \A i \in Watched : Watermark < i /\ i <= Current(r) => Handled(i)
    <3>1. IInv'
      BY <1>3, AdvanceKeeps
    <3>2. stored' # None
      BY <2>1, <2>2, WatchedRows, Kinds, <1>1
    <3>3. HandledUpTo(stored)'
      BY <3>1, <3>2 DEF IInv, StoredInv
    <3> QED BY <2>1, <3>3 DEF HandledUpTo, Watched, Handled, KnownId, LinkedId, tables
  <2>4. \A i \in Watched : Watermark < i /\ i <= Current(r) => i \in {j \in Ids : Handled(j)}
    BY <1>1, <2>3, WatchedRows
  <2> QED BY <1>0, <2>1, <2>2, <2>4, SameTables DEF Imported!Position
<1> QED BY <1>2, <1>3

LEMMA NextImports ==
    IInv /\ IInv' /\ Begun /\ [Next]_vars => [Imported!Next]_importVars
<1> SUFFICES ASSUME IInv, IInv', Begun, [Next]_vars
             PROVE  Imported!Next \/ UNCHANGED importVars
  OBVIOUS
<1>0. Imported!Watched = Watched
  BY DEF Imported!Watched, Watched
<1>1. ASSUME NEW completed \in BOOLEAN, Watch(completed) PROVE Imported!Next
  BY <1>1, WatchImports DEF Imported!Next
<1>2. ASSUME NEW v \in Viewings, Webhook(v) PROVE UNCHANGED importVars
  BY <1>2, WebhookIsUnseen
<1>3. ASSUME NEW r \in Runs, Insert(r) PROVE Imported!Next
  <2>1. Current(r) \in Watched
    BY <1>3, InsertsOne DEF Inserted
  <2> QED BY <1>0, <1>3, <2>1, InsertImports DEF Imported!Next
<1>4. ASSUME NEW r \in Runs, Initialize(r) \/ Advance(r) PROVE Imported!Next
  BY <1>4, CursorPositions DEF Imported!Next
<1>5. CASE UNCHANGED <<tables, history, stored>>
  BY <1>5, SameTables DEF importVars
<1>6. ASSUME NEW r \in Runs,
             Start(r) \/ Read(r) \/ Normalize(r) \/ LookupId(r) \/ LookupLink(r) \/ LookupPrint(r)
             \/ Finish(r) \/ Stop(r)
      PROVE  UNCHANGED <<tables, history, stored>>
  BY <1>6 DEF Start, Read, Normalize, LookupId, LookupLink, LookupPrint, Lookup, Finish, Stop, End
<1>7. CASE UNCHANGED vars
  BY <1>5, <1>7 DEF vars
<1> QED BY <1>1, <1>2, <1>3, <1>4, <1>5, <1>6, <1>7 DEF Next, Run

(* The reconciliation is the import of a history, whatever overlaps: what   *)
(* is imported stays so, as the viewing it was first taken for, and every   *)
(* cursor that is stored is a promise about all rows behind it.             *)
THEOREM RunsAreAnImport == Spec => ImplementsImport
<1>1. Init => Imported!Init
  <2> SUFFICES ASSUME Init PROVE Imported!Init
    OBVIOUS
  <2>1. \A i \in Ids : ~Handled(i) /\ Counted(i) = {}
    BY Kinds DEF Init, LedgerInit, Handled, KnownId, LinkedId, Counted, Prints
  <2> QED BY <2>1 DEF Init, Imported!Init, Ids
<1>2. Init => Begun
  BY DEF Init, Begun
<1> QED BY <1>1, <1>2, InitIInv, NextIInv, BegunPreserved, NextImports, PTL
        DEF Spec, ImplementsImport, Imported!Spec, importVars
=============================================================================
