---------------------------- MODULE HistoryImport ----------------------------
(***************************************************************************)
(* What the reconciliation promises of the history that it imports,        *)
(* whatever runs of it overlap, clash, stop and come late: a row is        *)
(* imported for good and counted as one viewing at most, and the cursor    *)
(* stands only where every row behind it, down to the watermark, has been  *)
(* imported.                                                               *)
(***************************************************************************)
EXTENDS Naturals, Sequences

CONSTANTS Rows, Viewings, Watermark, None

VARIABLES
    history,   \* the rows: whether each is to be imported
    imported,  \* those that are
    counted,   \* the viewings that each row is counted as
    cursor     \* a row or the watermark, or None

Watched == {i \in DOMAIN history : history[i]}

Init ==
    /\ history  = <<>>
    /\ imported = {}
    /\ counted  = [i \in 1..Rows |-> {}]
    /\ cursor   = None

Watch(completed) ==
    /\ Len(history) < Rows
    /\ history' = Append(history, completed)
    /\ UNCHANGED <<imported, counted, cursor>>

\* A row without identity is imported too, and may be identified later.
Import(i) ==
    /\ i \in Watched /\ Watermark < i
    /\ imported' = imported \cup {i}
    /\ \/ UNCHANGED counted
       \/ /\ counted[i] = {}
          /\ \E v \in Viewings : counted' = [counted EXCEPT ![i] = {v}]
    /\ UNCHANGED <<history, cursor>>

\* Forwards, or back when a run is late. It begins at the watermark.
Position(n) ==
    /\ n = Watermark \/ (n \in Watched /\ Watermark < n /\ cursor # None)
    /\ \A i \in Watched : Watermark < i /\ i <= n => i \in imported
    /\ cursor' = n
    /\ UNCHANGED <<history, imported, counted>>

Next ==
    \/ \E completed \in BOOLEAN : Watch(completed)
    \/ \E i \in Watched : Import(i)
    \/ \E n \in {Watermark} \cup Watched : Position(n)

Spec == Init /\ [][Next]_<<history, imported, counted, cursor>>
=============================================================================
