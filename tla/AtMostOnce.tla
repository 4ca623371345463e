------------------------------ MODULE AtMostOnce ------------------------------
(***************************************************************************)
(* What the deliveries promise: the target applies an event at most once,  *)
(* and only while its row says that it may have; a row says that it has not*)
(* or that it has only when that is so; and a final word is kept.          *)
(***************************************************************************)
EXTENDS Naturals

CONSTANT Events

VARIABLES
    word,    \* what the row of each event says: "no", "maybe", "never" or "done"
    applied  \* how often the target has applied it

Init ==
    /\ word    = [e \in Events |-> "no"]
    /\ applied = [e \in Events |-> 0]

Say(e, from, to) ==
    /\ word[e] = from
    /\ word' = [word EXCEPT ![e] = to]
    /\ UNCHANGED applied

Attempt(e) == Say(e, "no", "maybe")
Deny(e)    == applied[e] = 0 /\ (Say(e, "maybe", "no") \/ Say(e, "maybe", "never"))
Confirm(e) == applied[e] = 1 /\ Say(e, "maybe", "done")

Apply(e) ==
    /\ word[e] = "maybe" /\ applied[e] = 0
    /\ applied' = [applied EXCEPT ![e] = 1]
    /\ UNCHANGED word

Next == \E e \in Events : Attempt(e) \/ Deny(e) \/ Confirm(e) \/ Apply(e)

Spec == Init /\ [][Next]_<<word, applied>>
=============================================================================
