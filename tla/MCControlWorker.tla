--------------------------- MODULE MCControlWorker ---------------------------
(* Small instances of ControlWorker for TLC.                                *)
EXTENDS ControlWorker, TLC

CONSTANTS
    MaxIssue,   \* issues are 1..MaxIssue
    MaxEdits    \* how often users edit, close, retitle or reopen an issue

IssueNumbers == 1..MaxIssue

VARIABLE edits

MCInit == Init /\ edits = 0
MCNext ==
    \/ /\ \/ \E w \in Workers : Serve(w)
          \/ Fault
          \/ \E i \in Issues : OpenIssue(i)
       /\ UNCHANGED edits
    \/ /\ edits < MaxEdits
       /\ \E i \in Issues : EditIssue(i)
       /\ edits' = edits + 1
MCSpec == MCInit /\ [][MCNext]_<<vars, edits>>
MCFairSpec == MCSpec /\ Fairness

Symmetric == Permutations(Workers) \cup Permutations(Ids)
=============================================================================
