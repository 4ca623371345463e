---------------------------- MODULE MCWorkRunner ----------------------------
(* Model values for TLC's instances of WorkRunner.                         *)
EXTENDS WorkRunner, TLC

CONSTANTS t1, t2, s1, s2, c1, c2, fixture, coding

MCTasks == {t1, t2}
MCOneTask == {t1}
MCServices == {s1, s2}
MCOneService == {s1}
MCClients == {c1, c2}
MCOneClient == {c1}
MCPayloads == {fixture, coding}
MCCoding == {coding}
MCFixture == {fixture}
MCNone == {}

MCSymmetry == Permutations(MCServices) \cup Permutations(MCClients)
                \cup Permutations(MCTasks)
=============================================================================
