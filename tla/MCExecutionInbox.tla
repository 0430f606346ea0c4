------------------------- MODULE MCExecutionInbox -------------------------
(* Instances of ExecutionInbox for TLC. *)
EXTENDS ExecutionInbox, TLC

CONSTANTS m1, m2, a, b, root

Ask(m, agent) ==
  [msg |-> m, agent |-> agent, ambient |-> FALSE, root |-> NoRoot, spent |-> 0]

Overheard(m, agent) == [Ask(m, agent) EXCEPT !.ambient = TRUE]

\* A turn charged to the cascade of `root`, whose message already spent n.
Charged(req, n) == [req EXCEPT !.root = root, !.spent = n]

\* One agent is asked and overhears, both on the account of one cascade;
\* another shares the Circle's queue.
OneCircleOffers ==
  {Charged(Overheard(m1, a), 0), Charged(Ask(m2, a), 0), Ask(m1, b)}

\* The same messages offered to two Circles that share the device limit.
TwoCirclesOffers == {Ask(m1, a), Ask(m2, a)}

CircleSymmetry == Permutations(Circles)
=============================================================================
