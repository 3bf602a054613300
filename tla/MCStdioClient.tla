--------------------------- MODULE MCStdioClient ---------------------------
(* TLC instances of StdioClient: see the .cfg files for the bounds. *)
EXTENDS StdioRefinement, TLC

CONSTANTS c1, c2, n1, noOp

MCCalls   == {c1, c2}
MCOneCall == {c1}
MCNotices == {n1}
\* Bound: a server sends its request in a behavior without faults and with at
\* most two processes.  This cuts off no step that the fairness is about.
MCBudget == asks = 0 \/ (faults = 0 /\ proc[MaxGen] = "none")

MCSymmetry == Permutations(MCCalls)
=============================================================================
