----------------------------- MODULE MCBackend -----------------------------
(* Instances of Backend for TLC. *)
EXTENDS Backend

CONSTANTS w1, w2, h1, noWorker

MCOneCaller == {w1}
MCTwoCallers == {w1, w2}
MCChecker   == {h1}
MCNone      == {}
=============================================================================
