---------------------------- MODULE MCLegacySSE ----------------------------
(* TLC instance of LegacySSE: see the .cfg file for the bounds. *)
EXTENDS LegacySSE

CONSTANTS c1, n1

MCCalls   == {c1}
MCNotices == {n1}
=============================================================================
