---------------------------- MODULE MCConfigFile ----------------------------
(* Instances of ConfigFile for TLC. *)
EXTENDS ConfigFile

CONSTANTS q1, q2, k1

MCRequests == {q1, q2}
MCCommands == {k1}

\* Definition 1 is complete, 0 has a relative working directory, 2 also lacks
\* the fields that have defaults, 3 has no command.
MCCompleted(d) == IF d = 2 THEN 0 ELSE d
MCValid(d) == d # 3
MCResolved(d) == IF d = 0 THEN 1 ELSE d
\* The restart-only part differs, and so does a server.
MCTexts == {[fixed |-> 2, servers |-> [s \in Servers |-> IF s = "a" THEN d ELSE None]] : d \in {2, 3}}

\* What EditsKept assumes is true here.
ASSUME PathsAssumption == ResolvedOnce
=============================================================================
