----------------------------- MODULE MCSqlStore -----------------------------
(* Instances of SqlStore for TLC. *)
EXTENDS SqlStore, TLC

CONSTANTS g1, g2, p1, p2, s1

MCGateways == [sqlite |-> {g1, g2}, postgres |-> {p1}]
MCShared   == [postgres |-> {p1, p2}]
MCServers  == {s1}

\* Two pages of tools; a duplicate key; the other tables are there or empty.
MCLists == [tools |-> {<<1, 2>>, <<2, 3>>, <<1, 1>>}, resources |-> {<<>>, <<1>>},
            templates |-> {<<1>>}, prompts |-> {<<1>>}]
MCSharedLists == [tools |-> {<<1>>, <<2>>}, resources |-> {<<>>}, templates |-> {<<>>}, prompts |-> {<<>>}]

MCSymmetry == Permutations({g1, g2})
=============================================================================
