--------------------------- MODULE MCToolRegistry ---------------------------
(* Instances of ToolRegistry for TLC. *)
EXTENDS ToolRegistry, TLC

CONSTANTS w1, w2, r1, r2

MCServers == {"a", "b"}
MCNames   == {"c"}
MCWriters == {w1, w2}
MCReaders == {r1, r2}

MCJoined == [s \in MCServers, n \in MCNames |-> s \o "__" \o n]
MCExposed(s, n) == MCJoined[s, n]

T(n, d, z) == [name |-> n, def |-> d, size |-> z]

\* Another definition of a tool, larger than before or than the cache.
MCOffers == [a |-> {{T("c", 1, 1)}, {T("c", 2, 2)}}, b |-> {{T("c", 1, 1)}}]

MCSymmetry == Permutations({w1, w2}) \union Permutations({r1, r2})
=============================================================================
