----------------------------- MODULE MCCatalog ------------------------------
(* Instances of Catalog for TLC. *)
EXTENDS Catalog

CONSTANTS d1, d2, m1, p1, p2

MCDiscoverers == {d1, d2}
MCMarkers     == {m1}
MCAppliers    == {p1, p2}

\* A server that comes and goes and changes.
MCConfigs == {<<>>, [a |-> "h1"], [a |-> "h2"]}

MCFirst   == {[a |-> "h1"]}

MCSymmetry == Permutations({d1, d2}) \union Permutations({p1, p2})
=============================================================================
