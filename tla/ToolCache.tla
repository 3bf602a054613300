----------------------------- MODULE ToolCache ------------------------------
(***************************************************************************)
(* The LRU cache of tool definitions (registry/cache.go) as operators on   *)
(* one record.  Every operation of the code runs under the cache's mutex   *)
(* and is therefore one operator.                                          *)
(*                                                                         *)
(*   order   the entries, most recently used first; an entry holds its     *)
(*           server, the name of the tool, its definition and its size     *)
(*   bytes   the running total the code keeps, never recomputed            *)
(*   max     the limit                                                     *)
(***************************************************************************)
EXTENDS Integers, Sequences, SequencesExt

Empty(max) == [order |-> <<>>, bytes |-> 0, max |-> max]

Total(entries) ==
    LET sum[n \in 0..Len(entries)] == IF n = 0 THEN 0 ELSE sum[n - 1] + entries[n].size
    IN  sum[Len(entries)]

Key(e) == <<e.server, e.name>>

Keys(c) == {Key(c.order[i]) : i \in DOMAIN c.order}

\* The entries with one of the keys ks, in their order.
Among(entries, ks) ==
    LET some[n \in 0..Len(entries)] ==
            IF n = 0 THEN <<>>
            ELSE IF Key(entries[n]) \in ks THEN Append(some[n - 1], entries[n]) ELSE some[n - 1]
    IN  some[Len(entries)]

Cached(c, s, n) == Among(c.order, {<<s, n>>})

ToFront(c, e) == [c EXCEPT !.order = <<e>> \o Among(c.order, Keys(c) \ {Key(e)})]

\* Entries leave from the back until the running total fits.
Evict(c) ==
    LET after(n) == c.bytes - Total(SubSeq(c.order, n + 1, Len(c.order)))
        fits == {n \in 0..Len(c.order) : after(n) <= c.max}
        kept == IF fits = {} THEN 0 ELSE Max(fits)
    IN  [c EXCEPT !.order = SubSeq(@, 1, kept), !.bytes = after(kept)]

\* A hit becomes the most recent entry.
Get(c, s, n) == IF Cached(c, s, n) = <<>> THEN c ELSE ToFront(c, Head(Cached(c, s, n)))

\* Variant: an update in place adds the new size and forgets the old one.
PutForgetsOld(c, s, n, def, size) ==
    LET e == [server |-> s, name |-> n, def |-> def, size |-> size]
    IN  Evict([ToFront(c, e) EXCEPT !.bytes = @ + size])

\* An entry that is there is updated in place: its old size leaves the total.
Put(c, s, n, def, size) ==
    LET e == [server |-> s, name |-> n, def |-> def, size |-> size]
    IN  Evict([ToFront(c, e) EXCEPT !.bytes = @ + size - Total(Cached(c, s, n))])

\* The keys of a server are those with the prefix "server/".
DeletePrefix(c, s) ==
    LET own == {k \in Keys(c) : k[1] = s}
    IN  [c EXCEPT !.order = Among(c.order, Keys(c) \ own), !.bytes = @ - Total(Among(c.order, own))]

SetMaxBytes(c, max) == Evict([c EXCEPT !.max = max])

-----------------------------------------------------------------------------
\* What the cache owes its users: the total is that of its entries, it is
\* within the limit, and no tool is there twice.
Accounted(c) ==
    /\ c.bytes = Total(c.order)
    /\ c.bytes <= c.max
    /\ \A i, j \in DOMAIN c.order :
        Key(c.order[i]) = Key(c.order[j]) => i = j

=============================================================================
