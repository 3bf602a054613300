------------------------------ MODULE Catalog -------------------------------
(***************************************************************************)
(* What the manager keeps in the store about its servers: a row per server *)
(* and four shards of capabilities.  Three kinds of work write there       *)
(* without a common lock (app/manager.go):                                 *)
(*                                                                         *)
(*   ApplyConfig   swaps the backends under m.mu, then reads and writes    *)
(*                 back the row of every configured server, then deletes   *)
(*                 the servers that are gone;                              *)
(*   Discover      lists four kinds of capabilities, replaces four shards, *)
(*                 then reads the row and writes it back with the counts;  *)
(*   markHealth,   read the row and write it back with a new status.       *)
(*   markError                                                             *)
(*                                                                         *)
(* Each store operation is atomic (ToolRegistry, SqlStore).  The row is    *)
(* abstracted to the hash of the configuration it was written for and the  *)
(* discovery its counts come from, per kind; a shard to the discovery that *)
(* filled it, 0 for none.                                                  *)
(***************************************************************************)
EXTENDS Naturals, FiniteSets, TLC

CONSTANTS
    Servers,
    Configs,      \* functions from the configured servers to configuration hashes
    FirstConfigs, \* those of a first start, on an empty store
    Shards,       \* the shards of a server, in the order Discover writes them (4)
    MayFail,      \* the kinds, besides tools, whose listing may fail in the instance
    StoreKinds,   \* "sql" (with foreign keys and persistent) or "memory"
    Appliers,     \* reloads: of the watcher and of API requests
    Discoverers, Markers,
    MaxApplies,     \* bound: starts of the process and reloads
    MaxDiscoveries  \* bound: discoveries

ASSUME ShardsAssumption  == Shards \in Nat \ {0}
ASSUME ConfigsAssumption == \A c \in Configs \union FirstConfigs : DOMAIN c \subseteq Servers
ASSUME StoreAssumption   == StoreKinds \subseteq {"sql", "memory"}
ASSUME BoundsAssumption  == MaxDiscoveries \in Nat

Kinds == 1..Shards   \* tools first, then resources, templates and prompts

NoRow == [hash |-> "none"]
Nothing == [k \in Kinds |-> 0]

VARIABLES
    kind,         \* of the store
    row,          \* [Servers -> row or NoRow]
    shard,        \* [Servers -> [Kinds -> discovery]]
    current,      \* the running configuration
    object,       \* [Servers -> identity of the backend object, 0 for none]
    applies, discoveries,   \* counters
    applier, discoverer, marker,              \* processes
    astray,       \* history: servers whose row may not follow the configuration
    mixed         \* history: servers whose counts may not describe the shards

vars == <<kind, row, shard, current, object, applies, discoveries,
          applier, discoverer, marker, astray, mixed>>

NoServer == "none"
IdleApplier == [pc |-> "idle", cfg |-> <<>>, turn |-> 0, todo |-> {}, gone |-> {}, server |-> NoServer, seen |-> NoRow]
IdleDiscoverer == [pc |-> "idle", server |-> NoServer, object |-> 0, run |-> 0, found |-> Nothing,
                   next |-> 1, alone |-> TRUE, seen |-> NoRow]
IdleMarker == [pc |-> "idle", server |-> NoServer, seen |-> NoRow]

\* The calls of ApplyConfig: the one of NewManager, then the reloads.
Calls == Appliers \union {"boot"}

Configured == DOMAIN current

\* A discovery of s whose shards are being written, or whose counts are not yet.
Writing(s) == {d \in Discoverers : discoverer[d].server = s /\ discoverer[d].pc \in {"write", "get", "put"}}

\* An ApplyConfig of c that has swapped the backends, as the turn-th.
Swapped(c, turn, gone) ==
    [IdleApplier EXCEPT !.pc = "rows", !.cfg = c, !.turn = turn, !.todo = DOMAIN c, !.gone = gone]

\* The process starts with c: NewManager applies it on no backends.
Booted(c, turn) ==
    [current |-> c,
     object |-> [s \in Servers |-> IF s \in DOMAIN c THEN turn + 1 ELSE 0],
     applier |-> [a \in Calls |-> IF a = "boot" THEN Swapped(c, turn, {}) ELSE IdleApplier],
     discoverer |-> [d \in Discoverers |-> IdleDiscoverer],
     marker |-> [m \in Markers |-> IdleMarker]]

\* NewManager has returned; nothing else runs before.
Started == applier["boot"].pc = "idle"

Init ==
    /\ kind \in StoreKinds
    /\ row = [s \in Servers |-> NoRow]
    /\ shard = [s \in Servers |-> Nothing]
    /\ \E c \in FirstConfigs :
        /\ current = c /\ object = Booted(c, 0).object /\ applier = Booted(c, 0).applier
        /\ discoverer = Booted(c, 0).discoverer /\ marker = Booted(c, 0).marker
    /\ applies = 1 /\ discoveries = 0
    /\ astray = {} /\ mixed = {}

-----------------------------------------------------------------------------
(* ApplyConfig.                                                            *)

\* The backend objects under c.  A server keeps its own while its definition
\* and the limit of calls per server stay as they are.
Objects(c, limitChanged) ==
    [s \in Servers |->
        IF s \notin DOMAIN c THEN 0
        ELSE IF s \in Configured /\ current[s] = c[s] /\ ~limitChanged THEN object[s] ELSE applies + 1]

\* Variant: the registry's rows of removed servers are left.
SwapForgetsGone(a) ==
    /\ Started /\ applier[a].pc = "idle" /\ applies < MaxApplies
    /\ \E c \in Configs, limitChanged \in BOOLEAN :
        /\ current' = c
        /\ object' = Objects(c, limitChanged)
        /\ applier' = [applier EXCEPT ![a] = Swapped(c, applies, {})]
    /\ applies' = applies + 1
    /\ UNCHANGED <<kind, row, shard, discoveries, discoverer, marker, astray, mixed>>

\* Under m.mu: the backends are swapped.
Swap(a) ==
    /\ Started /\ applier[a].pc = "idle" /\ applies < MaxApplies
    /\ \E c \in Configs, limitChanged \in BOOLEAN :
        /\ current' = c
        /\ object' = Objects(c, limitChanged)
        /\ applier' = [applier EXCEPT ![a] = Swapped(c, applies, Configured \ DOMAIN c)]
    /\ applies' = applies + 1
    /\ UNCHANGED <<kind, row, shard, discoveries, discoverer, marker, astray, mixed>>

\* The loop over the new backends reads a row (the servers come in any order) ...
ReadRow(a) ==
    /\ applier[a].pc = "rows"
    /\ \E s \in applier[a].todo :
        applier' = [applier EXCEPT ![a] = [@ EXCEPT !.pc = "row", !.server = s, !.seen = row[s]]]
    /\ UNCHANGED <<kind, row, shard, current, object, applies, discoveries,
                   discoverer, marker, astray, mixed>>

\* No later ApplyConfig has swapped the backends.
Latest(a) == applier[a].turn = applies - 1

\* ... and writes it back with the new hash; a new server has a new row.
WriteRow(a) ==
    LET p == applier[a] IN
    /\ p.pc = "row"
    /\ row' = [row EXCEPT ![p.server] =
                IF p.seen = NoRow THEN [hash |-> p.cfg[p.server], found |-> Nothing]
                ELSE [p.seen EXCEPT !.hash = p.cfg[p.server]]]
    /\ astray' = IF Latest(a) THEN astray \ {p.server} ELSE astray \union {p.server}
    /\ mixed' = IF row[p.server] = p.seen THEN mixed ELSE mixed \union {p.server}
    /\ applier' = [applier EXCEPT ![a] = [p EXCEPT !.pc = "rows", !.todo = @ \ {p.server}, !.seen = NoRow]]
    /\ UNCHANGED <<kind, shard, current, object, applies, discoveries, discoverer, marker>>

\* Variant: the shards stay when the row goes.
DeleteGoneKeepsShards(a) ==
    /\ applier[a].pc = "rows" /\ applier[a].todo = {}
    /\ \E s \in applier[a].gone :
        /\ row' = [row EXCEPT ![s] = NoRow]
        /\ applier' = [applier EXCEPT ![a].gone = @ \ {s}]
        /\ astray' = IF Latest(a) THEN astray \ {s} ELSE astray \union {s}
        /\ mixed' = IF Writing(s) = {} THEN mixed \ {s} ELSE mixed \union {s}
        /\ discoverer' = [d \in Discoverers |-> IF d \in Writing(s)
                            THEN [discoverer[d] EXCEPT !.alone = FALSE] ELSE discoverer[d]]
    /\ UNCHANGED <<kind, shard, current, object, applies, discoveries, marker>>

\* A server that is gone is deleted with its shards, and discoveries of it
\* that are writing have lost what they wrote.
DeleteGone(a) ==
    /\ applier[a].pc = "rows" /\ applier[a].todo = {}
    /\ \E s \in applier[a].gone :
        /\ row' = [row EXCEPT ![s] = NoRow]
        /\ shard' = [shard EXCEPT ![s] = Nothing]
        /\ applier' = [applier EXCEPT ![a].gone = @ \ {s}]
        /\ astray' = IF Latest(a) THEN astray \ {s} ELSE astray \union {s}
        /\ mixed' = IF Writing(s) = {} THEN mixed \ {s} ELSE mixed \union {s}
        /\ discoverer' = [d \in Discoverers |-> IF d \in Writing(s)
                            THEN [discoverer[d] EXCEPT !.alone = FALSE] ELSE discoverer[d]]
    /\ UNCHANGED <<kind, current, object, applies, discoveries, marker>>

Applied(a) ==
    /\ applier[a].pc = "rows" /\ applier[a].todo = {} /\ applier[a].gone = {}
    /\ applier' = [applier EXCEPT ![a] = IdleApplier]
    /\ UNCHANGED <<kind, row, shard, current, object, applies, discoveries,
                   discoverer, marker, astray, mixed>>

\* The store fails, or the client of the request goes away and its context
\* with it: ApplyConfig returns at the next row; failed deletions are ignored.
\* At the start of the process NewManager fails, and the process with it.
AbortApply(a) ==
    /\ applier[a].pc # "idle"
    /\ applier' = [applier EXCEPT ![a] = IdleApplier]
    /\ astray' = astray \union applier[a].todo \union applier[a].gone
    /\ UNCHANGED <<kind, row, shard, current, object, applies, discoveries,
                   discoverer, marker, mixed>>

-----------------------------------------------------------------------------
(* Discover.                                                               *)

\* The backend is looked up.
LookUp(d) ==
    /\ Started /\ discoverer[d].pc = "idle" /\ discoveries < MaxDiscoveries
    /\ \E s \in Configured :
        discoverer' = [discoverer EXCEPT ![d] = [IdleDiscoverer EXCEPT !.pc = "lock",
                          !.server = s, !.object = object[s], !.run = discoveries + 1]]
    /\ discoveries' = discoveries + 1
    /\ UNCHANGED <<kind, row, shard, current, object, applies, applier, marker, astray, mixed>>

\* e holds the discoverMu that d waits for.
Holds(e, d) ==
    /\ discoverer[e].pc \notin {"idle", "lock"}
    /\ discoverer[e].server = discoverer[d].server /\ discoverer[e].object = discoverer[d].object

\* Its discoverMu is taken, whatever became of the backend meanwhile; a backend
\* that does not answer is marked (StartMark).
StartDiscovery(d) ==
    /\ discoverer[d].pc = "lock"
    /\ ~\E e \in Discoverers : Holds(e, d)
    /\ discoverer' = [discoverer EXCEPT ![d].pc = "list"]
    /\ UNCHANGED <<kind, row, shard, current, object, applies, discoveries, applier, marker, astray, mixed>>

\* discoverTools and its siblings walk their listings to the last page.  The
\* tools must be complete: when their listing fails, the discovery ends (GiveUp).
\* Of the others a listing that fails, on whatever page, counts as empty.
ListCapabilities(d) ==
    LET run == discoverer[d].run IN
    /\ discoverer[d].pc = "list"
    /\ \E failed \in SUBSET MayFail :
        discoverer' = [discoverer EXCEPT ![d] = [@ EXCEPT !.pc = "write",
                          !.found = [k \in Kinds |-> IF k \in failed THEN 0 ELSE run]]]
    /\ UNCHANGED <<kind, row, shard, current, object, applies, discoveries,
                   applier, marker, astray, mixed>>

\* Deadline or error before the shards are touched.
GiveUp(d) ==
    /\ discoverer[d].pc = "list"
    /\ discoverer' = [discoverer EXCEPT ![d] = IdleDiscoverer]
    /\ UNCHANGED <<kind, row, shard, current, object, applies, discoveries,
                   applier, marker, astray, mixed>>

\* Variant: an empty list is not worth a replacement.
WriteShardSkipsEmpty(d) ==
    LET p == discoverer[d]
        s == p.server
        others == Writing(s) \ {d}
        ghost == row[s] = NoRow
    IN  /\ p.pc = "write"
        /\ ghost /\ kind = "sql" => p.found[p.next] = 0
        /\ shard' = IF p.found[p.next] = 0 THEN shard ELSE [shard EXCEPT ![s][p.next] = p.found[p.next]]
        /\ discoverer' = [e \in Discoverers |->
                IF e = d THEN [p EXCEPT !.next = @ + 1, !.pc = IF p.next = Shards THEN "get" ELSE "write",
                                        !.alone = @ /\ others = {} /\ ~ghost]
                ELSE IF e \in others THEN [discoverer[e] EXCEPT !.alone = FALSE] ELSE discoverer[e]]
        /\ mixed' = IF others = {} /\ ~ghost THEN mixed ELSE mixed \union {s}
        /\ UNCHANGED <<kind, row, current, object, applies, discoveries, applier, marker, astray>>

\* ReplaceTools, ReplaceResources, ReplaceResourceTemplates, ReplacePrompts.
\* SQL refuses a shard without a row; the memory store keeps it.
WriteShard(d) ==
    LET p == discoverer[d]
        s == p.server
        others == Writing(s) \ {d}
        ghost == row[s] = NoRow
    IN  /\ p.pc = "write"
        /\ ghost /\ kind = "sql" => p.found[p.next] = 0
        /\ shard' = [shard EXCEPT ![s][p.next] = p.found[p.next]]
        /\ discoverer' = [e \in Discoverers |->
                IF e = d THEN [p EXCEPT !.next = @ + 1, !.pc = IF p.next = Shards THEN "get" ELSE "write",
                                        !.alone = @ /\ others = {} /\ ~ghost]
                ELSE IF e \in others THEN [discoverer[e] EXCEPT !.alone = FALSE] ELSE discoverer[e]]
        /\ mixed' = IF others = {} /\ ~ghost THEN mixed ELSE mixed \union {s}
        /\ UNCHANGED <<kind, row, current, object, applies, discoveries, applier, marker, astray>>

\* GetServer.
ReadForCounts(d) ==
    LET s == discoverer[d].server IN
    /\ discoverer[d].pc = "get" /\ row[s] # NoRow
    /\ discoverer' = [discoverer EXCEPT ![d] = [@ EXCEPT !.pc = "put", !.seen = row[s]]]
    /\ UNCHANGED <<kind, row, shard, current, object, applies, discoveries,
                   applier, marker, astray, mixed>>

\* UpsertServer with the counts of this discovery.
WriteCounts(d) ==
    LET p == discoverer[d]
        s == p.server
        lost == row[s] # p.seen
        clean == p.alone /\ Writing(s) = {d} /\ ~lost
    IN  /\ p.pc = "put"
        /\ row' = [row EXCEPT ![s] = [p.seen EXCEPT !.found = p.found]]
        /\ astray' = IF lost THEN astray \union {s} ELSE astray
        /\ mixed' = IF clean THEN mixed \ {s} ELSE mixed \union {s}
        /\ discoverer' = [e \in Discoverers |->
                IF e = d THEN IdleDiscoverer
                ELSE IF e \in Writing(s) THEN [discoverer[e] EXCEPT !.alone = FALSE] ELSE discoverer[e]]
        /\ UNCHANGED <<kind, shard, current, object, applies, discoveries, applier, marker>>

\* The deadline passes between two writes, the store fails, or the row is gone.
CutShort(d) ==
    LET s == discoverer[d].server IN
    /\ discoverer[d].pc \in {"write", "get", "put"}
    /\ discoverer' = [e \in Discoverers |->
            IF e = d THEN IdleDiscoverer
            ELSE IF e \in Writing(s) THEN [discoverer[e] EXCEPT !.alone = FALSE] ELSE discoverer[e]]
    /\ mixed' = mixed \union {s}
    /\ UNCHANGED <<kind, row, shard, current, object, applies, discoveries, applier, marker, astray>>

-----------------------------------------------------------------------------
(* markHealth and markError, of a backend that was configured when the     *)
(* health check, the call or the discovery began.                          *)

StartMark(m) ==
    /\ Started /\ marker[m].pc = "idle"
    /\ \E s \in Servers :
        /\ row[s] # NoRow
        /\ marker' = [marker EXCEPT ![m] = [pc |-> "put", server |-> s, seen |-> row[s]]]
    /\ UNCHANGED <<kind, row, shard, current, object, applies, discoveries,
                   applier, discoverer, astray, mixed>>

WriteMark(m) ==
    LET p == marker[m]
        lost == IF row[p.server] # p.seen THEN {p.server} ELSE {}
    IN  /\ p.pc = "put"
        /\ row' = [row EXCEPT ![p.server] = p.seen]
        /\ astray' = astray \union lost /\ mixed' = mixed \union lost
        /\ marker' = [marker EXCEPT ![m] = IdleMarker]
        /\ UNCHANGED <<kind, shard, current, object, applies, discoveries, applier, discoverer>>

-----------------------------------------------------------------------------
\* The process ends at any point and starts with the configuration of then.
\* Rows of servers that left it meanwhile are in nobody's "old" and stay.
\* (On the memory store a start is a first start.)
Restart ==
    /\ kind = "sql" /\ applies < MaxApplies
    /\ \E c \in Configs :
        /\ current' = c /\ object' = Booted(c, applies).object /\ applier' = Booted(c, applies).applier
        /\ discoverer' = Booted(c, applies).discoverer /\ marker' = Booted(c, applies).marker
        /\ astray' = {s \in Servers \ DOMAIN c : row[s] # NoRow}
    /\ mixed' = mixed \union {s \in Servers : Writing(s) # {}}
    /\ applies' = applies + 1
    /\ UNCHANGED <<kind, row, shard, discoveries>>

Next ==
    \/ \E a \in Appliers : Swap(a) \/ AbortApply(a)
    \/ \E a \in Calls : ReadRow(a) \/ WriteRow(a) \/ DeleteGone(a) \/ Applied(a)
    \/ \E d \in Discoverers :
        \/ LookUp(d) \/ StartDiscovery(d)
        \/ ListCapabilities(d) \/ GiveUp(d) \/ WriteShard(d) \/ ReadForCounts(d) \/ WriteCounts(d) \/ CutShort(d)
    \/ \E m \in Markers : StartMark(m) \/ WriteMark(m)
    \/ Restart

Spec == Init /\ [][Next]_vars

-----------------------------------------------------------------------------
(* Properties.                                                             *)

\* The work of an ApplyConfig on the row of s is done.
Settled(s) ==
    \A a \in Calls : s \notin applier[a].todo \union applier[a].gone

\* Once the reloads are done with a server, it has a row of the running
\* configuration's hash exactly if it is configured.  The exceptions are
\* named: a reload that was overtaken by a later one or failed, a row written
\* back by a mark or a discovery that had read it before, and a server that
\* left the configuration while the process was down.
RowsFollowConfig ==
    \A s \in Servers \ astray : Settled(s) =>
        IF s \in Configured THEN row[s].hash = current[s] ELSE row[s] = NoRow

\* The counts in a row describe the shards, and all of them come from one
\* discovery, unless a discovery was cut short between its writes, two of
\* them wrote at a time (of an old and a new backend), or a row was written
\* back by somebody who had read it before.
RowDescribesShards ==
    \A s \in Servers \ mixed : row[s] # NoRow /\ Writing(s) = {} =>
        /\ row[s].found = shard[s]
        /\ \E run \in 0..MaxDiscoveries : \A k \in Kinds : shard[s][k] \in {0, run}

\* A server without a row has no shards: always with SQL, and in the memory
\* store unless a discovery was writing while the server was deleted.
NoGhostShards ==
    \A s \in Servers : row[s] = NoRow /\ shard[s] # Nothing => kind = "memory" /\ s \in mixed

=============================================================================
