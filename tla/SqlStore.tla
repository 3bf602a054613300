------------------------------ MODULE SqlStore ------------------------------
(***************************************************************************)
(* The two SQL adapters of storage.Store (storage/sqlite/sqlite.go and     *)
(* storage/postgres/postgres.go) under one or several gateway processes    *)
(* that share a database.                                                  *)
(*                                                                         *)
(* Both replace the shard of a server with one transaction: DELETE, one    *)
(* INSERT per entry, COMMIT.  SQLite takes the database's only write lock  *)
(* at the start (BEGIN IMMEDIATE).  PostgreSQL runs at its default         *)
(* isolation, READ COMMITTED: a DELETE works on the rows it saw when it    *)
(* started, waits for those another transaction has already deleted, and   *)
(* never sees the rows that transaction inserted; an INSERT waits for an   *)
(* undecided row of the same key.                                          *)
(*                                                                         *)
(* A process has one connection behind a mutex: it holds the mutex from    *)
(* BEGIN to COMMIT, and from the COUNT to the SELECT of a page.            *)
(***************************************************************************)
EXTENDS Naturals, Sequences, FiniteSets, SequencesExt

CONSTANTS
    Gateways,   \* [engine -> processes that share its database]
    Servers,
    Keys,       \* entries of a shard are told apart, and sorted, by key
    Lists,      \* [Kinds -> lists of keys a discovery may store]
    PageSize    \* the page size of the gateway's listings (200)

Kinds == {"tools", "resources", "templates", "prompts"}

ASSUME ServersAssumption == "none" \notin Servers
ASSUME KeysAssumption == Keys \subseteq Nat /\ PageSize \in Nat \ {0}
ASSUME ListsAssumption == Lists \in [Kinds -> SUBSET Seq(Keys)]
ASSUME EnginesAssumption == DOMAIN Gateways \subseteq {"sqlite", "postgres"}

VARIABLES
    engine,     \* "sqlite" or "postgres"
    rows,       \* committed: the servers that have a row
    shard,      \* committed: [Kinds -> [Servers -> set of keys]]
    column,     \* tools.search_text of an SQLite file: absent, added, filled
    conn,       \* per process: the state of its store
    tx,         \* per process: its transaction
    page        \* per process: the listing a client is paging through

vars == <<engine, rows, shard, column, conn, tx, page>>

All == UNION {Gateways[e] : e \in DOMAIN Gateways}

NoTx == [pc |-> "none", kind |-> "tools", server |-> "none", rest |-> <<>>,
         seen |-> {}, del |-> {}, ins |-> {}]
NoPage == [pc |-> "none", kind |-> "tools", out |-> <<>>, total |-> 0, clean |-> TRUE]

Init ==
    /\ engine \in DOMAIN Gateways
    /\ rows = {}
    /\ shard = [k \in Kinds |-> [s \in Servers |-> {}]]
    /\ column \in IF engine = "sqlite" THEN {"absent", "filled"} ELSE {"filled"}
    /\ conn = [g \in All |-> "closed"]
    /\ tx = [g \in All |-> NoTx]
    /\ page = [g \in All |-> NoPage]

\* Variant: the mutex is released between COUNT and SELECT.
FreeWhileCounted(g) == conn[g] = "open" /\ tx[g].pc = "none"

\* The mutex of the process is free and its store is usable.
Free(g) == conn[g] = "open" /\ tx[g].pc = "none" /\ page[g].pc # "counted"

\* SQLite's write lock is free (a statement that waits too long for it fails).
Writable(g) == engine = "sqlite" => \A h \in All \ {g} : tx[h].pc = "none"

\* The transactions of other processes on one shard.
Rivals(g, k, s) == {h \in All \ {g} : tx[h].pc # "none" /\ tx[h].kind = k /\ tx[h].server = s}

\* A listing of table k that is under way has had the table change under it.
Touch(ks) == [g \in All |-> IF page[g].kind \in ks /\ page[g].pc # "none"
                              THEN [page[g] EXCEPT !.clean = FALSE] ELSE page[g]]

-----------------------------------------------------------------------------
(* Opening, migrating and closing.                                         *)

\* Open: the connection, and for SQLite the tables, which are there already
\* when an older version made them.  PostgreSQL needs no further migration.
Open(g) ==
    /\ conn[g] = "closed" /\ g \in Gateways[engine]
    /\ conn' = [conn EXCEPT ![g] = IF engine = "sqlite" THEN "look" ELSE "open"]
    /\ UNCHANGED <<engine, rows, shard, column, tx, page>>

\* Variant: the column is filled only by the process that added it.
LookForColumnOnce(g) ==
    /\ conn[g] = "look"
    /\ conn' = [conn EXCEPT ![g] = IF column = "absent" THEN "alter" ELSE "open"]
    /\ UNCHANGED <<engine, rows, shard, column, tx, page>>

\* ensureColumn reads the table's columns ...
LookForColumn(g) ==
    /\ conn[g] = "look"
    /\ conn' = [conn EXCEPT ![g] = IF column = "absent" THEN "alter" ELSE "fill"]
    /\ UNCHANGED <<engine, rows, shard, column, tx, page>>

\* ... and alters the table; ALTER TABLE fails when another process was faster.
AlterTable(g) ==
    /\ conn[g] = "alter" /\ Writable(g)
    /\ column' = IF column = "absent" THEN "added" ELSE column
    /\ conn' = [conn EXCEPT ![g] = IF column = "absent" THEN "fill" ELSE "closed"]
    /\ UNCHANGED <<engine, rows, shard, tx, page>>

FillColumn(g) ==
    /\ conn[g] = "fill" /\ Writable(g)
    /\ column' = "filled"
    /\ conn' = [conn EXCEPT ![g] = "open"]
    /\ UNCHANGED <<engine, rows, shard, tx, page>>

Close(g) ==
    /\ Free(g) \/ conn[g] = "lost"
    /\ conn' = [conn EXCEPT ![g] = "closed"]
    /\ page' = [page EXCEPT ![g] = NoPage]
    /\ UNCHANGED <<engine, rows, shard, column, tx>>

\* The process dies, anywhere: the database rolls its transaction back.
Crash(g) ==
    /\ conn[g] # "closed"
    /\ conn' = [conn EXCEPT ![g] = "closed"]
    /\ tx' = [tx EXCEPT ![g] = NoTx]
    /\ page' = [page EXCEPT ![g] = NoPage]
    /\ UNCHANGED <<engine, rows, shard, column>>

\* A connection to PostgreSQL breaks.  Nothing connects again: every later
\* statement of the process fails.
LoseConnection(g) ==
    /\ engine = "postgres" /\ conn[g] = "open"
    /\ conn' = [conn EXCEPT ![g] = "lost"]
    /\ tx' = [tx EXCEPT ![g] = NoTx]
    /\ page' = [page EXCEPT ![g] = NoPage]
    /\ UNCHANGED <<engine, rows, shard, column>>

-----------------------------------------------------------------------------
(* Server rows.                                                            *)

UpsertServer(g, s) ==
    /\ Free(g) /\ Writable(g)
    /\ rows' = rows \union {s}
    /\ UNCHANGED <<engine, shard, column, conn, tx, page>>

\* The foreign keys delete the shards with the row.  A transaction that has
\* locked rows of the server makes PostgreSQL wait; one that has not loses
\* what it saw.
DeleteServer(g, s) ==
    /\ Free(g) /\ Writable(g)
    /\ \A k \in Kinds : \A h \in Rivals(g, k, s) : tx[h].del = {} /\ tx[h].ins = {}
    /\ rows' = rows \ {s}
    /\ shard' = [k \in Kinds |-> [shard[k] EXCEPT ![s] = {}]]
    /\ tx' = [h \in All |-> IF tx[h].server = s THEN [tx[h] EXCEPT !.seen = {}] ELSE tx[h]]
    /\ page' = Touch({k \in Kinds : shard[k][s] # {}})
    /\ UNCHANGED <<engine, column, conn>>

-----------------------------------------------------------------------------
(* Replacing a shard.                                                      *)

\* BEGIN IMMEDIATE, or BEGIN.
Begin(g, k) ==
    /\ Free(g) /\ Writable(g)
    /\ \E s \in Servers, list \in Lists[k] :
        tx' = [tx EXCEPT ![g] = [NoTx EXCEPT !.pc = "begun", !.kind = k, !.server = s, !.rest = list]]
    /\ UNCHANGED <<engine, rows, shard, column, conn, page>>

ReplaceTools(g) == Begin(g, "tools")
ReplaceResources(g) == Begin(g, "resources")
ReplaceResourceTemplates(g) == Begin(g, "templates")
ReplacePrompts(g) == Begin(g, "prompts")

\* The DELETE takes its snapshot ...
StartDelete(g) ==
    /\ tx[g].pc = "begun"
    /\ tx' = [tx EXCEPT ![g].pc = "deleting", ![g].seen = shard[tx[g].kind][tx[g].server]]
    /\ UNCHANGED <<engine, rows, shard, column, conn, page>>

\* Variant: no transaction: the DELETE takes effect at once.
EndDeleteCommits(g) ==
    LET t == tx[g] IN
    /\ t.pc = "deleting"
    /\ tx' = [tx EXCEPT ![g].pc = "inserting"]
    /\ shard' = [shard EXCEPT ![t.kind][t.server] = @ \ t.seen]
    /\ UNCHANGED <<engine, rows, column, conn, page>>

\* ... and ends when nobody else has an undecided claim on a row of it.
EndDelete(g) ==
    LET t == tx[g] IN
    /\ t.pc = "deleting"
    /\ \A h \in Rivals(g, t.kind, t.server) : tx[h].del \intersect t.seen = {}
    /\ tx' = [tx EXCEPT ![g].pc = "inserting", ![g].del = t.seen]
    /\ UNCHANGED <<engine, rows, shard, column, conn, page>>

\* One INSERT: the primary key and the foreign key must hold.
Insert(g) ==
    LET t == tx[g] IN
    /\ t.pc = "inserting" /\ t.rest # <<>>
    /\ t.server \in rows
    /\ Head(t.rest) \notin (shard[t.kind][t.server] \ t.del) \union t.ins
    /\ \A h \in Rivals(g, t.kind, t.server) : Head(t.rest) \notin tx[h].ins
    /\ tx' = [tx EXCEPT ![g].rest = Tail(t.rest), ![g].ins = @ \union {Head(t.rest)}]
    /\ UNCHANGED <<engine, rows, shard, column, conn, page>>

\* COMMIT.  The rows it deleted are gone for the DELETEs that wait for them.
Commit(g) ==
    LET t == tx[g]
        Same(h) == tx[h].kind = t.kind /\ tx[h].server = t.server
    IN  /\ t.pc = "inserting" /\ t.rest = <<>>
        /\ shard' = [shard EXCEPT ![t.kind][t.server] = (@ \ t.del) \union t.ins]
        /\ tx' = [h \in All |-> IF h = g THEN NoTx
                                ELSE IF Same(h) THEN [tx[h] EXCEPT !.seen = @ \ t.del] ELSE tx[h]]
        /\ page' = Touch(IF shard' = shard THEN {} ELSE {t.kind})
        /\ UNCHANGED <<engine, rows, column, conn>>

\* A statement fails: a key twice, no server row, a victim of a deadlock, the
\* disk.  ROLLBACK.
Rollback(g) ==
    /\ tx[g].pc # "none"
    /\ tx' = [tx EXCEPT ![g] = NoTx]
    /\ UNCHANGED <<engine, rows, shard, column, conn, page>>

-----------------------------------------------------------------------------
(* Paging through a listing, as tools/list and its siblings do.  The pages  *)
(* are addressed by offset; ORDER BY key decides the order.                *)

\* The rows of table k.
Rows(k) == {e \in Keys \X Servers : e[1] \in shard[k][e[2]]}

\* Listings of rows in the order of their keys.  Two servers may have an entry
\* of the same key: these may come in either order.
Orders(rs) == {l \in SetToSeqs(rs) : \A i, j \in DOMAIN l : i < j => l[i][1] <= l[j][1]}

\* SELECT COUNT(*): of the first page, or of the page the cursor asks for.
Count(g, k) ==
    /\ Free(g)
    /\ page[g].pc = "none" \/ (page[g].pc = "more" /\ page[g].kind = k)
    /\ page' = [page EXCEPT ![g].pc = "counted", ![g].kind = k, ![g].total = Cardinality(Rows(k))]
    /\ UNCHANGED <<engine, rows, shard, column, conn, tx>>

ListToolsPage(g) == Count(g, "tools")
ListResources(g) == Count(g, "resources")
ListResourceTemplates(g) == Count(g, "templates")
ListPrompts(g) == Count(g, "prompts")

\* Variant: a page begins with the last entry of the page before it.
SliceOverlaps(l, offset) ==
    LET first == Max({offset, 1}) IN SubSeq(l, first, Min({first + PageSize - 1, Len(l)}))

Slice(l, offset) == SubSeq(l, offset + 1, Min({offset + PageSize, Len(l)}))

\* SELECT ... ORDER BY key LIMIT ... OFFSET; a cursor for the next page if
\* there should be one.  Entries of one key come as they lie in an SQLite
\* table; PostgreSQL promises nothing for them.
Select(g) ==
    LET p == page[g]
        rs == Rows(p.kind)
    IN
    /\ p.pc = "counted"
    /\ \E l \in Orders(rs) :
        LET out == p.out \o Slice(l, Len(p.out))
        IN  /\ engine = "sqlite" => l = CHOOSE m \in Orders(rs) : TRUE
            /\ page' = [page EXCEPT ![g].out = out,
                                    ![g].pc = IF Len(out) < p.total THEN "more" ELSE "listed"]
    /\ UNCHANGED <<engine, rows, shard, column, conn, tx>>

\* The client has what it wanted, or gives up between two pages.
EndListing(g) ==
    /\ page[g].pc \in {"more", "listed"}
    /\ page' = [page EXCEPT ![g] = NoPage]
    /\ UNCHANGED <<engine, rows, shard, column, conn, tx>>

-----------------------------------------------------------------------------
Replaces(g) ==
    \/ ReplaceTools(g) \/ ReplaceResources(g) \/ ReplaceResourceTemplates(g) \/ ReplacePrompts(g)
    \/ StartDelete(g) \/ EndDelete(g) \/ Insert(g) \/ Commit(g) \/ Rollback(g)

Listing(g) ==
    \/ ListToolsPage(g) \/ ListResources(g) \/ ListResourceTemplates(g) \/ ListPrompts(g)
    \/ Select(g) \/ EndListing(g)

Next ==
    \E g \in All :
        \/ Open(g) \/ LookForColumn(g) \/ AlterTable(g) \/ FillColumn(g)
        \/ Close(g) \/ Crash(g) \/ LoseConnection(g)
        \/ \E s \in Servers : UpsertServer(g, s) \/ DeleteServer(g, s)
        \/ Replaces(g)
        \/ Listing(g)

Spec == Init /\ [][Next]_vars
-----------------------------------------------------------------------------
(* Properties.                                                             *)

\* Every committed shard is one complete list of one replacement, an error or
\* a crash leaves the previous one, and no shard outlives its server: the
\* store implements ShardStore.  True of SQLite files that processes share,
\* and of PostgreSQL while one gateway uses it.
Store == INSTANCE ShardStore
ShardsReplacedWhole == Store!Spec

Listed(g) == page[g].pc = "listed" /\ page[g].clean

\* No two rows have the same key.
Untied(rs) == \A a, b \in rs : a[1] = b[1] => a = b

\* A client that follows the cursors to the end gets every entry exactly once
\* and in order, unless the table changed under it, or two servers have a key
\* in common and PostgreSQL orders the two anew for each page.
ListingComplete ==
    \A g \in All :
        Listed(g) /\ (engine = "sqlite" \/ Untied(Rows(page[g].kind))) => page[g].out \in Orders(Rows(page[g].kind))

\* A cursor leads on: while one process uses the database, its COUNT and its
\* SELECT agree, and no page is empty and yet says that more follow.
CursorMovesOn ==
    [][\A g \in All :
        Gateways[engine] = {g} /\ page[g].pc = "counted" /\ page'[g].pc = "more"
            => Len(page'[g].out) > Len(page[g].out)]_vars

\* Wherever an earlier migration died, a store is only used when the search
\* column is there and filled.
MigratedWhenOpen == \A g \in All : conn[g] = "open" => column = "filled"

=============================================================================
