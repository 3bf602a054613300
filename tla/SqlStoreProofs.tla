--------------------------- MODULE SqlStoreProofs ---------------------------
(***************************************************************************)
(* Proofs about SqlStore, for every number of processes, servers, entries  *)
(* and lists: a store that is open is migrated, and, with any number of    *)
(* processes on an SQLite file but one on a PostgreSQL database, the       *)
(* transactions of the adapters implement ShardStore.                      *)
(***************************************************************************)
EXTENDS SqlStore, FiniteSetTheorems, SequenceTheorems, WellFoundedInduction, TLAPS

USE ServersAssumption, ListsAssumption, EnginesAssumption

Transactions ==
    [pc : {"none", "begun", "deleting", "inserting"}, kind : Kinds,
     server : Servers \union {"none"}, rest : Seq(Keys),
     seen : SUBSET Keys, del : SUBSET Keys, ins : SUBSET Keys]

StoreTypeOK ==
    /\ engine \in DOMAIN Gateways
    /\ rows \subseteq Servers
    /\ shard \in [Kinds -> [Servers -> SUBSET Keys]]
    /\ conn \in [All -> {"closed", "look", "alter", "fill", "open", "lost"}]
    /\ tx \in [All -> Transactions]
    /\ \A g \in All : tx[g].pc # "none" => tx[g].server \in Servers

\* The steps that only look at the tables.
Looks(g) == StartDelete(g) \/ EndDelete(g) \/ Rollback(g) \/ Listing(g)

LEMMA LooksKeep ==
    ASSUME NEW g \in All, Looks(g)
    PROVE  UNCHANGED <<engine, rows, shard, column, conn>>
<1>1. CASE StartDelete(g) \/ EndDelete(g) \/ Rollback(g)
  BY <1>1 DEF StartDelete, EndDelete, Rollback
<1>2. CASE Select(g) \/ EndListing(g)
  BY <1>2 DEF Select, EndListing
<1>3. ASSUME NEW k \in Kinds, Count(g, k) PROVE UNCHANGED <<engine, rows, shard, column, conn>>
  BY <1>3 DEF Count
<1>. QED
  BY <1>1, <1>2, <1>3
  DEF Looks, Listing, ListToolsPage, ListResources, ListResourceTemplates, ListPrompts, Kinds

LEMMA ListingKeepsTx == ASSUME NEW g \in All, Listing(g) PROVE UNCHANGED tx
<1>1. CASE Select(g) \/ EndListing(g)
  BY <1>1 DEF Select, EndListing
<1>2. ASSUME NEW k \in Kinds, Count(g, k) PROVE UNCHANGED tx
  BY <1>2 DEF Count
<1>. QED
  BY <1>1, <1>2 DEF Listing, ListToolsPage, ListResources, ListResourceTemplates, ListPrompts, Kinds

\* The four replacements are one transaction on four tables.
LEMMA ReplacesBegin ==
    ASSUME NEW g \in All, Replaces(g)
    PROVE  (\E k \in Kinds : Begin(g, k)) \/ Insert(g) \/ Commit(g) \/ Looks(g)
  BY DEF Replaces, ReplaceTools, ReplaceResources, ReplaceResourceTemplates, ReplacePrompts, Kinds, Looks

-----------------------------------------------------------------------------
(* Migration *)

\* What is known of the column in each stage of opening a file.
MigrationInv ==
    /\ engine \in {"sqlite", "postgres"}
    /\ conn \in [All -> {"closed", "look", "alter", "fill", "open", "lost"}]
    /\ column \in {"absent", "added", "filled"}
    /\ engine = "postgres" => column = "filled"
    /\ \A g \in All :
        /\ conn[g] \in {"open", "lost"} => column = "filled"
        /\ conn[g] = "fill" => column # "absent"

LEMMA MigrationStep == MigrationInv /\ [Next]_vars => MigrationInv'
<1>. SUFFICES ASSUME MigrationInv, [Next]_vars PROVE MigrationInv'
  OBVIOUS
<1>. USE DEF MigrationInv
<1>1. ASSUME NEW g \in All, Open(g) PROVE MigrationInv'
  BY <1>1 DEF Open
<1>2. ASSUME NEW g \in All, LookForColumn(g) PROVE MigrationInv'
  BY <1>2 DEF LookForColumn
<1>3. ASSUME NEW g \in All, AlterTable(g) PROVE MigrationInv'
  BY <1>3 DEF AlterTable
<1>4. ASSUME NEW g \in All, FillColumn(g) PROVE MigrationInv'
  BY <1>4 DEF FillColumn
<1>5. ASSUME NEW g \in All, Close(g) PROVE MigrationInv'
  BY <1>5 DEF Close
<1>6. ASSUME NEW g \in All, Crash(g) PROVE MigrationInv'
  BY <1>6 DEF Crash
<1>7. ASSUME NEW g \in All, LoseConnection(g) PROVE MigrationInv'
  BY <1>7 DEF LoseConnection
<1>8. ASSUME UNCHANGED <<engine, column, conn>> PROVE MigrationInv'
  BY <1>8
<1>9. ASSUME NEW g \in All, NEW s \in Servers, UpsertServer(g, s) \/ DeleteServer(g, s) PROVE MigrationInv'
  BY <1>8, <1>9 DEF UpsertServer, DeleteServer
<1>10. ASSUME NEW g \in All, NEW k \in Kinds, Begin(g, k) PROVE MigrationInv'
  BY <1>8, <1>10 DEF Begin
<1>11. ASSUME NEW g \in All, Insert(g) \/ Commit(g) PROVE MigrationInv'
  BY <1>8, <1>11 DEF Insert, Commit
<1>12. ASSUME NEW g \in All, Looks(g) PROVE MigrationInv'
  BY <1>8, <1>12, LooksKeep
<1>13. ASSUME NEW g \in All, Listing(g) PROVE MigrationInv'
  BY <1>12, <1>13 DEF Looks
<1>14. ASSUME NEW g \in All, Replaces(g) PROVE MigrationInv'
  BY <1>10, <1>11, <1>12, <1>14, ReplacesBegin
<1>15. CASE UNCHANGED vars
  BY <1>8, <1>15 DEF vars
<1>. QED
  BY <1>1, <1>2, <1>3, <1>4, <1>5, <1>6, <1>7, <1>9, <1>13, <1>14, <1>15 DEF Next

\* However many processes open a file at a time, and wherever one of them died:
\* the search column is there and filled when a store is used.
THEOREM MigrationDone == Spec => []MigratedWhenOpen
<1>1. Init => MigrationInv
  BY DEF Init, MigrationInv
<1>2. MigrationInv => MigratedWhenOpen
  BY DEF MigrationInv, MigratedWhenOpen
<1>. QED
  BY MigrationStep, <1>1, <1>2, PTL DEF Spec

-----------------------------------------------------------------------------
(* Shards *)

\* One process on a database that is not an SQLite file.
OneProcess == \A e \in DOMAIN Gateways \ {"sqlite"} : \A g, h \in Gateways[e] : g = h

\* Only a process of this database opens its store, and only then has transactions.
ConnInv ==
    \A g \in All : /\ tx[g].pc # "none" => conn[g] = "open"
                   /\ conn[g] # "closed" => g \in Gateways[engine]

OneTx == \A g, h \in All : tx[g].pc # "none" /\ tx[h].pc # "none" => g = h

\* What a transaction has inserted is the part of its list before the rest.
Progress(t) ==
    \E list \in Lists[t.kind] : \E n \in 0..Len(list) :
        /\ t.rest = SubSeq(list, n + 1, Len(list))
        /\ t.ins = {list[i] : i \in 1..n}
        /\ \A i, j \in 1..n : list[i] = list[j] => i = j
        /\ n > 0 => t.server \in rows

\* A transaction that has begun has done nothing; one that inserts has deleted
\* what is there and inserted what its list begins with.
TxCorrect(t) ==
    /\ t.pc \in {"begun", "deleting"} => t.rest \in Lists[t.kind] /\ t.ins = {}
    /\ t.pc = "deleting" => t.seen = shard[t.kind][t.server]
    /\ t.pc = "inserting" => t.del = shard[t.kind][t.server] /\ Progress(t)

TxInv == \A g \in All : TxCorrect(tx[g])

ShardInv == StoreTypeOK /\ ConnInv /\ OneTx /\ TxInv

LEMMA ShardInitial == Init => ShardInv
<1>. SUFFICES ASSUME Init PROVE ShardInv
  OBVIOUS
<1>1. NoTx \in Transactions /\ NoTx.pc = "none"
  BY DEF NoTx, Kinds, Transactions
<1>2. StoreTypeOK
  BY <1>1 DEF Init, StoreTypeOK
<1>3. ConnInv /\ OneTx /\ TxInv
  BY <1>1 DEF Init, ConnInv, OneTx, TxInv, TxCorrect
<1>. QED
  BY <1>2, <1>3 DEF ShardInv

\* Whoever may write, writes alone.
LEMMA WritersAlone ==
    ASSUME OneProcess, ShardInv, NEW g \in All, Free(g), Writable(g)
    PROVE  \A h \in All : tx[h].pc = "none"
  BY DEF ShardInv, StoreTypeOK, ConnInv, OneProcess, Free, Writable

\* The other processes have no transaction while one has.
LEMMA OthersIdle ==
    ASSUME ShardInv, NEW g \in All, tx[g].pc # "none"
    PROVE  \A h \in All \ {g} : tx[h].pc = "none"
  BY DEF ShardInv, OneTx

\* One transaction moves on.
LEMMA TxTyped ==
    ASSUME StoreTypeOK, NEW g \in All, NEW t \in Transactions, t.server \in Servers,
           tx' = [tx EXCEPT ![g] = t]
    PROVE  tx' \in [All -> Transactions] /\ \A h \in All : tx'[h].pc # "none" => tx'[h].server \in Servers
<1>1. tx \in [All -> Transactions] /\ tx' \in [All -> Transactions]
  BY DEF StoreTypeOK
<1>2. ASSUME NEW h \in All, tx'[h].pc # "none" PROVE tx'[h].server \in Servers
  BY <1>1, <1>2 DEF StoreTypeOK
<1>. QED
  BY <1>1, <1>2

LEMMA TypeStep == StoreTypeOK /\ [Next]_vars => StoreTypeOK'
<1>. SUFFICES ASSUME StoreTypeOK, [Next]_vars PROVE StoreTypeOK'
  OBVIOUS
<1>. USE DEF StoreTypeOK
<1>0. NoTx \in Transactions /\ NoTx.pc = "none"
  BY DEF NoTx, Kinds, Transactions
<1>1. ASSUME NEW g \in All, Open(g) \/ LookForColumn(g) \/ AlterTable(g) \/ FillColumn(g) \/ Close(g)
      PROVE StoreTypeOK'
  BY <1>1 DEF Open, LookForColumn, AlterTable, FillColumn, Close
<1>2. ASSUME NEW g \in All, Crash(g) \/ LoseConnection(g) PROVE StoreTypeOK'
  BY <1>0, <1>2 DEF Crash, LoseConnection
<1>3. ASSUME NEW g \in All, NEW s \in Servers, UpsertServer(g, s) PROVE StoreTypeOK'
  BY <1>3 DEF UpsertServer
<1>4. ASSUME NEW g \in All, NEW s \in Servers, DeleteServer(g, s) PROVE StoreTypeOK'
  <2>1. ASSUME NEW h \in All PROVE [tx[h] EXCEPT !.seen = {}] \in Transactions
    BY DEF Transactions
  <2>2. tx' \in [All -> Transactions]
    BY <1>4, <2>1 DEF DeleteServer
  <2>3. \A h \in All : tx'[h].pc = tx[h].pc /\ tx'[h].server = tx[h].server
    BY <1>4 DEF DeleteServer, Transactions
  <2>4. shard' \in [Kinds -> [Servers -> SUBSET Keys]] /\ rows' \subseteq Servers
    BY <1>4 DEF DeleteServer
  <2>. QED
    BY <1>4, <2>2, <2>3, <2>4 DEF DeleteServer
<1>5. ASSUME NEW g \in All, NEW k \in Kinds, Begin(g, k) PROVE StoreTypeOK'
  <2>1. PICK s \in Servers : \E list \in Lists[k] :
            tx' = [tx EXCEPT ![g] = [NoTx EXCEPT !.pc = "begun", !.kind = k, !.server = s, !.rest = list]]
    BY <1>5, Zenon DEF Begin
  <2>2. PICK list \in Lists[k] :
            tx' = [tx EXCEPT ![g] = [NoTx EXCEPT !.pc = "begun", !.kind = k, !.server = s, !.rest = list]]
    BY <2>1, Zenon
  <2>. DEFINE t == [NoTx EXCEPT !.pc = "begun", !.kind = k, !.server = s, !.rest = list]
  <2>3. t \in Transactions /\ t.server \in Servers
    BY <1>0 DEF Transactions
  <2>. HIDE DEF t
  <2>4. tx' = [tx EXCEPT ![g] = t]
    BY <2>2 DEF t
  <2>. QED
    BY TxTyped, <1>5, <2>3, <2>4 DEF Begin
<1>6. ASSUME NEW g \in All, StartDelete(g) PROVE StoreTypeOK'
  <2>. DEFINE seen == shard[tx[g].kind][tx[g].server]
              t == [tx[g] EXCEPT !.pc = "deleting", !.seen = seen]
  <2>1. tx[g].server \in Servers /\ tx[g].kind \in Kinds
    BY <1>6 DEF StartDelete, Transactions
  <2>2. seen \in SUBSET Keys
    BY <2>1
  <2>3. tx' = [tx EXCEPT ![g] = t]
    BY <1>6 DEF StartDelete
  <2>4. t \in Transactions /\ t.server \in Servers
    <3>1. tx[g] \in Transactions
      OBVIOUS
    <3>. HIDE DEF seen
    <3>. QED
      BY <2>1, <2>2, <3>1 DEF Transactions
  <2>. HIDE DEF t
  <2>. QED
    BY TxTyped, <1>6, <2>3, <2>4 DEF StartDelete
<1>7. ASSUME NEW g \in All, EndDelete(g) PROVE StoreTypeOK'
  <2>. DEFINE t == [tx[g] EXCEPT !.pc = "inserting", !.del = tx[g].seen]
  <2>1. t \in Transactions /\ t.server \in Servers
    BY <1>7 DEF Transactions, EndDelete
  <2>2. tx' = [tx EXCEPT ![g] = t]
    BY <1>7 DEF EndDelete
  <2>. HIDE DEF t
  <2>. QED
    BY TxTyped, <1>7, <2>1, <2>2 DEF EndDelete
<1>8. ASSUME NEW g \in All, Insert(g) PROVE StoreTypeOK'
  <2>. DEFINE t == [tx[g] EXCEPT !.rest = Tail(tx[g].rest), !.ins = @ \union {Head(tx[g].rest)}]
  <2>1. tx[g].rest \in Seq(Keys) /\ tx[g].rest # <<>> /\ tx[g] \in Transactions
    BY <1>8 DEF Insert, Transactions
  <2>2. Head(tx[g].rest) \in Keys /\ Tail(tx[g].rest) \in Seq(Keys)
    BY <2>1
  <2>3. t \in Transactions /\ t.server \in Servers
    BY <1>8, <2>1, <2>2 DEF Transactions, Insert
  <2>4. tx' = [tx EXCEPT ![g] = t]
    BY <1>8 DEF Insert
  <2>. HIDE DEF t
  <2>. QED
    BY TxTyped, <1>8, <2>3, <2>4 DEF Insert
<1>9. ASSUME NEW g \in All, Commit(g) PROVE StoreTypeOK'
  <2>1. tx[g].kind \in Kinds /\ tx[g].server \in Servers /\ tx[g].ins \subseteq Keys
    BY <1>9 DEF Commit, Transactions
  <2>2. ASSUME NEW h \in All PROVE [tx[h] EXCEPT !.seen = @ \ tx[g].del] \in Transactions
    BY DEF Transactions
  <2>3. tx' \in [All -> Transactions]
    BY <1>0, <1>9, <2>2 DEF Commit
  <2>4. \A h \in All : tx'[h].pc # "none" => tx'[h].server = tx[h].server /\ tx[h].pc # "none"
    BY <1>9 DEF Commit, Transactions, NoTx
  <2>5. shard' \in [Kinds -> [Servers -> SUBSET Keys]]
    BY <1>9, <2>1 DEF Commit
  <2>. QED
    BY <1>9, <2>3, <2>4, <2>5 DEF Commit
<1>10. ASSUME NEW g \in All, Rollback(g) PROVE StoreTypeOK'
  BY <1>0, <1>10 DEF Rollback
<1>11. ASSUME NEW g \in All, Listing(g) PROVE StoreTypeOK'
  BY <1>11, LooksKeep, ListingKeepsTx DEF Looks
<1>12. ASSUME NEW g \in All, Replaces(g) PROVE StoreTypeOK'
  BY <1>5, <1>6, <1>7, <1>8, <1>9, <1>10, <1>11, <1>12, ReplacesBegin DEF Looks
<1>13. CASE UNCHANGED vars
  BY <1>13 DEF vars
<1>. QED
  BY <1>1, <1>2, <1>3, <1>4, <1>11, <1>12, <1>13 DEF Next

\* Whatever is not a BEGIN begins no transaction.
LEMMA NoneBegins ==
    ASSUME StoreTypeOK, NEW g \in All,
           \/ \E s \in Servers : UpsertServer(g, s) \/ DeleteServer(g, s)
           \/ Insert(g) \/ Commit(g) \/ StartDelete(g) \/ EndDelete(g) \/ Rollback(g) \/ Listing(g)
    PROVE  UNCHANGED <<engine, conn>> /\ \A h \in All : tx'[h].pc # "none" => tx[h].pc # "none"
<1>0. tx \in [All -> Transactions] /\ NoTx.pc = "none"
  BY DEF StoreTypeOK, NoTx
<1>1. ASSUME NEW s \in Servers, UpsertServer(g, s)
      PROVE  UNCHANGED <<engine, conn>> /\ \A h \in All : tx'[h].pc # "none" => tx[h].pc # "none"
  BY <1>1 DEF UpsertServer
<1>2. ASSUME NEW s \in Servers, DeleteServer(g, s)
      PROVE  UNCHANGED <<engine, conn>> /\ \A h \in All : tx'[h].pc # "none" => tx[h].pc # "none"
  <2>1. ASSUME NEW h \in All PROVE tx'[h].pc = tx[h].pc
    <3>1. [tx[h] EXCEPT !.seen = {}].pc = tx[h].pc
      BY <1>0 DEF Transactions
    <3>2. tx'[h] = tx[h] \/ tx'[h] = [tx[h] EXCEPT !.seen = {}]
      BY <1>2 DEF DeleteServer
    <3>. QED
      BY <3>1, <3>2
  <2>. QED
    BY <1>2, <2>1 DEF DeleteServer
<1>3. CASE Commit(g)
  <2>1. ASSUME NEW h \in All, tx'[h].pc # "none" PROVE tx[h].pc # "none"
    <3>1. [tx[h] EXCEPT !.seen = @ \ tx[g].del].pc = tx[h].pc
      BY <1>0 DEF Transactions
    <3>2. tx'[h] = NoTx \/ tx'[h] = tx[h] \/ tx'[h] = [tx[h] EXCEPT !.seen = @ \ tx[g].del]
      BY <1>3 DEF Commit
    <3>. QED
      BY <1>0, <2>1, <3>1, <3>2
  <2>. QED
    BY <1>3, <2>1 DEF Commit
<1>4. CASE Insert(g)
  BY <1>0, <1>4 DEF Insert
<1>5. CASE StartDelete(g) \/ EndDelete(g) \/ Rollback(g)
  BY <1>0, <1>5 DEF StartDelete, EndDelete, Rollback
<1>6. CASE Listing(g)
  BY <1>6, LooksKeep, ListingKeepsTx DEF Looks
<1>. QED
  BY <1>1, <1>2, <1>3, <1>4, <1>5, <1>6

\* Transactions begin in an open store and end with it.
LEMMA ConnKept == StoreTypeOK /\ ConnInv /\ [Next]_vars => ConnInv'
<1>. SUFFICES ASSUME StoreTypeOK, ConnInv, [Next]_vars PROVE ConnInv'
  OBVIOUS
<1>. USE DEF ConnInv
<1>0. tx \in [All -> Transactions] /\ NoTx.pc = "none"
      /\ conn \in [All -> {"closed", "look", "alter", "fill", "open", "lost"}]
  BY DEF StoreTypeOK, NoTx
<1>1. ASSUME NEW g \in All, Open(g) \/ LookForColumn(g) \/ AlterTable(g) \/ FillColumn(g) PROVE ConnInv'
  BY <1>0, <1>1 DEF Open, LookForColumn, AlterTable, FillColumn
<1>2. ASSUME NEW g \in All, Close(g) \/ Crash(g) \/ LoseConnection(g) PROVE ConnInv'
  BY <1>0, <1>2 DEF Close, Free, Crash, LoseConnection
<1>3. ASSUME NEW g \in All, NEW k \in Kinds, Begin(g, k) PROVE ConnInv'
  <2>1. \A h \in All \ {g} : tx'[h] = tx[h]
    BY <1>0, <1>3 DEF Begin
  <2>2. conn' = conn /\ engine' = engine /\ conn[g] = "open"
    BY <1>3 DEF Begin, Free
  <2>. QED
    BY <2>1, <2>2
<1>4. ASSUME NEW g \in All,
             \/ \E s \in Servers : UpsertServer(g, s) \/ DeleteServer(g, s)
             \/ Insert(g) \/ Commit(g) \/ StartDelete(g) \/ EndDelete(g) \/ Rollback(g) \/ Listing(g)
      PROVE  ConnInv'
  BY <1>4, NoneBegins
<1>5. ASSUME NEW g \in All, Replaces(g) PROVE ConnInv'
  BY <1>3, <1>4, <1>5, ReplacesBegin DEF Looks
<1>6. CASE UNCHANGED vars
  BY <1>6 DEF vars
<1>. QED
  BY <1>1, <1>2, <1>3, <1>4, <1>5, <1>6 DEF Next

\* ... one at a time.
LEMMA ConnStep == OneProcess /\ ShardInv /\ [Next]_vars => (ConnInv /\ OneTx)'
<1>. SUFFICES ASSUME OneProcess, ShardInv, [Next]_vars PROVE OneTx'
  BY ConnKept DEF ShardInv
<1>0. tx \in [All -> Transactions] /\ NoTx.pc = "none" /\ StoreTypeOK /\ OneTx
  BY DEF ShardInv, StoreTypeOK, NoTx
<1>1. ASSUME \A g \in All : tx'[g].pc # "none" => tx[g].pc # "none" PROVE OneTx'
  BY <1>0, <1>1 DEF OneTx
<1>2. ASSUME NEW g \in All, Open(g) \/ LookForColumn(g) \/ AlterTable(g) \/ FillColumn(g) \/ Close(g) PROVE OneTx'
  BY <1>1, <1>2 DEF Open, LookForColumn, AlterTable, FillColumn, Close
<1>3. ASSUME NEW g \in All, Crash(g) \/ LoseConnection(g) PROVE OneTx'
  BY <1>0, <1>1, <1>3 DEF Crash, LoseConnection
<1>4. ASSUME NEW g \in All, NEW k \in Kinds, Begin(g, k) PROVE OneTx'
  <2>1. \A h \in All : tx[h].pc = "none"
    BY <1>4, WritersAlone DEF Begin
  <2>2. \A h \in All \ {g} : tx'[h] = tx[h]
    BY <1>0, <1>4 DEF Begin
  <2>. QED
    BY <2>1, <2>2 DEF OneTx
<1>5. ASSUME NEW g \in All,
             \/ \E s \in Servers : UpsertServer(g, s) \/ DeleteServer(g, s)
             \/ Insert(g) \/ Commit(g) \/ StartDelete(g) \/ EndDelete(g) \/ Rollback(g) \/ Listing(g)
      PROVE  OneTx'
  BY <1>0, <1>1, <1>5, NoneBegins
<1>6. ASSUME NEW g \in All, Replaces(g) PROVE OneTx'
  BY <1>4, <1>5, <1>6, ReplacesBegin DEF Looks
<1>7. CASE UNCHANGED vars
  BY <1>1, <1>7 DEF vars
<1>. QED
  BY <1>2, <1>3, <1>4, <1>5, <1>6, <1>7 DEF Next

\* Before the first INSERT nothing of the list is there.
LEMMA NothingInserted ==
    ASSUME NEW t, t.rest \in Lists[t.kind], t.kind \in Kinds, t.ins = {}
    PROVE  Progress(t)
<1>. DEFINE list == t.rest
<1>1. list \in Seq(Keys) /\ list = SubSeq(list, 0 + 1, Len(list)) /\ 0 \in 0..Len(list)
  OBVIOUS
<1>2. t.ins = {list[i] : i \in 1..0}
  OBVIOUS
<1>. QED
  BY <1>1, <1>2 DEF Progress

\* An INSERT takes one entry from the rest, and its key is new.
LEMMA OneInserted ==
    ASSUME NEW t, Progress(t), t.kind \in Kinds, t.rest # <<>>, Head(t.rest) \notin t.ins, t.server \in rows,
           NEW u, u.kind = t.kind, u.server = t.server, u.rest = Tail(t.rest), u.ins = t.ins \union {Head(t.rest)}
    PROVE  Progress(u)
<1>0. PICK list \in Lists[t.kind] : \E n \in 0..Len(list) :
        /\ t.rest = SubSeq(list, n + 1, Len(list))
        /\ t.ins = {list[i] : i \in 1..n}
        /\ \A i, j \in 1..n : list[i] = list[j] => i = j
  BY DEF Progress
<1>1. PICK n \in 0..Len(list) :
        /\ t.rest = SubSeq(list, n + 1, Len(list))
        /\ t.ins = {list[i] : i \in 1..n}
        /\ \A i, j \in 1..n : list[i] = list[j] => i = j
  BY <1>0
<1>2. list \in Seq(Keys) /\ Len(list) \in Nat
  OBVIOUS
<1>3. n < Len(list) /\ Head(t.rest) = list[n + 1] /\ Tail(t.rest) = SubSeq(list, n + 2, Len(list))
  BY <1>1, <1>2
<1>4. u.ins = {list[i] : i \in 1..(n + 1)}
  BY <1>1, <1>2, <1>3
<1>5. \A i, j \in 1..(n + 1) : list[i] = list[j] => i = j
  BY <1>1, <1>2, <1>3
<1>6. n + 1 \in 0..Len(list) /\ n + 2 = (n + 1) + 1
  BY <1>2, <1>3
<1>7. u.rest = SubSeq(list, (n + 1) + 1, Len(list))
  BY <1>3, <1>6
<1>. QED
  BY <1>4, <1>5, <1>6, <1>7 DEF Progress

\* The other transactions do not notice.
LEMMA OthersCorrect ==
    ASSUME TxInv, NEW g \in All, UNCHANGED <<rows, shard>>, \A h \in All \ {g} : tx'[h] = tx[h],
           TxCorrect(tx[g])'
    PROVE  TxInv'
<1>. SUFFICES ASSUME NEW h \in All \ {g} PROVE TxCorrect(tx[h])'
  BY DEF TxInv
<1>1. TxCorrect(tx[h]) /\ tx'[h] = tx[h] /\ rows' = rows /\ shard' = shard
  BY DEF TxInv
<1>. QED
  BY <1>1 DEF TxCorrect, Progress

LEMMA TxStep == OneProcess /\ ShardInv /\ [Next]_vars => TxInv'
<1>. SUFFICES ASSUME OneProcess, ShardInv, [Next]_vars PROVE TxInv'
  OBVIOUS
<1>0. /\ tx \in [All -> Transactions] /\ NoTx.pc = "none" /\ TxInv
      /\ \A g \in All : tx[g].pc # "none" => tx[g].server \in Servers
      /\ \A g \in All : tx[g].kind \in Kinds
  BY DEF ShardInv, StoreTypeOK, NoTx, Transactions
<1>1. ASSUME UNCHANGED <<rows, shard, tx>> PROVE TxInv'
  BY <1>0, <1>1 DEF TxInv, TxCorrect, Progress
<1>2. ASSUME \A g \in All : tx'[g].pc = "none" PROVE TxInv'
  BY <1>2 DEF TxInv, TxCorrect
<1>3. ASSUME NEW g \in All, Open(g) \/ LookForColumn(g) \/ AlterTable(g) \/ FillColumn(g) \/ Close(g)
      PROVE TxInv'
  BY <1>1, <1>3 DEF Open, LookForColumn, AlterTable, FillColumn, Close
<1>4. ASSUME NEW g \in All, Crash(g) \/ LoseConnection(g) \/ Rollback(g) PROVE TxInv'
  <2>1. /\ UNCHANGED <<rows, shard>> /\ tx'[g] = NoTx
        /\ \A h \in All \ {g} : tx'[h] = tx[h]
    BY <1>0, <1>4 DEF Crash, LoseConnection, Rollback
  <2>2. TxCorrect(tx[g])'
    BY <1>0, <2>1 DEF TxCorrect
  <2>. QED
    BY <1>0, <2>1, <2>2, OthersCorrect
<1>5. ASSUME NEW g \in All, NEW s \in Servers, UpsertServer(g, s) \/ DeleteServer(g, s) PROVE TxInv'
  <2>1. \A h \in All : tx[h].pc = "none"
    BY <1>5, WritersAlone DEF UpsertServer, DeleteServer
  <2>. SUFFICES ASSUME NEW h \in All PROVE tx'[h].pc = "none"
    BY <1>2
  <2>2. [tx[h] EXCEPT !.seen = {}].pc = tx[h].pc
    BY <1>0 DEF Transactions
  <2>3. tx'[h] = tx[h] \/ tx'[h] = [tx[h] EXCEPT !.seen = {}]
    BY <1>5 DEF UpsertServer, DeleteServer
  <2>. QED
    BY <2>1, <2>2, <2>3
<1>6. ASSUME NEW g \in All, NEW k \in Kinds, Begin(g, k) PROVE TxInv'
  <2>1. PICK s \in Servers : \E list \in Lists[k] :
            tx' = [tx EXCEPT ![g] = [NoTx EXCEPT !.pc = "begun", !.kind = k, !.server = s, !.rest = list]]
    BY <1>6, Zenon DEF Begin
  <2>2. PICK list \in Lists[k] :
            tx' = [tx EXCEPT ![g] = [NoTx EXCEPT !.pc = "begun", !.kind = k, !.server = s, !.rest = list]]
    BY <2>1, Zenon
  <2>3. /\ tx'[g].pc = "begun" /\ tx'[g].kind = k /\ tx'[g].rest = list /\ tx'[g].ins = {}
        /\ \A h \in All \ {g} : tx'[h] = tx[h]
    BY <1>0, <2>2 DEF NoTx
  <2>4. TxCorrect(tx[g])'
    BY <2>3 DEF TxCorrect
  <2>. QED
    BY <1>0, <1>6, <2>3, <2>4, OthersCorrect DEF Begin
<1>7. ASSUME NEW g \in All, StartDelete(g) PROVE TxInv'
  <2>1. /\ UNCHANGED <<rows, shard>> /\ tx[g].pc = "begun" /\ tx'[g].pc = "deleting"
        /\ tx'[g].seen = shard[tx[g].kind][tx[g].server]
        /\ tx'[g].kind = tx[g].kind /\ tx'[g].server = tx[g].server
        /\ tx'[g].rest = tx[g].rest /\ tx'[g].ins = tx[g].ins
        /\ \A h \in All \ {g} : tx'[h] = tx[h]
    BY <1>0, <1>7 DEF StartDelete, Transactions
  <2>2. TxCorrect(tx[g])'
    BY <1>0, <2>1 DEF TxInv, TxCorrect
  <2>. QED
    BY <1>0, <2>1, <2>2, OthersCorrect
<1>8. ASSUME NEW g \in All, EndDelete(g) PROVE TxInv'
  <2>1. /\ UNCHANGED <<rows, shard>> /\ tx[g].pc = "deleting" /\ tx'[g].pc = "inserting"
        /\ tx'[g].del = tx[g].seen
        /\ tx'[g].kind = tx[g].kind /\ tx'[g].server = tx[g].server
        /\ tx'[g].rest = tx[g].rest /\ tx'[g].ins = tx[g].ins
        /\ \A h \in All \ {g} : tx'[h] = tx[h]
    BY <1>0, <1>8 DEF EndDelete, Transactions
  <2>2. tx[g].rest \in Lists[tx[g].kind] /\ tx[g].ins = {} /\ tx[g].seen = shard[tx[g].kind][tx[g].server]
    BY <1>0, <2>1 DEF TxInv, TxCorrect
  <2>3. Progress(tx[g])
    BY <1>0, <2>2, NothingInserted
  <2>4. TxCorrect(tx[g])'
    BY <2>1, <2>2, <2>3 DEF TxCorrect, Progress
  <2>. QED
    BY <1>0, <2>1, <2>4, OthersCorrect
<1>9. ASSUME NEW g \in All, Insert(g) PROVE TxInv'
  <2>1. /\ UNCHANGED <<rows, shard>> /\ tx[g].pc = "inserting" /\ tx'[g].pc = "inserting"
        /\ tx[g].rest # <<>> /\ tx[g].server \in rows /\ Head(tx[g].rest) \notin tx[g].ins
        /\ tx'[g].del = tx[g].del /\ tx'[g].kind = tx[g].kind /\ tx'[g].server = tx[g].server
        /\ tx'[g].rest = Tail(tx[g].rest) /\ tx'[g].ins = tx[g].ins \union {Head(tx[g].rest)}
        /\ \A h \in All \ {g} : tx'[h] = tx[h]
    BY <1>0, <1>9 DEF Insert, Transactions
  <2>2. tx[g].del = shard[tx[g].kind][tx[g].server] /\ Progress(tx[g])
    BY <1>0, <2>1 DEF TxInv, TxCorrect
  <2>3. Progress(tx'[g])
    BY <1>0, <2>1, <2>2, OneInserted
  <2>4. TxCorrect(tx[g])'
    BY <2>1, <2>2, <2>3 DEF TxCorrect, Progress
  <2>. QED
    BY <1>0, <2>1, <2>4, OthersCorrect
<1>10. ASSUME NEW g \in All, Commit(g) PROVE TxInv'
  <2>. SUFFICES ASSUME NEW h \in All PROVE tx'[h].pc = "none"
    BY <1>2
  <2>1. CASE h = g
    BY <1>0, <1>10, <2>1 DEF Commit
  <2>2. CASE h # g
    <3>1. tx[h].pc = "none"
      BY <1>10, <2>2, OthersIdle DEF Commit
    <3>2. [tx[h] EXCEPT !.seen = @ \ tx[g].del].pc = tx[h].pc
      BY <1>0 DEF Transactions
    <3>3. tx'[h] = tx[h] \/ tx'[h] = [tx[h] EXCEPT !.seen = @ \ tx[g].del]
      BY <1>10, <2>2 DEF Commit
    <3>. QED
      BY <3>1, <3>2, <3>3
  <2>. QED
    BY <2>1, <2>2
<1>11. ASSUME NEW g \in All, Listing(g) PROVE TxInv'
  BY <1>1, <1>11, LooksKeep, ListingKeepsTx DEF Looks
<1>12. ASSUME NEW g \in All, Replaces(g) PROVE TxInv'
  BY <1>4, <1>6, <1>7, <1>8, <1>9, <1>10, <1>11, <1>12, ReplacesBegin DEF Looks
<1>13. CASE UNCHANGED vars
  BY <1>1, <1>13 DEF vars
<1>. QED
  BY <1>3, <1>4, <1>5, <1>11, <1>12, <1>13 DEF Next

\* Every step is a step of ShardStore or none: a COMMIT replaces a shard whole.
LEMMA StoreStep ==
    OneProcess /\ ShardInv /\ [Next]_vars => [Store!Next]_(Store!storeVars)
<1>. SUFFICES ASSUME OneProcess, ShardInv, [Next]_vars PROVE [Store!Next]_(Store!storeVars)
  OBVIOUS
<1>. USE DEF Store!storeVars
<1>0. ASSUME UNCHANGED <<rows, shard>> PROVE [Store!Next]_(Store!storeVars)
  BY <1>0
<1>1. ASSUME NEW g \in All, Open(g) \/ LookForColumn(g) \/ AlterTable(g) \/ FillColumn(g) \/ Close(g)
      PROVE [Store!Next]_(Store!storeVars)
  BY <1>0, <1>1 DEF Open, LookForColumn, AlterTable, FillColumn, Close
<1>2. ASSUME NEW g \in All, Crash(g) \/ LoseConnection(g) \/ Insert(g)
      PROVE [Store!Next]_(Store!storeVars)
  BY <1>0, <1>2 DEF Crash, LoseConnection, Insert
<1>3. ASSUME NEW g \in All, NEW k \in Kinds, Begin(g, k) PROVE [Store!Next]_(Store!storeVars)
  BY <1>0, <1>3 DEF Begin
<1>4. ASSUME NEW g \in All, Looks(g) PROVE [Store!Next]_(Store!storeVars)
  BY <1>0, <1>4, LooksKeep
<1>5. ASSUME NEW g \in All, NEW s \in Servers, UpsertServer(g, s) PROVE Store!Next
  BY <1>5 DEF UpsertServer, Store!Next, Store!Upsert
<1>6. ASSUME NEW g \in All, NEW s \in Servers, DeleteServer(g, s) PROVE Store!Next
  BY <1>6 DEF DeleteServer, Store!Next, Store!Delete
<1>7. ASSUME NEW g \in All, Commit(g) PROVE Store!Next
  <2>. DEFINE t == tx[g]
  <2>1. t.pc = "inserting" /\ t.rest = <<>>
        /\ shard' = [shard EXCEPT ![t.kind][t.server] = (@ \ t.del) \union t.ins] /\ rows' = rows
    BY <1>7 DEF Commit
  <2>2. t.kind \in Kinds /\ t.server \in Servers /\ t.del = shard[t.kind][t.server] /\ Progress(t)
    BY <2>1 DEF ShardInv, StoreTypeOK, Transactions, TxInv, TxCorrect
  <2>. HIDE DEF t
  <2>3. PICK list \in Lists[t.kind] : \E n \in 0..Len(list) :
            /\ t.rest = SubSeq(list, n + 1, Len(list))
            /\ t.ins = {list[i] : i \in 1..n}
            /\ \A i, j \in 1..n : list[i] = list[j] => i = j
            /\ n > 0 => t.server \in rows
    BY <2>2 DEF Progress
  <2>4. PICK n \in 0..Len(list) :
            /\ t.rest = SubSeq(list, n + 1, Len(list))
            /\ t.ins = {list[i] : i \in 1..n}
            /\ \A i, j \in 1..n : list[i] = list[j] => i = j
            /\ n > 0 => t.server \in rows
    BY <2>3
  <2>5. list \in Seq(Keys) /\ Len(list) \in Nat /\ DOMAIN list = 1..Len(list)
    BY <2>2
  <2>6. n = Len(list)
    BY <2>1, <2>4, <2>5
  <2>7. t.ins = Range(list) /\ IsInjective(list) /\ (list # <<>> => t.server \in rows)
    BY <2>4, <2>5, <2>6 DEF Range, IsInjective
  <2>8. shard' = [shard EXCEPT ![t.kind][t.server] = Range(list)]
    BY <2>1, <2>2, <2>7
  <2>9. Store!Replace(t.kind, t.server, list)
    BY <2>1, <2>7, <2>8 DEF Store!Replace, Store!IsInjective, Store!Range, IsInjective, Range
  <2>. QED
    BY <2>2, <2>9 DEF Store!Next
<1>8. CASE UNCHANGED vars
  BY <1>0, <1>8 DEF vars
<1>9. ASSUME NEW g \in All, Replaces(g) PROVE [Store!Next]_(Store!storeVars)
  BY <1>2, <1>3, <1>4, <1>7, <1>9, ReplacesBegin
<1>10. ASSUME NEW g \in All, Listing(g) PROVE [Store!Next]_(Store!storeVars)
  BY <1>4, <1>10 DEF Looks
<1>. QED
  BY <1>1, <1>2, <1>5, <1>6, <1>8, <1>9, <1>10 DEF Next

\* With any number of processes on one SQLite file, and with one process on a
\* PostgreSQL database, every shard is at all times one complete list of one
\* replacement, whatever statement fails and wherever a process dies.
THEOREM ImplementsStore == ASSUME OneProcess PROVE Spec => ShardsReplacedWhole
<1>1. ShardInv /\ [Next]_vars => ShardInv'
  BY OneProcess, TypeStep, ConnStep, TxStep DEF ShardInv
<1>2. Init => Store!Init
  BY DEF Init, Store!Init, Store!NoShards
<1>3. ShardInv /\ [Next]_vars => [Store!Next]_(Store!storeVars)
  BY StoreStep
<1>. QED
  BY ShardInitial, <1>1, <1>2, <1>3, PTL DEF Spec, ShardsReplacedWhole, Store!Spec
-----------------------------------------------------------------------------
(* Listings *)

LEMMA Least == ASSUME NEW T \in SUBSET Nat, T # {} PROVE \E x \in T : \A y \in T : x <= y
<1>. DEFINE R == OpToRel(<, Nat)
<1>1. PICK x \in T : \A y \in T : ~(<<y, x>> \in R)
  <2>1. IsWellFoundedOn(R, Nat)
    BY NatLessThanWellFounded
  <2>. HIDE DEF R
  <2>. QED
    BY <2>1, WFMin
<1>2. \A y \in T : x <= y
  <2>1. \A y \in T : ~(y < x)
    BY <1>1 DEF OpToRel
  <2>. QED
    BY <2>1
<1>. QED
  BY <1>2

LEMMA LesserOfTwo ==
    ASSUME NEW a \in Int, NEW b \in Int
    PROVE  Min({a, b}) = IF a <= b THEN a ELSE b
<1>. DEFINE S == {a, b}
<1>1. \E x \in S : \A y \in S : x <= y
  OBVIOUS
<1>2. Min(S) \in S /\ \A y \in S : Min(S) <= y
  <2>. HIDE DEF S
  <2>. QED
    BY <1>1 DEF Min
<1>. QED
  BY <1>2

Items == Keys \X Servers

\* A listing has every row once.
LEMMA ListingTypes ==
    ASSUME NEW rs \in SUBSET Items, IsFiniteSet(rs), NEW l \in Orders(rs)
    PROVE  /\ l \in Seq(Items) /\ Len(l) = Cardinality(rs) /\ Cardinality(rs) \in Nat
           /\ \A i, j \in 1..Len(l) : l[i] = l[j] => i = j
           /\ \A i, j \in 1..Len(l) : i < j => l[i][1] <= l[j][1]
           /\ \A i \in 1..Len(l) : l[i] \in rs
           /\ \A x \in rs : \E i \in 1..Len(l) : l[i] = x
<1>. DEFINE N == Cardinality(rs)
<1>1. N \in Nat
  BY FS_CardinalityType
<1>2. l \in [1..N -> rs] /\ \A i, j \in 1..N : i # j => l[i] # l[j]
  BY DEF Orders, SetToSeqs
<1>3. IsFiniteSet(1..N) /\ Cardinality(1..N) = N
  <2>. HIDE DEF N
  <2>. QED
    BY <1>1, FS_Interval
<1>4. l \in Injection(1..N, rs)
  BY <1>2 DEF Injection, IsInjective
<1>5. l \in Surjection(1..N, rs)
  <2>1. Cardinality(1..N) = Cardinality(rs) <=> l \in Surjection(1..N, rs)
    <3>. HIDE DEF N
    <3>. QED
      BY <1>4, FS_Injection
  <2>. QED
    BY <1>3, <2>1
<1>6. \A x \in rs : \E i \in 1..N : l[i] = x
  BY <1>5 DEF Surjection
<1>. HIDE DEF N
<1>7. l \in Seq(Items) /\ Len(l) = N /\ DOMAIN l = 1..N
  BY <1>1, <1>2
<1>8. \A i, j \in 1..N : i < j => l[i][1] <= l[j][1]
  BY <1>7 DEF Orders
<1>. QED
  BY <1>1, <1>2, <1>6, <1>7, <1>8 DEF N

\* Rows of which no two have the same key have one listing.
LEMMA OneListing ==
    ASSUME NEW rs \in SUBSET Items, IsFiniteSet(rs), Untied(rs), NEW l \in Orders(rs), NEW m \in Orders(rs)
    PROVE  l = m
<1>. DEFINE N == Cardinality(rs)
            D == {i \in 1..N : l[i] # m[i]}
<1>1. /\ N \in Nat /\ l \in Seq(Items) /\ m \in Seq(Items) /\ Len(l) = N /\ Len(m) = N
      /\ \A i, j \in 1..N : (l[i] = l[j] => i = j) /\ (m[i] = m[j] => i = j)
      /\ \A i, j \in 1..N : i < j => l[i][1] <= l[j][1] /\ m[i][1] <= m[j][1]
      /\ \A i \in 1..N : l[i] \in rs /\ m[i] \in rs
      /\ \A x \in rs : (\E i \in 1..N : l[i] = x) /\ (\E i \in 1..N : m[i] = x)
  BY ListingTypes
<1>. HIDE DEF N
<1>2. ASSUME D # {} PROVE FALSE
  <2>1. D \in SUBSET Nat
    BY <1>1
  <2>2. PICK i \in D : \A y \in D : i <= y
    <3>. HIDE DEF D
    <3>. QED
      BY <1>2, <2>1, Least
  <2>3. i \in 1..N /\ l[i] # m[i] /\ \A y \in 1..N : y < i => l[y] = m[y]
    BY <1>1, <2>2
  <2>4. PICK a \in 1..N : m[a] = l[i]
    BY <1>1, <2>3
  <2>5. PICK b \in 1..N : l[b] = m[i]
    BY <1>1, <2>3
  <2>. HIDE DEF D
  <2>6. a > i
    <3>1. a # i
      BY <2>3, <2>4
    <3>2. ~(a < i)
      BY <1>1, <2>3, <2>4
    <3>. QED
      BY <1>1, <2>3, <3>1, <3>2
  <2>7. b > i
    <3>1. b # i
      BY <2>3, <2>5
    <3>2. ~(b < i)
      BY <1>1, <2>3, <2>5
    <3>. QED
      BY <1>1, <2>3, <3>1, <3>2
  <2>8. l[i][1] <= m[i][1] /\ m[i][1] <= l[i][1]
    BY <1>1, <2>3, <2>4, <2>5, <2>6, <2>7
  <2>9. l[i][1] \in Nat /\ m[i][1] \in Nat
    <3>1. l[i] \in Items /\ m[i] \in Items
      BY <1>1, <2>3
    <3>. QED
      BY <3>1, KeysAssumption DEF Items
  <2>10. l[i][1] = m[i][1]
    BY <2>8, <2>9
  <2>. QED
    BY <1>1, <2>3, <2>10 DEF Untied
<1>3. \A i \in 1..N : l[i] = m[i]
  BY <1>2
<1>. QED
  BY <1>1, <1>3, SeqEqual

\* What a page adds is the next part of the listing.
LEMMA NextPart ==
    ASSUME NEW l \in Seq(Items), NEW out \in Seq(Items)
    PROVE  LET new == out \o Slice(l, Len(out))
           IN  /\ new \in Seq(Items) /\ Len(out) <= Len(new)
               /\ Len(out) < Len(l) => Len(out) < Len(new)
               /\ Len(out) <= Len(l) /\ (\A i \in 1..Len(out) : out[i] = l[i])
                    => Len(new) <= Len(l) /\ \A i \in 1..Len(new) : new[i] = l[i]
<1>. DEFINE n == Len(out)
            N == Len(l)
            top == IF n + PageSize <= N THEN n + PageSize ELSE N
            part == Slice(l, n)
            new == out \o part
<1>1. n \in Nat /\ N \in Nat /\ PageSize \in Nat \ {0} /\ top \in Nat /\ top <= N
  BY KeysAssumption
<1>2. part = SubSeq(l, n + 1, top)
  <2>. HIDE DEF n, N
  <2>1. Min({n + PageSize, N}) = top
    BY <1>1, LesserOfTwo
  <2>. QED
    BY <2>1 DEF Slice, N
<1>3. \A i \in 1..N : l[i] \in Items
  OBVIOUS
<1>4. /\ part \in Seq(Items) /\ Len(part) = (IF n + 1 <= top THEN top - n ELSE 0)
      /\ \A i \in 1..Len(part) : part[i] = l[n + i]
  <2>. HIDE DEF n, N, top, part
  <2>1. \A i \in (n + 1)..top : l[i] \in Items
    BY <1>1, <1>3 DEF top
  <2>2. /\ SubSeq(l, n + 1, top) \in Seq(Items)
        /\ Len(SubSeq(l, n + 1, top)) = (IF n + 1 <= top THEN top - (n + 1) + 1 ELSE 0)
        /\ \A i \in 1..(top - (n + 1) + 1) : SubSeq(l, n + 1, top)[i] = l[n + 1 + i - 1]
    BY <1>1, <2>1, SubSeqProperties
  <2>3. \A i \in 1..Len(part) : i \in 1..(top - (n + 1) + 1) /\ n + 1 + i - 1 = n + i
    BY <1>1, <1>2, <2>2
  <2>. QED
    BY <1>1, <1>2, <2>2, <2>3
<1>. HIDE DEF part
<1>5. /\ new \in Seq(Items) /\ Len(new) = n + Len(part) /\ Len(part) \in Nat
      /\ \A i \in 1..(n + Len(part)) : new[i] = IF i <= n THEN out[i] ELSE part[i - n]
  BY <1>4, ConcatProperties
<1>. HIDE DEF new
<1>6. n <= Len(new) /\ (n < N => n < Len(new))
  BY <1>1, <1>4, <1>5
<1>7. ASSUME n <= N, \A i \in 1..n : out[i] = l[i]
      PROVE  Len(new) <= N /\ \A i \in 1..Len(new) : new[i] = l[i]
  <2>1. Len(new) <= N
    BY <1>1, <1>4, <1>5, <1>7
  <2>2. ASSUME NEW i \in 1..Len(new) PROVE new[i] = l[i]
    <3>1. CASE i <= n
      BY <1>1, <1>5, <1>7, <2>2, <3>1
    <3>2. CASE i > n
      <4>. HIDE DEF n
      <4>1. i - n \in 1..Len(part) /\ n + (i - n) = i /\ new[i] = part[i - n]
        BY <1>1, <1>5, <2>2, <3>2
      <4>. QED
        BY <1>4, <4>1
    <3>. QED
      BY <1>1, <3>1, <3>2
  <2>. QED
    BY <2>1, <2>2
<1>. QED
  BY <1>5, <1>6, <1>7 DEF new, part

PageStates ==
    [pc : {"none", "counted", "more", "listed"}, kind : Kinds, out : Seq(Items),
     total : Nat, clean : BOOLEAN]

\* The listing that every page is cut out of, where there is but one.
Steady(e, rs) == e = "sqlite" \/ Untied(rs)
TheListing(rs) == CHOOSE m \in Orders(rs) : TRUE

\* A client has the front of that listing, unless the table has changed.
Stage(p, e, rs) ==
    /\ p.pc = "none" => p.out = <<>>
    /\ p.pc # "none" /\ p.clean /\ Steady(e, rs) =>
        /\ Len(p.out) <= Cardinality(rs)
        /\ \A i \in 1..Len(p.out) : p.out[i] = TheListing(rs)[i]
        /\ p.pc = "counted" => p.total = Cardinality(rs)
        /\ p.pc = "listed" => p.out \in Orders(rs)

PageTypes ==
    /\ page \in [All -> PageStates]
    /\ \A k \in Kinds : IsFiniteSet(Rows(k))
    /\ \A g \in All : IsFiniteSet(tx[g].ins)

PageInv ==
    /\ StoreTypeOK /\ ConnInv /\ PageTypes
    /\ \A g \in All : Stage(page[g], engine, Rows(page[g].kind))

\* The page of a client when the listing l was taken.
Turned(p, l) ==
    [p EXCEPT !.out = p.out \o Slice(l, Len(p.out)),
              !.pc = IF Len(p.out \o Slice(l, Len(p.out))) < p.total THEN "more" ELSE "listed"]

LEMMA Selecting ==
    ASSUME NEW g \in All, Select(g)
    PROVE  /\ page[g].pc = "counted" /\ UNCHANGED shard
           /\ \E l \in Orders(Rows(page[g].kind)) :
                /\ engine = "sqlite" => l = TheListing(Rows(page[g].kind))
                /\ page' = [page EXCEPT ![g] = Turned(page[g], l)]
  BY DEF Select, Turned, TheListing

LEMMA SelectedStage ==
    ASSUME NEW p \in PageStates, NEW e, NEW rs \in SUBSET Items, IsFiniteSet(rs), Stage(p, e, rs), p.pc = "counted",
           NEW l \in Orders(rs), e = "sqlite" => l = TheListing(rs),
           NEW q, q = Turned(p, l)
    PROVE  q \in PageStates /\ Stage(q, e, rs)
<1>. DEFINE out == p.out \o Slice(l, Len(p.out))
            pc == IF Len(out) < p.total THEN "more" ELSE "listed"
<1>1. l \in Seq(Items) /\ Len(l) = Cardinality(rs) /\ Cardinality(rs) \in Nat
  BY ListingTypes
<1>2. p.out \in Seq(Items) /\ p.total \in Nat
  BY DEF PageStates
<1>3. /\ out \in Seq(Items)
      /\ Len(p.out) <= Len(l) /\ (\A i \in 1..Len(p.out) : p.out[i] = l[i])
           => Len(out) <= Len(l) /\ \A i \in 1..Len(out) : out[i] = l[i]
  BY <1>1, <1>2, NextPart
<1>4. q = [p EXCEPT !.out = out, !.pc = pc]
  BY DEF Turned
<1>. HIDE DEF out
<1>5. q \in PageStates /\ q.out = out /\ q.pc = pc /\ q.clean = p.clean
  BY <1>3, <1>4 DEF PageStates
<1>6. ASSUME p.clean, Steady(e, rs)
      PROVE  /\ Len(out) <= Cardinality(rs)
             /\ \A i \in 1..Len(out) : out[i] = TheListing(rs)[i]
             /\ pc = "listed" => out \in Orders(rs)
  <2>1. l = TheListing(rs)
    <3>1. CASE e = "sqlite"
      BY <3>1
    <3>2. CASE Untied(rs)
      <4>1. TheListing(rs) \in Orders(rs)
        BY DEF TheListing
      <4>. QED
        BY <3>2, <4>1, OneListing
    <3>. QED
      BY <1>6, <3>1, <3>2 DEF Steady
  <2>2. /\ Len(p.out) <= Cardinality(rs) /\ p.total = Cardinality(rs)
        /\ \A i \in 1..Len(p.out) : p.out[i] = TheListing(rs)[i]
    BY <1>6, Zenon DEF Stage
  <2>3. Len(out) <= Len(l) /\ \A i \in 1..Len(out) : out[i] = l[i]
    BY <1>1, <1>3, <2>1, <2>2
  <2>4. pc = "listed" => out = l
    <3>. SUFFICES ASSUME ~(Len(out) < p.total) PROVE out = l
      OBVIOUS
    <3>1. Len(out) = Len(l)
      BY <1>1, <1>3, <2>2, <2>3
    <3>. QED
      BY <1>1, <1>3, <2>3, <3>1, SeqEqual
  <2>. QED
    BY <1>1, <2>1, <2>3, <2>4
<1>7. pc \in {"more", "listed"}
  OBVIOUS
<1>. HIDE DEF pc
<1>. QED
  BY <1>5, <1>6, <1>7 DEF Stage

LEMMA CountedStage ==
    ASSUME NEW p \in PageStates, NEW e, NEW k \in Kinds, NEW rs \in SUBSET Items, IsFiniteSet(rs),
           p.pc = "none" => p.out = <<>>, p.pc # "none" => p.kind = k /\ Stage(p, e, rs),
           NEW q, q = [p EXCEPT !.pc = "counted", !.kind = k, !.total = Cardinality(rs)]
    PROVE  q \in PageStates /\ q.kind = k /\ Stage(q, e, rs)
<1>1. Cardinality(rs) \in Nat
  BY FS_CardinalityType
<1>2. /\ q \in PageStates /\ q.kind = k /\ q.pc = "counted" /\ q.total = Cardinality(rs)
      /\ q.out = p.out /\ q.clean = p.clean
  BY <1>1 DEF PageStates
<1>3. CASE p.pc = "none"
  BY <1>1, <1>2, <1>3 DEF Stage
<1>4. CASE p.pc # "none"
  BY <1>1, <1>2, <1>4 DEF Stage
<1>. QED
  BY <1>2, <1>3, <1>4

-----------------------------------------------------------------------------
(* The steps, as a listing sees them.                                      *)

\* A listing is given up.
Dropped(g) == page' = [page EXCEPT ![g] = NoPage] /\ UNCHANGED shard

\* The tables ks are written by a process that is not between a COUNT and its SELECT.
Written(g, ks) ==
    /\ page' = Touch(ks) /\ (\A k \in Kinds \ ks : shard'[k] = shard[k])
    /\ conn' = conn /\ (Free(g) \/ tx[g].pc # "none")

Untouched == UNCHANGED <<page, shard>>

Paging ==
    \/ Untouched
    \/ \E g \in All : Dropped(g)
    \/ \E g \in All, ks \in SUBSET Kinds : Written(g, ks)
    \/ \E g \in All, k \in Kinds : Count(g, k)
    \/ \E g \in All : Select(g)

LEMMA Pagings == ASSUME StoreTypeOK, [Next]_vars PROVE Paging /\ engine' = engine
<1>1. ASSUME NEW g \in All, Open(g) \/ LookForColumn(g) \/ AlterTable(g) \/ FillColumn(g)
      PROVE  Untouched /\ engine' = engine
  BY <1>1, Zenon DEF Open, LookForColumn, AlterTable, FillColumn, Untouched
<1>2. ASSUME NEW g \in All, Close(g) \/ Crash(g) \/ LoseConnection(g) PROVE Dropped(g) /\ engine' = engine
  BY <1>2, Zenon DEF Close, Crash, LoseConnection, Dropped
<1>3. ASSUME NEW g \in All, NEW s \in Servers, UpsertServer(g, s) PROVE Untouched /\ engine' = engine
  BY <1>3, Zenon DEF UpsertServer, Untouched
<1>4. ASSUME NEW g \in All, NEW s \in Servers, DeleteServer(g, s)
      PROVE  (\E ks \in SUBSET Kinds : Written(g, ks)) /\ engine' = engine
  <2>. DEFINE ks == {k \in Kinds : shard[k][s] # {}}
  <2>1. /\ page' = Touch(ks) /\ conn' = conn /\ engine' = engine /\ Free(g)
        /\ shard' = [k \in Kinds |-> [shard[k] EXCEPT ![s] = {}]]
    BY <1>4 DEF DeleteServer
  <2>2. \A k \in Kinds \ ks : shard'[k] = shard[k]
    <3>1. ASSUME NEW k \in Kinds \ ks PROVE shard'[k] = shard[k]
      <4>1. shard[k] \in [Servers -> SUBSET Keys] /\ shard[k][s] = {} /\ shard'[k] = [shard[k] EXCEPT ![s] = {}]
        BY <2>1 DEF StoreTypeOK
      <4>. QED
        BY <4>1
    <3>. QED
      BY <3>1
  <2>3. ks \in SUBSET Kinds
    OBVIOUS
  <2>. QED
    BY <2>1, <2>2, <2>3 DEF Written
<1>5. ASSUME NEW g \in All, NEW k \in Kinds, Begin(g, k) PROVE Untouched /\ engine' = engine
  BY <1>5, Zenon DEF Begin, Untouched
<1>6. ASSUME NEW g \in All, StartDelete(g) \/ EndDelete(g) \/ Insert(g) \/ Rollback(g)
      PROVE  Untouched /\ engine' = engine
  BY <1>6, Zenon DEF StartDelete, EndDelete, Insert, Rollback, Untouched
<1>7. ASSUME NEW g \in All, Commit(g)
      PROVE  (\E ks \in SUBSET Kinds : Written(g, ks)) /\ engine' = engine
  <2>. DEFINE t == tx[g]
              ks == IF shard' = shard THEN {} ELSE {t.kind}
  <2>1. /\ page' = Touch(ks) /\ conn' = conn /\ engine' = engine /\ t.pc = "inserting"
        /\ shard' = [shard EXCEPT ![t.kind][t.server] = (@ \ t.del) \union t.ins]
    BY <1>7 DEF Commit
  <2>2. t.kind \in Kinds
    BY DEF StoreTypeOK, Transactions
  <2>3. \A k \in Kinds \ ks : shard'[k] = shard[k]
    BY <2>1 DEF StoreTypeOK
  <2>4. ks \in SUBSET Kinds
    BY <2>2
  <2>. HIDE DEF ks
  <2>. QED
    BY <2>1, <2>3, <2>4 DEF Written
<1>8. ASSUME NEW g \in All, EndListing(g) PROVE Dropped(g) /\ engine' = engine
  BY <1>8, Zenon DEF EndListing, Dropped
<1>9. ASSUME NEW g \in All, NEW k \in Kinds, Count(g, k) PROVE engine' = engine
  BY <1>9, Zenon DEF Count
<1>10. ASSUME NEW g \in All, Select(g) PROVE engine' = engine
  BY <1>10, Zenon DEF Select
<1>11. ASSUME NEW g \in All, Listing(g) PROVE Paging /\ engine' = engine
  <2>1. (\E k \in Kinds : Count(g, k)) \/ Select(g) \/ EndListing(g)
    BY <1>11 DEF Listing, ListToolsPage, ListResources, ListResourceTemplates, ListPrompts, Kinds
  <2>. QED
    BY <1>8, <1>9, <1>10, <2>1, Zenon DEF Paging
<1>12. ASSUME NEW g \in All, Replaces(g) PROVE Paging /\ engine' = engine
  BY <1>5, <1>6, <1>7, <1>12, ReplacesBegin, <1>11, Zenon DEF Looks, Paging
<1>13. CASE UNCHANGED vars
  BY <1>13 DEF vars, Paging, Untouched
<1>. QED
  BY <1>1, <1>2, <1>3, <1>4, <1>11, <1>12, <1>13, Zenon DEF Next, Paging

\* A transaction inserts finitely many rows, and so the tables stay finite.
LEMMA FiniteTx ==
    ASSUME StoreTypeOK, PageTypes, [Next]_vars
    PROVE  \A g \in All : IsFiniteSet(tx'[g].ins)
<1>0. /\ tx \in [All -> Transactions] /\ NoTx.ins = {} /\ IsFiniteSet({})
      /\ \A g \in All : IsFiniteSet(tx[g].ins)
  BY FS_EmptySet DEF StoreTypeOK, NoTx, PageTypes
<1>1. ASSUME \A h \in All : tx'[h].ins = tx[h].ins \/ tx'[h].ins = {} PROVE \A h \in All : IsFiniteSet(tx'[h].ins)
  BY <1>0, <1>1
<1>2. ASSUME NEW g \in All, Open(g) \/ LookForColumn(g) \/ AlterTable(g) \/ FillColumn(g) \/ Close(g)
      PROVE  \A h \in All : IsFiniteSet(tx'[h].ins)
  BY <1>1, <1>2 DEF Open, LookForColumn, AlterTable, FillColumn, Close
<1>3. ASSUME NEW g \in All, Crash(g) \/ LoseConnection(g) \/ Rollback(g)
      PROVE  \A h \in All : IsFiniteSet(tx'[h].ins)
  <2>1. tx' = [tx EXCEPT ![g] = NoTx]
    BY <1>3 DEF Crash, LoseConnection, Rollback
  <2>2. \A h \in All : tx'[h] = NoTx \/ tx'[h] = tx[h]
    BY <1>0, <2>1
  <2>. QED
    BY <1>0, <1>1, <2>2
<1>4. ASSUME NEW g \in All, NEW s \in Servers, UpsertServer(g, s) \/ DeleteServer(g, s)
      PROVE  \A h \in All : IsFiniteSet(tx'[h].ins)
  <2>1. CASE UpsertServer(g, s)
    BY <1>1, <2>1 DEF UpsertServer
  <2>2. CASE DeleteServer(g, s)
    <3>1. \A h \in All : [tx[h] EXCEPT !.seen = {}].ins = tx[h].ins
      BY <1>0 DEF Transactions
    <3>2. \A h \in All : tx'[h] = tx[h] \/ tx'[h] = [tx[h] EXCEPT !.seen = {}]
      BY <2>2 DEF DeleteServer
    <3>. QED
      BY <1>1, <3>1, <3>2
  <2>. QED
    BY <1>4, <2>1, <2>2
<1>5. ASSUME NEW g \in All, NEW k \in Kinds, Begin(g, k) PROVE \A h \in All : IsFiniteSet(tx'[h].ins)
  <2>1. PICK s \in Servers, list \in Lists[k] :
            tx' = [tx EXCEPT ![g] = [NoTx EXCEPT !.pc = "begun", !.kind = k, !.server = s, !.rest = list]]
    BY <1>5, Zenon DEF Begin
  <2>. DEFINE t == [NoTx EXCEPT !.pc = "begun", !.kind = k, !.server = s, !.rest = list]
  <2>2. t.ins = {}
    BY DEF NoTx
  <2>. HIDE DEF t
  <2>3. tx' = [tx EXCEPT ![g] = t]
    BY <2>1 DEF t
  <2>4. \A h \in All : tx'[h] = t \/ tx'[h] = tx[h]
    BY <1>0, <2>3
  <2>. QED
    BY <1>1, <2>2, <2>4
<1>6. ASSUME NEW g \in All, StartDelete(g) \/ EndDelete(g) PROVE \A h \in All : IsFiniteSet(tx'[h].ins)
  <2>. DEFINE t1 == [tx[g] EXCEPT !.pc = "deleting", !.seen = shard[tx[g].kind][tx[g].server]]
              t2 == [tx[g] EXCEPT !.pc = "inserting", !.del = tx[g].seen]
  <2>1. t1.ins = tx[g].ins /\ t2.ins = tx[g].ins
    BY <1>0 DEF Transactions
  <2>2. tx' = [tx EXCEPT ![g] = t1] \/ tx' = [tx EXCEPT ![g] = t2]
    BY <1>6 DEF StartDelete, EndDelete
  <2>. HIDE DEF t1, t2
  <2>3. \A h \in All : tx'[h].ins = tx[h].ins
    BY <1>0, <2>1, <2>2
  <2>. QED
    BY <1>1, <2>3
<1>7. ASSUME NEW g \in All, Insert(g) PROVE \A h \in All : IsFiniteSet(tx'[h].ins)
  <2>1. IsFiniteSet(tx[g].ins \union {Head(tx[g].rest)})
    BY <1>0, FS_AddElement
  <2>2. \A h \in All : tx'[h].ins = tx[h].ins \/ tx'[h].ins = tx[g].ins \union {Head(tx[g].rest)}
    BY <1>0, <1>7 DEF Insert, Transactions
  <2>. QED
    BY <1>0, <2>1, <2>2
<1>8. ASSUME NEW g \in All, Commit(g) PROVE \A h \in All : IsFiniteSet(tx'[h].ins)
  <2>1. \A h \in All : [tx[h] EXCEPT !.seen = @ \ tx[g].del].ins = tx[h].ins
    BY <1>0 DEF Transactions
  <2>2. \A h \in All : tx'[h] = NoTx \/ tx'[h] = tx[h] \/ tx'[h] = [tx[h] EXCEPT !.seen = @ \ tx[g].del]
    BY <1>8 DEF Commit
  <2>. QED
    BY <1>0, <1>1, <2>1, <2>2
<1>9. ASSUME NEW g \in All, Listing(g) PROVE \A h \in All : IsFiniteSet(tx'[h].ins)
  BY <1>1, <1>9, ListingKeepsTx
<1>10. ASSUME NEW g \in All, Replaces(g) PROVE \A h \in All : IsFiniteSet(tx'[h].ins)
  BY <1>3, <1>5, <1>6, <1>7, <1>8, <1>9, <1>10, ReplacesBegin, Zenon DEF Looks
<1>11. CASE UNCHANGED vars
  BY <1>1, <1>11 DEF vars
<1>. QED
  BY <1>2, <1>3, <1>4, <1>9, <1>10, <1>11, Zenon DEF Next

LEMMA FiniteTables ==
    ASSUME StoreTypeOK, PageTypes, [Next]_vars
    PROVE  \A k \in Kinds : IsFiniteSet(Rows(k)')
<1>0. \A k \in Kinds : IsFiniteSet(Rows(k))
  BY DEF PageTypes
<1>1. ASSUME \A k \in Kinds : Rows(k)' \subseteq Rows(k) PROVE \A k \in Kinds : IsFiniteSet(Rows(k)')
  BY <1>0, <1>1, FS_Subset
<1>2. CASE UNCHANGED shard
  BY <1>1, <1>2 DEF Rows
<1>3. ASSUME NEW g \in All, NEW s \in Servers, DeleteServer(g, s) PROVE \A k \in Kinds : IsFiniteSet(Rows(k)')
  <2>1. \A k \in Kinds, r \in Servers : shard'[k][r] \subseteq shard[k][r]
    BY <1>3 DEF DeleteServer, StoreTypeOK
  <2>. QED
    BY <1>1, <2>1 DEF Rows
<1>4. ASSUME NEW g \in All, Commit(g) PROVE \A k \in Kinds : IsFiniteSet(Rows(k)')
  <2>. DEFINE t == tx[g]
              new == t.ins \X {t.server}
  <2>1. IsFiniteSet(new)
    <3>1. IsFiniteSet(t.ins) /\ IsFiniteSet({t.server})
      BY FS_Singleton DEF PageTypes
    <3>. QED
      BY <3>1, FS_Product
  <2>2. shard' = [shard EXCEPT ![t.kind][t.server] = (@ \ t.del) \union t.ins]
    BY <1>4 DEF Commit
  <2>3. ASSUME NEW k \in Kinds, NEW r \in Servers, NEW x \in shard'[k][r]
        PROVE  x \in shard[k][r] \/ (x \in t.ins /\ r = t.server)
    BY <2>2, <2>3 DEF StoreTypeOK
  <2>4. \A k \in Kinds : Rows(k)' \subseteq Rows(k) \union new
    BY <2>3 DEF Rows
  <2>. HIDE DEF new
  <2>5. \A k \in Kinds : IsFiniteSet(Rows(k) \union new)
    BY <1>0, <2>1, FS_Union
  <2>. QED
    BY <2>4, <2>5, FS_Subset
<1>5. ASSUME NEW g \in All, Looks(g) \/ Insert(g) \/ (\E k \in Kinds : Begin(g, k)) PROVE UNCHANGED shard
  <2>1. CASE Looks(g)
    BY <2>1, LooksKeep
  <2>2. CASE Insert(g) \/ (\E k \in Kinds : Begin(g, k))
    BY <2>2, Zenon DEF Insert, Begin
  <2>. QED
    BY <1>5, <2>1, <2>2
<1>6. ASSUME NEW g \in All,
             \/ Open(g) \/ LookForColumn(g) \/ AlterTable(g) \/ FillColumn(g)
             \/ Close(g) \/ Crash(g) \/ LoseConnection(g)
             \/ \E s \in Servers : UpsertServer(g, s)
      PROVE  UNCHANGED shard
  BY <1>6, Zenon DEF Open, LookForColumn, AlterTable, FillColumn, Close, Crash, LoseConnection, UpsertServer
<1>7. CASE UNCHANGED vars
  BY <1>2, <1>7 DEF vars
<1>8. ASSUME NEW g \in All, Replaces(g) \/ Listing(g) PROVE \A k \in Kinds : IsFiniteSet(Rows(k)')
  BY <1>2, <1>4, <1>5, <1>8, ReplacesBegin, Zenon DEF Looks
<1>. QED
  BY <1>2, <1>3, <1>6, <1>7, <1>8, Zenon DEF Next

LEMMA RowsAre == ASSUME NEW k PROVE Rows(k) \in SUBSET Items
  BY DEF Rows, Items

LEMMA SameRows == ASSUME NEW k, shard'[k] = shard[k] PROVE Rows(k)' = Rows(k)
  BY DEF Rows

\* A listing that goes on, in a table that has not changed or is known to have.
Staged(g) == page'[g] \in PageStates /\ \A k : page'[g].kind = k => Stage(page'[g], engine, Rows(k)')

LEMMA KeptPage ==
    ASSUME PageInv, engine' = engine, NEW g \in All, page'[g] = page[g],
           page[g].pc # "none" /\ page[g].clean => shard'[page[g].kind] = shard[page[g].kind]
    PROVE  Staged(g)
<1>. DEFINE p == page[g]
<1>1. p \in PageStates /\ Stage(p, engine, Rows(p.kind))
  BY DEF PageInv, PageTypes
<1>2. CASE p.pc # "none" /\ p.clean
  <2>1. Rows(p.kind)' = Rows(p.kind)
    BY <1>2, SameRows
  <2>. QED
    BY <1>1, <2>1 DEF Staged
<1>3. CASE ~(p.pc # "none" /\ p.clean)
  <2>1. p.pc = "none" => p.out = <<>>
    BY <1>1 DEF Stage
  <2>. QED
    BY <1>1, <1>3, <2>1 DEF Stage, Staged
<1>. QED
  BY <1>2, <1>3

LEMMA StagedAfter ==
    ASSUME NEW g, engine' = engine, Staged(g)
    PROVE  Stage(page[g], engine, Rows(page[g].kind))'
<1>1. Rows(page[g].kind)' = {e \in Items : e[1] \in shard'[page'[g].kind][e[2]]}
  BY DEF Rows, Items
<1>2. \A k : Rows(k)' = {e \in Items : e[1] \in shard'[k][e[2]]}
  BY DEF Rows, Items
<1>. QED
  BY <1>1, <1>2 DEF Staged

LEMMA PageStep == PageInv /\ [Next]_vars => PageInv'
<1>. SUFFICES ASSUME PageInv, [Next]_vars PROVE PageInv'
  OBVIOUS
<1>1. StoreTypeOK' /\ ConnInv' /\ engine' = engine /\ Paging
  BY TypeStep, ConnKept, Pagings DEF PageInv
<1>2. (\A k \in Kinds : IsFiniteSet(Rows(k)')) /\ \A g \in All : IsFiniteSet(tx'[g].ins)
  BY FiniteTx, FiniteTables DEF PageInv
<1>3. page \in [All -> PageStates]
  BY DEF PageInv, PageTypes
<1>4. ASSUME page' \in [All -> PageStates], \A g \in All : Staged(g) PROVE PageInv'
  <2>1. \A g \in All : Stage(page[g], engine, Rows(page[g].kind))'
    BY <1>1, <1>4, StagedAfter
  <2>. QED
    BY <1>1, <1>2, <1>4, <2>1 DEF PageInv, PageTypes
<1>5. NoPage \in PageStates /\ \A e, rs : Stage(NoPage, e, rs)
  BY DEF NoPage, PageStates, Stage, Kinds
<1>6. CASE Untouched
  <2>1. page' = page /\ shard' = shard
    BY <1>6 DEF Untouched
  <2>. QED
    BY <1>1, <1>3, <1>4, <2>1, KeptPage
<1>7. ASSUME NEW g \in All, Dropped(g) PROVE PageInv'
  <2>1. page'[g] = NoPage /\ page' \in [All -> PageStates]
    BY <1>3, <1>5, <1>7 DEF Dropped
  <2>2. \A h \in All \ {g} : page'[h] = page[h]
    BY <1>3, <1>7 DEF Dropped
  <2>3. UNCHANGED shard
    BY <1>7 DEF Dropped
  <2>. QED
    BY <1>1, <1>4, <1>5, <2>1, <2>2, <2>3, KeptPage DEF Staged
<1>8. ASSUME NEW g \in All, NEW ks \in SUBSET Kinds, Written(g, ks) PROVE PageInv'
  <2>1. page' = Touch(ks) /\ \A k \in Kinds \ ks : shard'[k] = shard[k]
    BY <1>8 DEF Written
  <2>2. ASSUME NEW h \in All PROVE Staged(h)
    <3>1. page[h] \in PageStates /\ (page[h].pc = "none" => page[h].out = <<>>)
      BY <1>3 DEF PageInv, Stage
    <3>2. CASE page[h].kind \in ks /\ page[h].pc # "none"
      <4>1. page'[h] = [page[h] EXCEPT !.clean = FALSE]
        BY <2>1, <3>2 DEF Touch
      <4>. QED
        BY <3>1, <3>2, <4>1 DEF PageStates, Stage, Staged
    <3>3. CASE ~(page[h].kind \in ks /\ page[h].pc # "none")
      <4>1. page'[h] = page[h]
        BY <2>1, <3>3 DEF Touch
      <4>2. page[h].pc # "none" => shard'[page[h].kind] = shard[page[h].kind]
        BY <2>1, <3>1, <3>3 DEF PageStates
      <4>. QED
        BY <1>1, <4>1, <4>2, KeptPage
    <3>. QED
      BY <3>2, <3>3
  <2>3. page' \in [All -> PageStates]
    <3>1. page' = [h \in All |-> page'[h]] /\ \A h \in All : page'[h] \in PageStates
      BY <2>1, <2>2 DEF Touch, Staged
    <3>. QED
      BY <3>1
  <2>. QED
    BY <1>4, <2>2, <2>3
<1>9. ASSUME NEW g \in All, NEW k \in Kinds, Count(g, k) PROVE PageInv'
  <2>. DEFINE p == page[g]
              q == [p EXCEPT !.pc = "counted", !.kind = k, !.total = Cardinality(Rows(k))]
  <2>1. /\ p.pc = "none" \/ (p.pc = "more" /\ p.kind = k)
        /\ page' = [page EXCEPT ![g] = q] /\ UNCHANGED shard
    BY <1>9 DEF Count
  <2>2. p \in PageStates /\ Stage(p, engine, Rows(p.kind)) /\ (p.pc = "none" => p.out = <<>>)
    BY <1>3 DEF PageInv, Stage
  <2>3. IsFiniteSet(Rows(k)) /\ Rows(k) \in SUBSET Items /\ Rows(k)' = Rows(k)
    BY <2>1, RowsAre, SameRows DEF PageInv, PageTypes
  <2>4. p.pc # "none" => p.kind = k /\ Stage(p, engine, Rows(k))
    BY <2>1, <2>2
  <2>. HIDE DEF p
  <2>5. q \in PageStates /\ q.kind = k /\ Stage(q, engine, Rows(k))
    BY <2>2, <2>3, <2>4, CountedStage
  <2>. HIDE DEF q
  <2>6. page'[g] = q /\ page' \in [All -> PageStates] /\ \A h \in All \ {g} : page'[h] = page[h]
    BY <1>3, <2>1, <2>5
  <2>7. \A h \in All \ {g} : Staged(h)
    BY <1>1, <2>1, <2>6, KeptPage
  <2>8. Staged(g)
    BY <2>3, <2>5, <2>6 DEF Staged
  <2>. QED
    BY <1>4, <2>6, <2>7, <2>8
<1>10. ASSUME NEW g \in All, Select(g) PROVE PageInv'
  <2>. DEFINE p == page[g]
              rs == Rows(p.kind)
  <2>1. PICK l \in Orders(rs) :
          /\ engine = "sqlite" => l = TheListing(rs)
          /\ page' = [page EXCEPT ![g] = Turned(p, l)]
    BY <1>10, Selecting
  <2>2. p.pc = "counted" /\ UNCHANGED shard
    BY <1>10, Selecting
  <2>3. p \in PageStates /\ Stage(p, engine, rs) /\ p.kind \in Kinds
    BY <1>3 DEF PageInv, PageStates
  <2>4. IsFiniteSet(rs) /\ rs \in SUBSET Items
    BY <2>3, RowsAre DEF PageInv, PageTypes
  <2>5. Turned(p, l).kind = p.kind
    BY <2>3 DEF PageStates, Turned
  <2>10. \A k : k = p.kind => Rows(k)' = rs
    BY <2>2, SameRows
  <2>. HIDE DEF p, rs
  <2>6. Turned(p, l) \in PageStates /\ Stage(Turned(p, l), engine, rs)
    BY <2>1, <2>2, <2>3, <2>4, SelectedStage
  <2>7. page'[g] = Turned(p, l) /\ page' \in [All -> PageStates] /\ \A h \in All \ {g} : page'[h] = page[h]
    BY <1>3, <2>1, <2>6
  <2>8. \A h \in All \ {g} : Staged(h)
    BY <1>1, <2>2, <2>7, KeptPage
  <2>9. Staged(g)
    BY <2>5, <2>6, <2>7, <2>10 DEF Staged
  <2>. QED
    BY <1>4, <2>7, <2>8, <2>9
<1>. QED
  BY <1>1, <1>6, <1>7, <1>8, <1>9, <1>10, Zenon DEF Paging

LEMMA InitialPages == Init => PageInv
<1>. SUFFICES ASSUME Init PROVE PageInv
  OBVIOUS
<1>1. StoreTypeOK
  <2>1. NoTx \in Transactions /\ NoTx.pc = "none"
    BY DEF NoTx, Kinds, Transactions
  <2>. QED
    BY <2>1 DEF Init, StoreTypeOK
<1>2. ConnInv
  BY DEF Init, ConnInv, NoTx
<1>3. NoPage \in PageStates /\ \A e, rs : Stage(NoPage, e, rs)
  BY DEF NoPage, PageStates, Stage, Kinds
<1>4. \A k \in Kinds : Rows(k) = {}
  BY DEF Init, Rows
<1>5. IsFiniteSet({}) /\ NoTx.ins = {}
  BY FS_EmptySet DEF NoTx
<1>6. PageTypes
  BY <1>3, <1>4, <1>5 DEF Init, PageTypes
<1>. QED
  BY <1>1, <1>2, <1>3, <1>6 DEF Init, PageInv

\* For any number of processes, servers and entries and any page size: a client
\* that follows the cursors gets every row of a table that does not change
\* exactly once and in order, on SQLite, and on PostgreSQL where no two servers
\* have an entry of the same key.
THEOREM PagesAddUp == Spec => []ListingComplete
<1>1. PageInv => ListingComplete
  BY DEF PageInv, Stage, Steady, ListingComplete, Listed
<1>. QED
  BY <1>1, InitialPages, PageStep, PTL DEF Spec

\* Between COUNT and SELECT a process has the mutex; while it is alone with the
\* database, the total is the number of rows.
Counted(g) ==
    page[g].pc = "counted" =>
        /\ conn[g] = "open" /\ tx[g].pc = "none"
        /\ \A k : Gateways[engine] = {g} /\ k = page[g].kind => page[g].total = Cardinality(Rows(k))

CountInv == PageInv /\ \A g \in All : Counted(g)

LEMMA MutexHeld ==
    ASSUME CountInv, [Next]_vars, NEW h \in All, page[h].pc = "counted", page'[h].pc = "counted"
    PROVE  conn'[h] = "open" /\ tx'[h].pc = "none"
<1>0. /\ tx \in [All -> Transactions] /\ page \in [All -> PageStates] /\ NoPage.pc = "none"
      /\ conn \in [All -> {"closed", "look", "alter", "fill", "open", "lost"}]
      /\ conn[h] = "open" /\ tx[h].pc = "none" /\ StoreTypeOK
  BY DEF CountInv, PageInv, PageTypes, StoreTypeOK, NoPage, Counted
<1>1. ASSUME NEW g \in All, Open(g) \/ LookForColumn(g) \/ AlterTable(g) \/ FillColumn(g)
      PROVE  conn'[h] = "open" /\ tx'[h].pc = "none"
  BY <1>0, <1>1 DEF Open, LookForColumn, AlterTable, FillColumn
<1>2. ASSUME NEW g \in All, Close(g) \/ Crash(g) \/ LoseConnection(g)
      PROVE  conn'[h] = "open" /\ tx'[h].pc = "none"
  <2>1. page' = [page EXCEPT ![g] = NoPage]
    BY <1>2 DEF Close, Crash, LoseConnection
  <2>2. g # h
    BY <1>0, <2>1
  <2>. QED
    BY <1>0, <1>2, <2>2 DEF Close, Crash, LoseConnection
<1>3. ASSUME NEW g \in All, NEW k \in Kinds, Begin(g, k) PROVE conn'[h] = "open" /\ tx'[h].pc = "none"
  <2>1. g # h /\ conn' = conn
    BY <1>3 DEF Begin, Free
  <2>2. tx'[h] = tx[h]
    BY <1>0, <1>3, <2>1 DEF Begin
  <2>. QED
    BY <1>0, <2>1, <2>2
<1>4. ASSUME NEW g \in All,
             \/ \E s \in Servers : UpsertServer(g, s) \/ DeleteServer(g, s)
             \/ Insert(g) \/ Commit(g) \/ StartDelete(g) \/ EndDelete(g) \/ Rollback(g) \/ Listing(g)
      PROVE  conn'[h] = "open" /\ tx'[h].pc = "none"
  BY <1>0, <1>4, NoneBegins
<1>5. ASSUME NEW g \in All, Replaces(g) PROVE conn'[h] = "open" /\ tx'[h].pc = "none"
  BY <1>3, <1>4, <1>5, ReplacesBegin, Zenon DEF Looks
<1>6. CASE UNCHANGED vars
  BY <1>0, <1>6 DEF vars
<1>. QED
  BY <1>1, <1>2, <1>3, <1>4, <1>5, <1>6, Zenon DEF Next

\* What a step does to a total that is waiting for its SELECT.
LEMMA CountStep == CountInv /\ [Next]_vars => CountInv'
<1>. SUFFICES ASSUME CountInv, [Next]_vars, NEW h \in All, page'[h].pc = "counted" PROVE Counted(h)'
  BY PageStep DEF CountInv, Counted
<1>0. /\ page \in [All -> PageStates] /\ NoPage.pc = "none" /\ PageInv /\ Counted(h)
      /\ Paging /\ engine' = engine
  BY Pagings DEF CountInv, PageInv, PageTypes, NoPage
<1>1. ASSUME page'[h] = page[h], UNCHANGED shard PROVE Counted(h)'
  <2>1. \A k : Rows(k)' = Rows(k)
    BY <1>1, SameRows
  <2>2. conn'[h] = "open" /\ tx'[h].pc = "none"
    BY <1>1, MutexHeld
  <2>. QED
    BY <1>0, <1>1, <2>1, <2>2 DEF Counted
<1>2. CASE Untouched
  BY <1>1, <1>2 DEF Untouched
<1>3. ASSUME NEW g \in All, Dropped(g) PROVE Counted(h)'
  <2>1. g # h
    BY <1>0, <1>3 DEF Dropped
  <2>. QED
    BY <1>0, <1>1, <1>3, <2>1 DEF Dropped
<1>4. ASSUME NEW g \in All, NEW ks \in SUBSET Kinds, Written(g, ks) PROVE Counted(h)'
  <2>1. page[h].pc = "counted"
    BY <1>0, <1>4 DEF Written, Touch, PageStates
  <2>2. conn[g] = "open" /\ g \in Gateways[engine]
    BY <1>0, <1>4 DEF Written, Free, PageInv, ConnInv
  <2>3. ~(Free(h) \/ tx[h].pc # "none")
    BY <1>0, <2>1 DEF Free, Counted
  <2>4. g # h
    BY <1>4, <2>3 DEF Written
  <2>5. Gateways[engine] # {h}
    BY <2>2, <2>4
  <2>6. conn'[h] = "open" /\ tx'[h].pc = "none"
    BY <2>1, MutexHeld
  <2>. QED
    BY <1>0, <2>5, <2>6 DEF Counted
<1>5. ASSUME NEW g \in All, NEW j \in Kinds, Count(g, j) PROVE Counted(h)'
  <2>1. UNCHANGED <<shard, conn, tx>> /\ Free(g)
    BY <1>5 DEF Count
  <2>2. CASE g = h
    <3>1. page'[h].kind = j /\ page'[h].total = Cardinality(Rows(j))
      BY <1>0, <1>5, <2>2 DEF Count, PageStates
    <3>2. \A k : Rows(k)' = Rows(k)
      BY <2>1, SameRows
    <3>. QED
      BY <2>1, <2>2, <3>1, <3>2 DEF Free, Counted
  <2>3. CASE g # h
    BY <1>0, <1>1, <1>5, <2>1, <2>3 DEF Count
  <2>. QED
    BY <2>2, <2>3
<1>6. ASSUME NEW g \in All, Select(g) PROVE Counted(h)'
  <2>1. UNCHANGED shard /\ page'[h] = page[h]
    <3>1. UNCHANGED shard /\ \E l : page' = [page EXCEPT ![g] = Turned(page[g], l)]
      BY <1>6, Selecting
    <3>2. \A l : Turned(page[g], l).pc # "counted"
      BY <1>0 DEF PageStates, Turned
    <3>. QED
      BY <1>0, <3>1, <3>2
  <2>. QED
    BY <1>1, <2>1
<1>. QED
  BY <1>0, <1>2, <1>3, <1>4, <1>5, <1>6, Zenon DEF Paging

\* A cursor is only given with entries before it.
LEMMA CursorStep ==
    ASSUME CountInv, [Next]_vars, NEW g \in All,
           Gateways[engine] = {g}, page[g].pc = "counted", page'[g].pc = "more"
    PROVE  Len(page'[g].out) > Len(page[g].out)
<1>. DEFINE p == page[g]
            rs == Rows(p.kind)
            out(l) == p.out \o Slice(l, Len(p.out))
<1>0. /\ page \in [All -> PageStates] /\ NoPage.pc = "none" /\ Paging
      /\ p.total = Cardinality(rs) /\ IsFiniteSet(rs) /\ rs \in SUBSET Items /\ p.out \in Seq(Items)
  BY Pagings, RowsAre DEF CountInv, PageInv, PageTypes, NoPage, Counted, PageStates
<1>1. ~Untouched
  BY DEF Untouched
<1>2. ASSUME NEW h \in All, Dropped(h) PROVE FALSE
  BY <1>0, <1>2 DEF Dropped
<1>3. ASSUME NEW h \in All, NEW ks \in SUBSET Kinds, Written(h, ks) PROVE FALSE
  BY <1>0, <1>3 DEF Written, Touch, PageStates
<1>4. ASSUME NEW h \in All, NEW k \in Kinds, Count(h, k) PROVE FALSE
  BY <1>0, <1>4 DEF Count, PageStates
<1>5. PICK h \in All : Select(h)
  BY <1>0, <1>1, <1>2, <1>3, <1>4, Zenon DEF Paging
<1>6. Select(g)
  <2>1. h = g
    BY <1>0, <1>5 DEF Select
  <2>. QED
    BY <1>5, <2>1
<1>7. PICK l \in Orders(rs) : page' = [page EXCEPT ![g] = Turned(p, l)]
  BY <1>6, Selecting
<1>8. l \in Seq(Items) /\ Len(l) = p.total
  BY <1>0, ListingTypes
<1>9. /\ out(l) \in Seq(Items) /\ Len(p.out) <= Len(out(l))
      /\ Len(p.out) < Len(l) => Len(p.out) < Len(out(l))
  BY <1>0, <1>8, NextPart
<1>10. Turned(p, l).out = out(l) /\ Turned(p, l).pc = (IF Len(out(l)) < p.total THEN "more" ELSE "listed")
  <2>1. p \in PageStates
    BY <1>0
  <2>. HIDE DEF p, out
  <2>. QED
    BY <2>1 DEF PageStates, Turned, out
<1>11. page'[g] = Turned(p, l)
  BY <1>0, <1>7
<1>. HIDE DEF out
<1>12. page'[g].out = out(l) /\ Len(out(l)) < p.total
  BY <1>10, <1>11
<1>13. Len(p.out) \in Nat /\ Len(out(l)) \in Nat /\ Len(l) \in Nat
  BY <1>0, <1>8, <1>9
<1>. QED
  BY <1>8, <1>9, <1>12, <1>13

CursorMoves ==
    \A g \in All :
        Gateways[engine] = {g} /\ page[g].pc = "counted" /\ page'[g].pc = "more"
            => Len(page'[g].out) > Len(page[g].out)

\* For any page size: while one process uses the database, no page is empty and
\* yet says that more follow.
THEOREM CursorsLeadOn == Spec => CursorMovesOn
<1>1. Init => CountInv
  BY InitialPages DEF CountInv, Counted, Init, NoPage
<1>2. CountInv /\ [Next]_vars => [CursorMoves]_vars
  BY CursorStep DEF CursorMoves
<1>. QED
  BY <1>1, <1>2, CountStep, PTL DEF Spec, CursorMovesOn, CursorMoves

=============================================================================
