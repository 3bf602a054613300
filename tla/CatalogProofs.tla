--------------------------- MODULE CatalogProofs ----------------------------
(***************************************************************************)
(* Proofs about Catalog, for any number of servers, configurations,        *)
(* reloads, discoveries and marks: what the rows and the shards of a       *)
(* server have to do with its configuration and with each other.           *)
(***************************************************************************)
EXTENDS Catalog, TLAPS

USE ShardsAssumption, ConfigsAssumption, StoreAssumption, BoundsAssumption

-----------------------------------------------------------------------------
(* Types.                                                                  *)

AllConfigs == Configs \union FirstConfigs
Hashes == UNION {{c[s] : s \in DOMAIN c} : c \in AllConfigs}
Counts == [Kinds -> Nat]
Rows   == [hash : Hashes, found : Counts]
Seen   == Rows \union {NoRow}
Named  == Servers \union {NoServer}

ApplierStates ==
    [pc : {"idle", "rows", "row"}, cfg : AllConfigs \union {<<>>}, turn : Nat,
     todo : SUBSET Servers, gone : SUBSET Servers, server : Named, seen : Seen]
DiscovererStates ==
    [pc : {"idle", "lock", "list", "write", "get", "put"}, server : Named, object : Nat,
     run : Nat, found : Counts, next : Nat, alone : BOOLEAN, seen : Seen]
MarkerStates == [pc : {"idle", "put"}, server : Named, seen : Seen]

CatalogTypeOK ==
    /\ kind \in StoreKinds
    /\ row \in [Servers -> Seen] /\ shard \in [Servers -> Counts]
    /\ current \in AllConfigs /\ object \in [Servers -> Nat]
    /\ applies \in Nat /\ discoveries \in Nat
    /\ applier \in [Calls -> ApplierStates]
    /\ discoverer \in [Discoverers -> DiscovererStates]
    /\ marker \in [Markers -> MarkerStates]

\* A call that is about to write has a server, and the row it has read.
ApplierStage(p) ==
    /\ p.pc = "idle" => p.todo = {} /\ p.gone = {}
    /\ p.pc = "row" => p.server \in p.todo
    /\ p.pc # "idle" => p.cfg \in AllConfigs /\ p.todo \subseteq DOMAIN p.cfg

DiscovererStage(p) ==
    /\ p.pc # "idle" => p.server \in Servers /\ p.run \in 1..MaxDiscoveries
    /\ p.pc \in {"lock", "list"} => p.next = 1
    /\ p.pc = "write" => p.next \in Kinds
    /\ p.pc \in {"get", "put"} => p.next = Shards + 1
    /\ p.pc = "put" => p.seen \in Rows
    /\ p.pc \in {"write", "get", "put"} => \A k \in Kinds : p.found[k] \in {0, p.run}

MarkerStage(p) == p.pc = "put" => p.server \in Servers /\ p.seen \in Rows

TypeInv ==
    /\ CatalogTypeOK
    /\ \A a \in Calls : ApplierStage(applier[a])
    /\ \A d \in Discoverers : DiscovererStage(discoverer[d])
    /\ \A m \in Markers : MarkerStage(marker[m])

LEMMA NoRowIsNoRow == NoRow \notin Rows
  BY DEF NoRow, Rows

LEMMA HashOf == ASSUME NEW c \in AllConfigs, NEW s \in DOMAIN c PROVE c[s] \in Hashes /\ s \in Servers
  BY DEF AllConfigs, Hashes

\* An ApplyConfig that has just swapped the backends.
JustSwapped(p, c, turn, gone) ==
    /\ p.pc = "rows" /\ p.cfg = c /\ p.turn = turn
    /\ p.todo = DOMAIN c /\ p.gone = gone

LEMMA SwappedType ==
    ASSUME NEW c \in AllConfigs, NEW turn \in Nat, NEW gone \in SUBSET Servers
    PROVE  LET p == Swapped(c, turn, gone) IN
           p \in ApplierStates /\ ApplierStage(p) /\ JustSwapped(p, c, turn, gone)
<1>. DEFINE p == Swapped(c, turn, gone)
<1>. DOMAIN c \subseteq Servers
  BY DEF AllConfigs
<1>1. JustSwapped(p, c, turn, gone)
  BY DEF Swapped, IdleApplier, JustSwapped
<1>2. p \in ApplierStates
  BY DEF Swapped, IdleApplier, ApplierStates, Named, Seen
<1>. HIDE DEF p
<1>3. ApplierStage(p)
  BY <1>1 DEF JustSwapped, ApplierStage
<1>. QED
  BY <1>1, <1>2, <1>3 DEF p

LEMMA IdleApplierType == IdleApplier \in ApplierStates /\ ApplierStage(IdleApplier)
  BY DEF IdleApplier, ApplierStates, ApplierStage, Named, Seen

\* The stages of an ApplyConfig and of a discovery, one after the other.
ReadIt(p, s, r) == [p EXCEPT !.pc = "row", !.server = s, !.seen = r]
WroteIt(p, todo) == [p EXCEPT !.pc = "rows", !.todo = todo, !.seen = NoRow]
Deleted(p, gone) == [p EXCEPT !.gone = gone]
Crossed(p) == [p EXCEPT !.alone = FALSE]
Listed(p, found) == [p EXCEPT !.pc = "write", !.found = found]
Fetched(p, r) == [p EXCEPT !.pc = "put", !.seen = r]
Replaced(p, pc, alone) == [p EXCEPT !.next = @ + 1, !.pc = pc, !.alone = alone]

LEMMA ReadState ==
    ASSUME NEW p \in ApplierStates, ApplierStage(p), p.pc = "rows", NEW s \in p.todo, NEW r \in Seen
    PROVE  LET q == ReadIt(p, s, r) IN q \in ApplierStates /\ ApplierStage(q)
<1>. DEFINE q == ReadIt(p, s, r)
<1>1. q.pc = "row" /\ q.server = s /\ q.todo = p.todo /\ q.gone = p.gone /\ q.cfg = p.cfg
  BY DEF ReadIt, ApplierStates
<1>2. q \in ApplierStates
  BY DEF ReadIt, ApplierStates, Named
<1>. HIDE DEF q
<1>3. ApplierStage(q)
  BY <1>1 DEF ApplierStage
<1>. QED
  BY <1>2, <1>3 DEF q

LEMMA WrittenState ==
    ASSUME NEW p \in ApplierStates, ApplierStage(p), p.pc = "row", NEW todo \in SUBSET p.todo
    PROVE  LET q == WroteIt(p, todo) IN q \in ApplierStates /\ ApplierStage(q)
<1>. DEFINE q == WroteIt(p, todo)
<1>1. q.pc = "rows" /\ q.todo = todo /\ q.server = p.server /\ q.gone = p.gone /\ q.cfg = p.cfg
  BY DEF WroteIt, ApplierStates
<1>2. q \in ApplierStates
  BY DEF WroteIt, ApplierStates, Seen
<1>. HIDE DEF q
<1>3. ApplierStage(q)
  BY <1>1 DEF ApplierStage
<1>. QED
  BY <1>2, <1>3 DEF q

LEMMA FewerGone ==
    ASSUME NEW p \in ApplierStates, ApplierStage(p), NEW gone \in SUBSET p.gone
    PROVE  LET q == Deleted(p, gone) IN q \in ApplierStates /\ ApplierStage(q)
<1>. DEFINE q == Deleted(p, gone)
<1>1. q.gone = gone /\ q.pc = p.pc /\ q.todo = p.todo /\ q.server = p.server /\ q.cfg = p.cfg
  BY DEF Deleted, ApplierStates
<1>2. q \in ApplierStates
  BY DEF Deleted, ApplierStates
<1>. HIDE DEF q
<1>3. ApplierStage(q)
  BY <1>1 DEF ApplierStage
<1>. QED
  BY <1>2, <1>3 DEF q

LEMMA NotAlone ==
    ASSUME NEW p \in DiscovererStates, DiscovererStage(p), TRUE
    PROVE  LET q == Crossed(p) IN q \in DiscovererStates /\ DiscovererStage(q)
<1>. DEFINE q == Crossed(p)
<1>1. q.pc = p.pc /\ q.server = p.server /\ q.run = p.run /\ q.found = p.found /\ q.next = p.next /\ q.seen = p.seen
  BY DEF Crossed, DiscovererStates
<1>2. q \in DiscovererStates
  BY DEF Crossed, DiscovererStates
<1>. HIDE DEF q
<1>3. DiscovererStage(q)
  BY <1>1 DEF DiscovererStage
<1>. QED
  BY <1>2, <1>3 DEF q

LEMMA ListedState ==
    ASSUME NEW p \in DiscovererStates, DiscovererStage(p), p.pc = "list", NEW found \in Counts, \A k \in Kinds : found[k] \in {0, p.run}
    PROVE  LET q == Listed(p, found) IN q \in DiscovererStates /\ DiscovererStage(q)
<1>. DEFINE q == Listed(p, found)
<1>1. q.pc = "write" /\ q.found = found /\ q.server = p.server /\ q.run = p.run /\ q.next = p.next /\ q.seen = p.seen
  BY DEF Listed, DiscovererStates
<1>2. q \in DiscovererStates
  BY DEF Listed, DiscovererStates
<1>. HIDE DEF q
<1>3. DiscovererStage(q)
  BY <1>1 DEF DiscovererStage, Kinds
<1>. QED
  BY <1>2, <1>3 DEF q

LEMMA CountsState ==
    ASSUME NEW p \in DiscovererStates, DiscovererStage(p), p.pc = "get", NEW r \in Rows
    PROVE  LET q == Fetched(p, r) IN q \in DiscovererStates /\ DiscovererStage(q)
<1>. DEFINE q == Fetched(p, r)
<1>1. q.pc = "put" /\ q.seen = r /\ q.server = p.server /\ q.run = p.run /\ q.next = p.next /\ q.found = p.found
  BY DEF Fetched, DiscovererStates
<1>2. q \in DiscovererStates
  BY DEF Fetched, DiscovererStates, Seen
<1>. HIDE DEF q
<1>3. DiscovererStage(q)
  BY <1>1 DEF DiscovererStage
<1>. QED
  BY <1>2, <1>3 DEF q

LEMMA WroteState ==
    ASSUME NEW p \in DiscovererStates, DiscovererStage(p), p.pc = "write", NEW alone \in BOOLEAN, NEW pc,
           pc = IF p.next = Shards THEN "get" ELSE "write"
    PROVE  LET q == Replaced(p, pc, alone) IN q \in DiscovererStates /\ DiscovererStage(q)
<1>. DEFINE q == Replaced(p, pc, alone)
<1>1. q.pc = pc /\ q.next = p.next + 1 /\ q.server = p.server /\ q.run = p.run /\ q.seen = p.seen /\ q.found = p.found
  BY DEF Replaced, DiscovererStates
<1>2. q \in DiscovererStates
  <2>1. p.next + 1 \in Nat /\ pc \in {"get", "write"}
    BY DEF DiscovererStates
  <2>. QED
    BY <2>1 DEF Replaced, DiscovererStates
<1>. HIDE DEF q
<1>3. DiscovererStage(q)
  BY <1>1 DEF DiscovererStage, Kinds
<1>. QED
  BY <1>2, <1>3 DEF q

\* Every process is at its beginning but the one that boots.
LEMMA BootedType ==
    ASSUME NEW c \in AllConfigs, NEW turn \in Nat
    PROVE  LET b == Booted(c, turn) IN
           /\ b.current = c /\ b.object \in [Servers -> Nat]
           /\ b.applier \in [Calls -> ApplierStates]
           /\ b.discoverer \in [Discoverers -> DiscovererStates]
           /\ b.marker \in [Markers -> MarkerStates]
           /\ \A a \in Calls : ApplierStage(b.applier[a])
           /\ \A a \in Calls : b.applier[a].gone = {}
           /\ \A a \in Calls : b.applier[a].pc # "idle" =>
                    b.applier[a].pc = "rows" /\ b.applier[a].cfg = c /\ b.applier[a].turn = turn
           /\ b.applier["boot"].todo = DOMAIN c
           /\ \A d \in Discoverers : b.discoverer[d].pc = "idle"
           /\ \A m \in Markers : b.marker[m].pc = "idle"
<1>. DEFINE b == Booted(c, turn)
<1>0. DOMAIN c \subseteq Servers /\ Nothing \in Counts
  BY DEF AllConfigs, Nothing, Counts
<1>1. /\ b.current = c /\ b.object \in [Servers -> Nat]
      /\ b.discoverer = [d \in Discoverers |-> IdleDiscoverer] /\ b.marker = [m \in Markers |-> IdleMarker]
  BY DEF Booted
<1>2. b.applier = [a \in Calls |-> IF a = "boot" THEN Swapped(c, turn, {}) ELSE IdleApplier]
  BY DEF Booted
<1>2a. IdleApplier.pc = "idle" /\ IdleApplier.gone = {}
  BY DEF IdleApplier
<1>. HIDE DEF b
<1>3. IdleDiscoverer \in DiscovererStates /\ IdleDiscoverer.pc = "idle"
  BY <1>0 DEF IdleDiscoverer, DiscovererStates, Named, Seen
<1>4. IdleMarker \in MarkerStates /\ IdleMarker.pc = "idle"
  BY DEF IdleMarker, MarkerStates, Named, Seen
<1>5. \A a \in Calls : b.applier[a] \in ApplierStates /\ ApplierStage(b.applier[a])
                         /\ (b.applier[a].pc # "idle" => JustSwapped(b.applier[a], c, turn, {}))
                         /\ b.applier[a].gone = {}
  BY <1>2, SwappedType, <1>2a, IdleApplierType DEF JustSwapped
<1>6. JustSwapped(b.applier["boot"], c, turn, {})
  BY <1>2, SwappedType DEF Calls
<1>7. b.applier \in [Calls -> ApplierStates]
  BY <1>2, <1>5
<1>. QED
  BY <1>1, <1>3, <1>4, <1>5, <1>6, <1>7 DEF b, JustSwapped

LEMMA InitType == Init => TypeInv
<1>. SUFFICES ASSUME Init PROVE TypeInv
  OBVIOUS
<1>1. PICK c \in FirstConfigs :
        /\ current = c /\ object = Booted(c, 0).object /\ applier = Booted(c, 0).applier
        /\ discoverer = Booted(c, 0).discoverer /\ marker = Booted(c, 0).marker
  BY DEF Init
<1>2. c \in AllConfigs /\ 0 \in Nat
  BY DEF AllConfigs
<1>3. kind \in StoreKinds /\ row \in [Servers -> Seen] /\ shard \in [Servers -> Counts] /\ applies \in Nat /\ discoveries \in Nat
  BY DEF Init, Seen, Nothing, Counts
<1>4. \A d \in Discoverers : DiscovererStage(discoverer[d])
  BY <1>1, <1>2, BootedType DEF DiscovererStage
<1>5. \A m \in Markers : MarkerStage(marker[m])
  BY <1>1, <1>2, BootedType DEF MarkerStage
<1>. QED
  BY <1>1, <1>2, <1>3, <1>4, <1>5, BootedType DEF TypeInv, CatalogTypeOK

\* A step of one call of ApplyConfig, and what it may leave.
LEMMA ApplierStep ==
    ASSUME TypeInv, NEW a \in Calls, applier' \in [Calls -> ApplierStates],
           ApplierStage(applier'[a]), \A b \in Calls \ {a} : applier'[b] = applier[b],
           row' \in [Servers -> Seen], shard' \in [Servers -> Counts], current' \in AllConfigs,
           object' \in [Servers -> Nat], applies' \in Nat,
           UNCHANGED <<kind, discoveries, discoverer, marker>>
    PROVE  TypeInv'
<1>1. \A b \in Calls : ApplierStage(applier'[b])
  BY DEF TypeInv
<1>. QED
  BY <1>1 DEF TypeInv, CatalogTypeOK

LEMMA DiscovererStep ==
    ASSUME TypeInv, discoverer' \in [Discoverers -> DiscovererStates],
           \A d \in Discoverers : DiscovererStage(discoverer'[d]),
           row' \in [Servers -> Seen], shard' \in [Servers -> Counts], discoveries' \in Nat,
           UNCHANGED <<kind, current, object, applies, applier, marker>>
    PROVE  TypeInv'
  BY DEF TypeInv, CatalogTypeOK

LEMMA SwapKeepsType == ASSUME TypeInv, NEW a \in Calls, Swap(a) PROVE TypeInv'
<1>. USE DEF TypeInv, CatalogTypeOK
<1>1. PICK c \in Configs, limitChanged \in BOOLEAN :
        /\ current' = c
        /\ object' = Objects(c, limitChanged)
        /\ applier' = [applier EXCEPT ![a] = Swapped(c, applies, Configured \ DOMAIN c)]
  BY DEF Swap
<1>2. c \in AllConfigs /\ Configured \ DOMAIN c \in SUBSET Servers
  BY DEF AllConfigs, Configured
<1>3. Swapped(c, applies, Configured \ DOMAIN c) \in ApplierStates
      /\ ApplierStage(Swapped(c, applies, Configured \ DOMAIN c))
  BY <1>2, SwappedType
<1>4. object' \in [Servers -> Nat] /\ applies' \in Nat
  BY <1>1 DEF Swap, Objects
<1>5. applier' \in [Calls -> ApplierStates] /\ ApplierStage(applier'[a])
      /\ \A b \in Calls \ {a} : applier'[b] = applier[b]
  BY <1>1, <1>3
<1>. QED
  BY <1>1, <1>2, <1>4, <1>5, ApplierStep DEF Swap

LEMMA ReadRowKeepsType == ASSUME TypeInv, NEW a \in Calls, ReadRow(a) PROVE TypeInv'
<1>1. PICK s \in applier[a].todo :
        applier' = [applier EXCEPT ![a] = [@ EXCEPT !.pc = "row", !.server = s, !.seen = row[s]]]
  BY Zenon DEF ReadRow
<1>. USE DEF TypeInv, CatalogTypeOK
<1>2. s \in Servers /\ row[s] \in Seen
  BY DEF ApplierStates
<1>. DEFINE q == ReadIt(applier[a], s, row[s])
<1>3. q \in ApplierStates /\ ApplierStage(q)
  BY <1>2, ReadState DEF ReadRow
<1>4. applier' = [applier EXCEPT ![a] = q]
  BY <1>1 DEF ReadIt
<1>. HIDE DEF q
<1>5. applier' \in [Calls -> ApplierStates] /\ ApplierStage(applier'[a])
      /\ \A b \in Calls \ {a} : applier'[b] = applier[b]
  BY <1>3, <1>4
<1>. QED
  BY <1>5, ApplierStep DEF ReadRow

LEMMA WriteRowKeepsType == ASSUME TypeInv, NEW a \in Calls, WriteRow(a) PROVE TypeInv'
<1>. DEFINE p == applier[a]
            q == WroteIt(p, p.todo \ {p.server})
<1>4. applier' = [applier EXCEPT ![a] = q]
  BY DEF WriteRow, WroteIt
<1>. USE DEF TypeInv, CatalogTypeOK
<1>1. p.server \in DOMAIN p.cfg /\ p.cfg \in AllConfigs /\ p.seen \in Seen
  BY DEF WriteRow, ApplierStage, ApplierStates
<1>2. p.cfg[p.server] \in Hashes /\ p.server \in Servers
  BY <1>1, HashOf
<1>3. row' \in [Servers -> Seen]
  BY <1>1, <1>2 DEF WriteRow, Seen, Rows, Nothing, Counts
<1>6. q \in ApplierStates /\ ApplierStage(q)
  BY WrittenState DEF WriteRow
<1>. HIDE DEF q
<1>5. applier' \in [Calls -> ApplierStates] /\ ApplierStage(applier'[a])
      /\ \A b \in Calls \ {a} : applier'[b] = applier[b]
  BY <1>4, <1>6
<1>. QED
  BY <1>3, <1>5, ApplierStep DEF WriteRow

LEMMA AbortApplyKeepsType == ASSUME TypeInv, NEW a \in Calls, AbortApply(a) \/ Applied(a) PROVE TypeInv'
<1>. USE DEF TypeInv, CatalogTypeOK
<1>1. applier' = [applier EXCEPT ![a] = IdleApplier]
      /\ UNCHANGED <<kind, row, shard, current, object, applies, discoveries, discoverer, marker>>
  BY DEF AbortApply, Applied
<1>2. applier' \in [Calls -> ApplierStates] /\ ApplierStage(applier'[a])
      /\ \A b \in Calls \ {a} : applier'[b] = applier[b]
  BY <1>1, IdleApplierType
<1>. QED
  BY <1>1, <1>2, ApplierStep

LEMMA DeleteGoneKeepsType == ASSUME TypeInv, NEW a \in Calls, DeleteGone(a) PROVE TypeInv'
<1>1. PICK s \in applier[a].gone :
        /\ row' = [row EXCEPT ![s] = NoRow] /\ shard' = [shard EXCEPT ![s] = Nothing]
        /\ applier' = [applier EXCEPT ![a].gone = @ \ {s}]
  BY Zenon DEF DeleteGone
<1>2. /\ UNCHANGED <<kind, current, object, applies, discoveries, marker>>
      /\ \E t \in Servers :
            discoverer' = [d \in Discoverers |-> IF d \in Writing(t)
                            THEN [discoverer[d] EXCEPT !.alone = FALSE] ELSE discoverer[d]]
  <2>. applier[a].gone \subseteq Servers
    BY DEF TypeInv, CatalogTypeOK, ApplierStates
  <2>. QED
    BY Zenon DEF DeleteGone
<1>3. discoverer' \in [Discoverers -> DiscovererStates] /\ \A d \in Discoverers : DiscovererStage(discoverer'[d])
  BY <1>2, NotAlone DEF TypeInv, CatalogTypeOK, Crossed
<1>4. row' \in [Servers -> Seen] /\ shard' \in [Servers -> Counts]
  BY <1>1 DEF TypeInv, CatalogTypeOK, Seen, Counts, Nothing
<1>5. applier' \in [Calls -> ApplierStates] /\ \A b \in Calls : ApplierStage(applier'[b])
  <2>. DEFINE q == Deleted(applier[a], applier[a].gone \ {s})
  <2>1. q \in ApplierStates /\ ApplierStage(q)
    BY FewerGone DEF TypeInv, CatalogTypeOK
  <2>2. applier' = [applier EXCEPT ![a] = q]
    BY <1>1 DEF Deleted
  <2>. HIDE DEF q
  <2>. QED
    BY <2>1, <2>2 DEF TypeInv, CatalogTypeOK
<1>. QED
  BY <1>2, <1>3, <1>4, <1>5 DEF TypeInv, CatalogTypeOK

LEMMA LookUpKeepsType == ASSUME TypeInv, NEW d \in Discoverers, LookUp(d) PROVE TypeInv'
<1>1. PICK s \in Configured :
        discoverer' = [discoverer EXCEPT ![d] = [IdleDiscoverer EXCEPT !.pc = "lock",
                            !.server = s, !.object = object[s], !.run = discoveries + 1]]
  BY Zenon DEF LookUp
<1>. USE DEF TypeInv, CatalogTypeOK
<1>2. s \in Servers
  BY DEF Configured, AllConfigs
<1>. DEFINE q == [IdleDiscoverer EXCEPT !.pc = "lock", !.server = s, !.object = object[s], !.run = discoveries + 1]
<1>3. discoveries + 1 \in 1..MaxDiscoveries /\ discoveries + 1 \in Nat
  BY DEF LookUp
<1>4. q \in DiscovererStates
  BY <1>2, <1>3 DEF IdleDiscoverer, DiscovererStates, Named, Seen, Nothing, Counts
<1>5. DiscovererStage(q)
  BY <1>2, <1>3 DEF IdleDiscoverer, DiscovererStage
<1>6. discoverer' = [discoverer EXCEPT ![d] = q]
  BY <1>1
<1>. HIDE DEF q
<1>7. discoverer' \in [Discoverers -> DiscovererStates] /\ \A e \in Discoverers : DiscovererStage(discoverer'[e])
  BY <1>4, <1>5, <1>6
<1>. QED
  BY <1>3, <1>7, DiscovererStep DEF LookUp

LEMMA StartDiscoveryKeepsType == ASSUME TypeInv, NEW d \in Discoverers, StartDiscovery(d) PROVE TypeInv'
<1>. DEFINE q == [discoverer[d] EXCEPT !.pc = "list"]
<1>1. discoverer' = [discoverer EXCEPT ![d] = q] /\ discoverer[d].pc = "lock"
      /\ UNCHANGED <<kind, row, shard, current, object, applies, discoveries, applier, marker>>
  BY DEF StartDiscovery
<1>. USE DEF TypeInv, CatalogTypeOK
<1>2. q \in DiscovererStates /\ DiscovererStage(q)
  BY <1>1 DEF DiscovererStates, DiscovererStage
<1>. HIDE DEF q
<1>3. discoverer' \in [Discoverers -> DiscovererStates] /\ \A e \in Discoverers : DiscovererStage(discoverer'[e])
  BY <1>1, <1>2
<1>. QED
  BY <1>1, <1>3, DiscovererStep

LEMMA ListCapabilitiesKeepsType == ASSUME TypeInv, NEW d \in Discoverers, ListCapabilities(d) PROVE TypeInv'
<1>1. PICK failed \in SUBSET MayFail :
        discoverer' = [discoverer EXCEPT ![d] = [@ EXCEPT !.pc = "write",
                          !.found = [k \in Kinds |-> IF k \in failed THEN 0 ELSE discoverer[d].run]]]
  BY Zenon DEF ListCapabilities
<1>1a. UNCHANGED <<kind, row, shard, current, object, applies, discoveries, applier, marker>>
  BY DEF ListCapabilities
<1>. USE DEF TypeInv, CatalogTypeOK
<1>. DEFINE found == [k \in Kinds |-> IF k \in failed THEN 0 ELSE discoverer[d].run]
            q == Listed(discoverer[d], found)
<1>2. found \in Counts /\ \A k \in Kinds : found[k] \in {0, discoverer[d].run}
  BY DEF Counts, DiscovererStates
<1>3. discoverer' = [discoverer EXCEPT ![d] = q]
  BY <1>1 DEF Listed
<1>. HIDE DEF found
<1>4. q \in DiscovererStates /\ DiscovererStage(q)
  BY <1>2, ListedState DEF ListCapabilities
<1>. HIDE DEF q
<1>6. discoverer' \in [Discoverers -> DiscovererStates] /\ \A e \in Discoverers : DiscovererStage(discoverer'[e])
  BY <1>3, <1>4
<1>. QED
  BY <1>1a, <1>6, DiscovererStep

\* What becomes of the discoveries in a write of d to its server.
AfterWrite(d, q) ==
    [e \in Discoverers |-> IF e = d THEN q
                           ELSE IF e \in Writing(discoverer[d].server) \ {d} THEN Crossed(discoverer[e])
                           ELSE discoverer[e]]

LEMMA AfterWriteType ==
    ASSUME TypeInv, NEW d \in Discoverers, NEW q \in DiscovererStates, DiscovererStage(q),
           discoverer' = AfterWrite(d, q)
    PROVE  discoverer' \in [Discoverers -> DiscovererStates] /\ \A e \in Discoverers : DiscovererStage(discoverer'[e])
  BY NotAlone DEF TypeInv, CatalogTypeOK, AfterWrite

LEMMA WriteShardIs ==
    ASSUME TypeInv, NEW d \in Discoverers, WriteShard(d)
    PROVE  LET p == discoverer[d]
               s == p.server
               others == Writing(s) \ {d}
               ghost == row[s] = NoRow
               pc == IF p.next = Shards THEN "get" ELSE "write"
           IN  /\ s \in Servers /\ p.next \in Kinds /\ p.pc = "write"
               /\ ghost /\ kind = "sql" => p.found[p.next] = 0
               /\ shard' = [shard EXCEPT ![s][p.next] = p.found[p.next]]
               /\ discoverer' = AfterWrite(d, Replaced(p, pc, p.alone /\ others = {} /\ ~ghost))
               /\ mixed' = IF others = {} /\ ~ghost THEN mixed ELSE mixed \union {s}
               /\ UNCHANGED <<kind, row, current, object, applies, discoveries, applier, marker, astray>>
<1>. DEFINE p == discoverer[d]
            s == p.server
            others == Writing(s) \ {d}
            ghost == row[s] = NoRow
            pc == IF p.next = Shards THEN "get" ELSE "write"
<1>1. discoverer' = AfterWrite(d, Replaced(p, pc, p.alone /\ others = {} /\ ~ghost))
  BY Zenon DEF WriteShard, AfterWrite, Replaced, Crossed
<1>2. /\ p.pc = "write"
      /\ ghost /\ kind = "sql" => p.found[p.next] = 0
      /\ shard' = [shard EXCEPT ![s][p.next] = p.found[p.next]]
      /\ mixed' = IF others = {} /\ ~ghost THEN mixed ELSE mixed \union {s}
      /\ UNCHANGED <<kind, row, current, object, applies, discoveries, applier, marker, astray>>
  BY Zenon DEF WriteShard
<1>3. s \in Servers /\ p.next \in Kinds
  BY <1>2 DEF TypeInv, DiscovererStage
<1>. QED
  BY <1>1, <1>2, <1>3

LEMMA WriteShardKeepsType == ASSUME TypeInv, NEW d \in Discoverers, WriteShard(d) PROVE TypeInv'
<1>. DEFINE p == discoverer[d]
            pc == IF p.next = Shards THEN "get" ELSE "write"
            alone == p.alone /\ Writing(p.server) \ {d} = {} /\ row[p.server] # NoRow
<1>1. /\ p.server \in Servers /\ p.next \in Kinds /\ p.pc = "write"
      /\ shard' = [shard EXCEPT ![p.server][p.next] = p.found[p.next]]
      /\ discoverer' = AfterWrite(d, Replaced(p, pc, alone))
      /\ UNCHANGED <<kind, row, current, object, applies, discoveries, applier, marker, astray>>
  BY WriteShardIs
<1>2. p \in DiscovererStates /\ DiscovererStage(p) /\ alone \in BOOLEAN
  BY DEF TypeInv, CatalogTypeOK, DiscovererStates
<1>. HIDE DEF alone
<1>3. Replaced(p, pc, alone) \in DiscovererStates /\ DiscovererStage(Replaced(p, pc, alone))
  BY <1>1, <1>2, WroteState
<1>4. discoverer' \in [Discoverers -> DiscovererStates] /\ \A e \in Discoverers : DiscovererStage(discoverer'[e])
  BY <1>1, <1>3, AfterWriteType
<1>5. shard' \in [Servers -> Counts]
  BY <1>1, <1>2 DEF TypeInv, CatalogTypeOK, Counts, DiscovererStates
<1>. QED
  BY <1>1, <1>4, <1>5, DiscovererStep DEF TypeInv, CatalogTypeOK

LEMMA IdleDiscovererType == IdleDiscoverer \in DiscovererStates /\ DiscovererStage(IdleDiscoverer)
  BY DEF IdleDiscoverer, DiscovererStates, DiscovererStage, Named, Seen, Nothing, Counts

LEMMA GiveUpKeepsType == ASSUME TypeInv, NEW d \in Discoverers, GiveUp(d) PROVE TypeInv'
  BY IdleDiscovererType, DiscovererStep DEF GiveUp, TypeInv, CatalogTypeOK

LEMMA ReadForCountsKeepsType == ASSUME TypeInv, NEW d \in Discoverers, ReadForCounts(d) PROVE TypeInv'
<1>. DEFINE p == discoverer[d]
<1>1. /\ p.pc = "get" /\ row[p.server] # NoRow
      /\ discoverer' = [discoverer EXCEPT ![d] = Fetched(p, row[p.server])]
      /\ UNCHANGED <<kind, row, shard, current, object, applies, discoveries, applier, marker, astray, mixed>>
  BY Zenon DEF ReadForCounts, Fetched
<1>2. p.server \in Servers /\ row[p.server] \in Rows
  BY <1>1 DEF TypeInv, CatalogTypeOK, DiscovererStage, Seen
<1>3. Fetched(p, row[p.server]) \in DiscovererStates /\ DiscovererStage(Fetched(p, row[p.server]))
  BY <1>1, <1>2, CountsState DEF TypeInv, CatalogTypeOK
<1>. QED
  BY <1>1, <1>3, DiscovererStep DEF TypeInv, CatalogTypeOK

\* The row that a discovery writes back.
Counted(p) == [p.seen EXCEPT !.found = p.found]

LEMMA WriteCountsIs ==
    ASSUME TypeInv, NEW d \in Discoverers, WriteCounts(d)
    PROVE  LET p == discoverer[d]
               s == p.server
               lost == row[s] # p.seen
               clean == p.alone /\ Writing(s) = {d} /\ ~lost
           IN  /\ p.pc = "put" /\ s \in Servers /\ p.seen \in Rows
               /\ row' = [row EXCEPT ![s] = Counted(p)]
               /\ astray' = IF lost THEN astray \union {s} ELSE astray
               /\ mixed' = IF clean THEN mixed \ {s} ELSE mixed \union {s}
               /\ discoverer' = AfterWrite(d, IdleDiscoverer)
               /\ UNCHANGED <<kind, shard, current, object, applies, discoveries, applier, marker>>
<1>. DEFINE p == discoverer[d]
            s == p.server
<1>1. discoverer' = AfterWrite(d, IdleDiscoverer)
  BY DEF WriteCounts, AfterWrite, Crossed
<1>2. p.pc = "put" /\ row' = [row EXCEPT ![s] = Counted(p)]
  BY Zenon DEF WriteCounts, Counted
<1>3. s \in Servers /\ p.seen \in Rows
  BY <1>2 DEF TypeInv, DiscovererStage
<1>. QED
  BY <1>1, <1>2, <1>3, Zenon DEF WriteCounts

LEMMA WriteCountsKeepsType == ASSUME TypeInv, NEW d \in Discoverers, WriteCounts(d) PROVE TypeInv'
<1>. DEFINE p == discoverer[d]
<1>1. /\ p.server \in Servers /\ p.seen \in Rows
      /\ row' = [row EXCEPT ![p.server] = Counted(p)]
      /\ discoverer' = AfterWrite(d, IdleDiscoverer)
      /\ UNCHANGED <<kind, shard, current, object, applies, discoveries, applier, marker>>
  BY WriteCountsIs
<1>2. p.found \in Counts
  BY DEF TypeInv, CatalogTypeOK, DiscovererStates
<1>3. row' \in [Servers -> Seen]
  BY <1>1, <1>2 DEF TypeInv, CatalogTypeOK, Seen, Rows, Counted
<1>4. discoverer' \in [Discoverers -> DiscovererStates] /\ \A e \in Discoverers : DiscovererStage(discoverer'[e])
  BY <1>1, IdleDiscovererType, AfterWriteType
<1>. QED
  BY <1>1, <1>3, <1>4, DiscovererStep DEF TypeInv, CatalogTypeOK

LEMMA CutShortIs ==
    ASSUME TypeInv, NEW d \in Discoverers, CutShort(d)
    PROVE  LET s == discoverer[d].server IN
           /\ discoverer[d].pc \in {"write", "get", "put"} /\ s \in Servers
           /\ discoverer' = AfterWrite(d, IdleDiscoverer)
           /\ mixed' = mixed \union {s}
           /\ UNCHANGED <<kind, row, shard, current, object, applies, discoveries, applier, marker, astray>>
<1>1. discoverer' = AfterWrite(d, IdleDiscoverer)
  BY DEF CutShort, AfterWrite, Crossed
<1>. QED
  BY <1>1 DEF CutShort, TypeInv, DiscovererStage

LEMMA CutShortKeepsType == ASSUME TypeInv, NEW d \in Discoverers, CutShort(d) PROVE TypeInv'
  BY CutShortIs, AfterWriteType, IdleDiscovererType, DiscovererStep DEF TypeInv, CatalogTypeOK

LEMMA MarkKeepsType == ASSUME TypeInv, NEW m \in Markers, StartMark(m) \/ WriteMark(m) PROVE TypeInv'
<1>1. CASE StartMark(m)
  <2>1. PICK s \in Servers : row[s] # NoRow /\ marker' = [marker EXCEPT ![m] = [pc |-> "put", server |-> s, seen |-> row[s]]]
    BY <1>1 DEF StartMark
  <2>2. marker' \in [Markers -> MarkerStates] /\ \A n \in Markers : MarkerStage(marker'[n])
    BY <2>1 DEF TypeInv, CatalogTypeOK, MarkerStates, MarkerStage, Named, Seen
  <2>. QED
    BY <1>1, <2>2 DEF StartMark, TypeInv, CatalogTypeOK
<1>2. CASE WriteMark(m)
  <2>1. marker' \in [Markers -> MarkerStates] /\ \A n \in Markers : MarkerStage(marker'[n])
    BY <1>2 DEF WriteMark, IdleMarker, TypeInv, CatalogTypeOK, MarkerStates, MarkerStage, Named, Seen
  <2>2. row' \in [Servers -> Seen]
    BY <1>2 DEF WriteMark, TypeInv, CatalogTypeOK, MarkerStage, MarkerStates
  <2>. QED
    BY <1>2, <2>1, <2>2 DEF WriteMark, TypeInv, CatalogTypeOK
<1>. QED
  BY <1>1, <1>2

LEMMA RestartKeepsType == ASSUME TypeInv, Restart PROVE TypeInv'
<1>1. PICK c \in Configs :
        /\ current' = c /\ object' = Booted(c, applies).object /\ applier' = Booted(c, applies).applier
        /\ discoverer' = Booted(c, applies).discoverer /\ marker' = Booted(c, applies).marker
  BY DEF Restart
<1>2. c \in AllConfigs /\ applies \in Nat
  BY DEF AllConfigs, TypeInv, CatalogTypeOK
<1>3. /\ \A d \in Discoverers : Booted(c, applies).discoverer[d].pc = "idle"
      /\ \A m \in Markers : Booted(c, applies).marker[m].pc = "idle"
  BY <1>2, BootedType
<1>4. \A d \in Discoverers : DiscovererStage(discoverer'[d])
  <2>. SUFFICES ASSUME NEW d \in Discoverers PROVE DiscovererStage(discoverer'[d])
    OBVIOUS
  <2>1. discoverer'[d].pc = "idle"
    BY <1>1, <1>3
  <2>. QED
    BY <2>1 DEF DiscovererStage
<1>5. \A m \in Markers : MarkerStage(marker'[m])
  BY <1>1, <1>3 DEF MarkerStage
<1>. QED
  BY <1>1, <1>2, <1>4, <1>5, BootedType DEF TypeInv, CatalogTypeOK, Restart

\* Rows, shards and processes keep their types, and a process that writes has
\* a server and what it read.
THEOREM CatalogTypes == Spec => []TypeInv
<1>1. TypeInv /\ [Next]_vars => TypeInv'
  <2>. SUFFICES ASSUME TypeInv, [Next]_vars PROVE TypeInv'
    OBVIOUS
  <2>0. Appliers \subseteq Calls
    BY DEF Calls
  <2>1. ASSUME NEW a \in Appliers, Swap(a) \/ AbortApply(a) PROVE TypeInv'
    BY <2>0, <2>1, SwapKeepsType, AbortApplyKeepsType
  <2>2. ASSUME NEW a \in Calls, ReadRow(a) \/ WriteRow(a) \/ DeleteGone(a) \/ Applied(a) PROVE TypeInv'
    BY <2>2, ReadRowKeepsType, WriteRowKeepsType, DeleteGoneKeepsType, AbortApplyKeepsType
  <2>3. ASSUME NEW d \in Discoverers,
               \/ LookUp(d) \/ StartDiscovery(d) \/ ListCapabilities(d) \/ GiveUp(d) \/ WriteShard(d)
               \/ ReadForCounts(d) \/ WriteCounts(d) \/ CutShort(d)
        PROVE  TypeInv'
    BY <2>3, LookUpKeepsType, StartDiscoveryKeepsType, ListCapabilitiesKeepsType, GiveUpKeepsType, WriteShardKeepsType,
       ReadForCountsKeepsType, WriteCountsKeepsType, CutShortKeepsType
  <2>4. ASSUME NEW m \in Markers, StartMark(m) \/ WriteMark(m) PROVE TypeInv'
    BY <2>4, MarkKeepsType
  <2>5. CASE Restart
    BY <2>5, RestartKeepsType
  <2>6. CASE UNCHANGED vars
    BY <2>6 DEF vars, TypeInv, CatalogTypeOK
  <2>. QED
    BY <2>1, <2>2, <2>3, <2>4, <2>5, <2>6 DEF Next
<1>. QED
  BY <1>1, InitType, PTL DEF Spec

-----------------------------------------------------------------------------
(* No shard without a row.                                                 *)

\* What the writes of the other two kinds of work come to.
LEMMA WriteRowIs ==
    ASSUME TypeInv, NEW a \in Calls, WriteRow(a)
    PROVE  LET p == applier[a]
               s == p.server
           IN  /\ p.pc = "row" /\ s \in p.todo /\ s \in Servers /\ s \in DOMAIN p.cfg
               /\ row'[s] \in Rows /\ row'[s].hash = p.cfg[s]
               /\ row'[s].found = IF p.seen = NoRow THEN Nothing ELSE p.seen.found
               /\ \A t \in Servers \ {s} : row'[t] = row[t]
               /\ astray' = IF Latest(a) THEN astray \ {s} ELSE astray \union {s}
               /\ mixed' = IF row[s] = p.seen THEN mixed ELSE mixed \union {s}
               /\ applier' = [applier EXCEPT ![a] = WroteIt(p, p.todo \ {s})]
               /\ UNCHANGED <<kind, shard, current, object, applies, discoveries, discoverer, marker>>
<1>. DEFINE p == applier[a]
            s == p.server
            new == IF p.seen = NoRow THEN [hash |-> p.cfg[s], found |-> Nothing] ELSE [p.seen EXCEPT !.hash = p.cfg[s]]
<1>1. /\ p.pc = "row" /\ row' = [row EXCEPT ![s] = new]
      /\ applier' = [applier EXCEPT ![a] = WroteIt(p, p.todo \ {s})]
      /\ astray' = IF Latest(a) THEN astray \ {s} ELSE astray \union {s}
      /\ mixed' = IF row[s] = p.seen THEN mixed ELSE mixed \union {s}
      /\ UNCHANGED <<kind, shard, current, object, applies, discoveries, discoverer, marker>>
  BY Zenon DEF WriteRow, WroteIt
<1>2. s \in p.todo /\ s \in DOMAIN p.cfg /\ p.cfg \in AllConfigs /\ p.seen \in Seen
  BY <1>1 DEF TypeInv, CatalogTypeOK, ApplierStage, ApplierStates
<1>3. s \in Servers /\ p.cfg[s] \in Hashes /\ Nothing \in Counts
  BY <1>2, HashOf DEF Nothing, Counts
<1>4. new \in Rows /\ new.hash = p.cfg[s] /\ new.found = IF p.seen = NoRow THEN Nothing ELSE p.seen.found
  BY <1>2, <1>3 DEF Rows, Seen
<1>. HIDE DEF new
<1>5. row'[s] = new /\ \A t \in Servers \ {s} : row'[t] = row[t]
  BY <1>1, <1>3 DEF TypeInv, CatalogTypeOK
<1>. QED
  BY <1>1, <1>2, <1>3, <1>4, <1>5

LEMMA DeleteGoneIs ==
    ASSUME TypeInv, NEW a \in Calls, DeleteGone(a)
    PROVE  \E s \in applier[a].gone :
               /\ applier[a].pc = "rows" /\ s \in Servers
               /\ row' = [row EXCEPT ![s] = NoRow] /\ shard' = [shard EXCEPT ![s] = Nothing]
               /\ applier' = [applier EXCEPT ![a] = Deleted(applier[a], applier[a].gone \ {s})]
               /\ astray' = IF Latest(a) THEN astray \ {s} ELSE astray \union {s}
               /\ mixed' = IF Writing(s) = {} THEN mixed \ {s} ELSE mixed \union {s}
               /\ discoverer' = [d \in Discoverers |-> IF d \in Writing(s) THEN Crossed(discoverer[d]) ELSE discoverer[d]]
               /\ UNCHANGED <<kind, current, object, applies, discoveries, marker>>
<1>1. applier[a].gone \subseteq Servers
  BY DEF TypeInv, CatalogTypeOK, ApplierStates
<1>. QED
  BY <1>1, Zenon DEF DeleteGone, Deleted, Crossed

LEMMA WriteMarkIs ==
    ASSUME TypeInv, NEW m \in Markers, WriteMark(m)
    PROVE  \E s \in Servers, r \in Rows :
               /\ row' = [row EXCEPT ![s] = r]
               /\ astray' = astray \union (IF row[s] # r THEN {s} ELSE {})
               /\ mixed' = mixed \union (IF row[s] # r THEN {s} ELSE {})
               /\ UNCHANGED <<kind, shard, current, object, applies, discoveries, applier, discoverer>>
<1>1. marker[m].server \in Servers /\ marker[m].seen \in Rows
  BY DEF WriteMark, TypeInv, MarkerStage
<1>. QED
  BY <1>1, Zenon DEF WriteMark

\* A step that touches no row and no shard.
Quiet == UNCHANGED <<kind, row, shard>> /\ mixed \subseteq mixed'

LEMMA QuietActions ==
    /\ \A a \in Calls : Swap(a) \/ ReadRow(a) \/ Applied(a) \/ AbortApply(a) => Quiet
    /\ \A d \in Discoverers :
            LookUp(d) \/ StartDiscovery(d) \/ ListCapabilities(d) \/ GiveUp(d) \/ ReadForCounts(d) \/ CutShort(d) => Quiet
    /\ \A m \in Markers : StartMark(m) => Quiet
    /\ Restart \/ UNCHANGED vars => Quiet
<1>1. ASSUME NEW a \in Calls, Swap(a) \/ ReadRow(a) \/ Applied(a) \/ AbortApply(a) PROVE Quiet
  <2>1. CASE Swap(a)
    BY <2>1, Zenon DEF Swap, Quiet
  <2>2. CASE ReadRow(a)
    BY <2>2, Zenon DEF ReadRow, Quiet
  <2>3. CASE Applied(a)
    BY <2>3, Zenon DEF Applied, Quiet
  <2>4. CASE AbortApply(a)
    BY <2>4, Zenon DEF AbortApply, Quiet
  <2>. QED
    BY <1>1, <2>1, <2>2, <2>3, <2>4
<1>2. ASSUME NEW d \in Discoverers,
             LookUp(d) \/ StartDiscovery(d) \/ ListCapabilities(d) \/ GiveUp(d) \/ ReadForCounts(d) \/ CutShort(d)
      PROVE  Quiet
  <2>0. CASE LookUp(d)
    BY <2>0, Zenon DEF LookUp, Quiet
  <2>1. CASE StartDiscovery(d)
    BY <2>1, Zenon DEF StartDiscovery, Quiet
  <2>2. CASE ListCapabilities(d)
    BY <2>2, Zenon DEF ListCapabilities, Quiet
  <2>3. CASE GiveUp(d)
    BY <2>3, Zenon DEF GiveUp, Quiet
  <2>4. CASE ReadForCounts(d)
    BY <2>4, Zenon DEF ReadForCounts, Quiet
  <2>5. CASE CutShort(d)
    BY <2>5, Zenon DEF CutShort, Quiet
  <2>. QED
    BY <1>2, <2>0, <2>1, <2>2, <2>3, <2>4, <2>5
<1>3. \A m \in Markers : StartMark(m) => Quiet
  BY DEF StartMark, Quiet
<1>4. Restart \/ UNCHANGED vars => Quiet
  BY DEF Restart, vars, Quiet
<1>. QED
  BY <1>1, <1>2, <1>3, <1>4

\* The cases of a step, for the proofs that follow.
LEMMA Steps ==
    ASSUME [Next]_vars
    PROVE  \/ \E a \in Calls : Swap(a) \/ AbortApply(a) \/ ReadRow(a) \/ WriteRow(a) \/ DeleteGone(a) \/ Applied(a)
           \/ \E d \in Discoverers :
                \/ LookUp(d) \/ StartDiscovery(d) \/ ListCapabilities(d) \/ GiveUp(d) \/ WriteShard(d)
                \/ ReadForCounts(d) \/ WriteCounts(d) \/ CutShort(d)
           \/ \E m \in Markers : StartMark(m) \/ WriteMark(m)
           \/ Restart \/ UNCHANGED vars
  BY DEF Next, Calls

LEMMA GhostStep == ASSUME TypeInv, NoGhostShards, [Next]_vars PROVE NoGhostShards'
<1>1. CASE Quiet
  BY <1>1 DEF Quiet, NoGhostShards, Nothing
<1>2. ASSUME NEW a \in Calls, WriteRow(a) PROVE NoGhostShards'
  <2>. DEFINE s == applier[a].server
  <2>1. /\ row'[s] \in Rows /\ \A t \in Servers \ {s} : row'[t] = row[t]
        /\ mixed \subseteq mixed' /\ UNCHANGED <<kind, shard>>
    BY <1>2, WriteRowIs
  <2>. QED
    BY <2>1, NoRowIsNoRow DEF NoGhostShards, NoRow, Nothing
<1>3. ASSUME NEW a \in Calls, DeleteGone(a) PROVE NoGhostShards'
  <2>1. PICK s \in Servers :
            /\ row' = [row EXCEPT ![s] = NoRow] /\ shard' = [shard EXCEPT ![s] = Nothing]
            /\ mixed \ {s} \subseteq mixed' /\ UNCHANGED kind
    BY <1>3, DeleteGoneIs
  <2>. QED
    BY <2>1 DEF NoGhostShards, TypeInv, CatalogTypeOK, NoRow, Nothing
<1>4. ASSUME NEW d \in Discoverers, WriteShard(d) PROVE NoGhostShards'
  <2>. DEFINE p == discoverer[d]
              s == p.server
  <2>1. /\ s \in Servers /\ p.next \in Kinds
        /\ row[s] = NoRow /\ kind = "sql" => p.found[p.next] = 0
        /\ shard' = [shard EXCEPT ![s][p.next] = p.found[p.next]]
        /\ row[s] = NoRow => s \in mixed'
        /\ mixed \subseteq mixed' /\ UNCHANGED <<kind, row>>
    BY <1>4, WriteShardIs
  <2>2. kind \in StoreKinds
    BY Zenon DEF TypeInv, CatalogTypeOK
  <2>3. kind \in {"sql", "memory"}
    BY <2>2
  <2>. QED
    BY <2>1, <2>3 DEF NoGhostShards, TypeInv, CatalogTypeOK, NoRow, Nothing
<1>5. ASSUME NEW d \in Discoverers, WriteCounts(d) PROVE NoGhostShards'
  <2>. DEFINE s == discoverer[d].server
  <2>1. /\ s \in Servers /\ row' = [row EXCEPT ![s] = Counted(discoverer[d])]
        /\ mixed \ {s} \subseteq mixed' /\ UNCHANGED <<kind, shard>>
    BY <1>5, WriteCountsIs
  <2>2. Counted(discoverer[d]) # NoRow
    BY <1>5, WriteCountsIs DEF Counted, NoRow, Rows
  <2>. QED
    BY <2>1, <2>2 DEF NoGhostShards, TypeInv, CatalogTypeOK, NoRow, Nothing
<1>6. ASSUME NEW m \in Markers, WriteMark(m) PROVE NoGhostShards'
  <2>1. PICK s \in Servers, r \in Rows :
            row' = [row EXCEPT ![s] = r] /\ mixed \subseteq mixed' /\ UNCHANGED <<kind, shard>>
    BY <1>6, WriteMarkIs
  <2>. QED
    BY <2>1, NoRowIsNoRow DEF NoGhostShards, TypeInv, CatalogTypeOK, NoRow, Nothing
<1>. QED
  BY <1>1, <1>2, <1>3, <1>4, <1>5, <1>6, Steps, QuietActions

\* A server without a row has no shards, unless the memory store and a
\* discovery that wrote while the server was deleted made one: Discover and
\* DeleteServer, in any order.
THEOREM NoShardSurvives == Spec => []NoGhostShards
<1>1. Init => NoGhostShards
  BY DEF Init, NoGhostShards
<1>2. TypeInv /\ NoGhostShards /\ [Next]_vars => NoGhostShards'
  BY GhostStep
<1>. QED
  BY <1>1, <1>2, CatalogTypes, PTL DEF Spec

-----------------------------------------------------------------------------
(* Rows and the configuration.                                             *)

\* An ApplyConfig under way deletes what its configuration does not have, and
\* the last one to swap the backends applies the running configuration.
Applying(a) ==
    applier[a].pc # "idle" =>
        /\ applier[a].turn < applies
        /\ applier[a].gone \cap DOMAIN applier[a].cfg = {}
        /\ Latest(a) => applier[a].cfg = current

ApplierInv == \A a \in Calls : Applying(a)

RowInv == ApplierInv /\ RowsFollowConfig

LEMMA RowInit == Init => RowInv
<1>. SUFFICES ASSUME Init PROVE RowInv
  OBVIOUS
<1>1. PICK c \in FirstConfigs : current = c /\ applier = Booted(c, 0).applier
  BY DEF Init
<1>2. c \in AllConfigs /\ 0 \in Nat
  BY DEF AllConfigs
<1>3. ApplierInv
  BY <1>1, <1>2, BootedType DEF ApplierInv, Applying, Init
<1>4. RowsFollowConfig
  <2>1. "boot" \in Calls /\ applier["boot"].todo = Configured
    BY <1>1, <1>2, BootedType DEF Calls, Configured
  <2>2. \A s \in Servers : row[s] = NoRow
    BY DEF Init
  <2>. QED
    BY <2>1, <2>2 DEF RowsFollowConfig, Settled
<1>. QED
  BY <1>3, <1>4 DEF RowInv

\* A step of other work: no row goes or changes its hash but in a lost update.
Aside == /\ UNCHANGED <<current, applies, applier>> /\ astray \subseteq astray'
         /\ \A s \in Servers \ astray' :
                \/ row'[s] = row[s]
                \/ row[s] # NoRow /\ row'[s] # NoRow /\ row'[s].hash = row[s].hash

LEMMA AsideStep == ASSUME TypeInv, RowInv, Aside PROVE RowInv'
<1>1. ApplierInv'
  BY DEF RowInv, ApplierInv, Applying, Latest, Aside
<1>2. RowsFollowConfig'
  BY DEF RowInv, RowsFollowConfig, Settled, Configured, Aside
<1>. QED
  BY <1>1, <1>2 DEF RowInv

LEMMA DiscoveriesAside ==
    ASSUME TypeInv, NEW d \in Discoverers,
           \/ LookUp(d) \/ StartDiscovery(d) \/ ListCapabilities(d) \/ GiveUp(d) \/ WriteShard(d)
           \/ ReadForCounts(d) \/ WriteCounts(d) \/ CutShort(d)
    PROVE  Aside
<1>0. CASE LookUp(d)
  <2>1. UNCHANGED <<row, current, applies, applier, astray>>
    BY <1>0, Zenon DEF LookUp
  <2>. QED
    BY <2>1 DEF Aside
<1>1. CASE StartDiscovery(d)
  <2>1. UNCHANGED <<row, current, applies, applier, astray>>
    BY <1>1, Zenon DEF StartDiscovery
  <2>. QED
    BY <2>1 DEF Aside
<1>2. CASE ListCapabilities(d)
  <2>1. UNCHANGED <<row, current, applies, applier, astray>>
    BY <1>2, Zenon DEF ListCapabilities
  <2>. QED
    BY <2>1 DEF Aside
<1>3. CASE GiveUp(d)
  <2>1. UNCHANGED <<row, current, applies, applier, astray>>
    BY <1>3, Zenon DEF GiveUp
  <2>. QED
    BY <2>1 DEF Aside
<1>4. CASE WriteShard(d)
  <2>1. UNCHANGED <<row, current, applies, applier, astray>>
    BY <1>4, Zenon DEF WriteShard
  <2>. QED
    BY <2>1 DEF Aside
<1>5. CASE ReadForCounts(d)
  <2>1. UNCHANGED <<row, current, applies, applier, astray>>
    BY <1>5, Zenon DEF ReadForCounts
  <2>. QED
    BY <2>1 DEF Aside
<1>6. CASE CutShort(d)
  <2>1. UNCHANGED <<row, current, applies, applier, astray>>
    BY <1>6, Zenon DEF CutShort
  <2>. QED
    BY <2>1 DEF Aside
<1>7. CASE WriteCounts(d)
  <2>. DEFINE p == discoverer[d]
              s == p.server
  <2>1. /\ s \in Servers /\ p.seen \in Rows /\ row' = [row EXCEPT ![s] = Counted(p)]
        /\ astray' = IF row[s] # p.seen THEN astray \union {s} ELSE astray
        /\ UNCHANGED <<current, applies, applier>>
    BY <1>7, WriteCountsIs
  <2>2. Counted(p) # NoRow /\ Counted(p).hash = p.seen.hash /\ p.seen # NoRow
    BY <2>1 DEF Counted, NoRow, Rows
  <2>3. \A t \in Servers : row'[t] = IF t = s THEN Counted(p) ELSE row[t]
    BY <2>1 DEF TypeInv, CatalogTypeOK
  <2>. HIDE DEF p
  <2>. QED
    BY <2>1, <2>2, <2>3 DEF Aside
<1>. QED
  BY <1>0, <1>1, <1>2, <1>3, <1>4, <1>5, <1>6, <1>7

LEMMA MarksAside == ASSUME TypeInv, NEW m \in Markers, StartMark(m) \/ WriteMark(m) PROVE Aside
<1>1. CASE StartMark(m)
  <2>1. UNCHANGED <<row, current, applies, applier, astray>>
    BY <1>1, Zenon DEF StartMark
  <2>. QED
    BY <2>1 DEF Aside
<1>2. CASE WriteMark(m)
  <2>1. PICK s \in Servers, r \in Rows :
            /\ row' = [row EXCEPT ![s] = r]
            /\ astray' = astray \union (IF row[s] # r THEN {s} ELSE {})
            /\ UNCHANGED <<current, applies, applier>>
    BY <1>2, WriteMarkIs
  <2>2. \A t \in Servers : row'[t] = IF t = s THEN r ELSE row[t]
    BY <2>1 DEF TypeInv, CatalogTypeOK
  <2>. QED
    BY <2>1, <2>2 DEF Aside
<1>. QED
  BY <1>1, <1>2

\* A step of a call a, of which the others see nothing.
LEMMA OthersApply ==
    ASSUME ApplierInv, NEW a \in Calls, \A b \in Calls \ {a} : applier'[b] = applier[b],
           UNCHANGED <<current, applies>>, Applying(a)'
    PROVE  ApplierInv'
  BY DEF ApplierInv, Applying, Latest

LEMMA SwapRows == ASSUME TypeInv, RowInv, NEW a \in Calls, Swap(a) PROVE RowInv'
<1>1. PICK c \in Configs :
        /\ current' = c
        /\ applier' = [applier EXCEPT ![a] = Swapped(c, applies, Configured \ DOMAIN c)]
  BY Zenon DEF Swap
<1>2. /\ applier[a].pc = "idle" /\ applies' = applies + 1 /\ UNCHANGED <<row, astray>>
  BY DEF Swap
<1>3. c \in AllConfigs /\ Configured \ DOMAIN c \in SUBSET Servers /\ applies \in Nat
  BY DEF AllConfigs, Configured, TypeInv, CatalogTypeOK
<1>4. JustSwapped(applier'[a], c, applies, Configured \ DOMAIN c)
  BY <1>1, <1>3, SwappedType DEF TypeInv, CatalogTypeOK
<1>5. \A b \in Calls \ {a} : applier'[b] = applier[b]
  BY <1>1 DEF TypeInv, CatalogTypeOK
<1>6. ApplierInv'
  <2>. SUFFICES ASSUME NEW b \in Calls PROVE Applying(b)'
    BY DEF ApplierInv
  <2>1. applier[b].turn \in Nat
    BY DEF TypeInv, CatalogTypeOK, ApplierStates
  <2>2. CASE b = a
    <3>1. current' = c /\ c \in AllConfigs
      BY <1>1, <1>3
    <3>. QED
      BY <1>2, <1>3, <1>4, <2>2, <3>1 DEF Applying, JustSwapped
  <2>3. CASE b # a
    BY <1>2, <1>3, <1>5, <2>1, <2>3 DEF RowInv, ApplierInv, Applying, Latest
  <2>. QED
    BY <2>2, <2>3
<1>7. RowsFollowConfig'
  <2>. SUFFICES ASSUME NEW s \in Servers \ astray', Settled(s)'
                PROVE  IF s \in Configured' THEN row'[s].hash = current'[s] ELSE row'[s] = NoRow
    BY DEF RowsFollowConfig
  <2>1. s \notin Configured /\ s \notin Configured'
    BY <1>1, <1>4 DEF Settled, JustSwapped, Configured
  <2>2. Settled(s)
    BY <1>2, <1>5 DEF Settled, TypeInv, ApplierStage
  <2>. QED
    BY <1>2, <2>1, <2>2 DEF RowInv, RowsFollowConfig
<1>. QED
  BY <1>6, <1>7 DEF RowInv

LEMMA ReadRowRows == ASSUME TypeInv, RowInv, NEW a \in Calls, ReadRow(a) PROVE RowInv'
<1>1. PICK s \in applier[a].todo :
        applier' = [applier EXCEPT ![a] = [@ EXCEPT !.pc = "row", !.server = s, !.seen = row[s]]]
  BY Zenon DEF ReadRow
<1>2. applier[a].pc = "rows" /\ UNCHANGED <<row, current, applies, astray>>
  BY Zenon DEF ReadRow
<1>3. /\ \A b \in Calls \ {a} : applier'[b] = applier[b]
      /\ LET p == applier[a] IN LET q == applier'[a] IN
            q.todo = p.todo /\ q.gone = p.gone /\ q.turn = p.turn /\ q.cfg = p.cfg
  BY <1>1 DEF TypeInv, CatalogTypeOK, ApplierStates
<1>4. ApplierInv'
  BY <1>2, <1>3, OthersApply DEF RowInv, ApplierInv, Applying, Latest
<1>5. RowsFollowConfig'
  BY <1>2, <1>3 DEF RowInv, RowsFollowConfig, Settled, Configured
<1>. QED
  BY <1>4, <1>5 DEF RowInv

LEMMA WriteRowRows == ASSUME TypeInv, RowInv, NEW a \in Calls, WriteRow(a) PROVE RowInv'
<1>. DEFINE p == applier[a]
            s == p.server
<1>1. /\ p.pc = "row" /\ s \in p.todo /\ s \in Servers /\ s \in DOMAIN p.cfg
      /\ row'[s].hash = p.cfg[s] /\ \A t \in Servers \ {s} : row'[t] = row[t]
      /\ astray' = IF Latest(a) THEN astray \ {s} ELSE astray \union {s}
      /\ applier' = [applier EXCEPT ![a] = WroteIt(p, p.todo \ {s})]
      /\ UNCHANGED <<current, applies>>
  BY WriteRowIs
<1>2. applier'[a].todo = p.todo \ {s} /\ applier'[a].gone = p.gone
      /\ applier'[a].turn = p.turn /\ applier'[a].cfg = p.cfg
  BY <1>1 DEF WroteIt, TypeInv, CatalogTypeOK, ApplierStates
<1>3. \A b \in Calls \ {a} : applier'[b] = applier[b]
  BY <1>1 DEF TypeInv, CatalogTypeOK
<1>4. ApplierInv'
  <2>1. Applying(a)'
    BY <1>1, <1>2 DEF RowInv, ApplierInv, Applying, Latest
  <2>. QED
    BY <1>1, <1>3, <2>1, OthersApply DEF RowInv
<1>5. RowsFollowConfig'
  <2>. SUFFICES ASSUME NEW t \in Servers \ astray', Settled(t)'
                PROVE  IF t \in Configured' THEN row'[t].hash = current'[t] ELSE row'[t] = NoRow
    BY DEF RowsFollowConfig
  <2>1. CASE t = s
    <3>1. Latest(a) /\ current = p.cfg
      BY <1>1, <2>1 DEF RowInv, ApplierInv, Applying
    <3>. QED
      BY <1>1, <2>1, <3>1 DEF Configured
  <2>2. CASE t # s
    <3>1. Settled(t) /\ t \notin astray
      BY <1>1, <1>2, <1>3, <2>2 DEF Settled
    <3>. QED
      BY <1>1, <2>2, <3>1 DEF RowInv, RowsFollowConfig, Configured
  <2>. QED
    BY <2>1, <2>2
<1>. QED
  BY <1>4, <1>5 DEF RowInv

LEMMA DeleteGoneRows == ASSUME TypeInv, RowInv, NEW a \in Calls, DeleteGone(a) PROVE RowInv'
<1>. DEFINE p == applier[a]
<1>1. PICK s \in p.gone :
        /\ p.pc = "rows" /\ s \in Servers
        /\ row' = [row EXCEPT ![s] = NoRow]
        /\ applier' = [applier EXCEPT ![a] = Deleted(p, p.gone \ {s})]
        /\ astray' = IF Latest(a) THEN astray \ {s} ELSE astray \union {s}
        /\ UNCHANGED <<current, applies>>
  BY DeleteGoneIs
<1>2. applier'[a].todo = p.todo /\ applier'[a].gone = p.gone \ {s}
      /\ applier'[a].turn = p.turn /\ applier'[a].cfg = p.cfg
  BY <1>1 DEF Deleted, TypeInv, CatalogTypeOK, ApplierStates
<1>3. /\ \A b \in Calls \ {a} : applier'[b] = applier[b]
      /\ \A t \in Servers : row'[t] = IF t = s THEN NoRow ELSE row[t]
  BY <1>1 DEF TypeInv, CatalogTypeOK
<1>4. ApplierInv'
  <2>1. Applying(a)'
    BY <1>1, <1>2 DEF RowInv, ApplierInv, Applying, Latest
  <2>. QED
    BY <1>1, <1>3, <2>1, OthersApply DEF RowInv
<1>5. RowsFollowConfig'
  <2>. SUFFICES ASSUME NEW t \in Servers \ astray', Settled(t)'
                PROVE  IF t \in Configured' THEN row'[t].hash = current'[t] ELSE row'[t] = NoRow
    BY DEF RowsFollowConfig
  <2>1. CASE t = s
    <3>1. Latest(a) /\ current = p.cfg /\ s \notin DOMAIN p.cfg
      BY <1>1, <2>1 DEF RowInv, ApplierInv, Applying
    <3>. QED
      BY <1>1, <1>3, <2>1, <3>1 DEF Configured
  <2>2. CASE t # s
    <3>1. Settled(t) /\ t \notin astray
      BY <1>1, <1>2, <1>3, <2>2 DEF Settled
    <3>. QED
      BY <1>1, <1>3, <2>2, <3>1 DEF RowInv, RowsFollowConfig, Configured
  <2>. QED
    BY <2>1, <2>2
<1>. QED
  BY <1>4, <1>5 DEF RowInv

LEMMA EndOfApplyRows == ASSUME TypeInv, RowInv, NEW a \in Calls, Applied(a) \/ AbortApply(a) PROVE RowInv'
<1>1. /\ applier' = [applier EXCEPT ![a] = IdleApplier] /\ UNCHANGED <<row, current, applies>>
      /\ astray' = astray \union applier[a].todo \union applier[a].gone
  BY DEF Applied, AbortApply
<1>2. IdleApplier.pc = "idle"
  BY DEF IdleApplier
<1>3. applier'[a] = IdleApplier /\ \A b \in Calls \ {a} : applier'[b] = applier[b]
  BY <1>1 DEF TypeInv, CatalogTypeOK
<1>4. ApplierInv'
  BY <1>1, <1>2, <1>3, OthersApply DEF RowInv, Applying
<1>5. RowsFollowConfig'
  BY <1>1, <1>3 DEF RowInv, RowsFollowConfig, Settled, Configured
<1>. QED
  BY <1>4, <1>5 DEF RowInv

LEMMA RestartRows == ASSUME TypeInv, RowInv, Restart PROVE RowInv'
<1>1. PICK c \in Configs :
        /\ current' = c /\ applier' = Booted(c, applies).applier
        /\ astray' = {s \in Servers \ DOMAIN c : row[s] # NoRow}
  BY DEF Restart
<1>2. c \in AllConfigs /\ applies \in Nat /\ applies' = applies + 1 /\ UNCHANGED row
  BY DEF AllConfigs, TypeInv, CatalogTypeOK, Restart
<1>3. ApplierInv'
  BY <1>1, <1>2, BootedType DEF ApplierInv, Applying
<1>4. "boot" \in Calls /\ applier'["boot"].todo = Configured' /\ Configured' = DOMAIN c
  BY <1>1, <1>2, BootedType DEF Calls, Configured
<1>5. RowsFollowConfig'
  BY <1>1, <1>2, <1>4 DEF RowsFollowConfig, Settled
<1>. QED
  BY <1>3, <1>5 DEF RowInv

LEMMA RowStep == ASSUME TypeInv, RowInv, [Next]_vars PROVE RowInv'
<1>1. CASE UNCHANGED vars
  BY <1>1 DEF vars, RowInv, ApplierInv, Applying, Latest, RowsFollowConfig, Settled, Configured
<1>. QED
  BY <1>1, Steps, SwapRows, ReadRowRows, WriteRowRows, DeleteGoneRows, EndOfApplyRows, RestartRows,
     DiscoveriesAside, MarksAside, AsideStep

\* When no reload has work left on a server, the server has a row of the
\* hash of the running configuration if it is configured, and no row if it is
\* not, apart from the updates named in astray: ApplyConfig against itself,
\* Discover, markHealth, errors of the store and restarts.
THEOREM RowsFollow == Spec => []RowsFollowConfig
<1>1. Init => RowInv
  BY RowInit
<1>2. TypeInv /\ RowInv /\ [Next]_vars => RowInv'
  BY RowStep
<1>3. RowInv => RowsFollowConfig
  BY DEF RowInv
<1>. QED
  BY <1>1, <1>2, <1>3, CatalogTypes, PTL DEF Spec

-----------------------------------------------------------------------------
(* Counts and shards.                                                      *)

Works(p) == p.pc \in {"write", "get", "put"}

\* A discovery that nobody crossed finds the shards it has written as it
\* wrote them.
Undisturbed(d) ==
    LET p == discoverer[d] IN
    Works(p) /\ p.alone => \A k \in Kinds : k < p.next => shard[p.server][k] = p.found[k]

Fits(s) ==
    /\ row[s].found = shard[s]
    /\ \E run \in 0..MaxDiscoveries : \A k \in Kinds : shard[s][k] \in {0, run}

CountInv == (\A d \in Discoverers : Undisturbed(d)) /\ RowDescribesShards

LEMMA CountInit == Init => CountInv
<1>. SUFFICES ASSUME Init PROVE CountInv
  OBVIOUS
<1>1. PICK c \in FirstConfigs : discoverer = Booted(c, 0).discoverer
  BY DEF Init
<1>2. \A d \in Discoverers : discoverer[d].pc = "idle"
  BY <1>1, BootedType DEF AllConfigs
<1>. QED
  BY <1>2 DEF Init, CountInv, Undisturbed, Works, RowDescribesShards

\* What a step may leave of a server for its counts to go on fitting.
StillFits(s) ==
    \/ Fits(s)'
    \/ row'[s] = NoRow
    \/ Writing(s)' # {}
    \/ /\ s \notin mixed /\ row[s] # NoRow /\ row'[s].found = row[s].found /\ shard'[s] = shard[s]
       /\ Writing(s) \subseteq Writing(s)'

LEMMA FitsOn ==
    ASSUME RowDescribesShards, \A s \in Servers \ mixed' : StillFits(s)
    PROVE  RowDescribesShards'
<1>. SUFFICES ASSUME NEW s \in Servers \ mixed', row'[s] # NoRow, Writing(s)' = {}
              PROVE  Fits(s)'
  BY Zenon DEF RowDescribesShards, Fits
<1>1. CASE /\ s \notin mixed /\ row[s] # NoRow /\ row'[s].found = row[s].found /\ shard'[s] = shard[s]
           /\ Writing(s) \subseteq Writing(s)'
  BY <1>1 DEF RowDescribesShards, Fits
<1>. QED
  BY <1>1 DEF StillFits

LEMMA WritingOn ==
    ASSUME NEW s, \A d \in Discoverers : Works(discoverer[d]) /\ discoverer[d].server = s
                      => Works(discoverer'[d]) /\ discoverer'[d].server = s
    PROVE  Writing(s) \subseteq Writing(s)'
  BY DEF Writing, Works

\* Nothing but ApplyConfig and marks moves, and no shard.
LEMMA NoDiscoveryMoves ==
    ASSUME TypeInv, CountInv, UNCHANGED <<shard, discoverer>>,
           \A s \in Servers \ mixed' :
                \/ Fits(s)'
                \/ s \notin mixed /\ row'[s] = NoRow
                \/ s \notin mixed /\ row[s] # NoRow /\ row'[s].found = row[s].found
    PROVE  CountInv'
<1>1. \A d \in Discoverers : Undisturbed(d)'
  BY DEF CountInv, Undisturbed
<1>2. \A s : Writing(s)' = Writing(s)
  BY DEF Writing
<1>3. RowDescribesShards'
  BY <1>2, FitsOn DEF CountInv, StillFits
<1>. QED
  BY <1>1, <1>3 DEF CountInv

LEMMA NothingMoves ==
    ASSUME TypeInv, CountInv, UNCHANGED <<row, shard, discoverer, mixed>> PROVE CountInv'
<1>1. \A s : Writing(s)' = Writing(s)
  BY DEF Writing
<1>. QED
  BY <1>1 DEF CountInv, Undisturbed, RowDescribesShards

LEMMA ApplyCounts ==
    ASSUME TypeInv, CountInv, NEW a \in Calls, Swap(a) \/ ReadRow(a) \/ Applied(a) \/ AbortApply(a)
    PROVE  CountInv'
<1>1. CASE Swap(a)
  <2>1. UNCHANGED <<row, shard, discoverer, mixed>>
    BY <1>1, Zenon DEF Swap
  <2>. QED
    BY <2>1, NothingMoves
<1>2. CASE ReadRow(a)
  <2>1. UNCHANGED <<row, shard, discoverer, mixed>>
    BY <1>2, Zenon DEF ReadRow
  <2>. QED
    BY <2>1, NothingMoves
<1>3. CASE Applied(a) \/ AbortApply(a)
  <2>1. UNCHANGED <<row, shard, discoverer, mixed>>
    BY <1>3, Zenon DEF Applied, AbortApply
  <2>. QED
    BY <2>1, NothingMoves
<1>. QED
  BY <1>1, <1>2, <1>3

LEMMA WriteRowCounts ==
    ASSUME TypeInv, NoGhostShards, CountInv, NEW a \in Calls, WriteRow(a) PROVE CountInv'
<1>. DEFINE p == applier[a]
<1>1. PICK s \in Servers :
      /\ s = p.server /\ row'[s].found = IF p.seen = NoRow THEN Nothing ELSE p.seen.found
      /\ \A t \in Servers \ {s} : row'[t] = row[t]
      /\ mixed' = IF row[s] = p.seen THEN mixed ELSE mixed \union {s}
      /\ UNCHANGED <<shard, discoverer>>
  <2>. DEFINE s == p.server
  <2>1. /\ s \in Servers /\ row'[s].found = IF p.seen = NoRow THEN Nothing ELSE p.seen.found
        /\ \A t \in Servers \ {s} : row'[t] = row[t]
        /\ mixed' = IF row[s] = p.seen THEN mixed ELSE mixed \union {s}
        /\ UNCHANGED <<shard, discoverer>>
    BY WriteRowIs
  <2>. QED
    BY <2>1
<1>2. ASSUME s \notin mixed', row[s] = NoRow PROVE Fits(s)'
  <2>1. row[s] = p.seen /\ s \notin mixed /\ shard[s] = Nothing
    BY <1>1, <1>2 DEF NoGhostShards
  <2>2. row'[s].found = Nothing /\ shard'[s] = Nothing
    BY <1>1, <1>2, <2>1
  <2>3. 0 \in 0..MaxDiscoveries /\ \A k \in Kinds : Nothing[k] \in {0, 0}
    BY DEF Nothing
  <2>. QED
    BY <2>2, <2>3 DEF Fits
<1>3. ASSUME s \notin mixed', row[s] # NoRow PROVE s \notin mixed /\ row'[s].found = row[s].found
  BY <1>1, <1>3
<1>4. ASSUME NEW t \in Servers \ mixed', t # s
      PROVE  t \notin mixed /\ row'[t] = row[t]
  BY <1>1, <1>4
<1>5. UNCHANGED <<shard, discoverer>>
  BY <1>1
<1>. QED
  BY <1>2, <1>3, <1>4, <1>5, NoDiscoveryMoves

LEMMA MarkCounts ==
    ASSUME TypeInv, CountInv, NEW m \in Markers, StartMark(m) \/ WriteMark(m) PROVE CountInv'
<1>1. CASE StartMark(m)
  <2>1. UNCHANGED <<row, shard, discoverer, mixed>>
    BY <1>1, Zenon DEF StartMark
  <2>. QED
    BY <2>1, NothingMoves
<1>2. CASE WriteMark(m)
  <2>1. PICK s \in Servers, r \in Rows :
            /\ row' = [row EXCEPT ![s] = r]
            /\ mixed' = mixed \union (IF row[s] # r THEN {s} ELSE {})
            /\ UNCHANGED <<shard, discoverer>>
    BY <1>2, WriteMarkIs
  <2>2. \A t \in Servers : row'[t] = IF t = s THEN r ELSE row[t]
    BY <2>1 DEF TypeInv, CatalogTypeOK
  <2>3. \A t \in Servers \ mixed' : t \notin mixed /\ row'[t] = row[t]
    BY <2>1, <2>2
  <2>. QED
    BY <2>1, <2>3, NoDiscoveryMoves
<1>. QED
  BY <1>1, <1>2

\* A discovery that does not move, but may have been crossed.
Follows(e) ==
    LET p == discoverer[e]
        q == discoverer'[e]
    IN  /\ q.pc = p.pc /\ q.server = p.server /\ q.next = p.next /\ q.found = p.found
        /\ Works(p) /\ q.alone => p.alone /\ shard'[p.server] = shard[p.server]

LEMMA FollowsOn ==
    ASSUME CountInv, NEW e \in Discoverers, Follows(e) PROVE Undisturbed(e)'
<1>. DEFINE p == discoverer[e]
            q == discoverer'[e]
<1>1. /\ q.pc = p.pc /\ q.server = p.server /\ q.next = p.next /\ q.found = p.found
      /\ Works(p) /\ q.alone => p.alone /\ shard'[p.server] = shard[p.server]
  BY DEF Follows
<1>2. Works(p) /\ p.alone => \A k \in Kinds : k < p.next => shard[p.server][k] = p.found[k]
  BY DEF CountInv, Undisturbed
<1>3. Works(q) /\ q.alone => \A k \in Kinds : k < q.next => shard'[q.server][k] = q.found[k]
  BY <1>1, <1>2 DEF Works
<1>. QED
  BY <1>3 DEF Undisturbed

\* One discovery d moves, at the server s.
LEMMA OneMoves ==
    ASSUME TypeInv, CountInv, NEW d \in Discoverers, NEW s \in Servers,
           Works(discoverer[d]) => discoverer[d].server = s,
           \A e \in Discoverers \ {d} : Follows(e), Undisturbed(d)',
           \A t \in Servers \ {s} : (t \in mixed => t \in mixed') /\ row'[t] = row[t] /\ shard'[t] = shard[t],
           s \notin mixed' => StillFits(s)
    PROVE  CountInv'
<1>1. \A e \in Discoverers : Undisturbed(e)'
  BY FollowsOn
<1>2. ASSUME NEW t \in Servers \ mixed', t # s PROVE StillFits(t)
  <2>1. Writing(t) \subseteq Writing(t)'
    <3>. SUFFICES ASSUME NEW e \in Discoverers, Works(discoverer[e]), discoverer[e].server = t
                  PROVE  Works(discoverer'[e]) /\ discoverer'[e].server = t
      BY WritingOn
    <3>. QED
      BY <1>2 DEF Follows, Works
  <2>2. t \notin mixed /\ row'[t] = row[t] /\ shard'[t] = shard[t]
    BY <1>2
  <2>. QED
    BY <2>1, <2>2 DEF StillFits
<1>3. RowDescribesShards'
  BY <1>2, FitsOn DEF CountInv
<1>. QED
  BY <1>1, <1>3 DEF CountInv

LEMMA AfterWriteFollows ==
    ASSUME TypeInv, NEW d \in Discoverers, NEW q, discoverer' = AfterWrite(d, q),
           NEW s \in Servers, discoverer[d].server = s,
           \A t \in Servers \ {s} : shard'[t] = shard[t]
    PROVE  discoverer'[d] = q /\ \A e \in Discoverers \ {d} : Follows(e)
<1>1. discoverer'[d] = q
  BY DEF AfterWrite
<1>2. ASSUME NEW e \in Discoverers \ {d} PROVE Follows(e)
  <2>. DEFINE p == discoverer[e]
  <2>1. p \in DiscovererStates /\ DiscovererStage(p)
    BY DEF TypeInv, CatalogTypeOK
  <2>2. CASE e \in Writing(s)
    <3>1. discoverer'[e] = Crossed(p)
      BY <2>2 DEF AfterWrite
    <3>2. LET r == Crossed(p) IN
          r.pc = p.pc /\ r.server = p.server /\ r.next = p.next /\ r.found = p.found /\ r.alone = FALSE
      BY <2>1 DEF Crossed, DiscovererStates
    <3>. QED
      BY <3>1, <3>2 DEF Follows
  <2>3. CASE e \notin Writing(s)
    <3>1. discoverer'[e] = p
      BY <2>3 DEF AfterWrite
    <3>2. Works(p) => p.server \in Servers \ {s}
      BY <2>1, <2>3 DEF Works, DiscovererStage, Writing
    <3>. QED
      BY <3>1, <3>2 DEF Follows
  <2>. QED
    BY <2>2, <2>3
<1>. QED
  BY <1>1, <1>2

LEMMA DeleteGoneCounts == ASSUME TypeInv, CountInv, NEW a \in Calls, DeleteGone(a) PROVE CountInv'
<1>1. PICK s \in Servers :
        /\ row' = [row EXCEPT ![s] = NoRow] /\ shard' = [shard EXCEPT ![s] = Nothing]
        /\ mixed \ {s} \subseteq mixed'
        /\ discoverer' = [d \in Discoverers |-> IF d \in Writing(s) THEN Crossed(discoverer[d]) ELSE discoverer[d]]
  BY DeleteGoneIs
<1>2. /\ \A t \in Servers \ {s} : row'[t] = row[t] /\ shard'[t] = shard[t]
      /\ row'[s] = NoRow
  BY <1>1 DEF TypeInv, CatalogTypeOK
<1>3. ASSUME NEW e \in Discoverers PROVE Follows(e)
  <2>. DEFINE p == discoverer[e]
  <2>1. p \in DiscovererStates /\ DiscovererStage(p)
    BY DEF TypeInv, CatalogTypeOK
  <2>2. CASE e \in Writing(s)
    <3>1. discoverer'[e] = Crossed(p)
      BY <1>1, <2>2
    <3>2. LET r == Crossed(p) IN
          r.pc = p.pc /\ r.server = p.server /\ r.next = p.next /\ r.found = p.found /\ r.alone = FALSE
      BY <2>1 DEF Crossed, DiscovererStates
    <3>. QED
      BY <3>1, <3>2 DEF Follows
  <2>3. CASE e \notin Writing(s)
    <3>1. discoverer'[e] = p
      BY <1>1, <2>3
    <3>2. Works(p) => p.server \in Servers \ {s}
      BY <2>1, <2>3 DEF Works, DiscovererStage, Writing
    <3>. QED
      BY <1>2, <3>1, <3>2 DEF Follows
  <2>. QED
    BY <2>2, <2>3
<1>4. \A e \in Discoverers : Undisturbed(e)'
  BY <1>3, FollowsOn
<1>5. ASSUME NEW t \in Servers \ mixed' PROVE StillFits(t)
  <2>1. Writing(t) \subseteq Writing(t)'
    <3>1. \A e \in Discoverers : Works(discoverer[e]) /\ discoverer[e].server = t
                      => Works(discoverer'[e]) /\ discoverer'[e].server = t
      BY <1>3 DEF Follows, Works
    <3>. QED
      BY <3>1, WritingOn
  <2>. QED
    BY <1>1, <1>2, <2>1 DEF StillFits
<1>. QED
  BY <1>4, <1>5, FitsOn DEF CountInv

LEMMA WriteShardCounts == ASSUME TypeInv, CountInv, NEW d \in Discoverers, WriteShard(d) PROVE CountInv'
<1>. DEFINE p == discoverer[d]
            pc == IF p.next = Shards THEN "get" ELSE "write"
            alone == p.alone /\ Writing(p.server) \ {d} = {} /\ row[p.server] # NoRow
<1>1. PICK s \in Servers :
        /\ s = p.server /\ p.next \in Kinds /\ p.pc = "write"
        /\ shard' = [shard EXCEPT ![s][p.next] = p.found[p.next]]
        /\ discoverer' = AfterWrite(d, Replaced(p, pc, alone))
        /\ mixed \subseteq mixed' /\ UNCHANGED row
  <2>1. /\ p.server \in Servers /\ p.next \in Kinds /\ p.pc = "write"
        /\ shard' = [shard EXCEPT ![p.server][p.next] = p.found[p.next]]
        /\ discoverer' = AfterWrite(d, Replaced(p, pc, alone))
        /\ mixed \subseteq mixed' /\ UNCHANGED row
    BY WriteShardIs
  <2>. QED
    BY <2>1
<1>2. p \in DiscovererStates /\ alone \in BOOLEAN /\ (alone => p.alone)
  BY DEF TypeInv, CatalogTypeOK, DiscovererStates
<1>3. /\ \A t \in Servers \ {s} : shard'[t] = shard[t]
      /\ \A k \in Kinds : shard'[s][k] = IF k = p.next THEN p.found[k] ELSE shard[s][k]
  BY <1>1 DEF TypeInv, CatalogTypeOK, Counts
<1>. DEFINE q == Replaced(p, pc, alone)
<1>4. q.pc = pc /\ q.server = s /\ q.next = p.next + 1 /\ q.found = p.found /\ q.alone = alone
  <2>. HIDE DEF alone, pc
  <2>. QED
    BY <1>1, <1>2 DEF Replaced, DiscovererStates
<1>. HIDE DEF q, alone
<1>5. discoverer'[d] = q /\ \A e \in Discoverers \ {d} : Follows(e)
  BY <1>1, <1>3, AfterWriteFollows DEF q
<1>6. Undisturbed(d)'
  <2>. SUFFICES ASSUME alone, NEW k \in Kinds, k < p.next + 1 PROVE shard'[s][k] = p.found[k]
    BY <1>4, <1>5 DEF Undisturbed
  <2>1. \A j \in Kinds : j < p.next => shard[s][j] = p.found[j]
    BY <1>1, <1>2 DEF CountInv, Undisturbed, Works
  <2>. QED
    BY <1>1, <1>3, <2>1 DEF Kinds
<1>7. d \in Writing(s)'
  BY <1>4, <1>5 DEF Writing
<1>8. StillFits(s)
  BY <1>7 DEF StillFits
<1>9. \A t \in Servers \ {s} : (t \in mixed => t \in mixed') /\ row'[t] = row[t] /\ shard'[t] = shard[t]
  BY <1>1, <1>3
<1>. QED
  BY <1>1, <1>5, <1>6, <1>8, <1>9, OneMoves

\* A move of d alone, that touches no row and no shard.
LEMMA PrivateMove ==
    ASSUME TypeInv, CountInv, NEW d \in Discoverers, NEW q,
           discoverer' = [discoverer EXCEPT ![d] = q], UNCHANGED <<row, shard, mixed>>,
           Works(discoverer[d]) => Works(q) /\ q.server = discoverer[d].server,
           Works(q) /\ q.alone =>
                \A k \in Kinds : k < q.next => shard[q.server][k] = q.found[k]
    PROVE  CountInv'
<1>1. discoverer'[d] = q /\ \A e \in Discoverers \ {d} : discoverer'[e] = discoverer[e]
  BY DEF TypeInv, CatalogTypeOK
<1>2. ASSUME NEW e \in Discoverers PROVE Undisturbed(e)'
  <2>1. CASE e = d
    BY <1>1, <2>1 DEF Undisturbed
  <2>2. CASE e # d
    BY <1>1, <2>2 DEF CountInv, Undisturbed
  <2>. QED
    BY <2>1, <2>2
<1>3. ASSUME NEW s \in Servers \ mixed' PROVE StillFits(s) \/ row[s] = NoRow
  <2>1. Writing(s) \subseteq Writing(s)'
    BY <1>1, WritingOn
  <2>. QED
    BY <2>1 DEF StillFits
<1>4. RowDescribesShards'
  BY <1>3, FitsOn DEF CountInv, StillFits
<1>. QED
  BY <1>2, <1>4 DEF CountInv

LEMMA DiscoverCounts ==
    ASSUME TypeInv, CountInv, NEW d \in Discoverers,
           LookUp(d) \/ StartDiscovery(d) \/ ListCapabilities(d) \/ GiveUp(d) \/ ReadForCounts(d)
    PROVE  CountInv'
<1>. DEFINE p == discoverer[d]
<1>0. p \in DiscovererStates /\ DiscovererStage(p)
  BY DEF TypeInv, CatalogTypeOK
<1>1. CASE StartDiscovery(d)
  <2>. DEFINE q == [p EXCEPT !.pc = "list"]
  <2>1. /\ p.pc = "lock" /\ discoverer' = [discoverer EXCEPT ![d] = q]
        /\ UNCHANGED <<row, shard, mixed>>
    BY <1>1 DEF StartDiscovery
  <2>2. q.pc = "list"
    BY <1>0 DEF DiscovererStates
  <2>. HIDE DEF q
  <2>3. ~Works(p) /\ ~Works(q)
    BY <2>1, <2>2 DEF Works
  <2>. QED
    BY <2>1, <2>3, PrivateMove
<1>2. CASE ListCapabilities(d)
  <2>1. PICK failed \in SUBSET MayFail :
            discoverer' = [discoverer EXCEPT ![d] = [@ EXCEPT !.pc = "write",
                              !.found = [k \in Kinds |-> IF k \in failed THEN 0 ELSE discoverer[d].run]]]
    BY <1>2, Zenon DEF ListCapabilities
  <2>. DEFINE found == [k \in Kinds |-> IF k \in failed THEN 0 ELSE p.run]
              q == Listed(p, found)
  <2>2. p.pc = "list" /\ UNCHANGED <<row, shard, mixed>>
    BY <1>2, Zenon DEF ListCapabilities
  <2>3. discoverer' = [discoverer EXCEPT ![d] = q]
    BY <2>1 DEF Listed
  <2>. HIDE DEF found
  <2>4. q.next = 1
    BY <1>0, <2>2 DEF Listed, DiscovererStates, DiscovererStage
  <2>. HIDE DEF q
  <2>5. ~Works(p) /\ \A k \in Kinds : ~(k < q.next)
    BY <2>2, <2>4 DEF Works, Kinds
  <2>. QED
    BY <2>2, <2>3, <2>5, PrivateMove
<1>3. CASE GiveUp(d)
  <2>1. /\ p.pc = "list" /\ discoverer' = [discoverer EXCEPT ![d] = IdleDiscoverer]
        /\ UNCHANGED <<row, shard, mixed>>
    BY <1>3, Zenon DEF GiveUp
  <2>2. ~Works(p) /\ ~Works(IdleDiscoverer)
    BY <2>1 DEF Works, IdleDiscoverer
  <2>. QED
    BY <2>1, <2>2, PrivateMove
<1>4. CASE ReadForCounts(d)
  <2>. DEFINE q == Fetched(p, row[p.server])
  <2>1. /\ p.pc = "get" /\ discoverer' = [discoverer EXCEPT ![d] = q]
        /\ UNCHANGED <<row, shard, mixed>>
    BY <1>4, Zenon DEF ReadForCounts, Fetched
  <2>2. q.pc = "put" /\ q.server = p.server /\ q.next = p.next /\ q.found = p.found /\ q.alone = p.alone
    BY <1>0 DEF Fetched, DiscovererStates
  <2>. HIDE DEF q
  <2>3. Works(p) /\ Works(q)
    BY <2>1, <2>2 DEF Works
  <2>4. p.alone => \A k \in Kinds : k < p.next => shard[p.server][k] = p.found[k]
    BY <2>3 DEF CountInv, Undisturbed
  <2>5. Works(q) /\ q.alone => \A k \in Kinds : k < q.next => shard[q.server][k] = q.found[k]
    BY <2>2, <2>4
  <2>. QED
    BY <2>1, <2>2, <2>3, <2>5, PrivateMove
<1>5. CASE LookUp(d)
  <2>1. PICK s \in Configured :
            discoverer' = [discoverer EXCEPT ![d] = [IdleDiscoverer EXCEPT !.pc = "lock",
                                !.server = s, !.object = object[s], !.run = discoveries + 1]]
    BY <1>5, Zenon DEF LookUp
  <2>. DEFINE q == [IdleDiscoverer EXCEPT !.pc = "lock", !.server = s, !.object = object[s], !.run = discoveries + 1]
  <2>2. p.pc = "idle" /\ UNCHANGED <<row, shard, mixed>>
    BY <1>5, Zenon DEF LookUp
  <2>3. q.pc = "lock"
    BY DEF IdleDiscoverer
  <2>. HIDE DEF q
  <2>4. discoverer' = [discoverer EXCEPT ![d] = q]
    BY <2>1 DEF q
  <2>5. ~Works(p) /\ ~Works(q)
    BY <2>2, <2>3 DEF Works
  <2>. QED
    BY <2>2, <2>4, <2>5, PrivateMove
<1>. QED
  BY <1>5, <1>1, <1>2, <1>3, <1>4

LEMMA WriteCountsCounts == ASSUME TypeInv, CountInv, NEW d \in Discoverers, WriteCounts(d) PROVE CountInv'
<1>. DEFINE p == discoverer[d]
            clean == p.alone /\ row[p.server] = p.seen
<1>1. PICK s \in Servers :
        /\ s = p.server /\ p.pc = "put" /\ p.seen \in Rows
        /\ row' = [row EXCEPT ![s] = Counted(p)]
        /\ mixed \ {s} \subseteq mixed' /\ (s \notin mixed' => clean)
        /\ discoverer' = AfterWrite(d, IdleDiscoverer) /\ UNCHANGED shard
  <2>1. /\ p.server \in Servers /\ p.pc = "put" /\ p.seen \in Rows
        /\ row' = [row EXCEPT ![p.server] = Counted(p)]
        /\ mixed \ {p.server} \subseteq mixed' /\ (p.server \notin mixed' => clean)
        /\ discoverer' = AfterWrite(d, IdleDiscoverer) /\ UNCHANGED shard
    BY WriteCountsIs
  <2>. QED
    BY <2>1
<1>2. /\ p \in DiscovererStates /\ p.next = Shards + 1 /\ p.run \in 0..MaxDiscoveries
      /\ \A k \in Kinds : p.found[k] \in {0, p.run}
  BY <1>1 DEF TypeInv, CatalogTypeOK, DiscovererStage
<1>3. row'[s].found = p.found /\ \A t \in Servers \ {s} : row'[t] = row[t]
  BY <1>1 DEF TypeInv, CatalogTypeOK, Counted, Rows
<1>4. discoverer'[d] = IdleDiscoverer /\ \A e \in Discoverers \ {d} : Follows(e)
  BY <1>1, AfterWriteFollows
<1>5. Undisturbed(d)'
  BY <1>4 DEF Undisturbed, Works, IdleDiscoverer
<1>6. ASSUME s \notin mixed' PROVE StillFits(s)
  <2>1. p.alone
    BY <1>1, <1>6
  <2>2. \A k \in Kinds : shard[s][k] = p.found[k]
    <3>1. \A k \in Kinds : k < p.next => shard[p.server][k] = p.found[k]
      BY <1>1, <2>1 DEF CountInv, Undisturbed, Works
    <3>. QED
      BY <1>1, <1>2, <3>1 DEF Kinds
  <2>3. shard[s] = p.found
    BY <1>2, <2>2 DEF TypeInv, CatalogTypeOK, Counts, DiscovererStates
  <2>4. Fits(s)'
    BY <1>1, <1>2, <1>3, <2>3 DEF Fits
  <2>. QED
    BY <2>4 DEF StillFits
<1>7. \A t \in Servers \ {s} : (t \in mixed => t \in mixed') /\ row'[t] = row[t] /\ shard'[t] = shard[t]
  BY <1>1, <1>3
<1>. QED
  BY <1>1, <1>4, <1>5, <1>6, <1>7, OneMoves

LEMMA CutShortCounts == ASSUME TypeInv, CountInv, NEW d \in Discoverers, CutShort(d) PROVE CountInv'
<1>1. PICK s \in Servers :
        /\ s = discoverer[d].server /\ mixed' = mixed \union {s}
        /\ discoverer' = AfterWrite(d, IdleDiscoverer) /\ UNCHANGED <<row, shard>>
  BY CutShortIs
<1>2. discoverer'[d] = IdleDiscoverer /\ \A e \in Discoverers \ {d} : Follows(e)
  BY <1>1, AfterWriteFollows
<1>3. Undisturbed(d)'
  BY <1>2 DEF Undisturbed, Works, IdleDiscoverer
<1>. QED
  BY <1>1, <1>2, <1>3, OneMoves

LEMMA RestartCounts == ASSUME TypeInv, CountInv, Restart PROVE CountInv'
<1>1. PICK c \in Configs : discoverer' = Booted(c, applies).discoverer
  BY DEF Restart
<1>2. /\ mixed' = mixed \union {s \in Servers : Writing(s) # {}}
      /\ UNCHANGED <<row, shard>>
  BY DEF Restart
<1>3. \A d \in Discoverers : discoverer'[d].pc = "idle"
  BY <1>1, BootedType DEF AllConfigs, TypeInv, CatalogTypeOK
<1>4. \A d \in Discoverers : Undisturbed(d)'
  BY <1>3 DEF Undisturbed, Works
<1>5. \A s \in Servers \ mixed' : s \notin mixed /\ Writing(s) = {}
  BY <1>2
<1>6. RowDescribesShards'
  BY <1>2, <1>5 DEF CountInv, RowDescribesShards
<1>. QED
  BY <1>4, <1>6 DEF CountInv

LEMMA CountStep == ASSUME TypeInv, NoGhostShards, CountInv, [Next]_vars PROVE CountInv'
<1>1. CASE UNCHANGED vars
  BY <1>1, NothingMoves DEF vars
<1>. QED
  BY <1>1, Steps, ApplyCounts, WriteRowCounts, DeleteGoneCounts, DiscoverCounts, WriteShardCounts,
     WriteCountsCounts, CutShortCounts, MarkCounts, RestartCounts

\* The counts in a row are those of the shards beside it, and all of one
\* discovery, apart from the servers named in mixed: the four replacements
\* and the read and write back of Discover, against everybody else.
THEOREM RowsDescribe == Spec => []RowDescribesShards
<1>1. Init => CountInv
  BY CountInit
<1>2. TypeInv /\ NoGhostShards /\ CountInv /\ [Next]_vars => CountInv'
  BY CountStep
<1>3. CountInv => RowDescribesShards
  BY DEF CountInv
<1>. QED
  BY <1>1, <1>2, <1>3, CatalogTypes, NoShardSurvives, PTL DEF Spec

=============================================================================
