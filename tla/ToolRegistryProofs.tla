------------------------- MODULE ToolRegistryProofs -------------------------
(***************************************************************************)
(* Proofs about ToolRegistry, for every set of servers, names and tools,   *)
(* however names are joined, and for any number of concurrent writers and  *)
(* lookups: the routing index.                                             *)
(***************************************************************************)
EXTENDS ToolRegistry, SequenceTheorems, WellFoundedInduction, TLAPS

USE ServersAssumption, OffersAssumption, LimitsAssumption

Tools == [name : Names, def : Nat, size : Nat]
Refs  == [server : Servers, name : Names] \union {NoRef}

NamesOf(ts) == {t.name : t \in ts}

\* What a call is about while it is at work.
WriterShape(q) ==
    /\ {"pc", "server", "tools", "alone"} \subseteq DOMAIN q
    /\ q.pc \in {"idle", "stored", "cleared"}
    /\ q.pc # "idle" => q.server \in Servers /\ q.tools \in SUBSET Tools

RegistryTypes ==
    /\ store \in [Servers -> SUBSET Tools]
    /\ index \in [ExposedNames -> Refs]
    /\ writer = [w \in Writers |-> writer[w]] /\ \A w \in Writers : WriterShape(writer[w])

\* A call that no other has crossed so far is the only one at work on its server,
\* and what it will index is what is stored.
AloneInv ==
    \A w \in Writers : writer[w].pc # "idle" /\ writer[w].alone =>
        /\ store[writer[w].server] = writer[w].tools
        /\ Busy(writer[w].server) = {w}

\* The routes to one server are those of its tools.
Routed(s) ==
    /\ \A e \in ExposedNames : index[e].server = s => index[e].name \in NamesOf(store[s])
    /\ \A n \in NamesOf(store[s]) : Unambiguous(s, n) => index[Exposed(s, n)] = [server |-> s, name |-> n]

IndexInv == \A s \in Servers \ crossed : Busy(s) = {} => Routed(s)

RegistryInv == RegistryTypes /\ AloneInv /\ IndexInv

LEMMA OfferedTools == \A s \in Servers : \A ts \in Offers[s] : ts \in SUBSET Tools
  BY DEF Tools

LEMMA InitialRegistry == Init => RegistryInv
<1>. SUFFICES ASSUME Init PROVE RegistryInv
  OBVIOUS
<1>1. WriterShape(IdleWriter) /\ IdleWriter.pc = "idle"
  BY DEF WriterShape, IdleWriter
<1>2. RegistryTypes
  BY <1>1 DEF Init, RegistryTypes, Refs
<1>3. AloneInv
  BY <1>1 DEF Init, AloneInv
<1>4. ASSUME NEW s \in Servers PROVE Routed(s)
  <2>1. NamesOf(store[s]) = {}
    BY DEF Init, NamesOf
  <2>2. \A e \in ExposedNames : index[e].server # s
    BY DEF Init, NoRef
  <2>. QED
    BY <2>1, <2>2 DEF Routed
<1>. QED
  BY <1>2, <1>3, <1>4 DEF RegistryInv, IndexInv

\* The steps of lookups and of the cache touch neither store, index nor writers.
LEMMA LookupStep ==
    ASSUME RegistryInv, UNCHANGED <<store, index, writer, crossed>> PROVE RegistryInv'
  BY DEF RegistryInv, RegistryTypes, AloneInv, IndexInv, Routed, Busy

\* A call that begins crosses every other one that is at work on its server.
LEMMA WriteStep ==
    ASSUME RegistryInv, NEW w \in Writers, NEW s \in Servers, NEW ts \in SUBSET Tools, Write(w, s, ts)
    PROVE  RegistryInv'
<1>. DEFINE q == [pc |-> "stored", server |-> s, tools |-> ts, alone |-> Busy(s) = {}]
<1>0. /\ writer[w].pc = "idle" /\ store' = [store EXCEPT ![s] = ts]
      /\ UNCHANGED <<cache, index, reader, crossed, passed>>
      /\ writer' = [v \in Writers |->
                    IF v = w THEN q
                    ELSE IF v \in Busy(s) THEN [writer[v] EXCEPT !.alone = FALSE] ELSE writer[v]]
  BY DEF Write
<1>1. q.pc = "stored" /\ q.server = s /\ q.tools = ts /\ (q.alone <=> Busy(s) = {})
      /\ {"pc", "server", "tools", "alone"} \subseteq DOMAIN q
  OBVIOUS
<1>. HIDE DEF q
<1>2. writer'[w] = q
  BY <1>0
<1>3. ASSUME NEW v \in Writers \ {w}
      PROVE  /\ writer'[v].pc = writer[v].pc /\ writer'[v].server = writer[v].server
             /\ writer'[v].tools = writer[v].tools
             /\ WriterShape(writer[v]) /\ DOMAIN writer'[v] = DOMAIN writer[v]
             /\ writer'[v].alone => v \notin Busy(s) /\ writer[v].alone
  <2>1. WriterShape(writer[v])
    BY DEF RegistryInv, RegistryTypes
  <2>2. CASE v \in Busy(s)
    <3>1. writer'[v] = [writer[v] EXCEPT !.alone = FALSE]
      BY <1>0, <2>2
    <3>. QED
      BY <2>1, <3>1 DEF WriterShape
  <2>3. CASE v \notin Busy(s)
    BY <1>0, <2>1, <2>3
  <2>. QED
    BY <2>2, <2>3
<1>4. RegistryTypes'
  <2>1. ASSUME NEW v \in Writers PROVE WriterShape(writer[v])'
    BY <1>1, <1>2, <1>3 DEF WriterShape
  <2>2. writer' = [v \in Writers |-> writer'[v]]
    BY <1>0
  <2>3. store' \in [Servers -> SUBSET Tools] /\ index' \in [ExposedNames -> Refs]
    BY <1>0 DEF RegistryInv, RegistryTypes
  <2>. QED
    BY <2>1, <2>2, <2>3 DEF RegistryTypes
<1>5. \A u \in Servers : Busy(u)' = IF u = s THEN Busy(s) \union {w} ELSE Busy(u)
  BY <1>0, <1>1, <1>2, <1>3 DEF Busy
<1>6. AloneInv'
  <2>. SUFFICES ASSUME NEW v \in Writers, writer'[v].pc # "idle", writer'[v].alone
                PROVE  store'[writer'[v].server] = writer'[v].tools /\ Busy(writer[v].server)' = {v}
    BY <1>5 DEF AloneInv, Busy
  <2>1. CASE v = w
    <3>1. writer'[v].server = s /\ writer'[v].tools = ts /\ Busy(s) = {}
      BY <1>1, <1>2, <2>1
    <3>2. store'[s] = ts
      BY <1>0 DEF RegistryInv, RegistryTypes
    <3>3. Busy(s)' = {v}
      BY <1>5, <2>1, <3>1
    <3>. QED
      BY <3>1, <3>2, <3>3 DEF Busy
  <2>2. CASE v # w
    <3>1. /\ writer'[v].pc = writer[v].pc /\ writer'[v].server = writer[v].server
          /\ writer'[v].tools = writer[v].tools /\ writer[v].alone /\ v \notin Busy(s)
          /\ writer[v].server \in Servers
      BY <1>3, <2>2 DEF WriterShape
    <3>2. writer[v].server # s
      BY <3>1 DEF Busy
    <3>3. store[writer[v].server] = writer[v].tools /\ Busy(writer[v].server) = {v}
      BY <3>1 DEF RegistryInv, AloneInv
    <3>4. store'[writer[v].server] = store[writer[v].server]
      BY <1>0, <3>1, <3>2 DEF RegistryInv, RegistryTypes
    <3>5. Busy(writer[v].server)' = {v}
      BY <1>5, <3>1, <3>2, <3>3 DEF Busy
    <3>. QED
      BY <3>1, <3>3, <3>4, <3>5 DEF Busy
  <2>. QED
    BY <2>1, <2>2
<1>7. IndexInv'
  <2>. SUFFICES ASSUME NEW u \in Servers \ crossed, Busy(u)' = {} PROVE Routed(u)'
    BY <1>0 DEF IndexInv
  <2>1. u # s /\ Busy(u) = {}
    BY <1>5
  <2>2. Routed(u) /\ store'[u] = store[u] /\ index' = index
    BY <1>0, <2>1 DEF RegistryInv, IndexInv, RegistryTypes
  <2>. QED
    BY <2>2 DEF Routed
<1>. QED
  BY <1>4, <1>6, <1>7 DEF RegistryInv

\* Clearing the cache moves a call on and changes nothing else here.
LEMMA ClearStep == ASSUME RegistryInv, NEW w \in Writers, ClearCache(w) PROVE RegistryInv'
<1>0. writer[w].pc = "stored" /\ writer' = [writer EXCEPT ![w].pc = "cleared"]
      /\ UNCHANGED <<store, index, reader, crossed>>
  BY DEF ClearCache
<1>1. ASSUME NEW v \in Writers
      PROVE  /\ writer'[v].server = writer[v].server /\ writer'[v].tools = writer[v].tools
             /\ writer'[v].alone = writer[v].alone
             /\ (writer'[v].pc = "idle" <=> writer[v].pc = "idle")
             /\ WriterShape(writer[v])'
  <2>1. WriterShape(writer[v]) /\ writer = [x \in Writers |-> writer[x]]
    BY DEF RegistryInv, RegistryTypes
  <2>. QED
    BY <1>0, <2>1 DEF WriterShape
<1>2. \A u : Busy(u)' = Busy(u)
  BY <1>1 DEF Busy
<1>3. RegistryTypes'
  BY <1>0, <1>1 DEF RegistryInv, RegistryTypes
<1>4. AloneInv'
  <2>. SUFFICES ASSUME NEW v \in Writers, writer'[v].pc # "idle", writer'[v].alone
                PROVE  store'[writer'[v].server] = writer'[v].tools /\ Busy(writer[v].server)' = {v}
    BY <1>1 DEF AloneInv, Busy
  <2>. QED
    BY <1>0, <1>1, <1>2 DEF RegistryInv, AloneInv
<1>5. IndexInv'
  BY <1>0, <1>2 DEF RegistryInv, IndexInv, Routed
<1>. QED
  BY <1>3, <1>4, <1>5 DEF RegistryInv

\* What Indexed makes of the routes, name by name.
LEMMA IndexedRoutes ==
    ASSUME NEW i \in [ExposedNames -> Refs], NEW s \in Servers, NEW ts \in SUBSET Tools, NEW e \in ExposedNames
    PROVE  /\ Indexed(i, s, ts)[e] \in Refs
           /\ Indexed(i, s, ts)[e].server = s =>
                /\ Indexed(i, s, ts)[e].name \in NamesOf(ts)
                /\ Exposed(s, Indexed(i, s, ts)[e].name) = e
           /\ Indexed(i, s, ts)[e].server # s =>
                /\ \A n \in NamesOf(ts) : Exposed(s, n) # e
                /\ i[e].server # s => Indexed(i, s, ts)[e] = i[e]
                /\ i[e].server = s => Indexed(i, s, ts)[e] = NoRef
<1>. DEFINE new == Indexed(i, s, ts)[e]
            owners == {t \in ts : Exposed(s, t.name) = e}
<1>0. new = IF \E t \in ts : Exposed(s, t.name) = e
            THEN [server |-> s, name |-> (CHOOSE t \in ts : Exposed(s, t.name) = e).name]
            ELSE IF i[e].server = s THEN NoRef ELSE i[e]
  BY DEF Indexed
<1>. HIDE DEF new
<1>1. CASE \E t \in ts : Exposed(s, t.name) = e
  <2>1. PICK t \in ts : t = (CHOOSE x \in ts : Exposed(s, x.name) = e) /\ Exposed(s, t.name) = e
    BY <1>1, Zenon
  <2>2. new = [server |-> s, name |-> t.name]
    BY <1>0, <1>1, <2>1, Zenon
  <2>3. t.name \in Names /\ t.name \in NamesOf(ts)
    BY DEF Tools, NamesOf
  <2>. QED
    BY <2>1, <2>2, <2>3 DEF Refs, new
<1>2. CASE ~\E t \in ts : Exposed(s, t.name) = e
  <2>1. new = IF i[e].server = s THEN NoRef ELSE i[e]
    BY <1>0, <1>2, Zenon
  <2>2. new.server # s /\ new \in Refs
    BY <2>1 DEF Refs, NoRef
  <2>3. \A n \in NamesOf(ts) : Exposed(s, n) # e
    BY <1>2 DEF NamesOf
  <2>. QED
    BY <2>1, <2>2, <2>3 DEF new
<1>. QED
  BY <1>1, <1>2

\* A call that was not crossed leaves the routes of its server as they should be,
\* and those of other servers but for names they share with it.
LEMMA IndexStep == ASSUME RegistryInv, NEW w \in Writers, WriteIndex(w) PROVE RegistryInv'
<1>. DEFINE s == writer[w].server
            ts == writer[w].tools
<1>0. /\ writer[w].pc = "cleared" /\ index' = Indexed(index, s, ts)
      /\ crossed' = (IF writer[w].alone THEN crossed \ {s} ELSE crossed \union {s})
      /\ writer' = [writer EXCEPT ![w] = IdleWriter]
      /\ UNCHANGED <<store, cache, reader, passed>>
  BY DEF WriteIndex
<1>1. s \in Servers /\ ts \in SUBSET Tools /\ index \in [ExposedNames -> Refs]
      /\ writer = [v \in Writers |-> writer[v]]
  BY <1>0 DEF RegistryInv, RegistryTypes, WriterShape
<1>. HIDE DEF s, ts
<1>2. writer'[w] = IdleWriter /\ \A v \in Writers \ {w} : writer'[v] = writer[v]
  BY <1>0, <1>1
<1>3. \A u \in Servers : Busy(u)' = Busy(u) \ {w}
  BY <1>2 DEF Busy, IdleWriter
<1>4. RegistryTypes'
  <2>1. WriterShape(IdleWriter)
    BY DEF WriterShape, IdleWriter
  <2>2. ASSUME NEW v \in Writers PROVE WriterShape(writer[v])'
    <3>1. WriterShape(writer'[v])
      BY <1>2, <2>1 DEF RegistryInv, RegistryTypes
    <3>. QED
      BY <3>1 DEF WriterShape
  <2>3. index' \in [ExposedNames -> Refs]
    <3>1. index' = [e \in ExposedNames |-> index'[e]]
      BY <1>0 DEF Indexed
    <3>2. \A e \in ExposedNames : index'[e] \in Refs
      BY <1>0, <1>1, IndexedRoutes
    <3>. QED
      BY <3>1, <3>2
  <2>4. writer' = [v \in Writers |-> writer'[v]]
    BY <1>0, <1>1
  <2>. QED
    BY <1>0, <2>2, <2>3, <2>4 DEF RegistryInv, RegistryTypes
<1>5. AloneInv'
  <2>. SUFFICES ASSUME NEW v \in Writers, writer'[v].pc # "idle", writer'[v].alone
                PROVE  store'[writer'[v].server] = writer'[v].tools
                       /\ \A u \in Servers : u = writer'[v].server => Busy(u)' = {v}
    <3>1. ASSUME NEW v \in Writers, writer'[v].pc # "idle" PROVE writer'[v].server \in Servers
      BY <1>4, <3>1 DEF RegistryTypes, WriterShape
    <3>. QED
      BY <3>1 DEF AloneInv, Busy
  <2>1. v # w /\ writer'[v] = writer[v]
    BY <1>2 DEF IdleWriter
  <2>2. store[writer[v].server] = writer[v].tools /\ Busy(writer[v].server) = {v}
    BY <2>1 DEF RegistryInv, AloneInv
  <2>. QED
    BY <1>0, <1>3, <2>1, <2>2
<1>6. IndexInv'
  <2>. SUFFICES ASSUME NEW u \in Servers \ crossed', Busy(u)' = {} PROVE Routed(u)'
    BY DEF IndexInv
  <2>1. CASE u = s
    <3>1. writer[w].alone
      BY <1>0, <1>1, <2>1
    <3>2. store'[s] = ts
      BY <1>0, <3>1 DEF RegistryInv, AloneInv, s, ts
    <3>3. ASSUME NEW e \in ExposedNames, index'[e].server = u PROVE index'[e].name \in NamesOf(store'[u])
      BY <1>0, <1>1, <2>1, <3>2, <3>3, IndexedRoutes
    <3>4. ASSUME NEW n \in NamesOf(store'[u]), Unambiguous(u, n)
          PROVE  index'[Exposed(u, n)] = [server |-> u, name |-> n]
      <4>. DEFINE e == Exposed(u, n)
                  r == index'[e]
      <4>1. n \in NamesOf(ts) /\ n \in Names
        BY <1>1, <2>1, <3>2 DEF NamesOf, Tools
      <4>2. e \in ExposedNames
        BY <4>1 DEF ExposedNames
      <4>3. r.server = s /\ Exposed(s, r.name) = e /\ r \in Refs
        BY <1>0, <1>1, <2>1, <4>1, <4>2, IndexedRoutes
      <4>4. r \in [server : Servers, name : Names]
        BY <1>1, <4>3 DEF Refs, NoRef
      <4>5. r.name = n
        BY <2>1, <3>4, <4>3, <4>4 DEF Unambiguous
      <4>. QED
        BY <2>1, <4>3, <4>4, <4>5
    <3>. QED
      BY <3>3, <3>4 DEF Routed
  <2>2. CASE u # s
    <3>1. Busy(u) = {}
      <4>1. w \notin Busy(u)
        BY <2>2 DEF Busy, s
      <4>. QED
        BY <1>3, <4>1
    <3>2. Routed(u) /\ store'[u] = store[u]
      BY <1>0, <2>2, <3>1 DEF RegistryInv, IndexInv
    <3>3. ASSUME NEW e \in ExposedNames, index'[e].server = u
          PROVE  index'[e] = index[e]
      <4>1. index'[e] # NoRef
        BY <3>3 DEF NoRef
      <4>. QED
        BY <1>0, <1>1, <2>2, <3>3, <4>1, IndexedRoutes
    <3>4. ASSUME NEW n \in NamesOf(store[u]), Unambiguous(u, n)
          PROVE  index'[Exposed(u, n)] = [server |-> u, name |-> n]
      <4>. DEFINE e == Exposed(u, n)
      <4>0. n \in Names
        BY DEF RegistryInv, RegistryTypes, NamesOf, Tools
      <4>1. e \in ExposedNames /\ index[e] = [server |-> u, name |-> n]
        BY <3>2, <3>4, <4>0 DEF Routed, ExposedNames
      <4>2. \A m \in Names : Exposed(s, m) # e
        BY <1>1, <2>2, <3>4 DEF Unambiguous
      <4>3. NamesOf(ts) \subseteq Names
        BY <1>1 DEF NamesOf, Tools
      <4>4. index'[e].server # s
        BY <1>0, <1>1, <4>1, <4>2, <4>3, IndexedRoutes
      <4>. QED
        BY <1>0, <1>1, <2>2, <4>1, <4>4, IndexedRoutes
    <3>. QED
      BY <3>2, <3>3, <3>4 DEF Routed
  <2>. QED
    BY <2>1, <2>2
<1>. QED
  BY <1>4, <1>5, <1>6 DEF RegistryInv

\* After a restart the index is what the stored tools make it.
LEMMA RestartStep == ASSUME RegistryInv, Restart PROVE RegistryInv'
<1>1. PICK later \in Servers : index' = Rebuilt(later)
  BY DEF Restart
<1>2. /\ writer' = [w \in Writers |-> IdleWriter] /\ store' = store
      /\ \A s \in Servers : store[s] \in SUBSET Tools
  BY DEF Restart, RegistryInv, RegistryTypes
<1>. DEFINE Owners(e) == {o \in [server : Servers, name : Names] :
                           Exposed(o.server, o.name) = e /\ \E t \in store[o.server] : t.name = o.name}
            Later(e) == {o \in Owners(e) : o.server = later}
<1>3. ASSUME NEW e \in ExposedNames
      PROVE  \/ Owners(e) = {} /\ index'[e] = NoRef
             \/ index'[e] \in Owners(e)
  <2>1. index'[e] = IF Owners(e) = {} THEN NoRef
                    ELSE CHOOSE o \in IF Later(e) = {} THEN Owners(e) ELSE Later(e) : TRUE
    BY <1>1 DEF Rebuilt
  <2>2. Later(e) \subseteq Owners(e)
    OBVIOUS
  <2>. HIDE DEF Owners, Later
  <2>. QED
    BY <2>1, <2>2
<1>4. index' = [e \in ExposedNames |-> index'[e]]
  BY <1>1 DEF Rebuilt
<1>5. RegistryTypes'
  <2>1. \A e \in ExposedNames : index'[e] \in Refs
    BY <1>3 DEF Refs
  <2>2. index' \in [ExposedNames -> Refs]
    BY <1>4, <2>1
  <2>3. WriterShape(IdleWriter)
    BY DEF WriterShape, IdleWriter
  <2>4. ASSUME NEW w \in Writers PROVE WriterShape(writer[w])'
    <3>1. WriterShape(writer'[w])
      BY <1>2, <2>3
    <3>. QED
      BY <3>1 DEF WriterShape
  <2>. QED
    BY <1>2, <2>2, <2>4 DEF RegistryInv, RegistryTypes
<1>6. AloneInv'
  BY <1>2 DEF AloneInv, IdleWriter
<1>7. ASSUME NEW s \in Servers PROVE Routed(s)'
  <2>1. ASSUME NEW e \in ExposedNames, index'[e].server = s PROVE index'[e].name \in NamesOf(store[s])
    <3>1. index'[e] \in Owners(e)
      BY <1>3, <2>1 DEF NoRef
    <3>. QED
      BY <2>1, <3>1 DEF NamesOf
  <2>2. ASSUME NEW n \in NamesOf(store[s]), Unambiguous(s, n)
        PROVE  index'[Exposed(s, n)] = [server |-> s, name |-> n]
    <3>. DEFINE e == Exposed(s, n)
                o == [server |-> s, name |-> n]
    <3>1. n \in Names /\ \E t \in store[s] : t.name = n
      BY <1>2 DEF NamesOf, Tools
    <3>2. e \in ExposedNames /\ o \in Owners(e)
      BY <3>1 DEF ExposedNames
    <3>3. \A p \in Owners(e) : p = o
      BY <2>2 DEF Unambiguous
    <3>. QED
      BY <1>3, <3>2, <3>3
  <2>. QED
    BY <1>2, <2>1, <2>2 DEF Routed
<1>8. IndexInv'
  BY <1>7 DEF IndexInv
<1>. QED
  BY <1>5, <1>6, <1>8 DEF RegistryInv

LEMMA RegistryStep == RegistryInv /\ [Next]_vars => RegistryInv'
<1>. SUFFICES ASSUME RegistryInv, [Next]_vars PROVE RegistryInv'
  OBVIOUS
<1>1. CASE UNCHANGED vars \/ SetCacheBytes
  BY <1>1, LookupStep DEF vars, SetCacheBytes
<1>2. ASSUME NEW r \in Readers, GetTool(r) \/ ResolveTool(r) \/ LookInCache(r) \/ Fetch(r) \/ FillCache(r)
      PROVE  RegistryInv'
  <2>1. UNCHANGED <<store, index, writer, crossed>>
    BY <1>2, Zenon DEF GetTool, ResolveTool, LookInCache, Fetch, FillCache
  <2>. QED
    BY <2>1, LookupStep
<1>3. ASSUME NEW w \in Writers, ReplaceTools(w) \/ DeleteServer(w) PROVE RegistryInv'
  BY <1>3, OfferedTools, WriteStep DEF ReplaceTools, DeleteServer
<1>. QED
  BY <1>1, <1>2, <1>3, ClearStep, IndexStep, RestartStep DEF Next

\* Whatever replacements, deletions, lookups and restarts come in between: when
\* no call is writing a server, and the last ones did not cross, its tools are
\* routed and nothing else is, but for names that another server exposes too.
THEOREM IndexTrue == Spec => []IndexFollowsStore
<1>1. RegistryInv => IndexFollowsStore
  BY DEF RegistryInv, IndexInv, Routed, NamesOf, IndexFollowsStore
<1>. QED
  BY <1>1, InitialRegistry, RegistryStep, PTL DEF Spec

-----------------------------------------------------------------------------
(* Induction, without a predicate as a parameter: over the set of numbers   *)
(* that have the property.                                                  *)

LEMMA Least == ASSUME NEW T \in SUBSET Nat, T # {} PROVE \E x \in T : \A y \in T : x <= y
<1>. DEFINE R == OpToRel(<, Nat)
<1>1. PICK x \in T : \A y \in T : ~(<<y, x>> \in R)
  <2>1. IsWellFoundedOn(R, Nat)
    BY NatLessThanWellFounded
  <2>. HIDE DEF R
  <2>. QED
    BY <2>1, WFMin
<1>2. \A y \in T : x <= y
  <2>1. \A y \in T : ~(y < x)
    BY <1>1 DEF OpToRel
  <2>. QED
    BY <2>1
<1>. QED
  BY <1>2

LEMMA Inductive == ASSUME NEW T \in SUBSET Nat, 0 \in T, \A n \in T : n + 1 \in T PROVE T = Nat
<1>. SUFFICES ASSUME Nat \ T # {} PROVE FALSE
  OBVIOUS
<1>1. PICK m \in Nat \ T : \A y \in Nat \ T : m <= y
  BY Least
<1>2. m - 1 \in Nat /\ m - 1 \in T
  BY <1>1
<1>. QED
  BY <1>1, <1>2

Defined(V, b, n, step) == \E f \in [0..n -> V] : f[0] = b /\ \A k \in 1..n : f[k] = step[k][f[k - 1]]

\* A function on 0..N may be defined step by step.
LEMMA Recursion ==
    ASSUME NEW V, NEW b \in V, NEW N \in Nat, NEW step \in [1..N -> [V -> V]]
    PROVE  Defined(V, b, N, step)
<1>. DEFINE Upto(n) == Defined(V, b, n, step)
            T == {n \in Nat : n <= N => Upto(n)}
<1>1. 0 \in T
  <2>1. [k \in 0..0 |-> b] \in [0..0 -> V] /\ [k \in 0..0 |-> b][0] = b /\ \A k \in 1..0 : FALSE
    OBVIOUS
  <2>. QED
    BY <2>1 DEF Defined
<1>. HIDE DEF Upto
<1>2. ASSUME NEW n \in T PROVE n + 1 \in T
  <2>. SUFFICES ASSUME n + 1 <= N, n \in Nat, Upto(n) PROVE Upto(n + 1)
    BY <1>2
  <2>1. PICK f \in [0..n -> V] : f[0] = b /\ \A k \in 1..n : f[k] = step[k][f[k - 1]]
    BY DEF Upto, Defined
  <2>. DEFINE g == [k \in 0..(n + 1) |-> IF k = n + 1 THEN step[n + 1][f[n]] ELSE f[k]]
  <2>2. step[n + 1][f[n]] \in V
    <3>1. n + 1 \in 1..N /\ f[n] \in V
      BY <2>1
    <3>. QED
      BY <3>1
  <2>3. g \in [0..(n + 1) -> V] /\ g[0] = b
    BY <2>1, <2>2
  <2>4. ASSUME NEW k \in 1..(n + 1) PROVE g[k] = step[k][g[k - 1]]
    BY <2>1
  <2>. QED
    BY <2>3, <2>4 DEF Upto, Defined
<1>. HIDE DEF T
<1>3. T = Nat
  <2>1. T \in SUBSET Nat
    BY DEF T
  <2>. QED
    BY <1>1, <1>2, <2>1, Inductive
<1>4. Upto(N)
  BY <1>3 DEF T
<1>. QED
  BY <1>4 DEF Upto

-----------------------------------------------------------------------------
(* The total of a list of entries.                                         *)

CacheEntries == [server : Servers, name : Names, def : Nat, size : Nat]

LEMMA EntryTypes ==
    ASSUME NEW s \in Seq(CacheEntries)
    PROVE  /\ Len(s) \in Nat /\ DOMAIN s = 1..Len(s)
           /\ \A n \in 1..Len(s) : s[n] \in CacheEntries /\ s[n].size \in Nat
<1>1. Len(s) \in Nat /\ DOMAIN s = 1..Len(s) /\ \A n \in 1..Len(s) : s[n] \in CacheEntries
  OBVIOUS
<1>. QED
  BY <1>1 DEF CacheEntries

\* Whatever adds the sizes up from the front arrives at the total.
LEMMA TotalOf ==
    ASSUME NEW s \in Seq(CacheEntries), NEW f, f[0] = 0, \A n \in 1..Len(s) : f[n] = f[n - 1] + s[n].size
    PROVE  Total(s) = f[Len(s)]
<1>. DEFINE Step(g) == [n \in 0..Len(s) |-> IF n = 0 THEN 0 ELSE g[n - 1] + s[n].size]
            sum == CHOOSE g : g = Step(g)
            own == [n \in 0..Len(s) |-> f[n]]
            T == {n \in Nat : n <= Len(s) => sum[n] = f[n]}
<1>1. Total(s) = sum[Len(s)]
  BY DEF Total
<1>2. sum = Step(sum)
  <2>1. own = Step(own)
    <3>1. \A n \in 0..Len(s) : own[n] = Step(own)[n]
      OBVIOUS
    <3>. QED
      BY <3>1
  <2>. HIDE DEF own, Step
  <2>. QED
    BY <2>1
<1>. HIDE DEF sum
<1>3. \A n \in 0..Len(s) : sum[n] = IF n = 0 THEN 0 ELSE sum[n - 1] + s[n].size
  BY <1>2
<1>4. 0 \in T /\ \A n \in T : n + 1 \in T
  BY <1>3
<1>5. T = Nat
  <2>. HIDE DEF T
  <2>1. T \in SUBSET Nat
    BY DEF T
  <2>. QED
    BY <1>4, <2>1, Inductive
<1>. QED
  BY <1>1, <1>5

LEMMA TotalSums ==
    ASSUME NEW s \in Seq(CacheEntries)
    PROVE  \E f \in [0..Len(s) -> Nat] :
             f[0] = 0 /\ (\A n \in 1..Len(s) : f[n] = f[n - 1] + s[n].size) /\ Total(s) = f[Len(s)]
<1>. DEFINE step == [n \in 1..Len(s) |-> [v \in Nat |-> v + s[n].size]]
<1>1. Len(s) \in Nat /\ \A n \in 1..Len(s) : s[n].size \in Nat
  BY EntryTypes
<1>2. step \in [1..Len(s) -> [Nat -> Nat]]
  BY <1>1
<1>3. PICK f \in [0..Len(s) -> Nat] : f[0] = 0 /\ \A n \in 1..Len(s) : f[n] = step[n][f[n - 1]]
  <2>. HIDE DEF step
  <2>1. Defined(Nat, 0, Len(s), step)
    BY <1>1, <1>2, Recursion
  <2>. QED
    BY <2>1 DEF Defined
<1>4. ASSUME NEW n \in 1..Len(s) PROVE f[n] = f[n - 1] + s[n].size
  <2>1. f[n - 1] \in Nat /\ f[n] = step[n][f[n - 1]]
    <3>1. n - 1 \in 0..Len(s)
      BY <1>1
    <3>. HIDE DEF step
    <3>. QED
      BY <1>3, <3>1
  <2>. QED
    BY <2>1
<1>. QED
  BY <1>3, <1>4, TotalOf

LEMMA TotalNat == ASSUME NEW s \in Seq(CacheEntries) PROVE Total(s) \in Nat
  BY TotalSums

LEMMA TotalNone == Total(<<>>) = 0
<1>. DEFINE f == [n \in 0..0 |-> 0]
<1>1. /\ <<>> \in Seq(CacheEntries) /\ Len(<<>>) = 0 /\ f[0] = 0
      /\ \A n \in 1..Len(<<>>) : f[n] = f[n - 1] + <<>>[n].size
  OBVIOUS
<1>2. Total(<<>>) = f[Len(<<>>)]
  <2>. HIDE DEF f
  <2>. QED
    BY <1>1, TotalOf
<1>. QED
  BY <1>1, <1>2

LEMMA TotalAppend ==
    ASSUME NEW s \in Seq(CacheEntries), NEW e \in CacheEntries
    PROVE  Total(Append(s, e)) = Total(s) + e.size
<1>1. PICK f \in [0..Len(s) -> Nat] :
        f[0] = 0 /\ (\A n \in 1..Len(s) : f[n] = f[n - 1] + s[n].size) /\ Total(s) = f[Len(s)]
  BY TotalSums
<1>. DEFINE t == Append(s, e)
            g == [n \in 0..(Len(s) + 1) |-> IF n = Len(s) + 1 THEN f[Len(s)] + e.size ELSE f[n]]
<1>2. /\ t \in Seq(CacheEntries) /\ Len(t) = Len(s) + 1 /\ Len(s) \in Nat
      /\ (\A i \in 1..Len(s) : t[i] = s[i]) /\ t[Len(s) + 1] = e
  BY AppendProperties
<1>. HIDE DEF t
<1>3. g[0] = 0 /\ g[Len(t)] = Total(s) + e.size
  BY <1>1, <1>2
<1>4. ASSUME NEW n \in 1..Len(t) PROVE g[n] = g[n - 1] + t[n].size
  <2>1. CASE n = Len(s) + 1
    BY <1>2, <2>1
  <2>2. CASE n # Len(s) + 1
    <3>1. n \in 1..Len(s)
      BY <1>2, <2>2
    <3>2. g[n] = f[n] /\ g[n - 1] = f[n - 1] /\ t[n] = s[n]
      BY <1>2, <3>1
    <3>. QED
      BY <1>1, <3>1, <3>2
  <2>. QED
    BY <2>1, <2>2
<1>5. Total(t) = g[Len(t)]
  <2>. HIDE DEF g
  <2>. QED
    BY <1>2, <1>3, <1>4, TotalOf
<1>. QED
  BY <1>3, <1>5 DEF t

LEMMA TotalFront ==
    ASSUME NEW s \in Seq(CacheEntries), NEW e \in CacheEntries
    PROVE  <<e>> \o s \in Seq(CacheEntries) /\ Total(<<e>> \o s) = e.size + Total(s)
<1>1. PICK f \in [0..Len(s) -> Nat] :
        f[0] = 0 /\ (\A n \in 1..Len(s) : f[n] = f[n - 1] + s[n].size) /\ Total(s) = f[Len(s)]
  BY TotalSums
<1>. DEFINE t == <<e>> \o s
            g == [n \in 0..(Len(s) + 1) |-> IF n = 0 THEN 0 ELSE e.size + f[n - 1]]
<1>2. /\ t \in Seq(CacheEntries) /\ Len(t) = Len(s) + 1 /\ Len(s) \in Nat
      /\ t[1] = e /\ \A i \in 2..(Len(s) + 1) : t[i] = s[i - 1]
  <2>1. <<e>> \in Seq(CacheEntries) /\ Len(<<e>>) = 1 /\ <<e>>[1] = e /\ Len(s) \in Nat
    OBVIOUS
  <2>2. /\ t \in Seq(CacheEntries) /\ Len(t) = 1 + Len(s)
        /\ \A i \in 1..(1 + Len(s)) : t[i] = IF i <= 1 THEN <<e>>[i] ELSE s[i - 1]
    BY <2>1, ConcatProperties
  <2>. QED
    BY <2>1, <2>2
<1>. HIDE DEF t
<1>3. e.size \in Nat
  BY DEF CacheEntries
<1>4. g[0] = 0 /\ g[Len(t)] = e.size + Total(s)
  BY <1>1, <1>2
<1>5. ASSUME NEW n \in 1..Len(t) PROVE g[n] = g[n - 1] + t[n].size
  <2>1. CASE n = 1
    BY <1>1, <1>2, <1>3, <2>1
  <2>2. CASE n # 1
    <3>1. n - 1 \in 1..Len(s) /\ t[n] = s[n - 1]
      BY <1>2, <2>2
    <3>2. f[n - 1] = f[n - 2] + s[n - 1].size /\ s[n - 1].size \in Nat /\ f[n - 2] \in Nat
      <4>. DEFINE k == n - 1
      <4>1. k \in 1..Len(s) /\ k - 1 = n - 2 /\ k - 1 \in 0..Len(s)
        BY <1>2, <3>1
      <4>. HIDE DEF k
      <4>2. f[k] = f[k - 1] + s[k].size /\ s[k].size \in Nat /\ f[k - 1] \in Nat
        BY <1>1, <4>1, EntryTypes
      <4>. QED
        BY <4>1, <4>2 DEF k
    <3>3. g[n] = e.size + f[n - 1] /\ g[n - 1] = e.size + f[n - 2]
      BY <1>2, <3>1
    <3>. QED
      BY <1>3, <3>1, <3>2, <3>3
  <2>. QED
    BY <2>1, <2>2
<1>6. Total(t) = g[Len(t)]
  <2>. HIDE DEF g
  <2>. QED
    BY <1>2, <1>4, <1>5, TotalOf
<1>. QED
  BY <1>2, <1>4, <1>6 DEF t

\* The parts of a list that is cut in two add up.
LEMMA TotalCut ==
    ASSUME NEW s \in Seq(CacheEntries), NEW m \in 0..Len(s)
    PROVE  /\ SubSeq(s, 1, m) \in Seq(CacheEntries) /\ Len(SubSeq(s, 1, m)) = m
           /\ \A i \in 1..m : SubSeq(s, 1, m)[i] = s[i]
           /\ Total(SubSeq(s, 1, m)) = Total(s) - Total(SubSeq(s, m + 1, Len(s)))
<1>1. PICK f \in [0..Len(s) -> Nat] :
        f[0] = 0 /\ (\A n \in 1..Len(s) : f[n] = f[n - 1] + s[n].size) /\ Total(s) = f[Len(s)]
  BY TotalSums
<1>. DEFINE a == SubSeq(s, 1, m)
            b == SubSeq(s, m + 1, Len(s))
            g == [n \in 0..(Len(s) - m) |-> f[m + n] - f[m]]
<1>2. Len(s) \in Nat /\ m \in Nat /\ \A n \in 1..Len(s) : s[n] \in CacheEntries /\ s[n].size \in Nat
  BY EntryTypes
<1>3. a \in Seq(CacheEntries) /\ Len(a) = m /\ \A i \in 1..m : a[i] = s[i]
  <2>1. \A i \in 1..m : s[i] \in CacheEntries
    BY <1>2
  <2>2. /\ a \in Seq(CacheEntries) /\ Len(a) = (IF 1 <= m THEN m - 1 + 1 ELSE 0)
        /\ \A i \in 1..(m - 1 + 1) : a[i] = s[1 + i - 1]
    BY <1>2, <2>1, SubSeqProperties
  <2>. QED
    BY <1>2, <2>2
<1>4. b \in Seq(CacheEntries) /\ Len(b) = Len(s) - m /\ \A i \in 1..(Len(s) - m) : b[i] = s[m + i]
  <2>1. \A i \in (m + 1)..Len(s) : s[i] \in CacheEntries
    BY <1>2
  <2>2. /\ b \in Seq(CacheEntries) /\ Len(b) = (IF m + 1 <= Len(s) THEN Len(s) - (m + 1) + 1 ELSE 0)
        /\ \A i \in 1..(Len(s) - (m + 1) + 1) : b[i] = s[m + 1 + i - 1]
    BY <1>2, <2>1, SubSeqProperties
  <2>. QED
    BY <1>2, <2>2
<1>. HIDE DEF a, b
<1>5. Total(a) = f[m]
  <2>1. \A n \in 1..Len(a) : f[n] = f[n - 1] + a[n].size
    BY <1>1, <1>2, <1>3
  <2>2. Total(a) = f[Len(a)]
    BY <1>1, <1>3, <2>1, TotalOf
  <2>. QED
    BY <1>3, <2>2
<1>6. g[0] = 0 /\ g[Len(b)] = f[Len(s)] - f[m]
  <2>1. f[m] \in Nat /\ m + (Len(s) - m) = Len(s) /\ m + 0 = m
    BY <1>1, <1>2
  <2>2. 0 \in 0..(Len(s) - m) /\ Len(b) \in 0..(Len(s) - m)
    BY <1>2, <1>4
  <2>3. g[0] = f[m + 0] - f[m] /\ g[Len(b)] = f[m + Len(b)] - f[m]
    BY <2>2
  <2>. QED
    BY <1>4, <2>1, <2>3
<1>7. ASSUME NEW n \in 1..Len(b) PROVE g[n] = g[n - 1] + b[n].size
  <2>1. m + n \in 1..Len(s) /\ m + n - 1 \in 0..Len(s) /\ b[n] = s[m + n]
    BY <1>2, <1>4
  <2>2. f[m + n] = f[m + n - 1] + s[m + n].size /\ f[m + n - 1] \in Nat /\ f[m] \in Nat /\ s[m + n].size \in Nat
    BY <1>1, <1>2, <2>1
  <2>3. g[n] = f[m + n] - f[m] /\ g[n - 1] = f[m + n - 1] - f[m]
    BY <1>2, <1>4, <2>1
  <2>. QED
    BY <2>1, <2>2, <2>3
<1>8. Total(b) = f[Len(s)] - f[m]
  <2>. HIDE DEF g
  <2>. QED
    BY <1>4, <1>6, <1>7, TotalOf
<1>9. f[m] \in Nat /\ f[Len(s)] \in Nat
  BY <1>1, <1>2
<1>. QED
  BY <1>1, <1>3, <1>5, <1>8, <1>9 DEF a, b

-----------------------------------------------------------------------------
(* The entries with some of the keys.                                      *)

Distinct(s) == \A i, j \in DOMAIN s : Key(s[i]) = Key(s[j]) => i = j

\* f collects, from the front, the entries of s with a key in ks.
Collects(f, s, ks) ==
    /\ f[0] = <<>>
    /\ \A n \in 1..Len(s) : f[n] = IF Key(s[n]) \in ks THEN Append(f[n - 1], s[n]) ELSE f[n - 1]

LEMMA AmongOf ==
    ASSUME NEW s \in Seq(CacheEntries), NEW ks, NEW f, Collects(f, s, ks)
    PROVE  Among(s, ks) = f[Len(s)]
<1>. DEFINE Step(g) == [n \in 0..Len(s) |-> IF n = 0 THEN <<>>
                            ELSE IF Key(s[n]) \in ks THEN Append(g[n - 1], s[n]) ELSE g[n - 1]]
            some == CHOOSE g : g = Step(g)
            own == [n \in 0..Len(s) |-> f[n]]
            T == {n \in Nat : n <= Len(s) => some[n] = f[n]}
<1>1. Among(s, ks) = some[Len(s)]
  BY Zenon DEF Among
<1>2. some = Step(some)
  <2>1. own = Step(own)
    <3>1. \A n \in 0..Len(s) : own[n] = Step(own)[n]
      BY EntryTypes DEF Collects
    <3>. QED
      BY <3>1
  <2>. HIDE DEF own, Step
  <2>. QED
    BY <2>1
<1>. HIDE DEF some
<1>3. \A n \in 0..Len(s) : some[n] = IF n = 0 THEN <<>>
        ELSE IF Key(s[n]) \in ks THEN Append(some[n - 1], s[n]) ELSE some[n - 1]
  BY <1>2
<1>4. 0 \in T /\ \A n \in T : n + 1 \in T
  <2>1. Len(s) \in Nat
    BY EntryTypes
  <2>2. 0 \in T
    BY <1>3, <2>1 DEF Collects
  <2>3. ASSUME NEW n \in T, n + 1 <= Len(s) PROVE some[n + 1] = f[n + 1]
    <3>1. some[n] = f[n] /\ n \in Nat /\ n + 1 \in 1..Len(s) /\ n + 1 - 1 = n /\ n + 1 # 0
      BY <2>1, <2>3
    <3>. HIDE DEF T
    <3>2. some[n + 1] = IF Key(s[n + 1]) \in ks THEN Append(some[n], s[n + 1]) ELSE some[n]
      BY <1>3, <2>1, <3>1
    <3>3. f[n + 1] = IF Key(s[n + 1]) \in ks THEN Append(f[n], s[n + 1]) ELSE f[n]
      BY <3>1 DEF Collects
    <3>. QED
      BY <3>1, <3>2, <3>3
  <2>. QED
    BY <2>2, <2>3
<1>5. T = Nat
  <2>. HIDE DEF T
  <2>1. T \in SUBSET Nat
    BY DEF T
  <2>. QED
    BY <1>4, <2>1, Inductive
<1>. QED
  BY <1>1, <1>5, EntryTypes

LEMMA AmongSteps ==
    ASSUME NEW s \in Seq(CacheEntries), NEW ks
    PROVE  \E f \in [0..Len(s) -> Seq(CacheEntries)] : Collects(f, s, ks) /\ Among(s, ks) = f[Len(s)]
<1>. DEFINE step == [n \in 1..Len(s) |-> [v \in Seq(CacheEntries) |->
                        IF Key(s[n]) \in ks THEN Append(v, s[n]) ELSE v]]
<1>1. step \in [1..Len(s) -> [Seq(CacheEntries) -> Seq(CacheEntries)]]
  <2>1. ASSUME NEW n \in 1..Len(s), NEW v \in Seq(CacheEntries)
        PROVE  (IF Key(s[n]) \in ks THEN Append(v, s[n]) ELSE v) \in Seq(CacheEntries)
    BY EntryTypes, AppendProperties
  <2>. QED
    BY <2>1
<1>2. Defined(Seq(CacheEntries), <<>>, Len(s), step)
  <2>1. Len(s) \in Nat /\ <<>> \in Seq(CacheEntries)
    BY EntryTypes
  <2>. HIDE DEF step
  <2>. QED
    BY <1>1, <2>1, Recursion
<1>3. PICK f \in [0..Len(s) -> Seq(CacheEntries)] : f[0] = <<>> /\ \A n \in 1..Len(s) : f[n] = step[n][f[n - 1]]
  <2>. HIDE DEF step
  <2>. QED
    BY <1>2 DEF Defined
<1>4. ASSUME NEW n \in 1..Len(s)
      PROVE  f[n] = IF Key(s[n]) \in ks THEN Append(f[n - 1], s[n]) ELSE f[n - 1]
  <2>1. f[n - 1] \in Seq(CacheEntries) /\ f[n] = step[n][f[n - 1]]
    <3>1. n - 1 \in 0..Len(s)
      BY EntryTypes
    <3>. HIDE DEF step
    <3>. QED
      BY <1>3, <3>1
  <2>. QED
    BY <2>1
<1>5. Collects(f, s, ks)
  <2>. HIDE DEF step
  <2>. QED
    BY <1>3, <1>4, Zenon DEF Collects
<1>. HIDE DEF step
<1>. QED
  BY <1>5, AmongOf

\* They are entries of the list with such keys, none of them twice.
LEMMA AmongThem ==
    ASSUME NEW s \in Seq(CacheEntries), NEW ks
    PROVE  /\ Among(s, ks) \in Seq(CacheEntries)
           /\ \A i \in DOMAIN Among(s, ks) : \E j \in DOMAIN s : Among(s, ks)[i] = s[j] /\ Key(s[j]) \in ks
           /\ Distinct(s) => Distinct(Among(s, ks))
<1>1. PICK f \in [0..Len(s) -> Seq(CacheEntries)] : Collects(f, s, ks) /\ Among(s, ks) = f[Len(s)]
  BY AmongSteps
<1>. DEFINE Some(n) == /\ \A i \in DOMAIN f[n] : \E j \in 1..n : f[n][i] = s[j] /\ Key(s[j]) \in ks
                       /\ Distinct(s) => Distinct(f[n])
            T == {n \in Nat : n <= Len(s) => Some(n)}
<1>2. Len(s) \in Nat /\ DOMAIN s = 1..Len(s)
  BY EntryTypes
<1>3. Some(0)
  <2>1. f[0] = <<>> /\ DOMAIN <<>> = {}
    BY <1>1 DEF Collects
  <2>. QED
    BY <2>1 DEF Distinct
<1>4. ASSUME NEW n \in Nat, n + 1 <= Len(s), Some(n) PROVE Some(n + 1)
  <2>1. /\ n + 1 \in 1..Len(s) /\ n \in 0..Len(s) /\ f[n] \in Seq(CacheEntries) /\ s[n + 1] \in CacheEntries
        /\ f[n + 1] = IF Key(s[n + 1]) \in ks THEN Append(f[n], s[n + 1]) ELSE f[n]
    <3>1. n + 1 \in 1..Len(s) /\ n \in 0..Len(s) /\ n + 1 - 1 = n
      BY <1>2, <1>4
    <3>2. f[n] \in Seq(CacheEntries) /\ s[n + 1] \in CacheEntries
      BY <1>1, <3>1, EntryTypes
    <3>3. f[n + 1] = IF Key(s[n + 1]) \in ks THEN Append(f[n], s[n + 1]) ELSE f[n]
      BY <1>1, <3>1 DEF Collects
    <3>. QED
      BY <3>1, <3>2, <3>3
  <2>2. CASE Key(s[n + 1]) \in ks
    <3>. DEFINE a == f[n]
                t == Append(a, s[n + 1])
    <3>1. /\ Len(t) = Len(a) + 1 /\ Len(a) \in Nat /\ DOMAIN t = 1..(Len(a) + 1) /\ DOMAIN a = 1..Len(a)
          /\ (\A i \in 1..Len(a) : t[i] = a[i]) /\ t[Len(a) + 1] = s[n + 1] /\ f[n + 1] = t
      BY <2>1, <2>2, AppendProperties
    <3>2. /\ \A i \in DOMAIN a : \E j \in 1..n : a[i] = s[j] /\ Key(s[j]) \in ks
          /\ Distinct(s) => Distinct(a)
      BY <1>4
    <3>. HIDE DEF t, a
    <3>3. ASSUME NEW i \in DOMAIN t PROVE \E j \in 1..(n + 1) : t[i] = s[j] /\ Key(s[j]) \in ks
      <4>1. CASE i = Len(a) + 1
        BY <2>2, <3>1, <4>1
      <4>2. CASE i # Len(a) + 1
        <5>1. i \in DOMAIN a /\ t[i] = a[i]
          BY <3>1, <4>2
        <5>2. PICK j \in 1..n : a[i] = s[j] /\ Key(s[j]) \in ks
          BY <3>2, <5>1
        <5>. QED
          BY <5>1, <5>2
      <4>. QED
        BY <4>1, <4>2
    <3>4. ASSUME Distinct(s), NEW i \in DOMAIN t, NEW k \in DOMAIN t, Key(t[i]) = Key(t[k]) PROVE i = k
      <4>1. ASSUME NEW x \in DOMAIN a PROVE Key(t[x]) # Key(s[n + 1])
        <5>1. PICK j \in 1..n : a[x] = s[j]
          BY <3>2
        <5>2. t[x] = s[j] /\ j \in DOMAIN s /\ n + 1 \in DOMAIN s /\ j # n + 1
          BY <1>2, <2>1, <3>1, <5>1
        <5>. QED
          BY <3>4, <5>2 DEF Distinct
      <4>2. CASE i \in DOMAIN a /\ k \in DOMAIN a
        BY <3>1, <3>2, <3>4, <4>2 DEF Distinct
      <4>3. CASE i \notin DOMAIN a /\ k \notin DOMAIN a
        BY <3>1, <4>3
      <4>. QED
        BY <3>1, <3>4, <4>1, <4>2, <4>3
    <3>. QED
      BY <3>1, <3>3, <3>4 DEF Distinct
  <2>3. CASE Key(s[n + 1]) \notin ks
    BY <1>4, <2>1, <2>3
  <2>. QED
    BY <2>2, <2>3
<1>. HIDE DEF Some
<1>5. T = Nat
  <2>1. 0 \in T /\ \A n \in T : n + 1 \in T
    BY <1>2, <1>3, <1>4
  <2>. HIDE DEF T
  <2>2. T \in SUBSET Nat
    BY DEF T
  <2>. QED
    BY <2>1, <2>2, Inductive
<1>6. Some(Len(s))
  BY <1>2, <1>5
<1>. QED
  BY <1>1, <1>2, <1>6 DEF Some

\* Two sets of keys that divide the list divide its total.
LEMMA TotalDivided ==
    ASSUME NEW s \in Seq(CacheEntries), NEW ks, NEW ls, \A i \in DOMAIN s : Key(s[i]) \in ks <=> Key(s[i]) \notin ls
    PROVE  Total(s) = Total(Among(s, ks)) + Total(Among(s, ls))
<1>1. PICK f \in [0..Len(s) -> Seq(CacheEntries)] : Collects(f, s, ks) /\ Among(s, ks) = f[Len(s)]
  BY AmongSteps
<1>2. PICK g \in [0..Len(s) -> Seq(CacheEntries)] : Collects(g, s, ls) /\ Among(s, ls) = g[Len(s)]
  BY AmongSteps
<1>. DEFINE h == [n \in 0..Len(s) |-> Total(f[n]) + Total(g[n])]
<1>3. Len(s) \in Nat /\ DOMAIN s = 1..Len(s)
  BY EntryTypes
<1>4. h[0] = 0
  BY <1>1, <1>2, <1>3, TotalNone DEF Collects
<1>5. ASSUME NEW n \in 1..Len(s) PROVE h[n] = h[n - 1] + s[n].size
  <2>1. /\ n - 1 \in 0..Len(s) /\ s[n] \in CacheEntries /\ s[n].size \in Nat
        /\ f[n - 1] \in Seq(CacheEntries) /\ g[n - 1] \in Seq(CacheEntries)
    BY <1>1, <1>2, <1>3, EntryTypes
  <2>2. Total(f[n - 1]) \in Nat /\ Total(g[n - 1]) \in Nat
    BY <2>1, TotalNat
  <2>3. /\ Total(Append(f[n - 1], s[n])) = Total(f[n - 1]) + s[n].size
        /\ Total(Append(g[n - 1], s[n])) = Total(g[n - 1]) + s[n].size
    BY <2>1, TotalAppend
  <2>4. \/ f[n] = Append(f[n - 1], s[n]) /\ g[n] = g[n - 1]
        \/ f[n] = f[n - 1] /\ g[n] = Append(g[n - 1], s[n])
    <3>1. n \in DOMAIN s
      BY <1>3
    <3>2. CASE Key(s[n]) \in ks
      <4>1. Key(s[n]) \notin ls
        BY <3>1, <3>2
      <4>. QED
        BY <1>1, <1>2, <3>2, <4>1, Zenon DEF Collects
    <3>3. CASE Key(s[n]) \notin ks
      <4>1. Key(s[n]) \in ls
        BY <3>1, <3>3
      <4>. QED
        BY <1>1, <1>2, <3>3, <4>1, Zenon DEF Collects
    <3>. QED
      BY <3>2, <3>3
  <2>5. h[n] = Total(f[n]) + Total(g[n]) /\ h[n - 1] = Total(f[n - 1]) + Total(g[n - 1])
    BY <1>3, <2>1
  <2>. HIDE DEF h
  <2>6. Total(f[n]) + Total(g[n]) = Total(f[n - 1]) + Total(g[n - 1]) + s[n].size
    <3>1. CASE f[n] = Append(f[n - 1], s[n]) /\ g[n] = g[n - 1]
      <4>1. Total(f[n]) = Total(f[n - 1]) + s[n].size /\ Total(g[n]) = Total(g[n - 1])
        BY <2>3, <3>1
      <4>. QED
        BY <2>1, <2>2, <4>1
    <3>2. CASE f[n] = f[n - 1] /\ g[n] = Append(g[n - 1], s[n])
      <4>1. Total(g[n]) = Total(g[n - 1]) + s[n].size /\ Total(f[n]) = Total(f[n - 1])
        BY <2>3, <3>2
      <4>. QED
        BY <2>1, <2>2, <4>1
    <3>. QED
      BY <2>4, <3>1, <3>2
  <2>. QED
    BY <2>5, <2>6
<1>6. Total(s) = h[Len(s)]
  <2>. HIDE DEF h
  <2>. QED
    BY <1>4, <1>5, TotalOf
<1>. QED
  BY <1>1, <1>2, <1>3, <1>6

-----------------------------------------------------------------------------
(* The operations of the cache.                                            *)

\* A cache whose total is right, whatever its limit says.
Counted(c) ==
    /\ {"order", "bytes", "max"} \subseteq DOMAIN c
    /\ c.order \in Seq(CacheEntries) /\ c.max \in Nat
    /\ c.bytes = Total(c.order) /\ Distinct(c.order)

Sound(c) == Counted(c) /\ c.bytes <= c.max

LEMMA SoundIsAccounted == ASSUME NEW c, Sound(c) PROVE Accounted(c)
  BY DEF Sound, Counted, Accounted, Distinct

Contained(t, s) == \A i \in DOMAIN t : \E j \in DOMAIN s : t[i] = s[j]

LEMMA Greatest ==
    ASSUME NEW T \in SUBSET Nat, T # {}, NEW n \in Nat, \A y \in T : y <= n
    PROVE  Max(T) \in T /\ \A y \in T : Max(T) >= y
<1>. DEFINE below == {n - y : y \in T}
<1>1. below \in SUBSET Nat /\ below # {}
  <2>1. \A y \in T : n - y \in Nat
    OBVIOUS
  <2>. QED
    BY <2>1
<1>2. PICK z \in below : \A y \in below : z <= y
  <2>. HIDE DEF below
  <2>. QED
    BY <1>1, Least
<1>3. PICK x \in T : z = n - x
  BY <1>2
<1>4. \A y \in T : n - y \in below
  OBVIOUS
<1>5. ASSUME NEW y \in T PROVE x >= y
  <2>1. z <= n - y
    <3>. HIDE DEF below
    <3>. QED
      BY <1>2, <1>4
  <2>2. x \in Nat /\ y \in Nat /\ z = n - x
    BY <1>3
  <2>. HIDE DEF below
  <2>. QED
    BY <2>1, <2>2, SMT
<1>. QED
  BY <1>5 DEF Max

\* Evictions end within the limit and keep the total right.
LEMMA EvictSound ==
    ASSUME NEW c, Counted(c)
    PROVE  Sound(Evict(c)) /\ Contained(Evict(c).order, c.order)
<1>. DEFINE s == c.order
            after(n) == c.bytes - Total(SubSeq(s, n + 1, Len(s)))
            fits == {n \in 0..Len(s) : after(n) <= c.max}
            kept == IF fits = {} THEN 0 ELSE Max(fits)
            t == SubSeq(s, 1, kept)
<1>1. s \in Seq(CacheEntries) /\ Len(s) \in Nat /\ DOMAIN s = 1..Len(s) /\ c.max \in Nat /\ Total(s) \in Nat
  BY EntryTypes, TotalNat DEF Counted
<1>2. \A n \in 0..Len(s) : after(n) = Total(SubSeq(s, 1, n)) /\ SubSeq(s, 1, n) \in Seq(CacheEntries)
  BY <1>1, TotalCut DEF Counted
<1>3. after(0) = 0
  <2>1. SubSeq(s, 1, 0) = <<>>
    BY SubSeqEmpty
  <2>2. after(0) = Total(SubSeq(s, 1, 0))
    <3>1. 0 \in 0..Len(s)
      BY <1>1
    <3>. HIDE DEF after, s
    <3>. QED
      BY <1>2, <3>1
  <2>. QED
    BY <2>1, <2>2, TotalNone
<1>4. kept \in 0..Len(s) /\ after(kept) <= c.max
  <2>1. 0 \in fits /\ fits \in SUBSET Nat /\ \A n \in fits : n <= Len(s)
    BY <1>1, <1>3
  <2>2. Max(fits) \in fits
    <3>. HIDE DEF fits
    <3>. QED
      BY <1>1, <2>1, Greatest
  <2>. QED
    BY <2>1, <2>2
<1>5. Evict(c) = [c EXCEPT !.order = t, !.bytes = after(kept)]
  BY DEF Evict
<1>. DEFINE b == after(kept)
<1>6. b = Total(t) /\ b <= c.max /\ t \in Seq(CacheEntries) /\ Len(t) = kept /\ \A i \in 1..kept : t[i] = s[i]
  <2>. HIDE DEF after, kept, s
  <2>1. t \in Seq(CacheEntries) /\ Len(t) = kept /\ \A i \in 1..kept : t[i] = s[i]
    BY <1>1, <1>4, TotalCut
  <2>. QED
    BY <1>2, <1>4, <2>1
<1>. HIDE DEF b, t, kept, after, fits
<1>7. DOMAIN t = 1..kept /\ 1..kept \subseteq DOMAIN s
  BY <1>1, <1>4, <1>6
<1>8. Distinct(t) /\ Contained(t, s)
  BY <1>6, <1>7 DEF Counted, Distinct, Contained
<1>9. /\ Evict(c).order = t /\ Evict(c).bytes = b /\ Evict(c).max = c.max
      /\ {"order", "bytes", "max"} \subseteq DOMAIN Evict(c)
  BY <1>5 DEF Counted, b
<1>. QED
  BY <1>1, <1>6, <1>8, <1>9 DEF Sound, Counted

\* What becomes of the cache c when the entry e goes to the front.
Fronted(f, c, e) ==
    /\ f.order \in Seq(CacheEntries) /\ Distinct(f.order)
    /\ Total(f.order) = e.size + Total(c.order) - Total(Among(c.order, {Key(e)}))
    /\ \A i \in DOMAIN f.order : f.order[i] = e \/ \E j \in DOMAIN c.order : f.order[i] = c.order[j]
    /\ f.bytes = c.bytes /\ f.max = c.max
    /\ {"order", "bytes", "max"} \subseteq DOMAIN f

\* An entry that goes to the front leaves its old place.
LEMMA FrontSound == ASSUME NEW c, Counted(c), NEW e \in CacheEntries PROVE Fronted(ToFront(c, e), c, e)
<1>. DEFINE s == c.order
            rest == Among(s, Keys(c) \ {Key(e)})
            t == <<e>> \o rest
<1>1. s \in Seq(CacheEntries) /\ Distinct(s)
  BY DEF Counted
<1>2. /\ rest \in Seq(CacheEntries) /\ Distinct(rest)
      /\ \A i \in DOMAIN rest : \E j \in DOMAIN s : rest[i] = s[j] /\ Key(s[j]) # Key(e)
  <2>. DEFINE ks == Keys(c) \ {Key(e)}
  <2>1. \A k \in ks : k # Key(e)
    OBVIOUS
  <2>. HIDE DEF ks
  <2>2. /\ Among(s, ks) \in Seq(CacheEntries) /\ Distinct(Among(s, ks))
        /\ \A i \in DOMAIN Among(s, ks) : \E j \in DOMAIN s : Among(s, ks)[i] = s[j] /\ Key(s[j]) \in ks
    BY <1>1, AmongThem
  <2>3. \A i \in DOMAIN Among(s, ks) : \E j \in DOMAIN s : Among(s, ks)[i] = s[j] /\ Key(s[j]) # Key(e)
    BY <2>1, <2>2
  <2>. QED
    BY <2>2, <2>3 DEF ks
<1>3. Total(s) = Total(rest) + Total(Among(s, {Key(e)})) /\ Total(Among(s, {Key(e)})) \in Nat /\ Total(rest) \in Nat
  <2>1. \A i \in DOMAIN s : Key(s[i]) \in Keys(c) \ {Key(e)} <=> Key(s[i]) \notin {Key(e)}
    BY DEF Keys
  <2>2. Total(s) = Total(rest) + Total(Among(s, {Key(e)}))
    BY <1>1, <2>1, TotalDivided
  <2>3. Among(s, {Key(e)}) \in Seq(CacheEntries)
    BY <1>1, AmongThem
  <2>. QED
    BY <1>2, <2>2, <2>3, TotalNat
<1>4. ToFront(c, e) = [c EXCEPT !.order = t]
  BY DEF ToFront
<1>. HIDE DEF rest
<1>5. t \in Seq(CacheEntries) /\ Total(t) = e.size + Total(rest)
  BY <1>2, TotalFront
<1>6. /\ Len(rest) \in Nat /\ DOMAIN rest = 1..Len(rest) /\ DOMAIN t = 1..(Len(rest) + 1)
      /\ t[1] = e /\ \A i \in 2..(Len(rest) + 1) : t[i] = rest[i - 1]
  <2>1. <<e>> \in Seq(CacheEntries) /\ Len(<<e>>) = 1 /\ <<e>>[1] = e /\ Len(rest) \in Nat /\ DOMAIN rest = 1..Len(rest)
    BY <1>2
  <2>2. /\ Len(t) = 1 + Len(rest)
        /\ \A i \in 1..(1 + Len(rest)) : t[i] = IF i <= 1 THEN <<e>>[i] ELSE rest[i - 1]
    BY <1>2, <2>1, ConcatProperties
  <2>3. DOMAIN t = 1..Len(t)
    BY <1>5, EntryTypes
  <2>. QED
    BY <2>1, <2>2, <2>3
<1>. HIDE DEF t
<1>7. ASSUME NEW i \in DOMAIN t, i # 1
      PROVE  /\ i - 1 \in DOMAIN rest /\ t[i] = rest[i - 1]
             /\ \E j \in DOMAIN s : t[i] = s[j] /\ Key(s[j]) # Key(e)
  <2>1. i - 1 \in DOMAIN rest /\ t[i] = rest[i - 1]
    BY <1>6, <1>7
  <2>. QED
    BY <1>2, <2>1
<1>8. Distinct(t)
  <2>. SUFFICES ASSUME NEW i \in DOMAIN t, NEW k \in DOMAIN t, Key(t[i]) = Key(t[k]) PROVE i = k
    BY DEF Distinct
  <2>1. CASE i # 1 /\ k # 1
    <3>1. rest[i - 1] = t[i] /\ rest[k - 1] = t[k] /\ i - 1 \in DOMAIN rest /\ k - 1 \in DOMAIN rest
      BY <1>7, <2>1
    <3>2. i - 1 = k - 1
      BY <1>2, <3>1 DEF Distinct
    <3>. QED
      BY <1>6, <3>2
  <2>2. CASE i = 1 /\ k # 1
    BY <1>6, <1>7, <2>2
  <2>3. CASE i # 1 /\ k = 1
    BY <1>6, <1>7, <2>3
  <2>. QED
    BY <2>1, <2>2, <2>3
<1>9. \A i \in DOMAIN t : t[i] = e \/ \E j \in DOMAIN s : t[i] = s[j]
  BY <1>6, <1>7
<1>10. /\ ToFront(c, e).order = t /\ ToFront(c, e).bytes = c.bytes /\ ToFront(c, e).max = c.max
       /\ {"order", "bytes", "max"} \subseteq DOMAIN ToFront(c, e)
  BY <1>4 DEF Counted
<1>11. e.size \in Nat
  BY DEF CacheEntries
<1>12. Total(t) = e.size + Total(s) - Total(Among(s, {Key(e)}))
  BY <1>3, <1>5, <1>11
<1>. QED
  BY <1>5, <1>8, <1>9, <1>10, <1>12 DEF Fronted

\* Of entries without repetition only one has a given key.
LEMMA GetSound ==
    ASSUME NEW c, Sound(c), NEW s, NEW n
    PROVE  Sound(Get(c, s, n)) /\ Contained(Get(c, s, n).order, c.order)
<1>. DEFINE found == Cached(c, s, n)
            e == Head(found)
<1>1. CASE found = <<>>
  BY <1>1 DEF Get, Contained
<1>2. CASE found # <<>>
  <2>1. Get(c, s, n) = ToFront(c, e)
    BY <1>2 DEF Get
  <2>2. /\ found \in Seq(CacheEntries) /\ Distinct(found)
        /\ \A i \in DOMAIN found : (\E j \in DOMAIN c.order : found[i] = c.order[j]) /\ Key(found[i]) = <<s, n>>
    <3>. DEFINE ks == {<<s, n>>}
    <3>1. \A k \in ks : k = <<s, n>>
      OBVIOUS
    <3>. HIDE DEF ks
    <3>2. c.order \in Seq(CacheEntries) /\ Distinct(c.order)
      BY DEF Sound, Counted
    <3>3. /\ Among(c.order, ks) \in Seq(CacheEntries) /\ Distinct(Among(c.order, ks))
          /\ \A i \in DOMAIN Among(c.order, ks) :
               \E j \in DOMAIN c.order : Among(c.order, ks)[i] = c.order[j] /\ Key(c.order[j]) \in ks
      BY <3>2, AmongThem
    <3>4. \A i \in DOMAIN Among(c.order, ks) :
            (\E j \in DOMAIN c.order : Among(c.order, ks)[i] = c.order[j]) /\ Key(Among(c.order, ks)[i]) = <<s, n>>
      BY <3>1, <3>3
    <3>. QED
      BY <3>3, <3>4 DEF ks, Cached
  <2>. HIDE DEF found
  <2>3. 1 \in DOMAIN found /\ e = found[1] /\ Len(found) = 1
    <3>1. Len(found) \in Nat /\ DOMAIN found = 1..Len(found) /\ Len(found) # 0
      BY <1>2, <2>2
    <3>2. Len(found) = 1
      <4>1. 1 \in DOMAIN found /\ Len(found) \in DOMAIN found
        BY <3>1
      <4>2. Key(found[1]) = Key(found[Len(found)])
        BY <2>2, <4>1
      <4>. QED
        BY <2>2, <4>1, <4>2 DEF Distinct
    <3>. QED
      BY <2>2, <3>1, <3>2
  <2>4. e \in CacheEntries /\ Key(e) = <<s, n>> /\ \E j \in DOMAIN c.order : e = c.order[j]
    BY <2>2, <2>3, EntryTypes
  <2>5. Total(found) = e.size
    <3>1. <<>> \in Seq(CacheEntries) /\ found = Append(<<>>, e)
      <4>1. found = <<e>>
        BY <2>2, <2>3
      <4>. QED
        BY <4>1
    <3>2. Total(found) = 0 + e.size
      BY <2>4, <3>1, TotalAppend, TotalNone
    <3>. QED
      BY <2>4, <3>2 DEF CacheEntries
  <2>6. found = Among(c.order, {Key(e)})
    BY <2>4 DEF found, Cached
  <2>7. Total(ToFront(c, e).order) = Total(c.order)
    <3>1. Total(ToFront(c, e).order) = e.size + Total(c.order) - Total(Among(c.order, {Key(e)}))
      BY <2>4, FrontSound DEF Sound, Fronted
    <3>2. Total(c.order) \in Nat /\ e.size \in Nat
      BY <2>4, TotalNat DEF Sound, Counted, CacheEntries
    <3>. QED
      BY <2>5, <2>6, <3>1, <3>2
  <2>8. Fronted(ToFront(c, e), c, e)
    BY <2>4, FrontSound DEF Sound
  <2>. HIDE DEF e
  <2>9. Contained(ToFront(c, e).order, c.order)
    BY <2>4, <2>8 DEF Contained, Fronted
  <2>. QED
    BY <2>1, <2>7, <2>8, <2>9 DEF Sound, Counted, Fronted
<1>. QED
  BY <1>1, <1>2

LEMMA PutSound ==
    ASSUME NEW c, Sound(c), NEW s \in Servers, NEW n \in Names, NEW def \in Nat, NEW size \in Nat
    PROVE  /\ Sound(Put(c, s, n, def, size))
           /\ \A i \in DOMAIN Put(c, s, n, def, size).order :
                LET x == Put(c, s, n, def, size).order[i] IN
                x = [server |-> s, name |-> n, def |-> def, size |-> size] \/ \E j \in DOMAIN c.order : x = c.order[j]
<1>. DEFINE e == [server |-> s, name |-> n, def |-> def, size |-> size]
            front == ToFront(c, e)
            d == [front EXCEPT !.bytes = @ + size - Total(Cached(c, s, n))]
<1>1. e \in CacheEntries /\ e.size = size /\ Key(e) = <<s, n>>
  BY DEF CacheEntries, Key
<1>2. Put(c, s, n, def, size) = Evict(d)
  BY DEF Put
<1>. HIDE DEF e
<1>3. Fronted(front, c, e)
  BY <1>1, FrontSound DEF Sound
<1>4. Total(c.order) \in Nat /\ Total(Cached(c, s, n)) \in Nat /\ c.bytes = Total(c.order) /\ c.max \in Nat
  BY AmongThem, TotalNat DEF Cached, Sound, Counted
<1>5. Cached(c, s, n) = Among(c.order, {Key(e)})
  BY <1>1 DEF Cached
<1>. HIDE DEF front
<1>6. d.order = front.order /\ d.max = front.max /\ {"order", "bytes", "max"} \subseteq DOMAIN d
      /\ d.bytes = front.bytes + size - Total(Cached(c, s, n))
  BY <1>3 DEF Fronted
<1>. HIDE DEF d
<1>7. d.bytes = Total(d.order)
  BY <1>1, <1>3, <1>4, <1>5, <1>6 DEF Fronted
<1>8. Counted(d)
  BY <1>3, <1>4, <1>6, <1>7 DEF Counted, Fronted
<1>9. Sound(Evict(d)) /\ Contained(Evict(d).order, d.order)
  BY <1>8, EvictSound
<1>10. \A i \in DOMAIN Evict(d).order :
         Evict(d).order[i] = e \/ \E j \in DOMAIN c.order : Evict(d).order[i] = c.order[j]
  BY <1>3, <1>6, <1>9 DEF Contained, Fronted
<1>. QED
  BY <1>2, <1>9, <1>10 DEF e

\* What is cleared leaves the total with its size.
LEMMA DeleteSound ==
    ASSUME NEW c, Sound(c), NEW s
    PROVE  /\ Sound(DeletePrefix(c, s)) /\ Contained(DeletePrefix(c, s).order, c.order)
           /\ \A i \in DOMAIN DeletePrefix(c, s).order : DeletePrefix(c, s).order[i].server # s
<1>. DEFINE own == {k \in Keys(c) : k[1] = s}
            rest == Among(c.order, Keys(c) \ own)
            gone == Among(c.order, own)
            b == c.bytes - Total(gone)
<1>1. DeletePrefix(c, s) = [c EXCEPT !.order = rest, !.bytes = b]
  BY DEF DeletePrefix
<1>2. c.order \in Seq(CacheEntries) /\ Distinct(c.order)
  BY DEF Sound, Counted
<1>3. Total(c.order) = Total(rest) + Total(gone)
  <2>1. \A i \in DOMAIN c.order : Key(c.order[i]) \in Keys(c) \ own <=> Key(c.order[i]) \notin own
    BY DEF Keys
  <2>. HIDE DEF own
  <2>. QED
    BY <1>2, <2>1, TotalDivided
<1>4. /\ rest \in Seq(CacheEntries) /\ Distinct(rest) /\ gone \in Seq(CacheEntries)
      /\ \A i \in DOMAIN rest : \E j \in DOMAIN c.order : rest[i] = c.order[j] /\ Key(c.order[j]) \in Keys(c) \ own
  <2>. HIDE DEF own
  <2>. QED
    BY <1>2, AmongThem
<1>5. \A i \in DOMAIN rest : rest[i].server # s
  BY <1>4 DEF Key
<1>. HIDE DEF own, rest, gone
<1>6. Total(rest) \in Nat /\ Total(gone) \in Nat
  BY <1>4, TotalNat
<1>7. b = Total(rest) /\ b <= c.max
  BY <1>3, <1>6 DEF Sound, Counted
<1>. HIDE DEF b
<1>8. /\ DeletePrefix(c, s).order = rest /\ DeletePrefix(c, s).bytes = b /\ DeletePrefix(c, s).max = c.max
      /\ {"order", "bytes", "max"} \subseteq DOMAIN DeletePrefix(c, s)
  BY <1>1 DEF Sound, Counted
<1>9. Contained(rest, c.order)
  BY <1>4 DEF Contained
<1>. QED
  BY <1>4, <1>5, <1>7, <1>8, <1>9 DEF Sound, Counted

LEMMA LimitSound ==
    ASSUME NEW c, Sound(c), NEW max \in Nat
    PROVE  Sound(SetMaxBytes(c, max)) /\ Contained(SetMaxBytes(c, max).order, c.order)
<1>. DEFINE d == [c EXCEPT !.max = max]
<1>1. d.order = c.order /\ Counted(d)
  BY DEF Sound, Counted
<1>2. SetMaxBytes(c, max) = Evict(d)
  BY DEF SetMaxBytes
<1>. HIDE DEF d
<1>. QED
  BY <1>1, <1>2, EvictSound

-----------------------------------------------------------------------------
(* The cache of the registry.                                              *)

\* What a lookup is about while it is at work.
ReaderShape(q) ==
    /\ {"pc", "server", "name", "def", "size"} \subseteq DOMAIN q
    /\ q.pc # "idle" => q.server \in Servers /\ q.name \in Names
    /\ q.pc = "put" => q.def \in Nat /\ q.size \in Nat

ReadersInv == reader = [r \in Readers |-> reader[r]] /\ \A r \in Readers : ReaderShape(reader[r])

InCache(x) == \E i \in DOMAIN cache.order : cache.order[i] = x

\* A lookup has x from the store and is about to put it into the cache.
InHand(x) ==
    \E r \in Readers : /\ reader[r].pc = "put" /\ reader[r].server = x.server /\ reader[r].name = x.name
                       /\ reader[r].def = x.def /\ reader[r].size = x.size

Replacing(s) == \E w \in Busy(s) : writer[w].pc = "stored"

Fresh(x) ==
    \/ x.server \in passed
    \/ Replacing(x.server)
    \/ [name |-> x.name, def |-> x.def, size |-> x.size] \in store[x.server]

\* Not only what is in the cache: what is on its way there is stored, or its
\* server is to be cleared yet, or was cleared with a lookup under way.
FreshInv == \A x \in CacheEntries : InCache(x) \/ InHand(x) => Fresh(x)

CacheInv == Sound(cache) /\ ReadersInv /\ FreshInv

LEMMA EmptySound == ASSUME NEW max \in Nat PROVE Sound(Empty(max)) /\ Empty(max).order = <<>>
<1>1. /\ Empty(max).order = <<>> /\ Empty(max).bytes = 0 /\ Empty(max).max = max
      /\ {"order", "bytes", "max"} \subseteq DOMAIN Empty(max) /\ <<>> \in Seq(CacheEntries)
  BY DEF Empty
<1>. QED
  BY <1>1, TotalNone DEF Sound, Counted, Distinct

LEMMA InitialCache == Init => CacheInv
<1>. SUFFICES ASSUME Init PROVE CacheInv
  OBVIOUS
<1>1. PICK max \in Limits : cache = Empty(max)
  BY DEF Init
<1>2. Sound(cache) /\ cache.order = <<>>
  BY <1>1, EmptySound
<1>3. reader = [r \in Readers |-> IdleReader] /\ IdleReader.pc = "idle" /\ ReaderShape(IdleReader)
  BY DEF Init, IdleReader, ReaderShape
<1>4. ReadersInv
  BY <1>3 DEF ReadersInv
<1>5. FreshInv
  BY <1>2, <1>3 DEF FreshInv, InCache, InHand
<1>. QED
  BY <1>2, <1>4, <1>5 DEF CacheInv

\* What is stored, or is being cleared, stays so.
LEMMA KeptFresh ==
    ASSUME RegistryTypes, NEW x \in CacheEntries, Fresh(x), x.server \in passed => x.server \in passed',
           store'[x.server] = store[x.server] \/ Replacing(x.server)',
           \A w \in Writers : writer[w].pc = "stored" => writer'[w] = writer[w] \/ Replacing(x.server)'
    PROVE  Fresh(x)'
<1>1. CASE x.server \in passed
  BY <1>1 DEF Fresh
<1>2. CASE Replacing(x.server)
  <2>1. PICK w \in Busy(x.server) : writer[w].pc = "stored"
    BY <1>2 DEF Replacing
  <2>2. w \in Writers /\ (writer'[w] = writer[w] \/ Replacing(x.server)')
    BY <2>1 DEF Busy
  <2>3. Replacing(x.server)'
    BY <2>1, <2>2 DEF Replacing, Busy
  <2>. QED
    BY <2>3 DEF Fresh
<1>3. CASE [name |-> x.name, def |-> x.def, size |-> x.size] \in store[x.server]
  BY <1>3 DEF Fresh
<1>. QED
  BY <1>1, <1>2, <1>3 DEF Fresh

\* Steps of lookups and of reloads: what a step puts into a lookup's hand comes
\* from the store, and what it puts into the cache was in a hand.
LEMMA CacheMoves ==
    ASSUME CacheInv, RegistryTypes, UNCHANGED <<store, writer, passed>>, Sound(cache'), ReadersInv',
           \A x \in CacheEntries : InCache(x)' => InCache(x) \/ InHand(x),
           \A x \in CacheEntries : InHand(x)' =>
               InHand(x) \/ [name |-> x.name, def |-> x.def, size |-> x.size] \in store[x.server]
    PROVE  CacheInv'
<1>1. ASSUME NEW x \in CacheEntries, InCache(x)' \/ InHand(x)' PROVE Fresh(x)'
  <2>1. Fresh(x)
    BY <1>1 DEF CacheInv, FreshInv, Fresh
  <2>2. store'[x.server] = store[x.server] /\ passed' = passed /\ writer' = writer
    OBVIOUS
  <2>. QED
    BY <2>1, <2>2, KeptFresh
<1>. QED
  BY <1>1 DEF CacheInv, FreshInv

LEMMA CacheSame == ASSUME UNCHANGED cache PROVE \A x : InCache(x)' <=> InCache(x)
  BY DEF InCache

LEMMA HandsSame ==
    ASSUME UNCHANGED reader
    PROVE  (ReadersInv' <=> ReadersInv) /\ \A x : (InHand(x)' <=> InHand(x))
  BY DEF InHand, ReadersInv, ReaderShape

\* One lookup goes on; another one's hand is not touched.
LEMMA OneReader ==
    ASSUME ReadersInv, NEW r \in Readers, NEW q, ReaderShape(q), reader' = [reader EXCEPT ![r] = q]
    PROVE  /\ ReadersInv'
           /\ q.pc # "put" => \A x : InHand(x)' => InHand(x)
           /\ \A x : InHand(x)' => \/ InHand(x)
                                   \/ /\ q.server = x.server /\ q.name = x.name
                                      /\ q.def = x.def /\ q.size = x.size
<1>1. reader'[r] = q /\ (\A p \in Readers \ {r} : reader'[p] = reader[p]) /\ reader' = [p \in Readers |-> reader'[p]]
  BY DEF ReadersInv
<1>2. ReadersInv'
  <2>1. ASSUME NEW p \in Readers PROVE ReaderShape(reader'[p])
    BY <1>1 DEF ReadersInv
  <2>2. \A p \in Readers : ReaderShape(reader[p])'
    BY <2>1 DEF ReaderShape
  <2>. QED
    BY <1>1, <2>2 DEF ReadersInv
<1>3. ASSUME NEW x, InHand(x)' PROVE \/ InHand(x)
                                     \/ /\ q.pc = "put" /\ q.server = x.server /\ q.name = x.name
                                        /\ q.def = x.def /\ q.size = x.size
  <2>1. PICK p \in Readers : /\ reader'[p].pc = "put" /\ reader'[p].server = x.server
                             /\ reader'[p].name = x.name /\ reader'[p].def = x.def /\ reader'[p].size = x.size
    BY <1>3 DEF InHand
  <2>. QED
    BY <1>1, <2>1 DEF InHand
<1>. QED
  BY <1>2, <1>3

LEMMA LookStep ==
    ASSUME RegistryTypes, CacheInv, NEW r \in Readers, GetTool(r) \/ ResolveTool(r) \/ LookInCache(r) \/ Fetch(r)
    PROVE  CacheInv'
<1>0. ReadersInv /\ Sound(cache) /\ ReaderShape(reader[r]) /\ {"pc", "server", "name", "def", "size"} \subseteq DOMAIN reader[r]
  BY DEF CacheInv, ReadersInv, ReaderShape
<1>1. ASSUME NEW s \in Servers, NEW n \in Names, UNCHANGED <<store, cache, writer, passed>>,
             reader' = [reader EXCEPT ![r].pc = "get", ![r].server = s, ![r].name = n]
      PROVE  CacheInv'
  <2>. DEFINE q == [reader[r] EXCEPT !.pc = "get", !.server = s, !.name = n]
  <2>1. reader' = [reader EXCEPT ![r] = q]
    BY <1>0, <1>1 DEF ReadersInv
  <2>2. ReaderShape(q) /\ q.pc = "get"
    BY <1>0 DEF ReaderShape
  <2>. HIDE DEF q
  <2>3. ReadersInv' /\ \A x : InHand(x)' => InHand(x)
    BY <1>0, <2>1, <2>2, OneReader
  <2>4. Sound(cache') /\ \A x : InCache(x)' <=> InCache(x)
    BY <1>0, <1>1, CacheSame
  <2>. QED
    BY <1>1, <2>3, <2>4, CacheMoves
<1>2. CASE GetTool(r)
  <2>1. PICK s \in Servers : \E t \in UNION Offers[s] :
          reader' = [reader EXCEPT ![r].pc = "get", ![r].server = s, ![r].name = t.name]
    BY <1>2, Zenon DEF GetTool
  <2>2. PICK t \in UNION Offers[s] :
          reader' = [reader EXCEPT ![r].pc = "get", ![r].server = s, ![r].name = t.name]
    BY <2>1, Zenon
  <2>3. t.name \in Names
    <3>1. PICK ts \in Offers[s] : t \in ts
      BY <2>2
    <3>2. ts \in SUBSET Tools
      BY OfferedTools
    <3>. QED
      BY <3>1, <3>2 DEF Tools
  <2>. QED
    BY <1>1, <1>2, <2>2, <2>3, Zenon DEF GetTool
<1>3. CASE ResolveTool(r)
  <2>1. PICK e \in ExposedNames :
          /\ index[e] # NoRef
          /\ reader' = [reader EXCEPT ![r].pc = "get", ![r].server = index[e].server, ![r].name = index[e].name]
    BY <1>3, Zenon DEF ResolveTool
  <2>2. index[e] \in [server : Servers, name : Names]
    BY <2>1 DEF RegistryTypes, Refs
  <2>3. index[e].server \in Servers /\ index[e].name \in Names
    BY <2>2
  <2>. QED
    BY <1>1, <1>3, <2>1, <2>3, Zenon DEF ResolveTool
<1>4. CASE LookInCache(r)
  <2>. DEFINE c == Get(cache, reader[r].server, reader[r].name)
              q == IF Cached(cache, reader[r].server, reader[r].name) = <<>>
                   THEN [reader[r] EXCEPT !.pc = "fetch"] ELSE IdleReader
  <2>1. cache' = c /\ reader[r].pc = "get" /\ UNCHANGED <<store, writer, passed>>
    BY <1>4, Zenon DEF LookInCache
  <2>2. reader' = [reader EXCEPT ![r] = q]
    BY <1>4 DEF LookInCache
  <2>3. ReaderShape(q) /\ q.pc # "put"
    BY <1>0, <2>1 DEF ReaderShape, IdleReader
  <2>4. Sound(c) /\ Contained(c.order, cache.order)
    BY <1>0, GetSound
  <2>. HIDE DEF q, c
  <2>5. ReadersInv' /\ \A x : InHand(x)' => InHand(x)
    BY <1>0, <2>2, <2>3, OneReader
  <2>6. \A x : InCache(x)' => InCache(x)
    BY <2>1, <2>4 DEF InCache, Contained
  <2>7. Sound(cache')
    BY <2>1, <2>4
  <2>. QED
    BY <2>1, <2>5, <2>6, <2>7, CacheMoves
<1>5. CASE Fetch(r)
  <2>. DEFINE s == reader[r].server
              n == reader[r].name
              found == {t \in store[s] : t.name = n}
              t == CHOOSE t \in found : TRUE
              q == IF found = {} THEN IdleReader
                   ELSE [reader[r] EXCEPT !.pc = "put", !.def = t.def, !.size = t.size]
  <2>1. reader[r].pc = "fetch" /\ UNCHANGED <<store, cache, writer, passed>>
    BY <1>5, Zenon DEF Fetch
  <2>2. reader' = [reader EXCEPT ![r] = q]
    BY <1>5 DEF Fetch
  <2>3. s \in Servers /\ n \in Names
    BY <1>0, <2>1 DEF ReaderShape
  <2>4. Sound(cache') /\ \A x : InCache(x)' <=> InCache(x)
    BY <1>0, <2>1, CacheSame
  <2>5. CASE found = {}
    <3>1. q = IdleReader /\ ReaderShape(q) /\ q.pc # "put"
      BY <2>5 DEF ReaderShape, IdleReader
    <3>. HIDE DEF q
    <3>2. ReadersInv' /\ \A x : InHand(x)' => InHand(x)
      BY <1>0, <2>2, <3>1, OneReader
    <3>. QED
      BY <2>1, <2>4, <3>2, CacheMoves
  <2>6. CASE found # {}
    <3>1. t \in store[s] /\ t.name = n /\ t \in Tools
      BY <2>3, <2>6 DEF RegistryTypes
    <3>2. q = [reader[r] EXCEPT !.pc = "put", !.def = t.def, !.size = t.size] /\ t.def \in Nat /\ t.size \in Nat
      BY <2>6, <3>1 DEF Tools
    <3>. HIDE DEF q, found
    <3>3. ReaderShape(q) /\ q.server = s /\ q.name = n /\ q.def = t.def /\ q.size = t.size
      BY <1>0, <2>3, <3>2 DEF ReaderShape
    <3>4. t = [name |-> n, def |-> t.def, size |-> t.size]
      BY <3>1 DEF Tools
    <3>. HIDE DEF t, s, n
    <3>5. ReadersInv' /\ \A x : InHand(x)' => InHand(x) \/ (s = x.server /\ n = x.name /\ t.def = x.def /\ t.size = x.size)
      BY <1>0, <2>2, <3>3, OneReader
    <3>6. ASSUME NEW x \in CacheEntries, InHand(x)'
          PROVE  InHand(x) \/ [name |-> x.name, def |-> x.def, size |-> x.size] \in store[x.server]
      <4>1. CASE s = x.server /\ n = x.name /\ t.def = x.def /\ t.size = x.size
        <5>1. t = [name |-> x.name, def |-> x.def, size |-> x.size]
          BY <3>4, <4>1
        <5>. QED
          BY <3>1, <4>1, <5>1
      <4>. QED
        BY <3>5, <3>6, <4>1
    <3>. QED
      BY <2>1, <2>4, <3>5, <3>6, CacheMoves
  <2>. QED
    BY <2>5, <2>6
<1>. QED
  BY <1>2, <1>3, <1>4, <1>5

LEMMA FillStep == ASSUME RegistryTypes, CacheInv, NEW r \in Readers, FillCache(r) PROVE CacheInv'
<1>. DEFINE q == reader[r]
            c == Put(cache, q.server, q.name, q.def, q.size)
            e == [server |-> q.server, name |-> q.name, def |-> q.def, size |-> q.size]
<1>1. q.pc = "put" /\ cache' = c /\ reader' = [reader EXCEPT ![r] = IdleReader] /\ UNCHANGED <<store, writer, passed>>
  BY Zenon DEF FillCache
<1>2. ReadersInv /\ Sound(cache) /\ ReaderShape(q)
  BY DEF CacheInv, ReadersInv
<1>3. q.server \in Servers /\ q.name \in Names /\ q.def \in Nat /\ q.size \in Nat
  BY <1>1, <1>2 DEF ReaderShape
<1>4. /\ Sound(c)
      /\ \A i \in DOMAIN c.order : c.order[i] = e \/ \E j \in DOMAIN cache.order : c.order[i] = cache.order[j]
  <2>. HIDE DEF q
  <2>. QED
    BY <1>2, <1>3, PutSound
<1>. HIDE DEF c
<1>5. InHand(e)
  BY <1>1 DEF InHand
<1>. HIDE DEF e
<1>6. \A x : InCache(x)' => InCache(x) \/ InHand(x)
  BY <1>1, <1>4, <1>5 DEF InCache
<1>7. ReaderShape(IdleReader) /\ IdleReader.pc # "put"
  BY DEF ReaderShape, IdleReader
<1>8. ReadersInv' /\ \A x : InHand(x)' => InHand(x)
  BY <1>1, <1>2, <1>7, OneReader
<1>9. Sound(cache')
  BY <1>1, <1>4
<1>. QED
  BY <1>1, <1>6, <1>8, <1>9, CacheMoves

LEMMA LimitStep == ASSUME RegistryTypes, CacheInv, SetCacheBytes PROVE CacheInv'
<1>1. PICK max \in Limits : cache' = SetMaxBytes(cache, max)
  BY DEF SetCacheBytes
<1>2. Sound(cache') /\ Contained(cache'.order, cache.order)
  BY <1>1, LimitSound DEF CacheInv
<1>3. \A x : InCache(x)' => InCache(x)
  BY <1>2 DEF InCache, Contained
<1>4. UNCHANGED <<store, writer, passed, reader>>
  BY DEF SetCacheBytes
<1>5. ReadersInv' /\ \A x : InHand(x)' <=> InHand(x)
  BY <1>4, HandsSame DEF CacheInv
<1>. QED
  BY <1>2, <1>3, <1>4, <1>5, CacheMoves

\* The steps of writers but the clearing.
LEMMA StoreStep ==
    ASSUME RegistryTypes, CacheInv, UNCHANGED <<cache, reader, passed>>, NEW w \in Writers,
           \/ \E s \in Servers, ts \in SUBSET Tools : Write(w, s, ts)
           \/ WriteIndex(w)
    PROVE  CacheInv'
<1>1. ASSUME NEW x \in CacheEntries, Fresh(x) PROVE Fresh(x)'
  <2>1. CASE \E s \in Servers, ts \in SUBSET Tools : Write(w, s, ts)
    <3>1. PICK s \in Servers, ts \in SUBSET Tools : Write(w, s, ts)
      BY <2>1
    <3>2. /\ writer'[w].pc = "stored" /\ writer'[w].server = s /\ writer[w].pc = "idle"
          /\ store' = [store EXCEPT ![s] = ts]
          /\ \A v \in Writers \ {w} : v \notin Busy(s) => writer'[v] = writer[v]
      BY <3>1 DEF Write
    <3>3. CASE x.server = s
      <4>1. Replacing(x.server)'
        BY <3>2, <3>3 DEF Replacing, Busy
      <4>. QED
        BY <4>1 DEF Fresh
    <3>4. CASE x.server # s
      <4>1. store'[x.server] = store[x.server]
        BY <3>2, <3>4 DEF RegistryTypes, CacheEntries
      <4>2. CASE Replacing(x.server)
        <5>1. PICK v \in Busy(x.server) : writer[v].pc = "stored"
          BY <4>2 DEF Replacing
        <5>2. v # w /\ v \notin Busy(s) /\ v \in Writers /\ writer[v].server = x.server
          BY <3>2, <3>4, <5>1 DEF Busy
        <5>3. writer'[v] = writer[v]
          BY <3>2, <5>2
        <5>4. Replacing(x.server)'
          BY <5>1, <5>2, <5>3 DEF Replacing, Busy
        <5>. QED
          BY <5>4 DEF Fresh
      <4>. QED
        BY <1>1, <4>1, <4>2 DEF Fresh
    <3>. QED
      BY <3>3, <3>4
  <2>2. CASE WriteIndex(w)
    <3>1. writer[w].pc = "cleared" /\ writer' = [writer EXCEPT ![w] = IdleWriter] /\ store' = store
      BY <2>2, Zenon DEF WriteIndex
    <3>2. \A v \in Writers : writer[v].pc = "stored" => writer'[v] = writer[v]
      BY <3>1 DEF RegistryTypes
    <3>. QED
      BY <1>1, <3>1, <3>2, KeptFresh
  <2>. QED
    BY <2>1, <2>2
<1>2. \A x : (InCache(x)' <=> InCache(x)) /\ (InHand(x)' <=> InHand(x))
  BY CacheSame, HandsSame
<1>3. Sound(cache') /\ ReadersInv'
  BY HandsSame DEF CacheInv
<1>. QED
  BY <1>1, <1>2, <1>3 DEF CacheInv, FreshInv

\* A clearing passes by the lookups that have something of the server in hand.
LEMMA ClearingStep == ASSUME RegistryTypes, CacheInv, NEW w \in Writers, ClearCache(w) PROVE CacheInv'
<1>. DEFINE s == writer[w].server
<1>1. /\ writer[w].pc = "stored" /\ cache' = DeletePrefix(cache, s)
      /\ passed' = (IF \E r \in Readers : reader[r].pc = "put" /\ reader[r].server = s
                    THEN passed \union {s} ELSE passed \ {s})
      /\ writer' = [writer EXCEPT ![w].pc = "cleared"]
      /\ UNCHANGED <<store, reader>>
  BY DEF ClearCache
<1>. HIDE DEF s
<1>2. /\ Sound(cache') /\ Contained(cache'.order, cache.order)
      /\ \A i \in DOMAIN cache'.order : cache'.order[i].server # s
  BY <1>1, DeleteSound DEF CacheInv
<1>3. \A x : InCache(x)' => InCache(x) /\ x.server # s
  BY <1>2 DEF InCache, Contained
<1>4. ReadersInv' /\ \A x : InHand(x)' <=> InHand(x)
  BY <1>1, HandsSame DEF CacheInv
<1>5. ASSUME NEW x \in CacheEntries, InCache(x)' \/ InHand(x)' PROVE Fresh(x)'
  <2>1. Fresh(x)
    BY <1>3, <1>4, <1>5 DEF CacheInv, FreshInv
  <2>2. CASE x.server = s
    <3>1. InHand(x)
      BY <1>3, <1>4, <1>5, <2>2
    <3>2. s \in passed'
      BY <1>1, <2>2, <3>1 DEF InHand
    <3>. QED
      BY <2>2, <3>2 DEF Fresh
  <2>3. CASE x.server # s
    <3>1. x.server \in passed => x.server \in passed'
      BY <1>1, <2>3
    <3>2. CASE Replacing(x.server)
      <4>1. PICK v \in Busy(x.server) : writer[v].pc = "stored"
        BY <3>2 DEF Replacing
      <4>2. v # w /\ v \in Writers
        BY <2>3, <4>1 DEF Busy, s
      <4>3. writer'[v] = writer[v]
        BY <1>1, <4>2 DEF RegistryTypes
      <4>4. Replacing(x.server)'
        BY <4>1, <4>2, <4>3 DEF Replacing, Busy
      <4>. QED
        BY <4>4 DEF Fresh
    <3>. QED
      BY <1>1, <2>1, <3>1, <3>2 DEF Fresh
  <2>. QED
    BY <2>2, <2>3
<1>. QED
  BY <1>2, <1>4, <1>5 DEF CacheInv, FreshInv

LEMMA EmptyStep == ASSUME CacheInv, Restart PROVE CacheInv'
<1>1. cache' = Empty(cache.max) /\ reader' = [r \in Readers |-> IdleReader] /\ cache.max \in Nat
  BY DEF Restart, CacheInv, Sound, Counted
<1>2. Sound(cache') /\ cache'.order = <<>>
  BY <1>1, EmptySound
<1>3. IdleReader.pc = "idle" /\ ReaderShape(IdleReader)
  BY DEF IdleReader, ReaderShape
<1>4. ReadersInv'
  <2>1. \A r \in Readers : ReaderShape(reader'[r])
    BY <1>1, <1>3
  <2>2. \A r \in Readers : ReaderShape(reader[r])'
    BY <2>1 DEF ReaderShape
  <2>. QED
    BY <1>1, <2>2 DEF ReadersInv
<1>5. FreshInv'
  BY <1>1, <1>2, <1>3 DEF FreshInv, InCache, InHand
<1>. QED
  BY <1>2, <1>4, <1>5 DEF CacheInv

LEMMA CacheStep == RegistryTypes /\ CacheInv /\ [Next]_vars => CacheInv'
<1>. SUFFICES ASSUME RegistryTypes, CacheInv, [Next]_vars PROVE CacheInv'
  OBVIOUS
<1>1. CASE UNCHANGED vars
  <2>1. UNCHANGED <<store, cache, reader, writer, passed>>
    BY <1>1 DEF vars
  <2>2. Sound(cache') /\ ReadersInv' /\ \A x : (InCache(x)' <=> InCache(x)) /\ (InHand(x)' <=> InHand(x))
    BY <2>1, CacheSame, HandsSame DEF CacheInv
  <2>. QED
    BY <2>1, <2>2, CacheMoves
<1>2. ASSUME NEW w \in Writers, ReplaceTools(w) \/ DeleteServer(w) \/ WriteIndex(w) PROVE CacheInv'
  <2>1. UNCHANGED <<cache, reader, passed>>
    BY <1>2, Zenon DEF ReplaceTools, DeleteServer, WriteIndex, Write
  <2>2. {} \in SUBSET Tools
    OBVIOUS
  <2>3. \/ \E s \in Servers, ts \in SUBSET Tools : Write(w, s, ts)
        \/ WriteIndex(w)
    BY <1>2, <2>2, OfferedTools, Zenon DEF ReplaceTools, DeleteServer
  <2>. QED
    BY <2>1, <2>3, StoreStep
<1>. QED
  BY <1>1, <1>2, LookStep, FillStep, LimitStep, ClearingStep, EmptyStep, Zenon DEF Next

\* For any limits and any number of concurrent lookups, replacements and
\* reloads: the total of the cache is that of its entries, within the limit, and
\* no tool is in it twice.
THEOREM CacheExact == Spec => []CacheAccounted
<1>1. RegistryInv /\ CacheInv /\ [Next]_vars => RegistryInv' /\ CacheInv'
  BY RegistryStep, CacheStep DEF RegistryInv
<1>2. CacheInv => CacheAccounted
  BY SoundIsAccounted DEF CacheInv, CacheAccounted
<1>. QED
  BY <1>1, <1>2, InitialRegistry, InitialCache, PTL DEF Spec

\* What the cache answers is stored, but for a server that a call is writing and
\* for one whose last clearing passed by a lookup.
THEOREM CacheTrue == Spec => []CacheFollowsStore
<1>1. RegistryInv /\ CacheInv /\ [Next]_vars => RegistryInv' /\ CacheInv'
  BY RegistryStep, CacheStep DEF RegistryInv
<1>2. CacheInv => CacheFollowsStore
  <2>. SUFFICES ASSUME CacheInv, NEW i \in DOMAIN cache.order
                PROVE  LET e == cache.order[i] IN
                       \/ e.server \in passed
                       \/ \E w \in Busy(e.server) : writer[w].pc = "stored"
                       \/ [name |-> e.name, def |-> e.def, size |-> e.size] \in store[e.server]
    BY DEF CacheFollowsStore
  <2>1. cache.order[i] \in CacheEntries
    BY EntryTypes DEF CacheInv, Sound, Counted
  <2>2. PICK x \in CacheEntries : x = cache.order[i]
    BY <2>1
  <2>3. Fresh(x)
    BY <2>2 DEF CacheInv, FreshInv, InCache
  <2>. QED
    BY <2>2, <2>3 DEF Fresh, Replacing
<1>. QED
  BY <1>1, <1>2, InitialRegistry, InitialCache, PTL DEF Spec

=============================================================================
