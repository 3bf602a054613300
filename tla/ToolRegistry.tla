---------------------------- MODULE ToolRegistry ----------------------------
(***************************************************************************)
(* registry.Registry: the store, the cache of definitions and the routing  *)
(* index from exposed names to tools.  They are three structures with      *)
(* three locks: ReplaceTools and DeleteServer write the store, then clear  *)
(* the cache of the server, then rewrite its part of the index; a lookup   *)
(* reads the index, then the cache, then the store, and then fills the     *)
(* cache.  All of them run concurrently.                                   *)
(*                                                                         *)
(* A definition is a version number: what changes when a server offers     *)
(* another definition under the same name.                                 *)
(***************************************************************************)
EXTENDS ToolCache, FiniteSets

CONSTANTS
    Servers, Names,
    Offers,        \* [Servers -> sets of [name, def, size]]: what a discovery may store
    Exposed(_, _), \* ExposedToolName: server and name, joined
    Limits,        \* byte limits a reload may set
    Writers,       \* calls of ReplaceTools and DeleteServer
    Readers        \* calls of GetTool and ResolveTool

ASSUME ServersAssumption == "none" \notin Servers
ASSUME LimitsAssumption == Limits \subseteq Nat
ASSUME OffersAssumption == \A s \in Servers : Offers[s] \subseteq SUBSET [name : Names, def : Nat, size : Nat]

ExposedNames == {Exposed(s, n) : s \in Servers, n \in Names}

NoRef == [server |-> "none", name |-> "none"]

VARIABLES
    store,     \* [Servers -> tools with their definitions]
    cache,
    index,     \* [ExposedNames -> a tool or NoRef]
    writer,    \* [Writers -> what the call is about and how far it is]
    reader,    \* [Readers -> likewise]
    crossed,   \* history: servers whose index was last written by crossing calls
    passed     \* history: servers whose last clearing passed by a lookup that
               \* had read the store already and not yet filled the cache

vars == <<store, cache, index, writer, reader, crossed, passed>>

IdleWriter == [pc |-> "idle", server |-> "none", tools |-> {}, alone |-> TRUE]
IdleReader == [pc |-> "idle", server |-> "none", name |-> "none", def |-> 0, size |-> 0]

\* Variant: the new tools are added to the index and the old ones stay.
IndexedOnTop(i, s, ts) ==
    [e \in ExposedNames |->
        IF \E t \in ts : Exposed(s, t.name) = e
        THEN [server |-> s, name |-> (CHOOSE t \in ts : Exposed(s, t.name) = e).name] ELSE i[e]]

\* The index of the tools ts of one server, on top of index i.
Indexed(i, s, ts) ==
    [e \in ExposedNames |->
        IF \E t \in ts : Exposed(s, t.name) = e
        THEN [server |-> s, name |-> (CHOOSE t \in ts : Exposed(s, t.name) = e).name]
        ELSE IF i[e].server = s THEN NoRef ELSE i[e]]

\* RebuildIndex: every stored tool, in pages of 1000; of two servers with one
\* exposed name the later in the listing wins.
Rebuilt(later) ==
    [e \in ExposedNames |->
        LET owners == {o \in [server : Servers, name : Names] :
                           Exposed(o.server, o.name) = e /\ \E t \in store[o.server] : t.name = o.name}
            last == {o \in owners : o.server = later}
        IN  IF owners = {} THEN NoRef
            ELSE CHOOSE o \in IF last = {} THEN owners ELSE last : TRUE]

Init ==
    /\ store = [s \in Servers |-> {}]
    /\ \E max \in Limits : cache = Empty(max)
    /\ index = [e \in ExposedNames |-> NoRef]
    /\ writer = [w \in Writers |-> IdleWriter]
    /\ reader = [r \in Readers |-> IdleReader]
    /\ crossed = {} /\ passed = {}

Busy(s) == {w \in Writers : writer[w].pc # "idle" /\ writer[w].server = s}

-----------------------------------------------------------------------------
(* ReplaceTools and DeleteServer: store, cache, index.                     *)

\* The store's own replacement or deletion; when it fails the call ends here.
Write(w, s, ts) ==
    /\ writer[w].pc = "idle"
    /\ store' = [store EXCEPT ![s] = ts]
    /\ writer' = [v \in Writers |->
                    IF v = w THEN [pc |-> "stored", server |-> s, tools |-> ts, alone |-> Busy(s) = {}]
                    ELSE IF v \in Busy(s) THEN [writer[v] EXCEPT !.alone = FALSE] ELSE writer[v]]
    /\ UNCHANGED <<cache, index, reader, crossed, passed>>

ReplaceTools(w) == \E s \in Servers : \E ts \in Offers[s] : Write(w, s, ts)

DeleteServer(w) == \E s \in Servers : store[s] # {} /\ Write(w, s, {})

\* Variant: the cache is not cleared when the store is.
ClearNothing(w) ==
    LET s == writer[w].server IN
    /\ writer[w].pc = "stored"
    /\ writer' = [writer EXCEPT ![w].pc = "cleared"]
    /\ passed' = passed \ {s}
    /\ UNCHANGED <<store, cache, index, reader, crossed>>

ClearCache(w) ==
    LET s == writer[w].server IN
    /\ writer[w].pc = "stored"
    /\ cache' = DeletePrefix(cache, s)
    /\ passed' = IF \E r \in Readers : reader[r].pc = "put" /\ reader[r].server = s
                 THEN passed \union {s} ELSE passed \ {s}
    /\ writer' = [writer EXCEPT ![w].pc = "cleared"]
    /\ UNCHANGED <<store, index, reader, crossed>>

WriteIndex(w) ==
    LET s == writer[w].server IN
    /\ writer[w].pc = "cleared"
    /\ index' = Indexed(index, s, writer[w].tools)
    /\ crossed' = IF writer[w].alone THEN crossed \ {s} ELSE crossed \union {s}
    /\ writer' = [writer EXCEPT ![w] = IdleWriter]
    /\ UNCHANGED <<store, cache, reader, passed>>

-----------------------------------------------------------------------------
(* Lookups.                                                                *)

\* GetTool for a tool the server may have offered, stored now or not.
GetTool(r) ==
    /\ reader[r].pc = "idle"
    /\ \E s \in Servers : \E t \in UNION Offers[s] :
        reader' = [reader EXCEPT ![r].pc = "get", ![r].server = s, ![r].name = t.name]
    /\ UNCHANGED <<store, cache, index, writer, crossed, passed>>

\* ResolveTool: the routing index first; a name it does not hold ends the call.
ResolveTool(r) ==
    /\ reader[r].pc = "idle"
    /\ \E e \in ExposedNames :
        /\ index[e] # NoRef
        /\ reader' = [reader EXCEPT ![r].pc = "get", ![r].server = index[e].server,
                                    ![r].name = index[e].name]
    /\ UNCHANGED <<store, cache, index, writer, crossed, passed>>

LookInCache(r) ==
    LET q == reader[r] IN
    /\ q.pc = "get"
    /\ cache' = Get(cache, q.server, q.name)
    /\ reader' = IF Cached(cache, q.server, q.name) = <<>>
                 THEN [reader EXCEPT ![r].pc = "fetch"] ELSE [reader EXCEPT ![r] = IdleReader]
    /\ UNCHANGED <<store, index, writer, crossed, passed>>

\* The store answers, or the tool is not found and the call fails.
Fetch(r) ==
    LET q == reader[r]
        found == {t \in store[q.server] : t.name = q.name}
    IN  /\ q.pc = "fetch"
        /\ reader' = [reader EXCEPT ![r] =
                        IF found = {} THEN IdleReader
                        ELSE LET t == CHOOSE t \in found : TRUE
                             IN  [q EXCEPT !.pc = "put", !.def = t.def, !.size = t.size]]
        /\ UNCHANGED <<store, cache, index, writer, crossed, passed>>

FillCache(r) ==
    LET q == reader[r] IN
    /\ q.pc = "put"
    /\ cache' = Put(cache, q.server, q.name, q.def, q.size)
    /\ reader' = [reader EXCEPT ![r] = IdleReader]
    /\ UNCHANGED <<store, index, writer, crossed, passed>>

-----------------------------------------------------------------------------
SetCacheBytes ==
    /\ \E max \in Limits \ {cache.max} : cache' = SetMaxBytes(cache, max)
    /\ UNCHANGED <<store, index, writer, reader, crossed, passed>>

\* The process ends at any point and New starts over from what is stored.
Restart ==
    /\ \E later \in Servers : index' = Rebuilt(later)
    /\ cache' = Empty(cache.max)
    /\ writer' = [w \in Writers |-> IdleWriter]
    /\ reader' = [r \in Readers |-> IdleReader]
    /\ crossed' = {} /\ passed' = {}
    /\ UNCHANGED store

Next ==
    \/ \E w \in Writers : ReplaceTools(w) \/ DeleteServer(w) \/ ClearCache(w) \/ WriteIndex(w)
    \/ \E r \in Readers : GetTool(r) \/ ResolveTool(r) \/ LookInCache(r) \/ Fetch(r) \/ FillCache(r)
    \/ SetCacheBytes
    \/ Restart

Spec == Init /\ [][Next]_vars

-----------------------------------------------------------------------------
(* Properties.                                                             *)

\* The total of the cache agrees with its entries and stays within the limit,
\* through hits, updates in place, evictions, clearings and new limits.
CacheAccounted == Accounted(cache)

\* Only one server exposes this tool's name.
Unambiguous(s, n) ==
    \A u \in Servers, m \in Names : Exposed(u, m) = Exposed(s, n) => u = s /\ m = n

\* When no call is writing a server and the last ones did not cross, whatever
\* is routed to it is stored, and its tools are routed, but for names that
\* another server exposes too; a crash in between does not matter.
IndexFollowsStore ==
    \A s \in Servers \ crossed : Busy(s) = {} =>
        LET stored == {t.name : t \in store[s]}
        IN  /\ \A e \in ExposedNames : index[e].server = s => index[e].name \in stored
            /\ \A n \in stored : Unambiguous(s, n) => index[Exposed(s, n)] = [server |-> s, name |-> n]

\* What the cache answers is what the store holds, but for a server that a
\* call is writing and for one whose last clearing passed by a lookup.
CacheFollowsStore ==
    \A i \in DOMAIN cache.order :
        LET e == cache.order[i] IN
        \/ e.server \in passed
        \/ \E w \in Busy(e.server) : writer[w].pc = "stored"
        \/ [name |-> e.name, def |-> e.def, size |-> e.size] \in store[e.server]

=============================================================================
