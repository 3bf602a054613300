------------------------------ MODULE Backend ------------------------------
(***************************************************************************)
(* One backend of the manager (internal/app/manager.go): its transport     *)
(* client is created on demand, negotiated with, used by concurrent tool   *)
(* calls, discoveries and health checks, and closed when a reload removes  *)
(* or changes the server.                                                  *)
(*                                                                         *)
(* A worker is one run of CallTool or CallServer (Callers), checkHealth    *)
(* (Checkers) or Discover (Discoverers); a worker that is both a caller    *)
(* and a discoverer may come as either.  A section under b.mu, and each    *)
(* use of the client, is one action.  The client is a stdio client seen    *)
(* through RpcSession: a call first finds or starts a process, then hands  *)
(* it the request, then waits.                                             *)
(***************************************************************************)
EXTENDS Naturals, FiniteSets

CONSTANTS
    Callers, Checkers, Discoverers,
    NoWorker,
    Lazy,        \* lifecycle mode "lazy": idle processes are stopped
    Removable,   \* a reload may remove the backend
    Attempts,    \* length of mcp.LegacyProtocols
    MaxClients,  \* bound: clients created for this backend
    MaxGen,      \* bound: generations of each client
    MaxCrashes   \* bound: processes that end by themselves

Workers == Callers \cup Checkers \cup Discoverers
Clients == 1 .. MaxClients
Gens    == 1 .. MaxGen

ASSUME WorkersAssumption ==
    /\ NoWorker \notin Workers
    /\ Checkers \cap (Callers \cup Discoverers) = {}
ASSUME BoundsAssumption ==
    /\ MaxClients \in Nat /\ MaxGen \in Nat /\ MaxCrashes \in Nat /\ Attempts \in Nat \ {0}
    /\ Lazy \in BOOLEAN /\ Removable \in BOOLEAN

VARIABLES
    removal,     \* how far a reload has come: "listed", "unlisted" or "detached" by close()
    client,      \* b.client, 0 for nil
    initialized, \* b.initialized
    initGen,     \* b.initializedGeneration
    modern,      \* b.modern
    initMu, discoverMu,  \* who holds these mutexes
    made,        \* clients created so far
    open,        \* which of them are open
    gen,         \* the generation of each client (SessionGeneration)
    proc,        \* the generation of its running process, 0 for none
    closing,     \* clients close() is about to Close
    era,         \* what the server speaks
    shaken,      \* <<client, generation>>: processes that accepted an initialize
    starter,     \* what each process was started for
    crashes,
    pc,          \* where each worker is
    doing,       \* what its current call is
    held,        \* its local variable client
    seen,        \* its snapshot of <<initialized, initializedGeneration>>
    attempt,     \* its position in mcp.LegacyProtocols
    form,        \* whether its request carries the modern _meta
    sentTo       \* the process its request was handed to

backendVars == <<client, initialized, initGen, modern>>
lockVars    == <<initMu, discoverMu>>
clientVars  == <<made, open, gen, proc, closing, shaken, starter, crashes>>
localVars   == <<held, seen, attempt, form, sentTo>>
vars == <<removal, era, backendVars, lockVars, clientVars, pc, doing, localVars>>

Stages == {"idle", "queue", "peek", "running", "forget", "lock", "create", "check", "call",
           "opened", "waiting", "record", "ready", "params", "done", "failed", "panic"}
Tasks  == {"probe", "initialize", "initialized", "request"}

TypeOK ==
    /\ removal \in {"listed", "unlisted", "detached"}
    /\ client \in Clients \cup {0} /\ made \in Nat
    /\ initialized \in BOOLEAN /\ modern \in BOOLEAN /\ initGen \in Gens \cup {0}
    /\ initMu \in Workers \cup {NoWorker} /\ discoverMu \in Workers \cup {NoWorker}
    /\ open \in [Clients -> BOOLEAN]
    /\ gen \in [Clients -> Gens \cup {0}]
    /\ proc \in [Clients -> Gens \cup {0}] /\ \A k \in Clients : proc[k] \in {0, gen[k]}
    /\ closing \subseteq Clients
    /\ era \in {"modern", "legacy"}
    /\ shaken \subseteq Clients \X Gens
    /\ starter \in [Clients \X Gens -> Tasks \cup {"none"}]
    /\ crashes \in Nat
    /\ pc \in [Workers -> Stages]
    /\ doing \in [Workers -> Tasks]
    /\ held \in [Workers -> Clients \cup {0}]
    /\ seen \in [Workers -> BOOLEAN \X (Gens \cup {0})]
    /\ attempt \in [Workers -> Nat]
    /\ form \in [Workers -> BOOLEAN]
    /\ sentTo \in [Workers -> Gens \cup {0}]

Init ==
    /\ removal = "listed" /\ era \in {"modern", "legacy"}
    /\ client = 0 /\ initialized = FALSE /\ initGen = 0 /\ modern = FALSE
    /\ initMu = NoWorker /\ discoverMu = NoWorker
    /\ made = 0 /\ closing = {} /\ shaken = {} /\ crashes = 0
    /\ open = [k \in Clients |-> FALSE]
    /\ gen = [k \in Clients |-> 0] /\ proc = [k \in Clients |-> 0]
    /\ starter = [p \in Clients \X Gens |-> "none"]
    /\ pc = [w \in Workers |-> "idle"]
    /\ doing = [w \in Workers |-> "probe"]
    /\ held = [w \in Workers |-> 0]
    /\ seen = [w \in Workers |-> <<FALSE, 0>>]
    /\ attempt = [w \in Workers |-> 0]
    /\ form = [w \in Workers |-> FALSE]
    /\ sentTo = [w \in Workers |-> 0]

-----------------------------------------------------------------------------
(* Helpers.  Definitions marked "Variant" are seeded faults: Next does not use them. *)

Goto(w, stage)  == pc' = [pc EXCEPT ![w] = stage]
CallFor(w, task) == Goto(w, "call") /\ doing' = [doing EXCEPT ![w] = task]
Unlock(mu, w)   == IF mu = w THEN NoWorker ELSE mu

\* Variant: the failed negotiation returns without unlocking initMu.
FinishKeepsInitMu(w, stage) ==
    /\ Goto(w, stage)
    /\ discoverMu' = Unlock(discoverMu, w)
    /\ UNCHANGED initMu

\* The worker returns, or unwinds: its deferred unlocks run.
Finish(w, stage) ==
    /\ Goto(w, stage)
    /\ initMu' = Unlock(initMu, w)
    /\ discoverMu' = Unlock(discoverMu, w)

-----------------------------------------------------------------------------
(* From the start of a worker to ensureInitialized *)

\* Manager.backend, or the list of runHealthChecks.
Find(w) ==
    /\ pc[w] = "idle"
    /\ \/ removal = "listed" /\ w \in Callers /\ Goto(w, "lock")
       \/ removal = "listed" /\ w \in Checkers /\ Goto(w, "peek")
       \/ removal = "listed" /\ w \in Discoverers /\ Goto(w, "queue")
       \/ removal # "listed" /\ Goto(w, "failed")
    /\ UNCHANGED <<removal, era, backendVars, lockVars, clientVars, doing, localVars>>

LockDiscover(w) ==
    /\ pc[w] = "queue" /\ discoverMu = NoWorker
    /\ discoverMu' = w
    /\ Goto(w, "lock")
    /\ UNCHANGED <<removal, era, backendVars, initMu, clientVars, doing, localVars>>

\* checkHealth leaves a lazy server alone that has no client yet ...
Peek(w) ==
    /\ pc[w] = "peek"
    /\ held' = [held EXCEPT ![w] = client]
    /\ \/ ~Lazy /\ Goto(w, "lock")
       \/ Lazy /\ client = 0 /\ Goto(w, "done")
       \/ Lazy /\ client # 0 /\ Goto(w, "running")
    /\ UNCHANGED <<removal, era, backendVars, lockVars, clientVars, doing, seen, attempt, form, sentTo>>

\* ... or that does not run, ...
IsRunning(w) ==
    /\ pc[w] = "running"
    /\ Goto(w, IF proc[held[w]] = 0 THEN "forget" ELSE "lock")
    /\ UNCHANGED <<removal, era, backendVars, lockVars, clientVars, doing, localVars>>

\* ... in which case its negotiation is forgotten, without initMu.
Forget(w) ==
    /\ pc[w] = "forget"
    /\ initialized' = FALSE
    /\ Goto(w, "done")
    /\ UNCHANGED <<removal, era, client, initGen, modern, lockVars, clientVars, doing, localVars>>

-----------------------------------------------------------------------------
(* ensureInitialized *)

\* initMu, then a snapshot of the backend.
EnterInit(w) ==
    /\ pc[w] = "lock" /\ initMu = NoWorker
    /\ initMu' = w
    /\ held' = [held EXCEPT ![w] = client]
    /\ seen' = [seen EXCEPT ![w] = <<initialized, initGen>>]
    /\ Goto(w, IF client = 0 THEN "create" ELSE "check")
    /\ UNCHANGED <<removal, era, backendVars, discoverMu, clientVars, doing, attempt, form, sentTo>>

\* newClient, which fails when a variable of env or headers is not set.  The code also looks
\* whether somebody else stored a client meanwhile; NoRivalClient says nobody can.
Create(w) ==
    /\ pc[w] = "create"
    /\ \/ /\ Finish(w, "failed")
          /\ UNCHANGED <<client, made, open, held>>
       \/ /\ made < MaxClients /\ client = 0
          /\ made' = made + 1
          /\ open' = [open EXCEPT ![made + 1] = TRUE]
          /\ client' = made + 1
          /\ held' = [held EXCEPT ![w] = made + 1]
          /\ Goto(w, "check")
          /\ UNCHANGED lockVars
    /\ UNCHANGED <<removal, era, initialized, initGen, modern, gen, proc, closing, shaken, starter,
                   crashes, doing, seen, attempt, form, sentTo>>

\* Is the cached negotiation still good?  A generation of 0 means that the transport does not
\* count, or that its first process is yet to be started.
CachedUnparenthesised(w) ==  \* Variant: && binds tighter than ||.
    \/ seen[w][1] /\ gen[held[w]] = 0
    \/ gen[held[w]] = seen[w][2]

Cached(w) == seen[w][1] /\ gen[held[w]] \in {0, seen[w][2]}

Check(w) ==
    /\ pc[w] = "check"
    /\ \/ Cached(w) /\ Goto(w, "ready") /\ initMu' = NoWorker /\ UNCHANGED doing
       \/ ~Cached(w) /\ CallFor(w, "probe") /\ UNCHANGED initMu
    /\ UNCHANGED <<removal, era, backendVars, discoverMu, clientVars, localVars>>

\* Variant: the era is not stored.
RecordKeepsEra(w) ==
    /\ pc[w] = "record"
    /\ initialized' = TRUE
    /\ initGen' = gen[held[w]]
    /\ Goto(w, "ready")
    /\ initMu' = NoWorker
    /\ UNCHANGED <<removal, era, client, modern, discoverMu, clientVars, doing, localVars>>

\* The outcome is stored with the generation the client has by now.
Record(w) ==
    /\ pc[w] = "record"
    /\ initialized' = TRUE
    /\ initGen' = gen[held[w]]
    /\ modern' = (doing[w] = "probe")
    /\ Goto(w, "ready")
    /\ initMu' = NoWorker
    /\ UNCHANGED <<removal, era, client, discoverMu, clientVars, doing, localVars>>

-----------------------------------------------------------------------------
(* The request itself *)

\* The client is read again; checkHealth reads the era in the same section, and once more when
\* it is modern.
ReadClient(w) ==
    /\ pc[w] = "ready"
    /\ held' = [held EXCEPT ![w] = client]
    /\ doing' = [doing EXCEPT ![w] = "request"]
    /\ \/ w \in Checkers /\ ~modern /\ form' = [form EXCEPT ![w] = FALSE] /\ Goto(w, "call")
       \/ (w \notin Checkers \/ modern) /\ Goto(w, "params") /\ UNCHANGED form
    /\ UNCHANGED <<removal, era, backendVars, lockVars, clientVars, seen, attempt, sentTo>>

\* paramsForBackend
Params(w) ==
    /\ pc[w] = "params"
    /\ form' = [form EXCEPT ![w] = modern]
    /\ Goto(w, "call")
    /\ UNCHANGED <<removal, era, backendVars, lockVars, clientVars, doing, held, seen, attempt, sentTo>>

NilClient(w) == pc[w] = "call" /\ held[w] = 0

\* A method of a nil client is called, in a handler of the HTTP server, which recovers.
Panic(w) ==
    /\ w \notin Checkers /\ NilClient(w)
    /\ Finish(w, "panic")
    /\ UNCHANGED <<removal, era, backendVars, clientVars, doing, localVars>>

\* Nobody recovers a worker of a health check or of a scheduled discovery, or a call of
\* "serve --stdio": the process ends with everybody in it.
ProcessEnds ==
    /\ \E w \in Workers : NilClient(w)
    /\ pc' = [w \in Workers |-> "panic"]
    /\ initMu' = NoWorker /\ discoverMu' = NoWorker
    /\ UNCHANGED <<removal, era, backendVars, clientVars, doing, localVars>>

-----------------------------------------------------------------------------
(* A call on the client: ensureStarted, write, wait (see StdioClient and RpcSession). *)

\* What an error of the call leads to: the next way to negotiate, or the worker's own return.
CallFails(w) ==
    \/ /\ doing[w] = "probe"
       /\ CallFor(w, "initialize")
       /\ attempt' = [attempt EXCEPT ![w] = 1]
       /\ UNCHANGED lockVars
    \/ /\ doing[w] = "initialize" /\ attempt[w] < Attempts
       /\ CallFor(w, "initialize")
       /\ attempt' = [attempt EXCEPT ![w] = @ + 1]
       /\ UNCHANGED lockVars
    \/ /\ doing[w] = "initialize" /\ attempt[w] = Attempts
       /\ Finish(w, "failed")
       /\ UNCHANGED <<doing, attempt>>
    \/ /\ doing[w] \in {"initialized", "request"}
       /\ Finish(w, "failed")
       /\ UNCHANGED <<doing, attempt>>

EnsureStarted(w) ==
    /\ pc[w] = "call" /\ held[w] # 0
    /\ LET k == held[w]
           g == gen[k] + 1
       IN  \/ /\ open[k] /\ proc[k] # 0
              /\ Goto(w, "opened")
              /\ UNCHANGED <<lockVars, gen, proc, starter, doing, attempt>>
           \/ /\ open[k] /\ proc[k] = 0 /\ gen[k] < MaxGen
              /\ gen' = [gen EXCEPT ![k] = g]
              /\ proc' = [proc EXCEPT ![k] = g]
              /\ starter' = [starter EXCEPT ![<<k, g>>] = doing[w]]
              /\ Goto(w, "opened")
              /\ UNCHANGED <<lockVars, doing, attempt>>
           \/ /\ ~open[k] \/ proc[k] = 0
              /\ CallFails(w)
              /\ UNCHANGED <<gen, proc, starter>>
    /\ UNCHANGED <<removal, era, backendVars, made, open, closing, shaken, crashes, held, seen, form, sentTo>>

\* A notification is over once it is written.
Submit(w) ==
    /\ pc[w] = "opened"
    /\ \/ /\ proc[held[w]] # 0
          /\ sentTo' = [sentTo EXCEPT ![w] = proc[held[w]]]
          /\ Goto(w, IF doing[w] = "initialized" THEN "record" ELSE "waiting")
          /\ UNCHANGED <<lockVars, doing, attempt>>
       \/ /\ proc[held[w]] = 0
          /\ CallFails(w)
          /\ UNCHANGED sentTo
    /\ UNCHANGED <<removal, era, backendVars, clientVars, held, seen, form>>

\* Variant: an error answer to initialize is taken for a result.
AnswerIgnoresError(w) ==
    /\ pc[w] = "waiting" /\ proc[held[w]] = sentTo[w]
    /\ \/ doing[w] = "probe" /\ era = "modern" /\ Goto(w, "record") /\ UNCHANGED <<lockVars, doing, attempt>>
       \/ doing[w] = "initialize" /\ CallFor(w, "initialized") /\ UNCHANGED <<lockVars, attempt>>
       \/ doing[w] = "request" /\ Finish(w, "done") /\ UNCHANGED <<doing, attempt>>
       \/ CallFails(w)
    /\ UNCHANGED <<removal, era, backendVars, clientVars, held, seen, form, sentTo>>

\* The process answers with a result, or with an error: a legacy server knows no
\* server/discover, a modern one no initialize, and both may reject anything.
Answer(w) ==
    /\ pc[w] = "waiting" /\ proc[held[w]] = sentTo[w]
    /\ \/ /\ doing[w] = "probe" /\ era = "modern"
          /\ Goto(w, "record")
          /\ UNCHANGED <<lockVars, shaken, doing, attempt>>
       \/ /\ doing[w] = "initialize" /\ era = "legacy"
          /\ shaken' = shaken \cup {<<held[w], sentTo[w]>>}
          /\ CallFor(w, "initialized")
          /\ UNCHANGED <<lockVars, attempt>>
       \/ /\ doing[w] = "request"
          /\ Finish(w, "done")
          /\ UNCHANGED <<shaken, doing, attempt>>
       \/ /\ CallFails(w)
          /\ UNCHANGED shaken
    /\ UNCHANGED <<removal, era, backendVars, made, open, gen, proc, closing, starter, crashes,
                   held, seen, form, sentTo>>

\* The process went away under the call.
Lost(w) ==
    /\ pc[w] = "waiting" /\ proc[held[w]] # sentTo[w]
    /\ CallFails(w)
    /\ UNCHANGED <<removal, era, backendVars, clientVars, held, seen, form, sentTo>>

\* Variant: a negotiation given up leaves initMu locked.
TimeoutKeepsInitMu(w) ==
    /\ pc[w] \in {"call", "waiting"} /\ held[w] # 0
    /\ FinishKeepsInitMu(w, "failed")
    /\ UNCHANGED <<removal, era, backendVars, clientVars, doing, localVars>>

\* The context of the worker is over: ensureStarted looks at it first, and the wait for the
\* answer ends with it.  The write to stdin in between does not look at it.
Timeout(w) ==
    /\ pc[w] \in {"call", "waiting"} /\ held[w] # 0
    /\ Finish(w, "failed")
    /\ UNCHANGED <<removal, era, backendVars, clientVars, doing, localVars>>

-----------------------------------------------------------------------------
(* The processes of the clients *)

Submitted(k) == \E w \in Workers : pc[w] = "waiting" /\ held[w] = k /\ sentTo[w] = proc[k]

\* stopIdle: never with a call in flight, and it counts as a new generation.
IdleStop(k) ==
    /\ Lazy /\ proc[k] # 0 /\ ~Submitted(k) /\ gen[k] < MaxGen
    /\ gen' = [gen EXCEPT ![k] = @ + 1]
    /\ proc' = [proc EXCEPT ![k] = 0]
    /\ UNCHANGED <<removal, era, backendVars, lockVars, made, open, closing, shaken, starter,
                   crashes, pc, doing, localVars>>

\* handleExit: the generation stays.
Crash(k) ==
    /\ proc[k] # 0 /\ crashes < MaxCrashes
    /\ crashes' = crashes + 1
    /\ proc' = [proc EXCEPT ![k] = 0]
    /\ UNCHANGED <<removal, era, backendVars, lockVars, made, open, gen, closing, shaken, starter,
                   pc, doing, localVars>>

-----------------------------------------------------------------------------
(* A reload without this backend: ApplyConfig replaces the map of backends, then close() *)
(* detaches the client from the backend and closes it.                                   *)

Unlist ==
    /\ Removable /\ removal = "listed"
    /\ removal' = "unlisted"
    /\ UNCHANGED <<era, backendVars, lockVars, clientVars, pc, doing, localVars>>

\* Variant: the client is only forgotten.
DetachForgetsClient ==
    /\ removal = "unlisted"
    /\ removal' = "detached"
    /\ client' = 0 /\ initialized' = FALSE /\ modern' = FALSE
    /\ UNCHANGED <<era, initGen, lockVars, clientVars, pc, doing, localVars>>

Detach ==
    /\ removal = "unlisted"
    /\ removal' = "detached"
    /\ closing' = closing \cup ({client} \ {0})
    /\ client' = 0 /\ initialized' = FALSE /\ modern' = FALSE
    /\ UNCHANGED <<era, initGen, lockVars, made, open, gen, proc, shaken, starter, crashes, pc, doing, localVars>>

CloseClient(k) ==
    /\ k \in closing
    /\ closing' = closing \ {k}
    /\ open' = [open EXCEPT ![k] = FALSE]
    /\ proc' = [proc EXCEPT ![k] = 0]
    /\ UNCHANGED <<removal, era, backendVars, lockVars, made, gen, shaken, starter, crashes, pc, doing, localVars>>

-----------------------------------------------------------------------------
NegotiationStep(w) == EnterInit(w) \/ Create(w) \/ Check(w) \/ Record(w)
CallStep(w)        == EnsureStarted(w) \/ Submit(w) \/ Answer(w) \/ Lost(w)

WorkerStep(w) ==
    \/ Find(w) \/ LockDiscover(w) \/ Peek(w) \/ IsRunning(w) \/ Forget(w)
    \/ NegotiationStep(w) \/ ReadClient(w) \/ Params(w) \/ Panic(w)
    \/ CallStep(w) \/ Timeout(w)

Next ==
    \/ \E k \in Clients : IdleStop(k) \/ Crash(k) \/ CloseClient(k)
    \/ \E w \in Workers : WorkerStep(w)
    \/ ProcessEnds \/ Unlist \/ Detach

\* Discover and checkHealth always set a timeout.  A tool call has none of its own: it waits
\* as long as its client does, under "serve --stdio" for ever.
HasDeadline(w) == w \in Checkers \/ discoverMu = w

\* Workers run, a free mutex is handed on, what the client sees of its process is noticed, and
\* deadlines end a wait.  Of the server nothing is assumed: it need not read its stdin, answer
\* or end.
Fairness ==
    /\ \A w \in Workers :
          /\ WF_vars(LockDiscover(w)) /\ WF_vars(EnterInit(w))
          /\ WF_vars(Peek(w) \/ IsRunning(w) \/ Forget(w) \/ Create(w) \/ Check(w) \/ Record(w)
                        \/ ReadClient(w) \/ Params(w) \/ Panic(w))
          /\ WF_vars(EnsureStarted(w))
          /\ WF_vars(Submit(w) /\ proc[held[w]] = 0)
          /\ WF_vars(Lost(w))
          /\ WF_vars(HasDeadline(w) /\ Timeout(w))
    /\ WF_vars(ProcessEnds) /\ WF_vars(Detach)
    /\ \A k \in Clients : WF_vars(CloseClient(k))

Spec     == Init /\ [][Next]_vars
FairSpec == Spec /\ Fairness
-----------------------------------------------------------------------------
(* Properties *)

\* The part of ensureInitialized that runs under initMu.
Negotiating(w) ==
    \/ pc[w] \in {"create", "check", "record"}
    \/ pc[w] \in {"call", "opened", "waiting"} /\ doing[w] # "request"

\* initMu is held by the worker that negotiates, and by nobody who has stopped negotiating:
\* every way out of ensureInitialized lets the next worker in.
LockHeldToNegotiate == \A w \in Workers : initMu = w <=> Negotiating(w)

\* Whoever creates a client finds b.client empty: initMu serialises the creators, and the code
\* that closes a second client never runs.
NoRivalClient == \A w \in Workers : pc[w] = "create" => client = 0

\* An open client is the backend's own until a reload has closed the backend, and then close()
\* is about to close it: no interleaving of negotiations and a reload loses a client with its
\* process.  Excepted is a client that a worker stores in a backend which is closed already: it
\* is the backend's own and nobody will close it (RemovedClientsClosed).
OneClient ==
    \A k \in Clients : open[k] => k = client \/ (removal = "detached" /\ k \in closing)

\* docs/architecture.md: "Removed backend clients and processes are closed."  When the reload has
\* closed the backend and every worker has returned, no client is left open with its process.
RemovedClientsClosed ==
    removal = "detached" /\ closing = {} /\ (\A w \in Workers : pc[w] \in {"idle", "done", "failed"})
        => \A k \in Clients : ~(open[k] /\ proc[k] # 0)

\* Until a reload has closed the backend, a running process that is taken for negotiated has
\* accepted an initialize, if it was started by a negotiation.  (One that the initialized
\* notification or a request started may not have.)
CacheIsNegotiated ==
    removal # "detached" /\ initialized /\ ~modern /\ client # 0 /\ initGen # 0 /\ proc[client] = initGen
        /\ starter[<<client, initGen>>] \in {"probe", "initialize"}
        => <<client, initGen>> \in shaken

\* Until a reload has closed the backend, requests go to the server in its own era: a modern
\* server gets the _meta envelope with each of them, a legacy server never does, also while
\* negotiations are repeated.
FormMatchesServer ==
    removal # "detached" =>
        \A w \in Workers : pc[w] = "waiting" /\ doing[w] = "request" => (form[w] <=> era = "modern")

\* Until a reload has closed the backend, the first process of a client gets no request before
\* it has accepted an initialize, however many workers ask for it at a time and however often
\* the negotiation fails.
FirstUseNegotiated ==
    \A w \in Workers :
        removal # "detached" /\ pc[w] = "waiting" /\ doing[w] = "request" /\ sentTo[w] = 1 /\ era = "legacy"
            => <<held[w], 1>> \in shaken

\* A worker that went by the cached negotiation: it has not tried an initialize.
WentByCache(w) == attempt[w] = 0

\* docs/architecture.md: "generation tracking so a restarted subprocess is re-negotiated before
\* use".  A worker that goes by the cached negotiation does not send its request to a process
\* that was started for a request and has accepted no initialize.
RequestsNegotiated ==
    \A w \in Workers :
        (/\ pc[w] = "waiting" /\ doing[w] = "request" /\ era = "legacy"
         /\ WentByCache(w) /\ starter[<<held[w], sentTo[w]>>] = "request")
            => <<held[w], sentTo[w]>> \in shaken

\* The server keeps a worker: it does not read its stdin, or it leaves a call without an answer
\* that has no deadline.
ServerKeeps(w) ==
    \/ pc[w] = "opened" /\ proc[held[w]] # 0
    \/ pc[w] = "waiting" /\ proc[held[w]] = sentTo[w] /\ ~HasDeadline(w)

\* Every worker comes to an end, through any number of failed negotiations, crashes, idle stops
\* and a reload, with everybody queueing for initMu and discoverMu, unless a running server
\* keeps one of them for ever: nothing else blocks them.
EveryWorkerReturns ==
    \/ \A w \in Workers : pc[w] # "idle" ~> pc[w] \in {"done", "failed", "panic"}
    \/ \E w \in Workers : <>[]ServerKeeps(w)
=============================================================================
