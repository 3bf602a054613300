----------------------------- MODULE LegacySSE -----------------------------
(***************************************************************************)
(* The legacy HTTP+SSE transport (internal/transport/legacy_sse.go): one   *)
(* shared event stream, opened on demand, over which a server announces    *)
(* the endpoint that requests are posted to and then sends its answers.    *)
(*                                                                         *)
(* Callers wait for the stream on a channel with room for one value: who   *)
(* takes a nil from it puts it back for the next one.  A section under     *)
(* c.mu is one action; channel operations after the unlock are others.     *)
(* Left out: the replies to requests of the server (241-245), which read   *)
(* the endpoint and change nothing.                                        *)
(***************************************************************************)
EXTENDS Naturals

CONSTANTS
    Calls,       \* invocations of Call (Health is a Call of "ping"), each with its unique id
    Notices,     \* invocations of Notify
    MaxGen,      \* bound: streams that may be opened
    MaxFaults    \* bound: streams that fail without being cancelled

Ops  == Calls \cup Notices
Gens == 1 .. MaxGen
GenOrNil == Gens \cup {0}

ASSUME OpsAssumption    == Calls \cap Notices = {}
ASSUME BoundsAssumption == MaxGen \in Nat /\ MaxFaults \in Nat

VARIABLES
    closed,      \* c.closed
    running,     \* c.running
    generation,  \* c.generation
    endpoint,    \* c.endpoint: the stream that announced it, 0 for ""
    ready,       \* c.ready: the stream whose start made the channel, 0 for nil
    pending,     \* c.pending: the calls whose ids are in it
    cancelled,   \* streams whose context Close has cancelled
    stream,      \* the goroutine of each stream
    tell,        \* the readiness channel that a stream's goroutine is about to send to
    chan,        \* what each readiness channel holds
    pc,          \* where each invocation is
    mine,        \* the readiness channel an invocation waits on
    ep,          \* the endpoint an invocation posts to
    arrived,     \* requests that have reached the server
    ch,          \* calls whose outcome channel holds an outcome
    sends,       \* outcomes about to be sent: <<call, kind>>
    faults       \* counter of the bound MaxFaults

sharedVars == <<closed, running, generation, endpoint, ready, pending>>
streamVars == <<cancelled, stream, tell, faults>>
callVars   == <<pc, mine, ep, arrived>>
vars == <<sharedVars, streamVars, callVars, chan, ch, sends>>

Stages == {"idle", "waitReady", "gotReady", "streaming", "posting", "waiting", "unreg", "done"}
Live   == {"opening", "open", "signal", "ready"}
Kinds  == {"answer", "failed", "closed"}

TypeOK ==
    /\ closed \in BOOLEAN /\ running \in BOOLEAN
    /\ generation \in GenOrNil /\ endpoint \in {0, generation} /\ ready \in GenOrNil
    /\ pending \subseteq Calls
    /\ cancelled \subseteq Gens
    /\ stream \in [Gens -> {"none", "failing", "ended"} \cup Live]
    /\ tell \in [Gens -> GenOrNil]
    /\ chan \in [Gens -> {"empty", "nil", "err"}]
    /\ pc \in [Ops -> Stages]
    /\ mine \in [Ops -> GenOrNil]
    /\ ep \in [Ops -> GenOrNil]
    /\ arrived \subseteq Ops /\ ch \subseteq Calls
    /\ sends \subseteq Calls \X Kinds
    /\ faults \in Nat

Init ==
    /\ closed = FALSE /\ running = FALSE
    /\ generation = 0 /\ endpoint = 0 /\ ready = 0
    /\ pending = {} /\ cancelled = {} /\ arrived = {} /\ ch = {} /\ sends = {}
    /\ stream = [g \in Gens |-> "none"]
    /\ tell = [g \in Gens |-> 0]
    /\ chan = [g \in Gens |-> "empty"]
    /\ pc = [o \in Ops |-> "idle"]
    /\ mine = [o \in Ops |-> 0]
    /\ ep = [o \in Ops |-> 0]
    /\ faults = 0

-----------------------------------------------------------------------------
(* Helpers.  Definitions marked "Variant" are seeded faults: Next does not use them. *)

Goto(o, stage) == pc' = [pc EXCEPT ![o] = stage]

\* The non-blocking sends to a readiness channel: select with a default.
Offer(r, value) == chan' = IF chan[r] = "empty" THEN [chan EXCEPT ![r] = value] ELSE chan

\* Variant: the map is not replaced.
FlushKeepsEntries(kind) ==
    /\ pending' = pending
    /\ sends' = sends \cup {<<c, kind>> : c \in pending}

\* The map is replaced, and everybody in it is told.
FlushPending(kind) ==
    /\ pending' = {}
    /\ sends' = sends \cup {<<c, kind>> : c \in pending}

-----------------------------------------------------------------------------
(* ensureStream *)

Refuse(o) ==
    /\ pc[o] = "idle" /\ closed
    /\ Goto(o, "done")
    /\ UNCHANGED <<sharedVars, streamVars, mine, ep, arrived, chan, ch, sends>>

\* Variant: c.running is not looked at.
OpenStreamAgain(o) ==
    /\ pc[o] = "idle" /\ ~closed /\ generation < MaxGen
    /\ running' = TRUE
    /\ generation' = generation + 1
    /\ ready' = generation'
    /\ stream' = [stream EXCEPT ![generation'] = "opening"]
    /\ mine' = [mine EXCEPT ![o] = ready']
    /\ Goto(o, "waitReady")
    /\ UNCHANGED <<closed, endpoint, pending, cancelled, tell, faults, ep, arrived, chan, ch, sends>>

OpenStream(o) ==
    /\ pc[o] = "idle" /\ ~closed /\ ~running /\ generation < MaxGen
    /\ running' = TRUE
    /\ generation' = generation + 1
    /\ ready' = generation'
    /\ stream' = [stream EXCEPT ![generation'] = "opening"]
    /\ mine' = [mine EXCEPT ![o] = ready']
    /\ Goto(o, "waitReady")
    /\ UNCHANGED <<closed, endpoint, pending, cancelled, tell, faults, ep, arrived, chan, ch, sends>>

JoinStream(o) ==
    /\ pc[o] = "idle" /\ ~closed /\ running
    /\ mine' = [mine EXCEPT ![o] = ready]
    /\ Goto(o, "waitReady")
    /\ UNCHANGED <<sharedVars, streamVars, ep, arrived, chan, ch, sends>>

TakeReady(o) ==
    /\ pc[o] = "waitReady" /\ chan[mine[o]] # "empty"
    /\ chan' = [chan EXCEPT ![mine[o]] = "empty"]
    /\ Goto(o, IF chan[mine[o]] = "nil" THEN "gotReady" ELSE "done")
    /\ UNCHANGED <<sharedVars, streamVars, mine, ep, arrived, ch, sends>>

\* The context ends first.
ExpireWait(o) ==
    /\ pc[o] = "waitReady"
    /\ Goto(o, "done")
    /\ UNCHANGED <<sharedVars, streamVars, mine, ep, arrived, chan, ch, sends>>

\* Variant: the value is not put back.
PutBackNothing(o) ==
    /\ pc[o] = "gotReady"
    /\ Goto(o, "streaming")
    /\ UNCHANGED <<sharedVars, streamVars, mine, ep, arrived, chan, ch, sends>>

PutBack(o) ==
    /\ pc[o] = "gotReady"
    /\ \/ ~running /\ UNCHANGED <<ready, chan>>
       \/ running /\ ready' = mine[o] /\ Offer(mine[o], "nil")
    /\ Goto(o, "streaming")
    /\ UNCHANGED <<closed, running, generation, endpoint, pending, streamVars, mine, ep, arrived, ch, sends>>

-----------------------------------------------------------------------------
(* Call and Notify *)

Register(c) ==
    /\ pc[c] = "streaming"
    /\ \/ /\ closed
          /\ Goto(c, "done")
          /\ UNCHANGED <<pending, ep>>
       \/ /\ ~closed
          /\ pending' = pending \cup {c}
          /\ ep' = [ep EXCEPT ![c] = endpoint]
          /\ Goto(c, "posting")
    /\ UNCHANGED <<closed, running, generation, endpoint, ready, streamVars, mine, arrived, chan, ch, sends>>

\* Notify reads the endpoint, and does not look at c.closed again.
ReadEndpoint(n) ==
    /\ pc[n] = "streaming"
    /\ ep' = [ep EXCEPT ![n] = endpoint]
    /\ Goto(n, "posting")
    /\ UNCHANGED <<sharedVars, streamVars, mine, arrived, chan, ch, sends>>

\* The request reaches the server, which may answer it before the POST returns.
PostArrives(o) ==
    /\ pc[o] = "posting" /\ ep[o] # 0
    /\ arrived' = arrived \cup {o}
    /\ UNCHANGED <<sharedVars, streamVars, pc, mine, ep, chan, ch, sends>>

\* No endpoint, a transport error, an HTTP status, or the context: also after it has arrived.
PostFails(o) ==
    /\ pc[o] = "posting"
    /\ Goto(o, IF o \in Calls THEN "unreg" ELSE "done")
    /\ UNCHANGED <<sharedVars, streamVars, mine, ep, arrived, chan, ch, sends>>

PostSucceeds(o) ==
    /\ pc[o] = "posting" /\ ep[o] # 0 /\ o \in arrived
    /\ Goto(o, IF o \in Calls THEN "waiting" ELSE "done")
    /\ UNCHANGED <<sharedVars, streamVars, mine, ep, arrived, chan, ch, sends>>

Receive(c) ==
    /\ pc[c] = "waiting" /\ c \in ch
    /\ ch' = ch \ {c}
    /\ Goto(c, "done")
    /\ UNCHANGED <<sharedVars, streamVars, mine, ep, arrived, chan, sends>>

Timeout(c) ==
    /\ pc[c] = "waiting"
    /\ Goto(c, "unreg")
    /\ UNCHANGED <<sharedVars, streamVars, mine, ep, arrived, chan, ch, sends>>

Unregister(c) ==
    /\ pc[c] = "unreg"
    /\ pending' = pending \ {c}
    /\ Goto(c, "done")
    /\ UNCHANGED <<closed, running, generation, endpoint, ready, streamVars, mine, ep, arrived, chan, ch, sends>>

\* Variant: the stream is not cancelled.
CloseKeepsStream ==
    /\ ~closed
    /\ closed' = TRUE
    /\ FlushPending("closed")
    /\ UNCHANGED <<running, generation, endpoint, ready, streamVars, callVars, chan, ch>>

Close ==
    /\ ~closed
    /\ closed' = TRUE
    /\ cancelled' = IF running THEN cancelled \cup {generation} ELSE cancelled
    /\ FlushPending("closed")
    /\ UNCHANGED <<running, generation, endpoint, ready, stream, tell, faults, callVars, chan, ch>>

-----------------------------------------------------------------------------
(* streamLoop, deliver and failStream *)

Opened(g) ==
    /\ stream[g] = "opening"
    /\ stream' = [stream EXCEPT ![g] = "open"]
    /\ UNCHANGED <<sharedVars, cancelled, tell, faults, callVars, chan, ch, sends>>

\* The first endpoint event (later ones announce the same endpoint again).
Announce(g) ==
    /\ stream[g] = "open"
    /\ endpoint' = IF g = generation /\ ~closed THEN g ELSE endpoint
    /\ tell' = [tell EXCEPT ![g] = ready]
    /\ stream' = [stream EXCEPT ![g] = "signal"]
    /\ UNCHANGED <<closed, running, generation, ready, pending, cancelled, faults, callVars, chan, ch, sends>>

Signal(g) ==
    /\ stream[g] = "signal"
    /\ Offer(tell[g], "nil")
    /\ stream' = [stream EXCEPT ![g] = "ready"]
    /\ UNCHANGED <<sharedVars, cancelled, tell, faults, callVars, ch, sends>>

\* An answer comes over the stream, or in the body of a POST: in any order, perhaps twice.
Deliver(c) ==
    /\ c \in arrived
    /\ \/ \E g \in Gens : stream[g] \in {"open", "ready"}
       \/ \E d \in Calls : pc[d] = "posting" /\ d \in arrived
    /\ pending' = pending \ {c}
    /\ sends' = IF c \in pending THEN sends \cup {<<c, "answer">>} ELSE sends
    /\ UNCHANGED <<closed, running, generation, endpoint, ready, streamVars, callVars, chan, ch>>

Send(s) ==
    /\ s[1] \notin ch
    /\ ch' = ch \cup {s[1]}
    /\ sends' = sends \ {s}
    /\ UNCHANGED <<sharedVars, streamVars, callVars, chan>>

\* failStream for the current generation.  Its test for another one never succeeds: a stream is
\* started only after the one before it has failed (OneStream).
FailStream(g) ==
    /\ g = generation
    /\ running' = FALSE
    /\ endpoint' = 0
    /\ FlushPending("failed")
    /\ tell' = [tell EXCEPT ![g] = ready]
    /\ stream' = [stream EXCEPT ![g] = "failing"]
    /\ UNCHANGED <<closed, generation, ready, cancelled, callVars, chan, ch>>

\* The request fails, the answer to it is no stream, an endpoint is no URL, or the stream breaks.
Breaks(g) ==
    /\ stream[g] \in {"opening", "open", "ready"} /\ faults < MaxFaults
    /\ faults' = faults + 1
    /\ FailStream(g)

\* A request that was cancelled while it was opened fails like any other.
OpeningCancelled(g) ==
    /\ stream[g] = "opening" /\ g \in cancelled
    /\ FailStream(g)
    /\ UNCHANGED faults

\* A stream cancelled later just returns: nobody is told.
ReadingCancelled(g) ==
    /\ stream[g] \in {"open", "ready"} /\ g \in cancelled
    /\ stream' = [stream EXCEPT ![g] = "ended"]
    /\ UNCHANGED <<sharedVars, cancelled, tell, faults, callVars, chan, ch, sends>>

\* The rest of failStream: one error for whoever waits for the stream.
TellFailure(g) ==
    /\ stream[g] = "failing"
    /\ Offer(tell[g], "err")
    /\ stream' = [stream EXCEPT ![g] = "ended"]
    /\ UNCHANGED <<sharedVars, cancelled, tell, faults, callVars, ch, sends>>

-----------------------------------------------------------------------------
CallerStep(o) ==
    \/ Refuse(o) \/ OpenStream(o) \/ JoinStream(o) \/ TakeReady(o) \/ ExpireWait(o)
    \/ PutBack(o) \/ PostArrives(o) \/ PostFails(o) \/ PostSucceeds(o)

CallStep(c) == Register(c) \/ Receive(c) \/ Timeout(c) \/ Unregister(c) \/ Deliver(c)

StreamStep(g) ==
    \/ Opened(g) \/ Announce(g) \/ Signal(g)
    \/ Breaks(g) \/ OpeningCancelled(g) \/ ReadingCancelled(g) \/ TellFailure(g)

Next ==
    \/ \E o \in Ops : CallerStep(o)
    \/ \E c \in Calls : CallStep(c)
    \/ \E n \in Notices : ReadEndpoint(n)
    \/ \E g \in Gens : StreamStep(g)
    \/ \E s \in sends : Send(s)
    \/ Close

Spec == Init /\ [][Next]_vars
-----------------------------------------------------------------------------
(* Safety *)

HasSend(c) == \E s \in sends : s[1] = c

\* The outcome channel of a call has room for one value, and nobody who sends to it ever
\* blocks: of the stream, the POSTs that bring answers, failStream and Close, only one can
\* ever have an outcome for a call.
NoBlockedSender ==
    \A s \in sends : /\ s[1] \notin ch
                     /\ \A t \in sends : t[1] = s[1] => t = s

\* A call in the select has an outcome (or one on its way), or is in the pending map and was
\* posted to the endpoint of the stream that runs now: it never waits for a stream that is gone.
WaitingIsServed ==
    \A c \in Calls :
        pc[c] = "waiting" /\ c \notin ch /\ ~HasSend(c)
            => /\ c \in pending /\ ~closed /\ running
               /\ ep[c] = generation /\ stream[generation] \in Live

\* There is one stream at a time, the client knows it, and Close has cancelled it: no
\* interleaving of failures, new streams and Close leaves a second connection behind.
OneStream ==
    /\ \A g \in Gens : stream[g] \in Live => g = generation /\ running /\ (closed => g \in cancelled)
    /\ running /\ ~closed => stream[generation] \in Live

\* As long as the first stream lives, the nil that says so is in its channel or in the hands of
\* a caller who will put it back: everybody who waits is woken in the end, one after the other.
\* (Later streams make no such promise: a caller that is slow to put the nil of a failed stream
\* back points c.ready to the channel of that stream.)
FirstStreamWakesAll ==
    generation = 1 /\ running /\ stream[1] = "ready"
        => chan[1] = "nil" \/ \E o \in Ops : pc[o] = "gotReady"

\* The inductive invariant behind them.
StreamInv ==
    /\ \A g \in Gens : g > generation => stream[g] = "none"
    /\ running => generation # 0
    /\ ready # 0 <=> generation # 0
    /\ \A g \in Gens : stream[g] \in {"signal", "failing"} => tell[g] # 0
    /\ \A o \in Ops : pc[o] \in {"waitReady", "gotReady"} => mine[o] # 0
    /\ endpoint # 0 => running
    /\ cancelled # {} => closed
    /\ OneStream

OutcomeInv ==
    /\ NoBlockedSender
    /\ closed => pending = {}
    /\ \A c \in pending : pc[c] \in {"posting", "waiting", "unreg"} /\ c \notin ch /\ ~HasSend(c)
    /\ \A c \in Calls :
          /\ c \in ch \/ HasSend(c) => pc[c] \in {"posting", "waiting", "unreg", "done"}
          /\ pc[c] \in {"posting", "waiting"} => c \in pending \/ c \in ch \/ HasSend(c)

ServedInv ==
    /\ \A c \in pending : ep[c] # 0 => running /\ ep[c] = generation
    /\ \A c \in Calls : pc[c] = "waiting" => ep[c] # 0

BatonInv ==
    /\ ready <= generation
    /\ \A g \in Gens : tell[g] <= generation /\ (g > generation => chan[g] = "empty")
    /\ \A o \in Ops : mine[o] <= generation
    /\ generation = 1 /\ chan[1] = "err" => stream[1] = "ended"
    /\ FirstStreamWakesAll

IInv == StreamInv /\ OutcomeInv /\ ServedInv /\ BatonInv

-----------------------------------------------------------------------------
(* LegacySSE implements RpcSession: the process is the stream. *)

\* A call is in flight while it is in the select and in the pending map.
StatusOf(o) ==
    CASE pc[o] = "idle" -> "idle"
      [] pc[o] \in {"waitReady", "gotReady", "streaming", "posting"} -> "open"
      [] pc[o] = "waiting" -> IF o \in pending THEN "inflight" ELSE "settled"
      [] pc[o] = "unreg" -> "settled"
      [] pc[o] = "done" -> "done"

Session == INSTANCE RpcSession WITH
    Users <- Ops,
    process <- IF running /\ ~closed THEN generation ELSE 0,
    status <- [o \in Ops |-> StatusOf(o)]

\* The event stream keeps the promises of a session: a failure or Close settles everything in
\* flight in one step, a request is in flight only with the stream that runs now, and a stream
\* that ends leaves the generation as it is.
SessionRefined == Session!Spec

-----------------------------------------------------------------------------
(* Fairness and liveness *)

\* Goroutines run, and cancelled requests return.  Nothing says that a context ever ends.
GatewayFairness ==
    /\ \A o \in Ops : WF_vars(TakeReady(o)) /\ WF_vars(PutBack(o))
    /\ \A c \in Calls : WF_vars(Register(c) \/ Receive(c) \/ Unregister(c))
    /\ \A n \in Notices : WF_vars(ReadEndpoint(n))
    /\ \A g \in Gens : /\ WF_vars(Signal(g)) /\ WF_vars(TellFailure(g))
                        /\ WF_vars(OpeningCancelled(g)) /\ WF_vars(ReadingCancelled(g))
    /\ WF_vars(\E s \in sends : Send(s))

\* A POST fails or succeeds; a server accepts the stream and announces its endpoint.
ServerFairness ==
    /\ \A o \in Ops : WF_vars(PostFails(o) \/ PostSucceeds(o))
    /\ \A g \in Gens : WF_vars(Opened(g)) /\ WF_vars(Announce(g))

FairSpec == Spec /\ GatewayFairness /\ ServerFairness

\* Without any deadline, an invocation stays only for an answer on a live stream, or for its
\* turn at a readiness channel after a stream has failed or the client was closed (failStream
\* sends one error however many wait, a stream cancelled by Close none).  No failure keeps a
\* caller that has been written to the stream, and callers of a healthy first stream all pass.
OnlyServersKeepCallers ==
    \A o \in Ops :
        \/ <>[](pc[o] \in {"idle", "done"})
        \/ <>[](pc[o] = "waiting" /\ ~closed /\ running /\ stream[generation] \in Live)
        \/ <>[](pc[o] = "waitReady" /\ (faults > 0 \/ closed))

\* After Close the event stream comes to its end.
CloseEndsStream == closed ~> \A g \in Gens : stream[g] \in {"none", "ended"}
=============================================================================
