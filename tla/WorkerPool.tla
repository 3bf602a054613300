----------------------------- MODULE WorkerPool -----------------------------
(***************************************************************************)
(* The pools of DiscoverAll and runHealthChecks (app/manager.go): a        *)
(* producer lists the backends, starts workers, hands one job after the    *)
(* other over an unbuffered channel until the context is cancelled, closes *)
(* the channel and waits for the workers.                                  *)
(***************************************************************************)
EXTENDS Integers, FiniteSets

CONSTANTS
    Backends,     \* what may be configured
    Workers,      \* worker goroutines, enough for every limit
    MaxConcurrent \* limits a configuration may set

ASSUME JobsAssumption == Backends \cap {"none", "ready"} = {}

VARIABLES
    configured,   \* the backends of the manager
    pc,           \* the producer: idle, listed, send, wait
    todo, listed, \* jobs not handed out, jobs of this round
    worker,       \* [Workers -> "none", "ready" or the job it runs]
    ran,          \* history: [Backends -> times it was run this round]
    closed, cancelled

poolVars == <<configured, pc, todo, listed, worker, ran, closed, cancelled>>

PoolInit ==
    /\ configured = Backends
    /\ pc = "idle" /\ todo = {} /\ listed = {}
    /\ worker = [w \in Workers |-> "none"]
    /\ ran = [b \in Backends |-> 0]
    /\ closed = FALSE /\ cancelled = FALSE

\* A timer or the start of the process; the loops end when the context does.
List ==
    /\ pc = "idle" /\ ~cancelled
    /\ todo' = configured /\ listed' = configured
    /\ ran' = [b \in Backends |-> 0]
    /\ pc' = IF configured = {} THEN "idle" ELSE "listed"
    /\ UNCHANGED <<configured, worker, closed, cancelled>>

WorkerCount(limit, total) == IF limit > total THEN total ELSE limit

\* As many as the limit that is configured by now.
StartWorkers ==
    /\ pc = "listed"
    /\ \E limit \in MaxConcurrent, ws \in SUBSET Workers :
        /\ Cardinality(ws) = WorkerCount(limit, Cardinality(listed))
        /\ worker' = [w \in Workers |-> IF w \in ws THEN "ready" ELSE "none"]
    /\ pc' = "send" /\ closed' = FALSE
    /\ UNCHANGED <<configured, todo, listed, ran, cancelled>>

Send(w) ==
    /\ pc = "send" /\ worker[w] = "ready"
    /\ \E b \in todo : worker' = [worker EXCEPT ![w] = b] /\ todo' = todo \ {b}
    /\ UNCHANGED <<configured, pc, listed, ran, closed, cancelled>>

\* Variant: the channel is not closed.
EndSendingOpen ==
    /\ pc = "send" /\ (todo = {} \/ cancelled)
    /\ pc' = "wait"
    /\ UNCHANGED <<configured, todo, listed, worker, ran, closed, cancelled>>

EndSending ==
    /\ pc = "send" /\ (todo = {} \/ cancelled)
    /\ pc' = "wait" /\ closed' = TRUE
    /\ UNCHANGED <<configured, todo, listed, worker, ran, cancelled>>

\* Discover or checkHealth returns, with an error for a backend that a reload
\* has removed meanwhile.  Neither has to: both lock mutexes of the backend and
\* write to its stdin whatever their context says.
RunJob(w) ==
    /\ worker[w] \in Backends
    /\ ran' = [ran EXCEPT ![worker[w]] = @ + 1]
    /\ worker' = [worker EXCEPT ![w] = "ready"]
    /\ UNCHANGED <<configured, pc, todo, listed, closed, cancelled>>

EndWorker(w) ==
    /\ worker[w] = "ready" /\ closed
    /\ worker' = [worker EXCEPT ![w] = "none"]
    /\ UNCHANGED <<configured, pc, todo, listed, ran, closed, cancelled>>

\* Variant: the producer does not wait for the workers.
ReturnAtOnce ==
    /\ pc = "wait"
    /\ pc' = "idle" /\ closed' = FALSE /\ todo' = {}
    /\ UNCHANGED <<configured, listed, worker, ran, cancelled>>

Return ==
    /\ pc = "wait" /\ \A w \in Workers : worker[w] = "none"
    /\ pc' = "idle" /\ closed' = FALSE /\ todo' = {}
    /\ UNCHANGED <<configured, listed, worker, ran, cancelled>>

Cancel ==
    /\ ~cancelled /\ cancelled' = TRUE
    /\ UNCHANGED <<configured, pc, todo, listed, worker, ran, closed>>

Reconfigure ==
    /\ \E new \in SUBSET Backends : configured' = new
    /\ UNCHANGED <<pc, todo, listed, worker, ran, closed, cancelled>>

Produce == StartWorkers \/ (\E w \in Workers : Send(w)) \/ EndSending \/ Return
Work(w) == RunJob(w) \/ EndWorker(w)

PoolNext ==
    \/ List \/ Produce
    \/ \E w \in Workers : Work(w)
    \/ Cancel \/ Reconfigure

\* The producer and the workers go on, also after a cancellation; that a job
\* returns is not assumed.
PoolFairness == WF_poolVars(Produce) /\ \A w \in Workers : WF_poolVars(EndWorker(w))

PoolSpec == PoolInit /\ [][PoolNext]_poolVars /\ PoolFairness
-----------------------------------------------------------------------------
(* Properties.                                                             *)

\* When a round is over, every server it listed was run exactly once, or at
\* most once if the context was cancelled, and no worker is left.
EveryServerOnce ==
    pc = "idle" =>
        /\ \A w \in Workers : worker[w] = "none"
        /\ \A b \in Backends : ran[b] \in IF b \notin listed THEN {0} ELSE IF cancelled THEN {0, 1} ELSE {1}

\* Rounds come to their end, cancelled or not, unless a single job never
\* returns: the producer, the workers and the channel never wait for each other.
PoolReturns ==
    []<>(pc = "idle") \/ \E w \in Workers, b \in Backends : <>[](worker[w] = b)

=============================================================================
