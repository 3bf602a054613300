----------------------------- MODULE RpcSession -----------------------------
(***************************************************************************)
(* What a restartable transport promises to its users (transport.Client    *)
(* with SessionGeneration): a session serves at most one process at a      *)
(* time; a submitted request stays in flight only while the process it was *)
(* sent to is the current one; the end of the process settles everything   *)
(* in flight at once; an idle stop happens only when nothing is in flight; *)
(* a closed session never serves anybody again.                            *)
(*                                                                         *)
(* A start and an idle stop begin a new generation.  A process that ends   *)
(* by itself does not, until the next one is started.                      *)
(***************************************************************************)
EXTENDS Naturals

CONSTANT Users   \* one-shot invocations: requests and notifications

VARIABLES
    closed,      \* the session is over
    generation,  \* what SessionGeneration() returns
    process,     \* the generation of the process in use, 0 when there is none
    status       \* where each user is

sessionVars == <<closed, generation, process, status>>

Statuses == {"idle", "open", "inflight", "settled", "done"}

InFlight == {u \in Users : status[u] = "inflight"}

Init ==
    /\ closed = FALSE
    /\ generation = 0 /\ process = 0
    /\ status = [u \in Users |-> "idle"]

Becomes(u, s) == status' = [status EXCEPT ![u] = s]
SettleAll     == status' = [u \in Users |-> IF status[u] = "inflight" THEN "settled" ELSE status[u]]

\* An invocation is turned away: before it reached the process, or because of Close.
Refuse(u) ==
    /\ status[u] \in {"idle", "open"}
    /\ Becomes(u, "done")
    /\ UNCHANGED <<closed, generation, process>>

\* It finds a process, or starts one.
Join(u) ==
    /\ status[u] = "idle" /\ ~closed /\ process # 0
    /\ Becomes(u, "open")
    /\ UNCHANGED <<closed, generation, process>>

Start(u) ==
    /\ status[u] = "idle" /\ ~closed /\ process = 0
    /\ generation' = generation + 1
    /\ process' = generation + 1
    /\ Becomes(u, "open")
    /\ UNCHANGED closed

\* The request is with the current process.
Submit(u) ==
    /\ status[u] = "open" /\ process # 0
    /\ Becomes(u, "inflight")
    /\ UNCHANGED <<closed, generation, process>>

\* Nothing is left to wait for: it could not be sent, its process went away before, or it is
\* a notification.
Leave(u) ==
    /\ status[u] = "open"
    /\ Becomes(u, "settled")
    /\ UNCHANGED <<closed, generation, process>>

\* An answer, or the caller's own deadline.
Settle(u) ==
    /\ status[u] = "inflight"
    /\ Becomes(u, "settled")
    /\ UNCHANGED <<closed, generation, process>>

Return(u) ==
    /\ status[u] = "settled"
    /\ Becomes(u, "done")
    /\ UNCHANGED <<closed, generation, process>>

Exit ==
    /\ process # 0
    /\ process' = 0
    /\ SettleAll
    /\ UNCHANGED <<closed, generation>>

IdleStop ==
    /\ process # 0 /\ InFlight = {}
    /\ process' = 0
    /\ generation' = generation + 1
    /\ UNCHANGED <<closed, status>>

Close ==
    /\ ~closed
    /\ closed' = TRUE
    /\ process' = 0
    /\ SettleAll
    /\ UNCHANGED generation

Next ==
    \/ \E u \in Users :
          \/ Refuse(u) \/ Join(u) \/ Start(u) \/ Submit(u)
          \/ Leave(u) \/ Settle(u) \/ Return(u)
    \/ Exit \/ IdleStop \/ Close

Spec == Init /\ [][Next]_sessionVars
=============================================================================
