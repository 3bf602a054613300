-------------------------- MODULE StdioRefinement --------------------------
(* StdioClient implements RpcSession. *)
EXTENDS StdioClient

\* A call is in flight while it is in the select and in the pending map.
StatusOf(o) ==
    CASE pc[o] = "idle" -> "idle"
      [] pc[o] \in {"started", "registered", "writing"} -> "open"
      [] pc[o] = "waiting" -> IF o \in Calls /\ <<id[o], o>> \in pending THEN "inflight" ELSE "settled"
      [] pc[o] \in {"unreg", "touch"} -> "settled"
      [] pc[o] = "done" -> "done"

Session == INSTANCE RpcSession WITH
    Users <- Ops, process <- cmd, status <- [o \in Ops |-> StatusOf(o)]

\* The stdio client keeps the promises of a session: in particular an idle stop never catches
\* a request in flight, an exit settles all of them in one step, and a process that ends by
\* itself leaves the generation as it is.
SessionRefined == Session!Spec
=============================================================================
