---------------------------- MODULE McpMessages ----------------------------
(***************************************************************************)
(* What the gateway decides about one MCP message without looking at any   *)
(* state: the shape of the JSON-RPC envelope (mcp/protocol.go), the HTTP   *)
(* headers of the 2026 protocol (httpapi/server.go) and the version of the *)
(* answer.                                                                 *)
(*                                                                         *)
(* An item is a record: form ("request", "response" or "bad", which does   *)
(* not decode), id ("null" for none), method, proto (the version in _meta, *)
(* "" for none), asks (the version initialize asks for) and name (the tool *)
(* or prompt name, or the URI).  A message is a batch or a single item,    *)
(* with headers proto, method and name, "" where absent.                   *)
(***************************************************************************)
EXTENDS Sequences

Latest   == "2026-07-28"
Previous == "2025-11-25"
LegacyProtocols == {Previous, "2025-06-18", "2024-11-05"}
SupportedProtocols == LegacyProtocols \union {Latest}

\* ParseEnvelope: what decodes and names a method is a request.
IsRequest(i) == i.form = "request"

NamedMethods == {"tools/call", "resources/read", "prompts/get"}

\* A request without an id, or with the id null, is a notification.
IsNotification(i) == IsRequest(i) /\ i.id = "null"

IsModernRequest(i) == i.method = "server/discover" \/ i.proto = Latest

RequestName(i) == IF i.method \in NamedMethods THEN i.name ELSE ""

-----------------------------------------------------------------------------
(* validateMCPRequestHeaders.                                              *)

\* Variant: the body need not name the version of the header.
SingleAcceptedHeaderOnly(i, h) ==
    /\ h.proto = "" => i.proto # Latest
    /\ h.proto = Latest => i.method # "initialize" /\ h.method # ""
    /\ h.method \in {"", i.method}
    /\ h.proto = Latest /\ i.method \in NamedMethods => h.name # ""
    /\ h.name \in {"", RequestName(i)}

\* What is not a request is left to the JSON-RPC layer.
SingleAccepted(i, h) ==
    IsRequest(i) =>
        /\ h.proto = "" => i.proto # Latest
        /\ h.proto # "" /\ i.proto # "" => h.proto = i.proto
        /\ h.proto = Latest => i.method # "initialize" /\ i.proto = Latest /\ h.method # ""
        /\ h.method \in {"", i.method}
        /\ h.proto = Latest /\ i.method \in NamedMethods => h.name # ""
        /\ h.name \in {"", RequestName(i)}

\* The items of a batch are not held against the headers.
HeadersAccepted(m) ==
    /\ m.header.proto \in SupportedProtocols \union {""}
    /\ IF m.batch THEN m.header.proto # Latest ELSE SingleAccepted(m.items[1], m.header)

-----------------------------------------------------------------------------
\* initialize: the version asked for, if it is a legacy one.
Negotiated(i) == IF i.asks \in LegacyProtocols THEN i.asks ELSE Previous

\* responseProtocol: what initialize negotiated, if it succeeded; the version
\* of the request's header; of its body; Previous.
ResponseProtocol(m, out) ==
    LET i == m.items[1]
        single == ~m.batch /\ IsRequest(i)
    IN  IF single /\ i.method = "initialize" /\ out # <<>> /\ out[1].kind = "result" THEN out[1].version
        ELSE IF m.header.proto # "" THEN m.header.proto
        ELSE IF single /\ i.proto \in SupportedProtocols THEN i.proto
        ELSE IF single /\ i.method = "initialize" THEN Negotiated(i)
        ELSE Previous
=============================================================================
