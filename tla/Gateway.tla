------------------------------ MODULE Gateway -------------------------------
(***************************************************************************)
(* The way of an MCP message through the gateway: an HTTP request          *)
(* (httpapi handleMCP) or a line on stdin (serveStdio), the items of it    *)
(* one after the other (gateway Handle, handleOne, dispatch), and for      *)
(* tools/call, resources/read and prompts/get the two semaphores of the    *)
(* manager (CallTool, CallServer), which a reload may replace while calls  *)
(* hold their permits or wait for them.                                    *)
(*                                                                         *)
(* A semaphore is a channel object: a scope (the whole gateway or one      *)
(* server) and a generation; a reload that changes the limit makes the     *)
(* next generation.                                                        *)
(***************************************************************************)
EXTENDS Naturals, FiniteSets, SequencesExt, McpMessages

CONSTANTS
    Clients,
    Stdio,         \* the clients on stdin: no headers, no deadline
    Traffic,       \* [Clients -> messages they may send]
    Servers,
    ServerOf(_),   \* the server a tool, prompt or resource is routed to, "" if none
    Limits,        \* limits a configuration may set
    Generations    \* bound: semaphores per scope

ASSUME ScopesAssumption == "gateway" \notin Servers
ASSUME ClientsAssumption == IsFiniteSet(Clients)
ASSUME TrafficAssumption ==
    \A c \in Clients : \A m \in Traffic[c] :
        /\ DOMAIN m = {"batch", "items", "header"} /\ DOMAIN m.header = {"proto", "method", "name"}
        /\ m.items \in Seq(Range(m.items)) /\ (m.batch \/ Len(m.items) = 1)
ASSUME BoundsAssumption == Limits \subseteq Nat /\ Generations \in Nat \ {0}

Scopes == Servers \union {"gateway"}
Gens == 1..Generations

VARIABLES
    cap, used,     \* [Scopes -> [Gens -> limit, permits taken]]
    gen,           \* [Scopes -> the generation new calls use]
    at             \* [Clients -> the message of the client and how far it is]

vars == <<cap, used, gen, at>>

Waiting == [pc |-> "idle", msg |-> [batch |-> TRUE, items |-> <<>>, header |-> [proto |-> "", method |-> "", name |-> ""]],
            next |-> 1, out |-> <<>>, server |-> "", taken |-> <<>>, sem |-> <<>>, version |-> ""]

Init ==
    /\ \E n, k \in Limits :
        cap = [x \in Scopes |-> [g \in Gens |-> IF g > 1 THEN 0 ELSE IF x = "gateway" THEN n ELSE k]]
    /\ used = [x \in Scopes |-> [g \in Gens |-> 0]]
    /\ gen = [x \in Scopes |-> 1]
    /\ at = [c \in Clients |-> Waiting]

Item(c) == at[c].msg.items[at[c].next]

-----------------------------------------------------------------------------
(* Receiving and answering.                                                *)

\* Of the headers only the version is looked at again.
Handed(m) == [m EXCEPT !.header = [@ EXCEPT !.method = "", !.name = ""]]

\* handleMCP accepts a message, or serveStdio reads a line; an empty batch is
\* answered with one error.
Receive(c) ==
    /\ at[c].pc = "idle"
    /\ \E m \in Traffic[c] :
        /\ c \in Stdio \/ HeadersAccepted(m)
        /\ at' = [at EXCEPT ![c] = [Waiting EXCEPT !.msg = Handed(m), !.pc = IF m.items = <<>> THEN "done" ELSE "item",
                    !.out = IF m.items = <<>> THEN <<[kind |-> "error", id |-> "null", modern |-> FALSE, version |-> ""]>> ELSE <<>>]]
    /\ UNCHANGED <<cap, used, gen>>

\* 400: the message is not handled at all.
Refuse(c) ==
    /\ at[c].pc = "idle" /\ c \notin Stdio
    /\ \E m \in Traffic[c] :
        /\ ~HeadersAccepted(m)
        /\ at' = [at EXCEPT ![c] = [Waiting EXCEPT !.pc = "refused"]]
    /\ UNCHANGED <<cap, used, gen>>

ReplyId(i) == IF i.form = "bad" THEN "null" ELSE i.id

\* A result has the form of the 2026 protocol if the item asks for it; one of
\* initialize names a version.
Reply(i, kind) ==
    LET ok == kind = "result" IN
    [kind |-> kind, id |-> ReplyId(i),
     modern |-> ok /\ IsModernRequest(i),
     version |-> IF ok /\ i.method = "initialize" THEN Negotiated(i) ELSE ""]

\* Variant: an answer is made for notifications, too.
AnswerAlways(c, kind) ==
    LET last == at[c].next = Len(at[c].msg.items)
    IN  [at[c] EXCEPT !.out = Append(@, Reply(Item(c), kind)),
                      !.next = IF last THEN @ ELSE @ + 1, !.pc = IF last THEN "done" ELSE "item",
                      !.server = "", !.taken = <<>>, !.sem = <<>>]

\* The end of handleOne: an answer, but none for a notification; the next item.
Answer(c, kind) ==
    LET last == at[c].next = Len(at[c].msg.items)
    IN  [at[c] EXCEPT !.out = IF IsNotification(Item(c)) THEN @ ELSE Append(@, Reply(Item(c), kind)),
                      !.next = IF last THEN @ ELSE @ + 1, !.pc = IF last THEN "done" ELSE "item",
                      !.server = "", !.taken = <<>>, !.sem = <<>>]

\* Handle is done: the answers are sent, or 202 and nothing for notifications.
Respond(c) ==
    /\ at[c].pc = "done"
    /\ at' = [at EXCEPT ![c].pc = "sent",
            ![c].version = IF c \in Stdio \/ at[c].msg.items = <<>> THEN ""
                           ELSE ResponseProtocol(at[c].msg, at[c].out)]
    /\ UNCHANGED <<cap, used, gen>>

Forget(c) ==
    /\ at[c].pc \in {"sent", "refused"}
    /\ at' = [at EXCEPT ![c] = Waiting]
    /\ UNCHANGED <<cap, used, gen>>

-----------------------------------------------------------------------------
(* dispatch.                                                               *)

Methods == NamedMethods \union
    {"server/discover", "initialize", "ping", "notifications/initialized", "notifications/cancelled",
     "tools/list", "resources/list", "resources/templates/list", "prompts/list"}

Asked(c, method) == at[c].pc = "item" /\ IsRequest(Item(c)) /\ Item(c).method = method

\* Answered here.
Served(c, method) ==
    /\ Asked(c, method) /\ at' = [at EXCEPT ![c] = Answer(c, "result")]
    /\ UNCHANGED <<cap, used, gen>>

ServerDiscover(c) == Served(c, "server/discover")
Initialize(c) == Served(c, "initialize")
Acknowledge(c) == \E m \in {"ping", "notifications/initialized", "notifications/cancelled"} : Served(c, m)

\* Answered from the store, which may fail.
Listed(c, method) ==
    /\ Asked(c, method) /\ \E kind \in {"result", "error"} : at' = [at EXCEPT ![c] = Answer(c, kind)]
    /\ UNCHANGED <<cap, used, gen>>

ListTools(c) == Listed(c, "tools/list")
ListResources(c) == Listed(c, "resources/list")
ListResourceTemplates(c) == Listed(c, "resources/templates/list")
ListPrompts(c) == Listed(c, "prompts/list")

\* What is no request or names no method is an error, and so are a call without
\* usable parameters and one whose tool or server is not there (any more).
Invalid(c) ==
    /\ at[c].pc = "item"
    /\ IsRequest(Item(c)) => Item(c).method \notin Methods \ NamedMethods
    /\ at' = [at EXCEPT ![c] = Answer(c, "error")]
    /\ UNCHANGED <<cap, used, gen>>

\* The backend is looked up, and with it its semaphore ...
FindBackend(c, s) ==
    /\ s \in Servers
    /\ at' = [at EXCEPT ![c].pc = "found", ![c].server = s, ![c].sem = <<[scope |-> s, gen |-> gen[s]]>>]
    /\ UNCHANGED <<cap, used, gen>>

\* ... of the server the index routes the tool to, the URI names, or the name of
\* the prompt begins with.
CallTool(c)     == Asked(c, "tools/call")     /\ FindBackend(c, ServerOf(Item(c).name))
ReadResource(c) == Asked(c, "resources/read") /\ FindBackend(c, ServerOf(Item(c).name))
GetPrompt(c)    == Asked(c, "prompts/get")    /\ FindBackend(c, ServerOf(Item(c).name))

\* Variant: a prompt takes the permit of its server first.
OrderByMethod(c, global, server) ==
    IF Item(c).method = "prompts/get" THEN <<server, global>> ELSE <<global, server>>

\* The permit of the gateway first, then the permit of the server.
Order(c, global, server) == <<global, server>>

\* ... then the semaphore of the gateway.
FindSemaphore(c) ==
    /\ at[c].pc = "found"
    /\ at' = [at EXCEPT ![c].pc = "acquire",
                ![c].sem = Order(c, [scope |-> "gateway", gen |-> gen["gateway"]], at[c].sem[1])]
    /\ UNCHANGED <<cap, used, gen>>

\* acquire: blocks while the channel is full.
Acquire(c) ==
    LET x == at[c].sem[Len(at[c].taken) + 1] IN
    /\ at[c].pc = "acquire"
    /\ used[x.scope][x.gen] < cap[x.scope][x.gen]
    /\ used' = [used EXCEPT ![x.scope][x.gen] = @ + 1]
    /\ at' = [at EXCEPT ![c].taken = Append(@, x), ![c].pc = IF Len(at[c].taken) = 1 THEN "call" ELSE "acquire"]
    /\ UNCHANGED <<cap, gen>>

\* Variant: the permit goes back to the semaphore that is in use now.
ReleasedToCurrent(c) ==
    [x \in Scopes |-> [g \in Gens |->
        IF used[x][g] > 0 /\ g = gen[x] /\ (\E p \in Range(at[c].taken) : p.scope = x) THEN used[x][g] - 1 ELSE used[x][g]]]

\* The deferred releases: one permit back to each channel it was taken from,
\* and nothing if the channel is empty.
Released(c) ==
    [x \in Scopes |-> [g \in Gens |->
        IF used[x][g] > 0 /\ [scope |-> x, gen |-> g] \in Range(at[c].taken) THEN used[x][g] - 1 ELSE used[x][g]]]

\* The deadline of an HTTP request (of a whole batch) passes while its call
\* waits for a permit, or its client goes away; stdin has no deadline.
AbortWait(c) ==
    /\ at[c].pc = "acquire" /\ c \notin Stdio
    /\ used' = Released(c)
    /\ at' = [at EXCEPT ![c] = Answer(c, "error")]
    /\ UNCHANGED <<cap, gen>>

\* The call (Backend) ends, well or not.  Its two deferred releases, the server's
\* and then the gateway's, are one step: between them nothing can block.
Finish(c) ==
    /\ at[c].pc = "call"
    /\ used' = Released(c)
    /\ \E kind \in {"result", "error"} : at' = [at EXCEPT ![c] = Answer(c, kind)]
    /\ UNCHANGED <<cap, gen>>

-----------------------------------------------------------------------------
\* ApplyConfig with another limit for the gateway, for the servers, or with
\* another definition of one server.
Reload ==
    /\ \E new \in SUBSET Scopes \ {{}}, n \in Limits :
        /\ \A x \in new : gen[x] < Generations
        /\ "gateway" \in new => n # cap["gateway"][gen["gateway"]]
        /\ gen' = [x \in Scopes |-> IF x \in new THEN gen[x] + 1 ELSE gen[x]]
        /\ cap' = [x \in Scopes |-> IF x \in new THEN [cap[x] EXCEPT ![gen[x] + 1] = n] ELSE cap[x]]
    /\ UNCHANGED <<used, at>>

Dispatch(c) ==
    \/ ServerDiscover(c) \/ Initialize(c) \/ Acknowledge(c)
    \/ ListTools(c) \/ ListResources(c) \/ ListResourceTemplates(c) \/ ListPrompts(c)
    \/ CallTool(c) \/ ReadResource(c) \/ GetPrompt(c)
    \/ Invalid(c)

Handling(c) == Dispatch(c) \/ FindSemaphore(c) \/ Respond(c)

Next ==
    \/ \E c \in Clients :
        \/ Receive(c) \/ Refuse(c) \/ Forget(c)
        \/ Handling(c) \/ Acquire(c) \/ AbortWait(c) \/ Finish(c)
    \/ Reload

\* Handlers go on; Go serves the senders that wait on a channel in order.  Calls
\* end: an HTTP request has a deadline, and a line on stdin relies on the server
\* it calls, which may never answer; what is at stake is the wait for permits.
Fairness ==
    \A c \in Clients : WF_vars(Handling(c)) /\ WF_vars(Finish(c)) /\ SF_vars(Acquire(c))

Spec == Init /\ [][Next]_vars /\ Fairness

-----------------------------------------------------------------------------
(* Properties.                                                             *)

Holders(x, g) == {c \in Clients : [scope |-> x, gen |-> g] \in Range(at[c].taken)}

\* The permits taken from a semaphore are those of the calls that hold them,
\* also from a semaphore that a reload has replaced, and within its limit.
PermitsConserved ==
    \A x \in Scopes, g \in Gens :
        used[x][g] = Cardinality(Holders(x, g)) /\ used[x][g] <= cap[x][g]

\* Every item but a notification has exactly one answer, with its id, in the
\* order of the items.
AnswersMatchItems ==
    \A c \in Clients :
        LET items == at[c].msg.items
            out == at[c].out
        IN  at[c].pc = "sent" /\ items # <<>> =>
                \E f \in [DOMAIN out -> DOMAIN items] :
                    /\ \A m, n \in DOMAIN out : m < n => f[m] < f[n]
                    /\ \A i \in DOMAIN items : ~IsNotification(items[i]) <=> \E n \in DOMAIN out : f[n] = i
                    /\ \A n \in DOMAIN out : out[n].id = ReplyId(items[f[n]])

\* The version header of a single answer is true: of initialize it is what the
\* answer negotiates, and it names the 2026 protocol exactly when the answer
\* has that form (server/discover always has).
VersionHeaderTrue ==
    \A c \in Clients \ Stdio :
        LET p == at[c] IN
        p.pc = "sent" /\ ~p.msg.batch /\ p.out # <<>> /\ p.out[1].kind = "result" =>
            /\ p.out[1].version # "" => p.version = p.out[1].version
            /\ p.msg.items[1].method # "server/discover" => (p.version = Latest <=> p.out[1].modern)

\* A message is answered even if no deadline ends its wait for the permits.
MessagesAnswered == \A c \in Clients : at[c].pc = "item" ~> at[c].pc = "sent"

=============================================================================
