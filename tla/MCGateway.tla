----------------------------- MODULE MCGateway ------------------------------
(* Instances of Gateway and WorkerPool for TLC. *)
EXTENDS Gateway, WorkerPool, TLC

CONSTANTS h1, i1, w1, w2

MCClients == {h1, i1}
MCStdio   == {i1}
MCServers == {"a"}
MCServerOf(n) == IF n \in {"a__t", "uri"} THEN "a" ELSE ""
MCWorkers == {w1, w2}

I(method, id, proto, name) ==
    [form |-> "request", id |-> id, method |-> method, proto |-> proto, asks |-> "", name |-> name]
Init1(asks) == [I("initialize", "1", "", "") EXCEPT !.asks = asks]
Bad  == [I("ping", "1", "", "") EXCEPT !.form = "bad"]
Resp == [I("ping", "1", "", "") EXCEPT !.form = "response"]

H(proto, method, name) == [proto |-> proto, method |-> method, name |-> name]
Single(i, h) == [batch |-> FALSE, items |-> <<i>>, header |-> h]
Batch(items) == [batch |-> TRUE, items |-> items, header |-> H("", "", "")]

Call   == I("tools/call", "1", "", "a__t")
Prompt == I("prompts/get", "2", "", "a__t")

Lists == Batch(<<I("resources/list", "1", "", ""), I("resources/templates/list", "2", "", ""),
                 I("prompts/list", "3", "", ""), I("resources/read", "4", "", "uri")>>)

\* Every kind of item, under headers that fit it and headers that do not.
Items ==
    {Init1(v) : v \in {"2024-11-05", "1999-01-01"}} \union {Bad, Resp, I("unknown", "1", "", "")}
    \union {I("tools/list", id, v, "") : id \in {"1", "null"}, v \in {"", Latest}}
    \union {I("server/discover", "1", v, "") : v \in {"", Latest}}
    \union {I("tools/call", id, "", "a__t") : id \in {"1", "null"}}
    \union {I("tools/call", "1", v, "a__t") : v \in {Previous, Latest}}
Headers ==
    {H(v, m, "") : v \in {"", Previous, Latest}, m \in {"", "tools/call", "tools/list"}}
    \union {H(v, "tools/call", "a__t") : v \in {"", Previous, Latest}}
    \union {H(Previous, "", "other"), H("1999-01-01", "", "")}

MCTraffic ==
    (h1 :> {Single(i, h) : i \in Items, h \in Headers} \union {Batch(<<>>)}
           \union {Batch(<<Call, I("ping", "null", "", ""), Bad>>), Batch(<<I("ping", "null", "", "")>>), Lists})
    @@ (i1 :> {Single(Prompt, H("", "", ""))})

\* Messages and pools meet only in the configuration: a behavior
\* of the instance has a pool at work or messages, never both.
NoPool == configured = Backends /\ pc = "idle" /\ listed = {} /\ ~cancelled /\ ran = [b \in Backends |-> 0]
NoMessages == gen = [x \in Scopes |-> 1] /\ at = [c \in Clients |-> Waiting]

MCNext ==
    \/ NoPool /\ Next /\ UNCHANGED poolVars
    \/ NoMessages /\ PoolNext /\ UNCHANGED vars

MCInit == Init /\ PoolInit

MCSpec ==
    /\ MCInit
    /\ [][MCNext]_<<vars, poolVars>>
    /\ Fairness /\ PoolFairness
=============================================================================
