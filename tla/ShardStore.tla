----------------------------- MODULE ShardStore -----------------------------
(***************************************************************************)
(* What storage.Store promises to the registry: server rows, and for each  *)
(* kind of capability a shard per server that is only ever replaced whole, *)
(* by a list without two entries of one key, and only for a known server.  *)
(* Deleting a server takes its shards with it.                             *)
(***************************************************************************)
EXTENDS Sequences, Functions

CONSTANTS
    Kinds,     \* the tables: tools, resources, resource templates, prompts
    Servers,
    Keys,      \* what identifies an entry of a shard: a name or a URI
    Lists      \* [Kinds -> set of lists of keys]: what discoveries may store

VARIABLES
    rows,      \* the servers that have a row
    shard      \* [Kinds -> [Servers -> set of keys]]

storeVars == <<rows, shard>>

NoShards == [k \in Kinds |-> [s \in Servers |-> {}]]

Init ==
    /\ rows = {}
    /\ shard = NoShards

Upsert(s) ==
    /\ rows' = rows \union {s}
    /\ UNCHANGED shard

Delete(s) ==
    /\ rows' = rows \ {s}
    /\ shard' = [k \in Kinds |-> [shard[k] EXCEPT ![s] = {}]]

Replace(k, s, list) ==
    /\ IsInjective(list)
    /\ list # <<>> => s \in rows
    /\ shard' = [shard EXCEPT ![k][s] = Range(list)]
    /\ UNCHANGED rows

Next ==
    \E s \in Servers :
        \/ Upsert(s)
        \/ Delete(s)
        \/ \E k \in Kinds : \E list \in Lists[k] : Replace(k, s, list)

Spec == Init /\ [][Next]_storeVars
=============================================================================
