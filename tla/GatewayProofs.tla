--------------------------- MODULE GatewayProofs ----------------------------
(***************************************************************************)
(* Proofs about Gateway, WorkerPool and Logs, for every number of clients, *)
(* servers, backends and workers, every limit and any number of reloads:   *)
(* the permits of the semaphores, the answers to the items of a message,   *)
(* the version header, the jobs of a worker pool, and the records of the   *)
(* log in its files and in its ring.                                       *)
(***************************************************************************)
EXTENDS Gateway, WorkerPool, Logs, FiniteSetTheorems, SequenceTheorems, WellFoundedInduction, TLAPS

USE ScopesAssumption, ClientsAssumption, BoundsAssumption

Semaphores == [scope : Scopes, gen : Gens]

\* What a client holds in each stage of its call, and the semaphores it is after.
HoldsRight(p) ==
    /\ {"pc", "sem", "taken"} \subseteq DOMAIN p
    /\ p.pc = "found" => \E s \in Servers, g \in Gens : p.sem = <<[scope |-> s, gen |-> g]>>
    /\ p.pc \in {"acquire", "call"} =>
        \E s \in Servers, g, h \in Gens :
            /\ p.sem = <<[scope |-> "gateway", gen |-> g], [scope |-> s, gen |-> h]>>
            /\ p.pc = "acquire" => p.taken \in {<<>>, <<p.sem[1]>>}
            /\ p.pc = "call" => p.taken = p.sem
    /\ p.pc \notin {"acquire", "call"} => p.taken = <<>>

ClientInv ==
    /\ at = [c \in Clients |-> at[c]]
    /\ \A c \in Clients : HoldsRight(at[c])

\* A generation that no reload has reached yet has no permits.
LimitInv ==
    /\ cap \in [Scopes -> [Gens -> Nat]] /\ used \in [Scopes -> [Gens -> Nat]]
    /\ gen \in [Scopes -> Gens]
    /\ \A x \in Scopes, g \in Gens : g > gen[x] => cap[x][g] = 0

PermitInv == ClientInv /\ LimitInv /\ PermitsConserved

Held(p) == Range(p.taken)

LEMMA NothingHeld == Range(<<>>) = {}
  BY DEF Range

LEMMA InitialPermits == Init => PermitInv
<1>. SUFFICES ASSUME Init PROVE PermitInv
  OBVIOUS
<1>0. HoldsRight(Waiting) /\ Waiting.taken = <<>>
  BY DEF HoldsRight, Waiting
<1>1. ClientInv
  BY <1>0 DEF Init, ClientInv
<1>2. LimitInv
  BY DEF Init, LimitInv, Gens, Scopes
<1>3. \A c \in Clients : at[c].taken = <<>>
  BY <1>0 DEF Init
<1>4. \A x \in Scopes, g \in Gens : Holders(x, g) = {}
  BY <1>3, NothingHeld DEF Holders
<1>5. PermitsConserved
  <2>. SUFFICES ASSUME NEW x \in Scopes, NEW g \in Gens
                PROVE  used[x][g] = Cardinality(Holders(x, g)) /\ used[x][g] <= cap[x][g]
    BY DEF PermitsConserved
  <2>1. used[x][g] = 0 /\ cap[x][g] \in Nat
    BY <1>2 DEF Init, LimitInv
  <2>. QED
    BY <1>4, <2>1, FS_EmptySet
<1>. QED
  BY <1>1, <1>2, <1>5 DEF PermitInv

\* An answer leaves its client with nothing.
LEMMA AnswerHoldsNothing ==
    ASSUME ClientInv, NEW c \in Clients, NEW kind
    PROVE  HoldsRight(Answer(c, kind)) /\ Answer(c, kind).taken = <<>>
  BY DEF ClientInv, HoldsRight, Answer

\* A client that takes and gives back nothing changes no account.
LEMMA QuietStep ==
    ASSUME PermitInv, NEW c \in Clients, UNCHANGED <<cap, used, gen>>,
           at' = [at EXCEPT ![c] = at'[c]], HoldsRight(at[c])', at'[c].taken = at[c].taken
    PROVE  PermitInv'
<1>1. ClientInv'
  BY DEF PermitInv, ClientInv
<1>2. LimitInv'
  BY DEF PermitInv, LimitInv
<1>3. \A d \in Clients : at'[d].taken = at[d].taken
  BY DEF PermitInv, ClientInv
<1>4. \A x \in Scopes, g \in Gens : Holders(x, g)' = Holders(x, g)
  BY <1>3 DEF Holders
<1>5. PermitsConserved'
  BY <1>4 DEF PermitInv, PermitsConserved
<1>. QED
  BY <1>1, <1>2, <1>5 DEF PermitInv

\* Receiving, answering and looking up need no permit.
LEMMA UnheldStep ==
    ASSUME PermitInv, NEW c \in Clients,
           Receive(c) \/ Refuse(c) \/ Forget(c) \/ Dispatch(c) \/ FindSemaphore(c) \/ Respond(c)
    PROVE  PermitInv'
<1>. USE DEF HoldsRight
<1>0. at = [d \in Clients |-> at[d]] /\ HoldsRight(at[c]) /\ Waiting.taken = <<>> /\ HoldsRight(Waiting)
  BY DEF PermitInv, ClientInv, Waiting
<1>1. CASE Receive(c)
  <2>1. PICK m \in Traffic[c] : at' = [at EXCEPT ![c] = [Waiting EXCEPT !.msg = Handed(m), !.pc = IF m.items = <<>> THEN "done" ELSE "item",
                    !.out = IF m.items = <<>> THEN <<[kind |-> "error", id |-> "null", modern |-> FALSE, version |-> ""]>> ELSE <<>>]]
    BY <1>1, Zenon DEF Receive
  <2>2. at'[c].pc \in {"item", "done"} /\ at'[c].taken = <<>> /\ {"pc", "sem", "taken"} \subseteq DOMAIN at'[c]
    BY <1>0, <2>1
  <2>3. at[c].pc = "idle" /\ UNCHANGED <<cap, used, gen>>
    BY <1>1, Zenon DEF Receive
  <2>. QED
    BY <1>0, <2>1, <2>2, <2>3, QuietStep
<1>2. CASE Refuse(c)
  <2>1. at' = [at EXCEPT ![c] = [Waiting EXCEPT !.pc = "refused"]]
    BY <1>2 DEF Refuse
  <2>2. at'[c].pc = "refused" /\ at'[c].taken = <<>> /\ {"pc", "sem", "taken"} \subseteq DOMAIN at'[c]
    BY <1>0, <2>1
  <2>3. at[c].pc = "idle" /\ UNCHANGED <<cap, used, gen>>
    BY <1>2 DEF Refuse
  <2>. QED
    BY <1>0, <2>1, <2>2, <2>3, QuietStep
<1>3. CASE Forget(c)
  BY <1>0, <1>3, QuietStep DEF Forget
<1>4. ASSUME NEW kind, at[c].pc = "item", at' = [at EXCEPT ![c] = Answer(c, kind)], UNCHANGED <<cap, used, gen>>
      PROVE  PermitInv'
  <2>1. HoldsRight(Answer(c, kind)) /\ Answer(c, kind).taken = <<>>
    BY AnswerHoldsNothing DEF PermitInv
  <2>2. at'[c] = Answer(c, kind) /\ at[c].taken = <<>>
    BY <1>0, <1>4
  <2>. QED
    BY <1>0, <1>4, <2>1, <2>2, QuietStep
<1>5. ASSUME NEW s, at[c].pc = "item", FindBackend(c, s) PROVE PermitInv'
  <2>1. gen[s] \in Gens /\ s \in Servers
    BY <1>5 DEF FindBackend, PermitInv, LimitInv, Scopes
  <2>2. at'[c].pc = "found" /\ at'[c].sem = <<[scope |-> s, gen |-> gen[s]]>> /\ at'[c].taken = at[c].taken
        /\ {"pc", "sem", "taken"} \subseteq DOMAIN at'[c]
    BY <1>0, <1>5 DEF FindBackend
  <2>3. at' = [at EXCEPT ![c] = at'[c]] /\ UNCHANGED <<cap, used, gen>>
    BY <1>0, <1>5 DEF FindBackend
  <2>. QED
    BY <1>0, <1>5, <2>1, <2>2, <2>3, QuietStep
<1>6. CASE Dispatch(c)
  BY <1>4, <1>5, <1>6 DEF Dispatch, ServerDiscover, Initialize, Acknowledge, ListTools, ListResources,
     ListResourceTemplates, ListPrompts, CallTool, ReadResource, GetPrompt, Invalid, Served, Listed, Asked
<1>7. CASE FindSemaphore(c)
  <2>1. PICK s \in Servers, h \in Gens : at[c].sem = <<[scope |-> s, gen |-> h]>>
    BY <1>0, <1>7 DEF FindSemaphore
  <2>2. gen["gateway"] \in Gens
    BY DEF PermitInv, LimitInv, Scopes
  <2>3. at'[c].pc = "acquire" /\ at'[c].taken = at[c].taken /\ at[c].taken = <<>>
        /\ at'[c].sem = <<[scope |-> "gateway", gen |-> gen["gateway"]], at[c].sem[1]>>
        /\ {"pc", "sem", "taken"} \subseteq DOMAIN at'[c]
    BY <1>0, <1>7 DEF FindSemaphore, Order
  <2>4. at' = [at EXCEPT ![c] = at'[c]] /\ UNCHANGED <<cap, used, gen>>
    BY <1>0, <1>7 DEF FindSemaphore
  <2>. QED
    BY <2>1, <2>2, <2>3, <2>4, QuietStep
<1>8. CASE Respond(c)
  <2>1. at[c].pc = "done" /\ at'[c].pc = "sent" /\ at'[c].taken = at[c].taken /\ at[c].taken = <<>>
        /\ {"pc", "sem", "taken"} \subseteq DOMAIN at'[c]
    BY <1>0, <1>8 DEF Respond
  <2>2. at' = [at EXCEPT ![c] = at'[c]] /\ UNCHANGED <<cap, used, gen>>
    BY <1>0, <1>8 DEF Respond
  <2>. QED
    BY <2>1, <2>2, QuietStep
<1>. QED
  BY <1>1, <1>2, <1>3, <1>6, <1>7, <1>8

LEMMA HoldersFinite ==
    ASSUME NEW x, NEW g
    PROVE  IsFiniteSet(Holders(x, g)) /\ Cardinality(Holders(x, g)) \in Nat
<1>1. Holders(x, g) \in SUBSET Clients
  BY DEF Holders
<1>2. IsFiniteSet(Holders(x, g))
  BY <1>1, FS_Subset
<1>. QED
  BY <1>2, FS_CardinalityType

LEMMA AppendToOne == ASSUME NEW a, NEW b PROVE Append(<<a>>, b) = <<a, b>>
<1>1. <<a>> \in Seq({a, b}) /\ Len(<<a>>) = 1 /\ <<a>>[1] = a
  OBVIOUS
<1>2. <<a, b>> \in Seq({a, b}) /\ Len(<<a, b>>) = 2 /\ <<a, b>>[1] = a /\ <<a, b>>[2] = b
  OBVIOUS
<1>3. Append(<<a>>, b) \in Seq({a, b}) /\ Len(Append(<<a>>, b)) = 2
      /\ Append(<<a>>, b)[1] = a /\ Append(<<a>>, b)[2] = b
  BY <1>1, AppendProperties
<1>4. \A s, t \in Seq({a, b}) : Len(s) = 2 /\ Len(t) = 2 /\ s[1] = t[1] /\ s[2] = t[2] => s = t
  <2>. SUFFICES ASSUME NEW s \in Seq({a, b}), NEW t \in Seq({a, b}),
                       Len(s) = 2, Len(t) = 2, s[1] = t[1], s[2] = t[2]
                PROVE  s = t
    OBVIOUS
  <2>1. \A i \in 1..Len(s) : s[i] = t[i]
    OBVIOUS
  <2>. QED
    BY <2>1, SeqEqual
<1>. QED
  BY <1>2, <1>3, <1>4, Zenon

LEMMA SameClients == ASSUME ClientInv, at' = at PROVE ClientInv'
<1>1. ASSUME NEW c \in Clients PROVE HoldsRight(at[c])'
  <2>1. HoldsRight(at[c]) /\ at'[c] = at[c]
    BY DEF ClientInv
  <2>. QED
    BY <2>1 DEF HoldsRight
<1>. QED
  BY <1>1 DEF ClientInv

LEMMA TakingHolds ==
    ASSUME NEW c, NEW s \in Servers, NEW g \in Gens, NEW h \in Gens,
           {"pc", "sem", "taken"} \subseteq DOMAIN at'[c], at'[c].pc = "acquire",
           at'[c].sem = <<[scope |-> "gateway", gen |-> g], [scope |-> s, gen |-> h]>>,
           at'[c].taken = <<at'[c].sem[1]>>
    PROVE  HoldsRight(at[c])'
  BY DEF HoldsRight

LEMMA CallingHolds ==
    ASSUME NEW c, NEW s \in Servers, NEW g \in Gens, NEW h \in Gens,
           {"pc", "sem", "taken"} \subseteq DOMAIN at'[c], at'[c].pc = "call",
           at'[c].sem = <<[scope |-> "gateway", gen |-> g], [scope |-> s, gen |-> h]>>,
           at'[c].taken = at'[c].sem
    PROVE  HoldsRight(at[c])'
  BY DEF HoldsRight

\* A permit is taken by a client that has none of this semaphore, and counted once.
LEMMA AcquireStep == ASSUME PermitInv, NEW c \in Clients, Acquire(c) PROVE PermitInv'
<1>. DEFINE p == at[c]
            x == p.sem[Len(p.taken) + 1]
<1>0. at = [d \in Clients |-> at[d]] /\ HoldsRight(p) /\ p.pc = "acquire"
  BY DEF PermitInv, ClientInv, Acquire
<1>1. PICK s \in Servers, g, h \in Gens :
          /\ p.sem = <<[scope |-> "gateway", gen |-> g], [scope |-> s, gen |-> h]>>
          /\ p.taken \in {<<>>, <<p.sem[1]>>}
  BY <1>0 DEF HoldsRight
<1>2. /\ used[x.scope][x.gen] < cap[x.scope][x.gen]
      /\ used' = [used EXCEPT ![x.scope][x.gen] = @ + 1]
      /\ UNCHANGED <<cap, gen>>
  BY DEF Acquire
<1>3. /\ at' = [at EXCEPT ![c] = at'[c]]
      /\ at'[c].taken = Append(p.taken, x) /\ at'[c].sem = p.sem
      /\ at'[c].pc = IF Len(p.taken) = 1 THEN "call" ELSE "acquire"
      /\ {"pc", "sem", "taken"} \subseteq DOMAIN at'[c]
  BY <1>0 DEF Acquire, HoldsRight
<1>4. /\ x.scope \in Scopes /\ x.gen \in Gens /\ x = [scope |-> x.scope, gen |-> x.gen]
      /\ x \notin Range(p.taken) /\ Range(at'[c].taken) = Range(p.taken) \union {x}
      /\ HoldsRight(at[c])'
  <2>. HIDE DEF p
  <2>1. CASE p.taken = <<>>
    <3>1. x = [scope |-> "gateway", gen |-> g] /\ at'[c].taken = <<x>> /\ at'[c].pc = "acquire" /\ x = p.sem[1]
      BY <1>1, <1>3, <2>1
    <3>2. Range(p.taken) = {} /\ Range(at'[c].taken) = {x}
      BY <2>1, <3>1 DEF Range
    <3>3. at'[c].taken = <<at'[c].sem[1]>>
      BY <1>3, <3>1
    <3>4. HoldsRight(at[c])'
      BY <1>1, <1>3, <3>1, <3>3, TakingHolds
    <3>5. x.scope \in Scopes /\ x.gen \in Gens /\ x = [scope |-> x.scope, gen |-> x.gen]
      BY <3>1 DEF Scopes
    <3>. QED
      BY <3>2, <3>4, <3>5
  <2>2. CASE p.taken = <<p.sem[1]>>
    <3>0. Len(p.taken) = 1 /\ p.taken[1] = p.sem[1]
      BY <2>2
    <3>1. x = [scope |-> s, gen |-> h] /\ at'[c].pc = "call" /\ x = p.sem[2]
      BY <1>1, <1>3, <3>0
    <3>2. at'[c].taken = <<p.sem[1], x>>
      <4>1. Append(<<p.sem[1]>>, x) = <<p.sem[1], x>>
        BY AppendToOne
      <4>. QED
        BY <1>3, <2>2, <4>1, Zenon
    <3>3. Range(p.taken) = {p.sem[1]} /\ Range(at'[c].taken) = {p.sem[1], x}
      BY <2>2, <3>2 DEF Range
    <3>4. p.sem[1].scope = "gateway" /\ x.scope = s
      BY <1>1, <3>1
    <3>5. at'[c].taken = at'[c].sem
      <4>1. p.sem = <<p.sem[1], p.sem[2]>>
        BY <1>1
      <4>. QED
        BY <1>3, <3>1, <3>2, <4>1, Zenon
    <3>6. HoldsRight(at[c])'
      BY <1>1, <1>3, <3>1, <3>5, CallingHolds
    <3>7. x.scope \in Scopes /\ x.gen \in Gens /\ x = [scope |-> x.scope, gen |-> x.gen]
      BY <3>1 DEF Scopes
    <3>8. x \notin Range(p.taken)
      BY <3>3, <3>4
    <3>. QED
      BY <3>3, <3>6, <3>7, <3>8
  <2>. QED
    BY <1>1, <2>1, <2>2
<1>. HIDE DEF p, x
<1>5. ClientInv'
  BY <1>0, <1>3, <1>4 DEF PermitInv, ClientInv
<1>6. LimitInv'
  BY <1>2, <1>4 DEF PermitInv, LimitInv
<1>7. PermitsConserved'
  <2>. SUFFICES ASSUME NEW y \in Scopes, NEW i \in Gens
                PROVE  used'[y][i] = Cardinality(Holders(y, i)') /\ used'[y][i] <= cap'[y][i]
    BY DEF PermitsConserved
  <2>0. used[y][i] = Cardinality(Holders(y, i)) /\ used[y][i] <= cap[y][i] /\ used[y][i] \in Nat
        /\ IsFiniteSet(Holders(y, i))
    BY HoldersFinite DEF PermitInv, PermitsConserved, LimitInv
  <2>1. CASE [scope |-> y, gen |-> i] = x
    <3>1. Holders(y, i)' = Holders(y, i) \union {c} /\ c \notin Holders(y, i)
      BY <1>0, <1>3, <1>4, <2>1 DEF Holders, p
    <3>2. x.scope = y /\ x.gen = i
      BY <2>1
    <3>3. used'[y][i] = used[y][i] + 1 /\ used[y][i] < cap[y][i] /\ cap[y][i] \in Nat
      BY <1>2, <3>2 DEF PermitInv, LimitInv
    <3>4. Cardinality(Holders(y, i)') = Cardinality(Holders(y, i)) + 1
      BY <2>0, <3>1, FS_AddElement
    <3>. QED
      BY <1>2, <2>0, <3>3, <3>4
  <2>2. CASE [scope |-> y, gen |-> i] # x
    <3>1. Holders(y, i)' = Holders(y, i)
      BY <1>0, <1>3, <1>4, <2>2 DEF Holders, p
    <3>2. used'[y][i] = used[y][i]
      BY <1>2, <1>4, <2>2 DEF PermitInv, LimitInv
    <3>. QED
      BY <1>2, <2>0, <3>1, <3>2
  <2>. QED
    BY <2>1, <2>2
<1>. QED
  BY <1>5, <1>6, <1>7 DEF PermitInv

\* The end of a call, or of its wait, gives back what it holds to the channels it
\* was taken from, and none of them is empty.
LEMMA ReleaseStep == ASSUME PermitInv, NEW c \in Clients, AbortWait(c) \/ Finish(c) PROVE PermitInv'
<1>1. PICK kind : at' = [at EXCEPT ![c] = Answer(c, kind)]
  BY DEF AbortWait, Finish
<1>2. used' = Released(c) /\ UNCHANGED <<cap, gen>>
  BY DEF AbortWait, Finish
<1>3. HoldsRight(Answer(c, kind)) /\ Answer(c, kind).taken = <<>>
  BY AnswerHoldsNothing DEF PermitInv
<1>4. at = [d \in Clients |-> at[d]] /\ at' = [d \in Clients |-> at'[d]]
      /\ at'[c].taken = <<>> /\ HoldsRight(at'[c]) /\ \A d \in Clients \ {c} : at'[d] = at[d]
  BY <1>1, <1>3 DEF PermitInv, ClientInv
<1>5. ClientInv'
  <2>1. ASSUME NEW d \in Clients PROVE HoldsRight(at[d])'
    <3>1. CASE d = c
      BY <1>4, <3>1 DEF HoldsRight
    <3>2. CASE d # c
      <4>1. HoldsRight(at[d]) /\ at'[d] = at[d]
        BY <1>4, <3>2 DEF PermitInv, ClientInv
      <4>. QED
        BY <4>1 DEF HoldsRight
    <3>. QED
      BY <3>1, <3>2
  <2>. QED
    BY <1>4, <2>1 DEF ClientInv
<1>6. ASSUME NEW y \in Scopes, NEW i \in Gens
      PROVE  Holders(y, i)' = Holders(y, i) \ {c}
  BY <1>4, NothingHeld DEF Holders
<1>7. ASSUME NEW y \in Scopes, NEW i \in Gens
      PROVE  /\ used'[y][i] = Cardinality(Holders(y, i)') /\ used'[y][i] <= used[y][i] /\ used'[y][i] \in Nat
  <2>0. used[y][i] = Cardinality(Holders(y, i)) /\ used[y][i] \in Nat /\ IsFiniteSet(Holders(y, i))
    BY HoldersFinite DEF PermitInv, PermitsConserved, LimitInv
  <2>1. Cardinality(Holders(y, i)') = IF c \in Holders(y, i) THEN used[y][i] - 1 ELSE used[y][i]
    BY <1>6, <2>0, FS_RemoveElement
  <2>2. c \in Holders(y, i) <=> [scope |-> y, gen |-> i] \in Range(at[c].taken)
    BY DEF Holders
  <2>3. c \in Holders(y, i) => used[y][i] > 0
    BY <2>0, FS_EmptySet
  <2>4. used'[y][i] = IF c \in Holders(y, i) THEN used[y][i] - 1 ELSE used[y][i]
    BY <1>2, <2>2, <2>3 DEF Released
  <2>. QED
    BY <2>0, <2>1, <2>3, <2>4
<1>8. used' \in [Scopes -> [Gens -> Nat]]
  BY <1>2, <1>7 DEF Released
<1>9. LimitInv'
  BY <1>2, <1>8 DEF PermitInv, LimitInv
<1>10. PermitsConserved'
  <2>. SUFFICES ASSUME NEW y \in Scopes, NEW i \in Gens
                PROVE  used'[y][i] = Cardinality(Holders(y, i)') /\ used'[y][i] <= cap'[y][i]
    BY DEF PermitsConserved
  <2>1. used[y][i] <= cap[y][i] /\ cap'[y][i] = cap[y][i] /\ used[y][i] \in Nat /\ cap[y][i] \in Nat
    BY <1>2 DEF PermitInv, PermitsConserved, LimitInv
  <2>. QED
    BY <1>7, <2>1
<1>. QED
  BY <1>5, <1>9, <1>10 DEF PermitInv

\* A reload gives a generation its first permits before any call can take one.
LEMMA ReloadStep == ASSUME PermitInv, Reload PROVE PermitInv'
<1>1. PICK new \in SUBSET Scopes, n \in Limits :
          /\ \A x \in new : gen[x] < Generations
          /\ gen' = [x \in Scopes |-> IF x \in new THEN gen[x] + 1 ELSE gen[x]]
          /\ cap' = [x \in Scopes |-> IF x \in new THEN [cap[x] EXCEPT ![gen[x] + 1] = n] ELSE cap[x]]
          /\ UNCHANGED <<used, at>>
  BY DEF Reload
<1>2. n \in Nat /\ \A x \in Scopes : gen[x] \in Nat /\ gen[x] >= 1 /\ gen[x] <= Generations
  BY DEF PermitInv, LimitInv, Gens
<1>3. ASSUME NEW x \in Scopes
      PROVE  /\ gen'[x] \in Gens /\ gen'[x] >= gen[x] /\ cap'[x] \in [Gens -> Nat]
             /\ \A g \in Gens : cap'[x][g] # cap[x][g] => g = gen'[x] /\ cap[x][g] = 0
  <2>0. cap[x] \in [Gens -> Nat] /\ \A g \in Gens : g > gen[x] => cap[x][g] = 0
    BY DEF PermitInv, LimitInv
  <2>1. CASE x \in new
    <3>1. gen'[x] = gen[x] + 1 /\ cap'[x] = [cap[x] EXCEPT ![gen[x] + 1] = n]
      BY <1>1, <2>1
    <3>2. gen'[x] \in Gens /\ gen'[x] > gen[x]
      BY <1>1, <1>2, <2>1, <3>1 DEF Gens
    <3>. QED
      BY <1>2, <2>0, <3>1, <3>2
  <2>2. CASE x \notin new
    BY <1>1, <1>2, <2>0, <2>2 DEF Gens
  <2>. QED
    BY <2>1, <2>2
<1>4. LimitInv'
  <2>1. cap' \in [Scopes -> [Gens -> Nat]] /\ gen' \in [Scopes -> Gens] /\ used' = used
    BY <1>1, <1>3
  <2>2. ASSUME NEW x \in Scopes, NEW g \in Gens, g > gen'[x] PROVE cap'[x][g] = 0
    <3>1. gen'[x] \in Nat /\ gen[x] \in Nat /\ gen'[x] >= gen[x] /\ g \in Nat
      BY <1>2, <1>3 DEF Gens
    <3>2. g # gen'[x] /\ g > gen[x]
      BY <2>2, <3>1
    <3>3. cap'[x][g] = cap[x][g]
      BY <1>3, <3>2
    <3>. QED
      BY <3>2, <3>3 DEF PermitInv, LimitInv
  <2>. QED
    BY <2>1, <2>2 DEF PermitInv, LimitInv
<1>5. ClientInv'
  BY <1>1, SameClients DEF PermitInv
<1>6. PermitsConserved'
  <2>. SUFFICES ASSUME NEW x \in Scopes, NEW g \in Gens
                PROVE  used'[x][g] = Cardinality(Holders(x, g)') /\ used'[x][g] <= cap'[x][g]
    BY DEF PermitsConserved
  <2>1. Holders(x, g)' = Holders(x, g) /\ used' = used
    BY <1>1 DEF Holders
  <2>2. /\ used[x][g] = Cardinality(Holders(x, g)) /\ used[x][g] <= cap[x][g]
        /\ used[x][g] \in Nat /\ cap[x][g] \in Nat /\ cap'[x][g] \in Nat
    BY <1>3 DEF PermitInv, PermitsConserved, LimitInv
  <2>3. cap'[x][g] # cap[x][g] => cap[x][g] = 0
    BY <1>3
  <2>. QED
    BY <2>1, <2>2, <2>3
<1>. QED
  BY <1>4, <1>5, <1>6 DEF PermitInv

LEMMA PermitStep == PermitInv /\ [Next]_vars => PermitInv'
<1>. SUFFICES ASSUME PermitInv, [Next]_vars PROVE PermitInv'
  OBVIOUS
<1>1. CASE UNCHANGED vars
  BY <1>1, SameClients DEF vars, PermitInv, LimitInv, PermitsConserved, Holders
<1>2. ASSUME NEW c \in Clients,
             Receive(c) \/ Refuse(c) \/ Forget(c) \/ Handling(c) \/ Acquire(c) \/ AbortWait(c) \/ Finish(c)
      PROVE  PermitInv'
  BY <1>2, UnheldStep, AcquireStep, ReleaseStep DEF Handling
<1>. QED
  BY <1>1, <1>2, ReloadStep DEF Next

\* The accounts of permits always balance, whatever reloads replace the
\* semaphores and whatever calls are aborted while they wait.
THEOREM PermitsKept == Spec => []PermitsConserved
<1>1. PermitInv => PermitsConserved
  BY DEF PermitInv
<1>. QED
  BY <1>1, InitialPermits, PermitStep, PTL DEF Spec
-----------------------------------------------------------------------------
(* Answers: each item that is no notification has been answered, in order. *)

\* The first k items of a message have their answers, and there are no others;
\* a result is only made for a request.
AnsweredTo(items, out, k) ==
    /\ out \in Seq(Range(out))
    /\ \E f \in [1..Len(out) -> 1..k] :
        /\ \A m, n \in 1..Len(out) : m < n => f[m] < f[n]
        /\ \A i \in 1..k : ~IsNotification(items[i]) <=> \E n \in 1..Len(out) : f[n] = i
        /\ \A n \in 1..Len(out) :
            \E kind \in {"result", "error"} :
                /\ out[n] = Reply(items[f[n]], kind)
                /\ kind = "result" => IsRequest(items[f[n]])

\* What is handled is a message the client has sent, with headers that were accepted.
Accepted(c, p) ==
    \E m \in Traffic[c] : p.msg = Handed(m) /\ (c \in Stdio \/ HeadersAccepted(m))

Progress(c, p) ==
    /\ {"pc", "msg", "next", "out", "server", "taken", "sem", "version"} \subseteq DOMAIN p
    /\ p.pc \notin {"idle", "refused"} => Accepted(c, p)
    /\ p.pc \in {"item", "found", "acquire", "call"} =>
        p.next \in 1..Len(p.msg.items) /\ AnsweredTo(p.msg.items, p.out, p.next - 1)
    /\ p.pc \in {"found", "acquire", "call"} => IsRequest(p.msg.items[p.next])
    /\ p.pc \in {"done", "sent"} /\ p.msg.items # <<>> => AnsweredTo(p.msg.items, p.out, Len(p.msg.items))
    /\ p.pc = "sent" /\ c \notin Stdio /\ p.msg.items # <<>> => p.version = ResponseProtocol(p.msg, p.out)

AnswerInv ==
    /\ at = [c \in Clients |-> at[c]]
    /\ \A c \in Clients : Progress(c, at[c])

\* What Append makes of a sequence, whatever is appended.
LEMMA Appended ==
    ASSUME NEW s, s \in Seq(Range(s)), NEW a
    PROVE  /\ Append(s, a) \in Seq(Range(Append(s, a)))
           /\ Len(s) \in Nat /\ Len(Append(s, a)) = Len(s) + 1
           /\ Append(s, a)[Len(s) + 1] = a
           /\ \A i \in 1..Len(s) : Append(s, a)[i] = s[i]
<1>. DEFINE S == Range(s) \union {a}
            t == Append(s, a)
<1>1. s \in Seq(S)
  OBVIOUS
<1>2. /\ t \in Seq(S) /\ Len(s) \in Nat /\ Len(t) = Len(s) + 1
      /\ t[Len(s) + 1] = a /\ \A i \in 1..Len(s) : t[i] = s[i]
  BY <1>1, AppendProperties, LenProperties
<1>3. t = [i \in 1..Len(t) |-> t[i]] /\ \A i \in 1..Len(t) : t[i] \in Range(t)
  <2>. HIDE DEF t
  <2>. QED
    BY <1>2 DEF Range
<1>4. t \in Seq(Range(t))
  BY <1>2, <1>3, IsASeq
<1>. QED
  BY <1>2, <1>4

\* A notification gets no answer.
LEMMA PassedOver ==
    ASSUME NEW items, NEW out, NEW k \in Nat, AnsweredTo(items, out, k),
           IsNotification(items[k + 1])
    PROVE  AnsweredTo(items, out, k + 1)
<1>1. PICK f \in [1..Len(out) -> 1..k] :
        /\ \A m, n \in 1..Len(out) : m < n => f[m] < f[n]
        /\ \A i \in 1..k : ~IsNotification(items[i]) <=> \E n \in 1..Len(out) : f[n] = i
        /\ \A n \in 1..Len(out) :
            \E kind \in {"result", "error"} :
                /\ out[n] = Reply(items[f[n]], kind)
                /\ kind = "result" => IsRequest(items[f[n]])
  BY Zenon DEF AnsweredTo
<1>2. f \in [1..Len(out) -> 1..(k + 1)]
  OBVIOUS
<1>3. \A i \in 1..(k + 1) : ~IsNotification(items[i]) <=> \E n \in 1..Len(out) : f[n] = i
  BY <1>1
<1>4. out \in Seq(Range(out))
  BY DEF AnsweredTo
<1>. QED
  BY <1>1, <1>2, <1>3, <1>4, Zenon DEF AnsweredTo

\* Any other item gets one, after those before it.
LEMMA Replied ==
    ASSUME NEW items, NEW out, NEW new, NEW k \in Nat, AnsweredTo(items, out, k),
           ~IsNotification(items[k + 1]), NEW kind \in {"result", "error"},
           kind = "result" => IsRequest(items[k + 1]),
           new = Append(out, Reply(items[k + 1], kind))
    PROVE  AnsweredTo(items, new, k + 1)
<1>. DEFINE a == Reply(items[k + 1], kind)
            n0 == Len(out)
<1>1. PICK f \in [1..Len(out) -> 1..k] :
        /\ \A m, n \in 1..Len(out) : m < n => f[m] < f[n]
        /\ \A i \in 1..k : ~IsNotification(items[i]) <=> \E n \in 1..Len(out) : f[n] = i
        /\ \A n \in 1..Len(out) :
            \E how \in {"result", "error"} :
                /\ out[n] = Reply(items[f[n]], how)
                /\ how = "result" => IsRequest(items[f[n]])
  BY Zenon DEF AnsweredTo
<1>. HIDE DEF a, n0
<1>2. /\ new \in Seq(Range(new)) /\ n0 \in Nat /\ Len(new) = n0 + 1
      /\ new[n0 + 1] = a /\ \A n \in 1..n0 : new[n] = out[n]
  <2>1. out \in Seq(Range(out))
    BY DEF AnsweredTo
  <2>2. new = Append(out, a)
    BY DEF a
  <2>. QED
    BY <2>1, <2>2, Appended DEF n0
<1>. DEFINE g == [n \in 1..Len(new) |-> IF n = n0 + 1 THEN k + 1 ELSE f[n]]
<1>3. f \in [1..n0 -> 1..k]
  BY DEF n0
<1>4. g \in [1..Len(new) -> 1..(k + 1)]
  BY <1>2, <1>3
<1>5. g[n0 + 1] = k + 1 /\ \A n \in 1..n0 : g[n] = f[n]
  BY <1>2, <1>3
<1>. HIDE DEF g
<1>6. ASSUME NEW m \in 1..Len(new), NEW n \in 1..Len(new), m < n PROVE g[m] < g[n]
  <2>1. m \in 1..n0
    BY <1>2, <1>6
  <2>2. CASE n \in 1..n0
    <3>1. g[m] = f[m] /\ g[n] = f[n]
      BY <1>5, <2>1, <2>2, Zenon
    <3>2. f[m] < f[n]
      BY <1>1, <1>6, <2>1, <2>2, Zenon DEF n0
    <3>. QED
      BY <3>1, <3>2, Zenon
  <2>3. CASE n = n0 + 1
    <3>1. g[m] = f[m] /\ g[n] = k + 1
      BY <1>5, <2>1, <2>3, Zenon
    <3>2. f[m] \in 1..k
      BY <1>3, <2>1, Zenon
    <3>. QED
      BY <3>1, <3>2
  <2>. QED
    BY <1>2, <2>2, <2>3
<1>7. ASSUME NEW i \in 1..(k + 1)
      PROVE  ~IsNotification(items[i]) <=> \E n \in 1..Len(new) : g[n] = i
  <2>1. CASE i = k + 1
    BY <1>2, <1>5, <2>1
  <2>2. CASE i \in 1..k
    <3>1. ~IsNotification(items[i]) <=> \E n \in 1..n0 : f[n] = i
      BY <1>1, <2>2, Zenon DEF n0
    <3>2. (\E n \in 1..n0 : f[n] = i) <=> \E n \in 1..Len(new) : g[n] = i
      <4>1. ASSUME NEW n \in 1..n0, f[n] = i PROVE n \in 1..Len(new) /\ g[n] = i
        BY <1>2, <1>5, <4>1
      <4>2. ASSUME NEW n \in 1..Len(new), g[n] = i PROVE n \in 1..n0 /\ f[n] = i
        BY <1>2, <1>5, <2>2, <4>2
      <4>. QED
        BY <4>1, <4>2, Zenon
    <3>. QED
      BY <3>1, <3>2, Zenon
  <2>. QED
    BY <2>1, <2>2
<1>8. ASSUME NEW n \in 1..Len(new)
      PROVE  \E how \in {"result", "error"} :
                /\ new[n] = Reply(items[g[n]], how)
                /\ how = "result" => IsRequest(items[g[n]])
  <2>1. CASE n = n0 + 1
    BY <1>2, <1>5, <2>1, Zenon DEF a
  <2>2. CASE n \in 1..n0
    <3>1. new[n] = out[n] /\ g[n] = f[n] /\ n \in 1..Len(out)
      BY <1>2, <1>5, <2>2 DEF n0
    <3>. QED
      BY <1>1, <3>1, Zenon
  <2>. QED
    BY <1>2, <2>1, <2>2
<1>9. \E h \in [1..Len(new) -> 1..(k + 1)] :
        /\ \A m, n \in 1..Len(new) : m < n => h[m] < h[n]
        /\ \A i \in 1..(k + 1) : ~IsNotification(items[i]) <=> \E n \in 1..Len(new) : h[n] = i
        /\ \A n \in 1..Len(new) :
            \E how \in {"result", "error"} :
                /\ new[n] = Reply(items[h[n]], how)
                /\ how = "result" => IsRequest(items[h[n]])
  <2>. WITNESS g \in [1..Len(new) -> 1..(k + 1)]
  <2>. QED
    BY <1>6, <1>7, <1>8, Zenon
<1>. HIDE DEF g
<1>. QED
  BY <1>2, <1>9, Zenon DEF AnsweredTo

\* A message that is handled has its items, one if it is no batch.
LEMMA AcceptedShape ==
    ASSUME NEW c \in Clients, NEW p, Accepted(c, p)
    PROVE  /\ Len(p.msg.items) \in Nat /\ (p.msg.items = <<>> <=> Len(p.msg.items) = 0)
           /\ DOMAIN p.msg.items = 1..Len(p.msg.items)
           /\ p.msg.batch \/ Len(p.msg.items) = 1
<1>1. PICK m \in Traffic[c] : p.msg = Handed(m)
  BY Zenon DEF Accepted
<1>2. /\ DOMAIN m = {"batch", "items", "header"}
      /\ m.items \in Seq(Range(m.items)) /\ (m.batch \/ Len(m.items) = 1)
  BY TrafficAssumption, Zenon
<1>3. p.msg.items = m.items /\ p.msg.batch = m.batch
  BY <1>1, <1>2 DEF Handed
<1>4. Len(m.items) \in Nat /\ DOMAIN m.items = 1..Len(m.items) /\ (m.items = <<>> <=> Len(m.items) = 0)
  BY <1>2, EmptySeq, LenProperties
<1>. QED
  BY <1>2, <1>3, <1>4

LEMMA OneClientMoves ==
    ASSUME AnswerInv, NEW c \in Clients, NEW q, at' = [at EXCEPT ![c] = q], Progress(c, q)
    PROVE  AnswerInv'
<1>1. ASSUME NEW d \in Clients PROVE Progress(d, at'[d])
  BY DEF AnswerInv
<1>2. at' = [d \in Clients |-> at'[d]]
  BY DEF AnswerInv
<1>. QED
  BY <1>1, <1>2 DEF AnswerInv

LEMMA InitialAnswers == Init => AnswerInv
<1>1. ASSUME NEW c \in Clients PROVE Progress(c, Waiting)
  BY DEF Progress, Waiting
<1>. QED
  BY <1>1 DEF Init, AnswerInv

\* Before the first item nothing is answered.
LEMMA NothingAnswered == ASSUME NEW items PROVE AnsweredTo(items, <<>>, 0)
<1>1. <<>> \in Seq(Range(<<>>)) /\ Len(<<>>) = 0
  OBVIOUS
<1>2. [i \in {} |-> 0] \in [{} -> {}]
  OBVIOUS
<1>3. 1..0 = {}
  OBVIOUS
<1>. QED
  BY <1>1, <1>2, <1>3 DEF AnsweredTo

\* The end of handleOne, whichever way the item went.
LEMMA AnswerProgress ==
    ASSUME AnswerInv, NEW c \in Clients, at[c].pc \in {"item", "acquire", "call"},
           NEW kind \in {"result", "error"}, kind = "result" => IsRequest(Item(c))
    PROVE  Progress(c, Answer(c, kind))
<1>. DEFINE p == at[c]
            q == Answer(c, kind)
            items == p.msg.items
<1>1. /\ {"pc", "msg", "next", "out", "server", "taken", "sem", "version"} \subseteq DOMAIN p
      /\ Accepted(c, p) /\ p.next \in 1..Len(items) /\ AnsweredTo(items, p.out, p.next - 1)
  BY DEF AnswerInv, Progress
<1>2. /\ {"pc", "msg", "next", "out", "server", "taken", "sem", "version"} \subseteq DOMAIN q
      /\ q.msg = p.msg
      /\ q.out = (IF IsNotification(items[p.next]) THEN p.out ELSE Append(p.out, Reply(items[p.next], kind)))
      /\ q.pc = (IF p.next = Len(items) THEN "done" ELSE "item")
      /\ q.next = (IF p.next = Len(items) THEN p.next ELSE p.next + 1)
  BY <1>1 DEF Answer, Item
<1>3. Len(items) \in Nat /\ (items = <<>> <=> Len(items) = 0)
  BY <1>1, AcceptedShape
<1>4. kind = "result" => IsRequest(items[p.next])
  BY DEF Item
<1>. HIDE DEF p, q, items
<1>5. AnsweredTo(items, q.out, p.next)
  <2>1. p.next - 1 \in Nat /\ (p.next - 1) + 1 = p.next
    BY <1>1, <1>3
  <2>2. CASE IsNotification(items[p.next])
    <3>1. q.out = p.out
      BY <1>2, <2>2
    <3>. QED
      BY <1>1, <2>1, <2>2, <3>1, PassedOver
  <2>3. CASE ~IsNotification(items[p.next])
    <3>1. q.out = Append(p.out, Reply(items[p.next], kind))
      BY <1>2, <2>3
    <3>. DEFINE k == p.next - 1
    <3>2. AnsweredTo(items, p.out, k) /\ k + 1 = p.next /\ k \in Nat
      BY <1>1, <2>1
    <3>. HIDE DEF k
    <3>. QED
      BY <1>4, <2>3, <3>1, <3>2, Replied
  <2>. QED
    BY <2>2, <2>3
<1>6. Accepted(c, q)
  BY <1>1, <1>2 DEF Accepted
<1>7. q.pc = "item" => q.next \in 1..Len(items) /\ q.next - 1 = p.next
  BY <1>1, <1>2, <1>3
<1>8. q.pc = "done" => p.next = Len(items)
  BY <1>2
<1>9. items = q.msg.items
  BY <1>2 DEF items
<1>10. q.pc \in {"item", "done"}
  BY <1>2
<1>11. Progress(c, q)
  BY <1>2, <1>5, <1>6, <1>7, <1>8, <1>9, <1>10 DEF Progress
<1>. QED
  BY <1>11 DEF q

\* A message is taken with the headers it came with, or refused.
LEMMA ReceiveStep == ASSUME AnswerInv, NEW c \in Clients, Receive(c) PROVE AnswerInv'
<1>1. PICK m \in Traffic[c] :
        /\ c \in Stdio \/ HeadersAccepted(m)
        /\ at' = [at EXCEPT ![c] = [Waiting EXCEPT !.msg = Handed(m), !.pc = IF m.items = <<>> THEN "done" ELSE "item",
                    !.out = IF m.items = <<>> THEN <<[kind |-> "error", id |-> "null", modern |-> FALSE, version |-> ""]>> ELSE <<>>]]
  BY Zenon DEF Receive
<1>. DEFINE q == [Waiting EXCEPT !.msg = Handed(m), !.pc = IF m.items = <<>> THEN "done" ELSE "item",
                    !.out = IF m.items = <<>> THEN <<[kind |-> "error", id |-> "null", modern |-> FALSE, version |-> ""]>> ELSE <<>>]
<1>2. /\ {"pc", "msg", "next", "out", "server", "taken", "sem", "version"} \subseteq DOMAIN q
      /\ q.msg = Handed(m) /\ q.pc = (IF m.items = <<>> THEN "done" ELSE "item") /\ q.next = 1
      /\ (m.items # <<>> => q.out = <<>>)
  BY DEF Waiting
<1>3. at' = [at EXCEPT ![c] = q]
  BY <1>1
<1>. HIDE DEF q
<1>4. Accepted(c, q)
  BY <1>1, <1>2, Zenon DEF Accepted
<1>5. q.msg.items = m.items
  <2>1. DOMAIN m = {"batch", "items", "header"}
    BY TrafficAssumption, Zenon
  <2>. QED
    BY <1>2, <2>1 DEF Handed
<1>6. Len(m.items) \in Nat /\ (m.items = <<>> <=> Len(m.items) = 0)
  BY <1>4, <1>5, AcceptedShape
<1>7. m.items # <<>> => AnsweredTo(m.items, q.out, 0) /\ q.next \in 1..Len(m.items) /\ q.next - 1 = 0
  BY <1>2, <1>6, NothingAnswered
<1>8. Progress(c, q)
  BY <1>2, <1>4, <1>5, <1>7 DEF Progress
<1>. QED
  BY <1>3, <1>8, OneClientMoves

\* Items that are answered at once, and those that go on to a backend.
LEMMA DispatchStep == ASSUME AnswerInv, NEW c \in Clients, Dispatch(c) PROVE AnswerInv'
<1>1. ASSUME NEW kind \in {"result", "error"}, at[c].pc = "item", kind = "result" => IsRequest(Item(c)),
             at' = [at EXCEPT ![c] = Answer(c, kind)]
      PROVE  AnswerInv'
  BY <1>1, AnswerProgress, OneClientMoves
<1>2. ASSUME NEW method, Served(c, method) PROVE AnswerInv'
  BY <1>1, <1>2 DEF Served, Asked
<1>3. ASSUME NEW method, Listed(c, method) PROVE AnswerInv'
  BY <1>1, <1>3 DEF Listed, Asked
<1>4. CASE Invalid(c)
  BY <1>1, <1>4 DEF Invalid
<1>5. ASSUME NEW method, NEW s, Asked(c, method), FindBackend(c, s) PROVE AnswerInv'
  <2>. DEFINE q == [at[c] EXCEPT !.pc = "found", !.server = s, !.sem = <<[scope |-> s, gen |-> gen[s]]>>]
  <2>1. at' = [at EXCEPT ![c] = q]
    BY <1>5 DEF FindBackend
  <2>2. Progress(c, at[c]) /\ at[c].pc = "item" /\ IsRequest(at[c].msg.items[at[c].next])
    BY <1>5 DEF Asked, Item, AnswerInv
  <2>3. Progress(c, q)
    BY <2>2 DEF Progress, Accepted
  <2>. QED
    BY <2>1, <2>3, OneClientMoves
<1>. QED
  BY <1>2, <1>3, <1>4, <1>5 DEF Dispatch, ServerDiscover, Initialize, Acknowledge, ListTools, ListResources,
     ListResourceTemplates, ListPrompts, CallTool, ReadResource, GetPrompt

\* The wait for permits and the call change no answer before they end.
LEMMA CallingStep ==
    ASSUME AnswerInv, NEW c \in Clients, FindSemaphore(c) \/ Acquire(c) \/ AbortWait(c) \/ Finish(c)
    PROVE  AnswerInv'
<1>0. Progress(c, at[c])
  BY DEF AnswerInv
<1>1. ASSUME NEW q, at' = [at EXCEPT ![c] = q], at[c].pc \in {"found", "acquire"}, q.pc \in {"acquire", "call"},
             {"pc", "msg", "next", "out", "server", "taken", "sem", "version"} \subseteq DOMAIN q,
             q.msg = at[c].msg, q.out = at[c].out, q.next = at[c].next
      PROVE  AnswerInv'
  <2>1. Progress(c, q)
    BY <1>0, <1>1 DEF Progress, Accepted
  <2>. QED
    BY <1>1, <2>1, OneClientMoves
<1>2. CASE FindSemaphore(c)
  <2>. DEFINE q == [at[c] EXCEPT !.pc = "acquire",
                !.sem = Order(c, [scope |-> "gateway", gen |-> gen["gateway"]], at[c].sem[1])]
  <2>1. at[c].pc = "found" /\ at' = [at EXCEPT ![c] = q]
    BY <1>2 DEF FindSemaphore
  <2>2. /\ q.pc = "acquire" /\ q.msg = at[c].msg /\ q.out = at[c].out /\ q.next = at[c].next
        /\ {"pc", "msg", "next", "out", "server", "taken", "sem", "version"} \subseteq DOMAIN q
    BY <1>0 DEF Progress
  <2>. HIDE DEF q
  <2>. QED
    BY <1>1, <2>1, <2>2
<1>3. CASE Acquire(c)
  BY <1>0, <1>1, <1>3 DEF Acquire, Progress
<1>4. CASE AbortWait(c)
  <2>1. at[c].pc = "acquire" /\ at' = [at EXCEPT ![c] = Answer(c, "error")]
    BY <1>4 DEF AbortWait
  <2>2. Progress(c, Answer(c, "error"))
    BY <2>1, AnswerProgress
  <2>. QED
    BY <2>1, <2>2, OneClientMoves
<1>5. CASE Finish(c)
  <2>1. PICK kind \in {"result", "error"} : at' = [at EXCEPT ![c] = Answer(c, kind)]
    BY <1>5 DEF Finish
  <2>2. at[c].pc = "call" /\ IsRequest(Item(c))
    BY <1>0, <1>5 DEF Finish, Progress, Item
  <2>3. Progress(c, Answer(c, kind))
    BY <2>2, AnswerProgress
  <2>. QED
    BY <2>1, <2>3, OneClientMoves
<1>. QED
  BY <1>2, <1>3, <1>4, <1>5

\* The version header is decided when everything is answered.
LEMMA RespondStep == ASSUME AnswerInv, NEW c \in Clients, Respond(c) PROVE AnswerInv'
<1>0. Progress(c, at[c])
  BY DEF AnswerInv
<1>. DEFINE q == [at[c] EXCEPT !.pc = "sent",
            !.version = IF c \in Stdio \/ at[c].msg.items = <<>> THEN ""
                        ELSE ResponseProtocol(at[c].msg, at[c].out)]
<1>1. at[c].pc = "done" /\ at' = [at EXCEPT ![c] = q]
  BY DEF Respond
<1>2. /\ q.pc = "sent" /\ q.msg = at[c].msg /\ q.out = at[c].out
      /\ {"pc", "msg", "next", "out", "server", "taken", "sem", "version"} \subseteq DOMAIN q
      /\ c \notin Stdio /\ at[c].msg.items # <<>> => q.version = ResponseProtocol(at[c].msg, at[c].out)
  BY <1>0 DEF Progress
<1>. HIDE DEF q
<1>3. Progress(c, q)
  BY <1>0, <1>1, <1>2 DEF Progress, Accepted
<1>. QED
  BY <1>1, <1>3, OneClientMoves

LEMMA AnswerStep == AnswerInv /\ [Next]_vars => AnswerInv'
<1>. SUFFICES ASSUME AnswerInv, [Next]_vars PROVE AnswerInv'
  OBVIOUS
<1>1. CASE UNCHANGED vars \/ Reload
  BY <1>1 DEF vars, Reload, AnswerInv
<1>2. ASSUME NEW c \in Clients, Refuse(c) \/ Forget(c) PROVE AnswerInv'
  <2>1. Progress(c, Waiting) /\ Progress(c, [Waiting EXCEPT !.pc = "refused"])
    BY DEF Progress, Waiting
  <2>. QED
    BY <1>2, <2>1, OneClientMoves DEF Refuse, Forget
<1>. QED
  BY <1>1, <1>2, ReceiveStep, DispatchStep, CallingStep, RespondStep DEF Next, Handling

\* An HTTP client and one on stdin get one answer for each item of a message
\* that is no notification, in the order of the items and with their ids,
\* whatever reloads and aborted waits come between the items.
THEOREM AnswersMatch == Spec => []AnswersMatchItems
<1>1. ASSUME AnswerInv PROVE AnswersMatchItems
  <2>. SUFFICES ASSUME NEW c \in Clients, at[c].pc = "sent", at[c].msg.items # <<>>
                PROVE  \E f \in [DOMAIN at[c].out -> DOMAIN at[c].msg.items] :
                    /\ \A m, n \in DOMAIN at[c].out : m < n => f[m] < f[n]
                    /\ \A i \in DOMAIN at[c].msg.items :
                        ~IsNotification(at[c].msg.items[i]) <=> \E n \in DOMAIN at[c].out : f[n] = i
                    /\ \A n \in DOMAIN at[c].out : at[c].out[n].id = ReplyId(at[c].msg.items[f[n]])
    BY Zenon DEF AnswersMatchItems
  <2>. DEFINE items == at[c].msg.items
              out == at[c].out
  <2>1. AnsweredTo(items, out, Len(items)) /\ Accepted(c, at[c])
    BY <1>1 DEF AnswerInv, Progress
  <2>2. DOMAIN items = 1..Len(items)
    BY <2>1, AcceptedShape
  <2>3. DOMAIN out = 1..Len(out)
    <3>1. out \in Seq(Range(out))
      BY <2>1, Zenon DEF AnsweredTo
    <3>. QED
      BY <3>1, LenProperties
  <2>. HIDE DEF items, out
  <2>4. \A i, kind : Reply(i, kind).id = ReplyId(i)
    BY DEF Reply
  <2>5. \E f \in [DOMAIN out -> DOMAIN items] :
                    /\ \A m, n \in DOMAIN out : m < n => f[m] < f[n]
                    /\ \A i \in DOMAIN items : ~IsNotification(items[i]) <=> \E n \in DOMAIN out : f[n] = i
                    /\ \A n \in DOMAIN out : out[n].id = ReplyId(items[f[n]])
    <3>1. PICK f \in [1..Len(out) -> 1..Len(items)] :
        /\ \A m, n \in 1..Len(out) : m < n => f[m] < f[n]
        /\ \A i \in 1..Len(items) : ~IsNotification(items[i]) <=> \E n \in 1..Len(out) : f[n] = i
        /\ \A n \in 1..Len(out) :
            \E kind \in {"result", "error"} :
                /\ out[n] = Reply(items[f[n]], kind)
                /\ kind = "result" => IsRequest(items[f[n]])
      BY <2>1, Zenon DEF AnsweredTo
    <3>2. ASSUME NEW n \in 1..Len(out) PROVE out[n].id = ReplyId(items[f[n]])
      <4>1. PICK kind \in {"result", "error"} : out[n] = Reply(items[f[n]], kind)
        BY <3>1, Zenon
      <4>2. out[n].id = Reply(items[f[n]], kind).id
        BY <4>1
      <4>. QED
        BY <2>4, <4>2, Zenon
    <3>. QED
      BY <2>2, <2>3, <3>1, <3>2
  <2>. QED
    BY <2>5 DEF items, out
<1>. QED
  BY <1>1, InitialAnswers, AnswerStep, PTL DEF Spec

\* A single request that has a result: the headers were held against it.
LEMMA HeaderSays ==
    ASSUME NEW i, NEW m, HeadersAccepted(m), IsRequest(i), ~m.batch, m.items[1] = i
    PROVE  /\ m.header.proto = "" => i.proto # Latest
           /\ m.header.proto # "" => (m.header.proto = Latest <=> i.proto = Latest)
           /\ m.header.proto = Latest => i.method # "initialize"
  BY DEF HeadersAccepted, SingleAccepted, Latest

\* The protocol version that an HTTP client reads in the header of a single
\* answer is the one the answer itself follows, for every message the headers
\* of which are accepted.
THEOREM VersionTrue == Spec => []VersionHeaderTrue
<1>1. ASSUME AnswerInv PROVE VersionHeaderTrue
  <2>. SUFFICES ASSUME NEW c \in Clients \ Stdio, at[c].pc = "sent", ~at[c].msg.batch,
                       at[c].out # <<>>, at[c].out[1].kind = "result"
                PROVE  /\ at[c].out[1].version # "" => at[c].version = at[c].out[1].version
                       /\ at[c].msg.items[1].method # "server/discover" =>
                            (at[c].version = Latest <=> at[c].out[1].modern)
    BY Zenon DEF VersionHeaderTrue
  <2>. DEFINE msg == at[c].msg
              i == msg.items[1]
              out == at[c].out
  <2>1. /\ Progress(c, at[c]) /\ Accepted(c, at[c])
        /\ Len(msg.items) \in Nat /\ Len(msg.items) = 1 /\ msg.items # <<>>
    <3>1. Progress(c, at[c]) /\ Accepted(c, at[c])
      BY <1>1 DEF AnswerInv, Progress
    <3>2. Len(msg.items) \in Nat /\ (msg.items = <<>> <=> Len(msg.items) = 0) /\ (msg.batch \/ Len(msg.items) = 1)
      BY <3>1, AcceptedShape
    <3>. QED
      BY <3>1, <3>2
  <2>2. AnsweredTo(msg.items, out, 1) /\ at[c].version = ResponseProtocol(msg, out)
    BY <2>1 DEF Progress
  <2>3. out \in Seq(Range(out)) /\ Len(out) \in Nat /\ 1 \in 1..Len(out)
    <3>1. out \in Seq(Range(out))
      BY <2>2, Zenon DEF AnsweredTo
    <3>. QED
      BY <3>1, EmptySeq, LenProperties
  <2>4. PICK kind \in {"result", "error"} : out[1] = Reply(i, kind) /\ (kind = "result" => IsRequest(i))
    <3>1. PICK f \in [1..Len(out) -> 1..1] :
            \A n \in 1..Len(out) :
              \E kind \in {"result", "error"} :
                /\ out[n] = Reply(msg.items[f[n]], kind)
                /\ kind = "result" => IsRequest(msg.items[f[n]])
      BY <2>2, Zenon DEF AnsweredTo
    <3>2. f[1] = 1
      BY <2>3
    <3>. QED
      BY <2>3, <3>1, <3>2, Zenon
  <2>5. kind = "result" /\ IsRequest(i) /\ (out[1].modern <=> IsModernRequest(i))
        /\ out[1].version = IF i.method = "initialize" THEN Negotiated(i) ELSE ""
    <3>. HIDE DEF i
    <3>1. Reply(i, kind).kind = kind
      BY DEF Reply
    <3>2. kind = "result" /\ IsRequest(i)
      BY <2>4, <3>1
    <3>3. Reply(i, "result").version = IF i.method = "initialize" THEN Negotiated(i) ELSE ""
      BY DEF Reply
    <3>4. Reply(i, "result").modern <=> IsModernRequest(i)
      BY DEF Reply, IsModernRequest
    <3>. QED
      BY <2>4, <3>2, <3>3, <3>4
  <2>6. PICK m \in Traffic[c] : msg = Handed(m) /\ HeadersAccepted(m)
    BY <2>1, Zenon DEF Accepted
  <2>7. msg.items = m.items /\ msg.batch = m.batch /\ msg.header.proto = m.header.proto
    <3>1. DOMAIN m = {"batch", "items", "header"} /\ DOMAIN m.header = {"proto", "method", "name"}
      BY TrafficAssumption, Zenon
    <3>2. Handed(m).items = m.items /\ Handed(m).batch = m.batch /\ Handed(m).header.proto = m.header.proto
      BY <3>1 DEF Handed
    <3>. QED
      BY <2>6, <3>2
  <2>. DEFINE h == msg.header.proto
  <2>8. /\ h = "" => i.proto # Latest
        /\ h # "" => (h = Latest <=> i.proto = Latest)
        /\ h = Latest => i.method # "initialize"
    BY <2>5, <2>6, <2>7, HeaderSays
  <2>9. Negotiated(i) \in LegacyProtocols /\ Latest \notin LegacyProtocols /\ "" \notin LegacyProtocols
    BY DEF Negotiated, LegacyProtocols, Latest, Previous
  <2>10. ResponseProtocol(msg, out) =
            IF i.method = "initialize" THEN out[1].version
            ELSE IF h # "" THEN h ELSE IF i.proto \in SupportedProtocols THEN i.proto ELSE Previous
    BY <2>5 DEF ResponseProtocol
  <2>. HIDE DEF msg, i, out, h
  <2>11. CASE i.method = "initialize"
    <3>1. at[c].version = out[1].version /\ out[1].version = Negotiated(i)
      BY <2>2, <2>5, <2>10, <2>11
    <3>2. ~out[1].modern /\ at[c].version # Latest
      BY <2>5, <2>8, <2>9, <2>11, <3>1 DEF IsModernRequest
    <3>. QED
      BY <3>1, <3>2 DEF out
  <2>12. CASE i.method # "initialize"
    <3>1. out[1].version = ""
      BY <2>5, <2>12
    <3>2. at[c].version = IF h # "" THEN h ELSE IF i.proto \in SupportedProtocols THEN i.proto ELSE Previous
      BY <2>2, <2>10, <2>12
    <3>3. i.method # "server/discover" => (at[c].version = Latest <=> out[1].modern)
      BY <2>5, <2>8, <3>2 DEF IsModernRequest, Latest, Previous
    <3>. QED
      BY <3>1, <3>3 DEF out, i, msg
  <2>. QED
    BY <2>11, <2>12
<1>. QED
  BY <1>1, InitialAnswers, AnswerStep, PTL DEF Spec

-----------------------------------------------------------------------------
(* Worker pools: no job is lost and none is run twice.                     *)

USE JobsAssumption

PoolTypeOK ==
    /\ configured \subseteq Backends /\ todo \subseteq listed /\ listed \subseteq Backends
    /\ pc \in {"idle", "listed", "send", "wait"}
    /\ worker \in [Workers -> Backends \union {"none", "ready"}]
    /\ ran \in [Backends -> Nat]
    /\ closed \in BOOLEAN /\ cancelled \in BOOLEAN

\* A job of the round is with the producer, with one worker, or done: the three
\* exclude each other, and during the round a job cannot be elsewhere.
JobInv ==
    /\ \A v, w \in Workers : worker[v] = worker[w] /\ worker[w] \in Backends => v = w
    /\ \A w \in Workers : worker[w] \in Backends =>
        worker[w] \in listed \ todo /\ ran[worker[w]] = 0
    /\ \A b \in Backends :
        /\ b \in todo \/ b \notin listed => ran[b] = 0
        /\ ran[b] \in {0, 1}
        /\ b \in listed \ todo /\ ran[b] = 0 =>
              (\E w \in Workers : worker[w] = b) \/ (cancelled /\ pc = "idle")

\* Workers exist only while the producer hands out jobs or waits for them, and it
\* leaves jobs only when it has been cancelled.
RoundInv ==
    /\ pc \in {"idle", "listed"} => \A w \in Workers : worker[w] = "none"
    /\ pc = "idle" => todo = {}
    /\ pc = "wait" => todo = {} \/ cancelled

PoolInv == PoolTypeOK /\ JobInv /\ RoundInv

\* No job is out before the first round.
LEMMA PoolInitial == PoolInit => PoolInv
<1>. SUFFICES ASSUME PoolInit PROVE PoolInv
  OBVIOUS
<1>1. PoolTypeOK
  BY DEF PoolInit, PoolTypeOK
<1>2. \A w \in Workers : worker[w] = "none" /\ worker[w] \notin Backends
  BY DEF PoolInit
<1>3. JobInv
  BY <1>2 DEF PoolInit, JobInv
<1>4. RoundInv
  BY <1>2 DEF PoolInit, RoundInv
<1>. QED
  BY <1>1, <1>3, <1>4 DEF PoolInv

\* Every step of the producer, of a worker, of a cancellation and of a reload.
LEMMA PoolStep == PoolInv /\ [PoolNext]_poolVars => PoolInv'
<1>. SUFFICES ASSUME PoolInv, [PoolNext]_poolVars PROVE PoolInv'
  OBVIOUS
<1>. USE DEF PoolInv, PoolTypeOK, JobInv, RoundInv
<1>1. CASE List
  BY <1>1 DEF List
<1>2. CASE StartWorkers
  <2>1. \A w \in Workers : worker[w] = "none" /\ worker[w] \notin Backends
    BY <1>2 DEF StartWorkers
  <2>2. \A w \in Workers : worker'[w] \in {"none", "ready"} /\ worker'[w] \notin Backends
    BY <1>2 DEF StartWorkers
  <2>3. PoolTypeOK' /\ RoundInv'
    BY <1>2 DEF StartWorkers
  <2>4. JobInv'
    BY <1>2, <2>1, <2>2 DEF StartWorkers
  <2>. QED
    BY <2>3, <2>4
<1>3. ASSUME NEW w \in Workers, Send(w) PROVE PoolInv'
  BY <1>3 DEF Send
<1>4. CASE EndSending
  BY <1>4 DEF EndSending
<1>5. CASE Return
  BY <1>5 DEF Return
<1>6. ASSUME NEW w \in Workers, RunJob(w) PROVE PoolInv'
  BY <1>6 DEF RunJob
<1>7. ASSUME NEW w \in Workers, EndWorker(w) PROVE PoolInv'
  BY <1>7 DEF EndWorker
<1>8. CASE Cancel
  BY <1>8 DEF Cancel
<1>9. CASE Reconfigure
  BY <1>9 DEF Reconfigure
<1>10. CASE UNCHANGED poolVars
  BY <1>10 DEF poolVars
<1>. QED
  BY <1>1, <1>2, <1>3, <1>4, <1>5, <1>6, <1>7, <1>8, <1>9, <1>10 DEF PoolNext, Produce, Work

\* For every number of servers and workers and whatever the limits: when
\* DiscoverAll or runHealthChecks returns, every server was done exactly once,
\* or at most once after a cancellation, and no worker is left.
THEOREM JobsDoneOnce == PoolSpec => []EveryServerOnce
<1>1. PoolInv => EveryServerOnce
  BY DEF PoolInv, PoolTypeOK, JobInv, RoundInv, EveryServerOnce
<1>. QED
  BY PoolInitial, PoolStep, <1>1, PTL DEF PoolSpec

-----------------------------------------------------------------------------
(* The files of the log.                                                   *)

USE SizesAssumption, FilesAssumption

Rows == [n : Nat, size : Nat]

FileTypes ==
    /\ file \in Seq(Rows) /\ archive \in [1..Keep -> Seq(Rows)]
    /\ logger \in [Loggers -> Nat] /\ written \in Nat /\ trouble \in BOOLEAN
    /\ {"handle", "size", "owner", "turn"} \subseteq DOMAIN writer
    /\ writer.turn \in -1..(Keep - 1)

\* No record has a number that has not been given out.
Numbered == \A k \in 0..Keep : \A a \in DOMAIN Files[k] : Files[k][a].n <= written

\* While nothing fails, a rotation has made room before each of its renames but
\* the first, which replaces the oldest file.
RoomMade == ~trouble /\ writer.turn \in 0..(Keep - 2) => archive[writer.turn + 1] = Gone

FileInv == FileTypes /\ Numbered /\ LogInOrder /\ RoomMade

LEMMA GoneRows == Gone \in Seq(Rows) /\ Gone # <<>> /\ \A a \in DOMAIN Gone : Gone[a].n = 0
  BY DEF Gone, Rows

LEMMA NoRows == <<>> \in Seq(Rows) /\ DOMAIN <<>> = {}
  OBVIOUS

LEMMA RowTypes ==
    ASSUME FileTypes, NEW k \in 0..Keep
    PROVE  /\ Files[k] \in Seq(Rows)
           /\ DOMAIN Files[k] = 1..Len(Files[k]) /\ Len(Files[k]) \in Nat
           /\ \A a \in DOMAIN Files[k] : Files[k][a] \in Rows /\ Files[k][a].n \in Nat
<1>1. Files[k] \in Seq(Rows)
  BY DEF FileTypes, Files
<1>2. DOMAIN Files[k] = 1..Len(Files[k]) /\ Len(Files[k]) \in Nat /\ \A a \in DOMAIN Files[k] : Files[k][a] \in Rows
  BY <1>1
<1>. QED
  BY <1>1, <1>2 DEF Rows

LEMMA GoneNumbers == ASSUME NEW k, Files[k] = Gone PROVE Numbers(k) = {}
  BY GoneRows DEF Numbers

\* Files that move up without one passing another stay in order; what takes the
\* place of the others holds no record.
LEMMA MovedUp ==
    ASSUME FileTypes, Numbered, LogInOrder, NEW J \in SUBSET (0..Keep), NEW from \in [J -> 0..Keep],
           \A j, k \in J : j > k => from[j] > from[k],
           \A k \in J : Files'[k] = Files[from[k]],
           \A k \in (0..Keep) \ J : \A a \in DOMAIN Files'[k] : Files'[k][a].n = 0,
           written' = written
    PROVE  Numbered' /\ LogInOrder'
<1>1. ASSUME NEW k \in 0..Keep, NEW a \in DOMAIN Files'[k] PROVE Files'[k][a].n <= written'
  <2>1. CASE k \in J
    BY <2>1 DEF Numbered
  <2>2. CASE k \notin J
    BY <2>2 DEF FileTypes
  <2>. QED
    BY <2>1, <2>2
<1>2. ASSUME NEW j \in 0..Keep, NEW k \in 0..Keep, NEW a \in DOMAIN Files'[j], NEW b \in DOMAIN Files'[k],
             j > k \/ (j = k /\ a < b), Files'[j][a].n > 0, Files'[k][b].n > 0
      PROVE  Files'[j][a].n < Files'[k][b].n
  <2>1. j \in J /\ k \in J
    BY <1>2
  <2>2. Files'[j] = Files[from[j]] /\ Files'[k] = Files[from[k]]
    BY <2>1
  <2>3. from[j] > from[k] \/ (from[j] = from[k] /\ a < b)
    BY <1>2, <2>1
  <2>. QED
    BY <1>2, <2>1, <2>2, <2>3 DEF LogInOrder
<1>. QED
  BY <1>1, <1>2 DEF Numbered, LogInOrder

\* A record at the end of the file is the latest, or is cut short.
LEMMA AddedRow ==
    ASSUME FileTypes, Numbered, LogInOrder, NEW r \in Rows, file' = Append(file, r), archive' = archive,
           \/ r.n = 0 /\ written' = written
           \/ r.n = written + 1 /\ written' = written + 1
    PROVE  Numbered' /\ LogInOrder'
<1>1. /\ DOMAIN file = 1..Len(file) /\ Len(file) \in Nat
      /\ DOMAIN file' = 1..(Len(file) + 1) /\ file'[Len(file) + 1] = r
      /\ \A a \in 1..Len(file) : file'[a] = file[a]
  BY AppendProperties DEF FileTypes
<1>2. Files[0] = file /\ Files'[0] = file' /\ \A k \in 1..Keep : Files[k] = archive[k] /\ Files'[k] = archive[k]
  BY DEF Files
<1>3. written \in Nat /\ r.n \in Nat
  BY DEF FileTypes, Rows
<1>4. \A k \in 0..Keep : \A a \in DOMAIN Files[k] : Files[k][a].n \in Nat /\ Files[k][a].n <= written
  BY RowTypes DEF Numbered
<1>5. ASSUME NEW k \in 0..Keep, NEW a \in DOMAIN Files'[k]
      PROVE  \/ a \in DOMAIN Files[k] /\ Files'[k][a] = Files[k][a]
             \/ k = 0 /\ a = Len(file) + 1 /\ Files'[k][a] = r
  <2>1. CASE k = 0
    BY <1>1, <1>2, <1>5, <2>1
  <2>2. CASE k # 0
    BY <1>2, <1>5, <2>2
  <2>. QED
    BY <2>1, <2>2
<1>6. Numbered'
  BY <1>3, <1>4, <1>5 DEF Numbered
<1>7. ASSUME NEW j \in 0..Keep, NEW k \in 0..Keep, NEW a \in DOMAIN Files'[j], NEW b \in DOMAIN Files'[k],
             j > k \/ (j = k /\ a < b), Files'[j][a].n > 0, Files'[k][b].n > 0
      PROVE  Files'[j][a].n < Files'[k][b].n
  <2>1. CASE k = 0 /\ b = Len(file) + 1 /\ Files'[k][b] = r
    <3>1. a \in DOMAIN Files[j] /\ Files'[j][a] = Files[j][a]
      <4>1. CASE j = 0 /\ a = Len(file) + 1
        BY <1>1, <1>7, <2>1, <4>1
      <4>. QED
        BY <1>5, <4>1
    <3>. QED
      BY <1>3, <1>4, <1>7, <2>1, <3>1
  <2>2. CASE b \in DOMAIN Files[k] /\ Files'[k][b] = Files[k][b]
    <3>1. a \in DOMAIN Files[j] /\ Files'[j][a] = Files[j][a]
      <4>1. CASE j = 0 /\ a = Len(file) + 1
        <5>1. k = 0 /\ b \in 1..Len(file)
          BY <1>1, <1>2, <1>7, <2>2, <4>1
        <5>. QED
          BY <1>1, <1>7, <4>1, <5>1
      <4>. QED
        BY <1>5, <4>1
    <3>. QED
      BY <1>7, <2>2, <3>1 DEF LogInOrder
  <2>. QED
    BY <1>5, <2>1, <2>2
<1>. QED
  BY <1>6, <1>7 DEF LogInOrder

\* What a step must show: the invariant, and that written records stay.
FileStep == FileInv' /\ (~trouble' => Kept \ Numbers(Keep) \subseteq Kept')

\* Files whose contents go somewhere keep their records.
LEMMA KeptRecords ==
    ASSUME \A j \in 0..Keep : j = Keep \/ Numbers(j) = {} \/ \E k \in 0..Keep : Files'[k] = Files[j]
    PROVE  Kept \ Numbers(Keep) \subseteq Kept'
<1>1. ASSUME NEW x \in Kept, x \notin Numbers(Keep) PROVE x \in Kept'
  <2>1. PICK j \in 0..Keep : x \in Numbers(j)
    BY DEF Kept
  <2>2. PICK k \in 0..Keep : Files'[k] = Files[j]
    BY <1>1, <2>1
  <2>3. x \in Numbers(k)'
    BY <2>1, <2>2 DEF Numbers
  <2>. QED
    BY <2>3 DEF Kept
<1>. QED
  BY <1>1

\* Steps that leave the files alone.
LEMMA FilesAlone ==
    ASSUME FileInv, UNCHANGED <<file, archive, written>>, trouble' \in BOOLEAN, trouble => trouble',
           logger' \in [Loggers -> Nat],
           {"handle", "size", "owner", "turn"} \subseteq DOMAIN writer',
           \/ writer'.turn \in {-1, Keep - 1}
           \/ writer'.turn = writer.turn
    PROVE  FileStep
<1>1. \A k \in 0..Keep : Files'[k] = Files[k]
  BY DEF Files
<1>2. FileTypes'
  BY DEF FileInv, FileTypes
<1>3. Numbered' /\ LogInOrder'
  BY <1>1 DEF FileInv, Numbered, LogInOrder
<1>4. RoomMade'
  BY DEF FileInv, RoomMade, FileTypes
<1>5. Kept \ Numbers(Keep) \subseteq Kept'
  BY <1>1, KeptRecords
<1>. QED
  BY <1>2, <1>3, <1>4, <1>5 DEF FileInv, FileStep

LEMMA InitialFiles == LogInit => FileInv
<1>. SUFFICES ASSUME LogInit PROVE FileInv
  OBVIOUS
<1>1. FileTypes
  <2>1. file \in Seq(Rows) /\ archive \in [1..Keep -> Seq(Rows)]
    BY GoneRows DEF LogInit
  <2>2. logger \in [Loggers -> Nat] /\ written \in Nat
    BY DEF LogInit
  <2>3. {"handle", "size", "owner", "turn"} \subseteq DOMAIN writer /\ writer.turn \in -1..(Keep - 1)
    BY DEF LogInit, NewWriter
  <2>4. trouble \in BOOLEAN
    BY DEF LogInit
  <2>. QED
    BY <2>1, <2>2, <2>3, <2>4 DEF FileTypes
<1>2. \A k \in 0..Keep : \A a \in DOMAIN Files[k] : Files[k][a].n = 0
  BY GoneRows DEF LogInit, Files
<1>3. Numbered /\ LogInOrder
  BY <1>2 DEF LogInit, Numbered, LogInOrder
<1>4. RoomMade
  BY DEF LogInit, NewWriter, RoomMade
<1>. QED
  BY <1>1, <1>3, <1>4 DEF FileInv

\* A record, whole or cut short, at the end of the file.
LEMMA RecordStep == ASSUME FileInv, NEW l \in Loggers, Write(l) PROVE FileStep
<1>0. /\ FileTypes /\ Numbered /\ LogInOrder /\ logger[l] \in Nat /\ logger[l] > 0
      /\ logger' \in [Loggers -> Nat] /\ archive' = archive
  BY DEF FileInv, FileTypes, Write
<1>1. ASSUME NEW r \in Rows, file' = Append(file, r), written' \in Nat, trouble' \in BOOLEAN,
             \/ r.n = 0 /\ written' = written
             \/ r.n = written + 1 /\ written' = written + 1,
             {"handle", "size", "owner", "turn"} \subseteq DOMAIN writer', writer'.turn = -1
      PROVE  FileStep
  <2>1. Numbered' /\ LogInOrder'
    BY <1>0, <1>1, AddedRow
  <2>2. FileTypes'
    BY <1>0, <1>1, AppendProperties DEF FileTypes
  <2>3. RoomMade'
    BY <1>1 DEF RoomMade
  <2>4. Kept \ Numbers(Keep) \subseteq Kept'
    <3>1. Numbers(0) \subseteq Numbers(0)'
      <4>1. /\ DOMAIN file = 1..Len(file) /\ Len(file) \in Nat
            /\ DOMAIN file' = 1..(Len(file) + 1)
            /\ \A a \in 1..Len(file) : file'[a] = file[a]
        BY <1>0, <1>1, AppendProperties DEF FileTypes
      <4>. QED
        BY <4>1 DEF Numbers, Files
    <3>2. \A k \in 1..Keep : Numbers(k)' = Numbers(k)
      <4>1. ASSUME NEW k \in 1..Keep PROVE Numbers(k)' = Numbers(k)
        <5>1. Files'[k] = Files[k]
          BY <1>0 DEF Files
        <5>. QED
          BY <5>1 DEF Numbers
      <4>. QED
        BY <4>1
    <3>. QED
      BY <3>1, <3>2 DEF Kept
  <2>. QED
    BY <2>1, <2>2, <2>3, <2>4 DEF FileInv, FileStep
<1>2. CASE /\ file' = Append(file, Record(l)) /\ written' = written + 1
           /\ writer' = [writer EXCEPT !.size = @ + logger[l], !.owner = Nobody, !.turn = -1]
           /\ UNCHANGED trouble
  <2>1. Record(l) \in Rows /\ Record(l).n = written + 1
    BY <1>0 DEF FileTypes, Record, Rows
  <2>2. {"handle", "size", "owner", "turn"} \subseteq DOMAIN writer' /\ writer'.turn = -1
    BY <1>0, <1>2 DEF FileTypes
  <2>3. written' \in Nat /\ trouble' \in BOOLEAN
    BY <1>0, <1>2 DEF FileTypes
  <2>. QED
    BY <1>1, <1>2, <2>1, <2>2, <2>3
<1>3. ASSUME NEW n \in 0..(logger[l] - 1),
             file' = (IF n = 0 THEN file ELSE Append(file, [n |-> 0, size |-> n])),
             writer' = [writer EXCEPT !.size = @ + n, !.owner = Nobody, !.turn = -1],
             trouble' = TRUE, UNCHANGED written
      PROVE  FileStep
  <2>1. {"handle", "size", "owner", "turn"} \subseteq DOMAIN writer' /\ writer'.turn = -1
    BY <1>0, <1>3 DEF FileTypes
  <2>2. CASE n = 0
    BY <1>0, <1>3, <2>1, <2>2, FilesAlone
  <2>3. CASE n # 0
    <3>1. [n |-> 0, size |-> n] \in Rows /\ [n |-> 0, size |-> n].n = 0
      BY <1>0 DEF Rows
    <3>2. written' \in Nat /\ file' = Append(file, [n |-> 0, size |-> n])
      BY <1>0, <1>3, <2>3 DEF FileTypes
    <3>. QED
      BY <1>1, <1>3, <2>1, <3>1, <3>2
  <2>. QED
    BY <2>2, <2>3
<1>. QED
  BY <1>2, <1>3 DEF Write, Put

\* One rename of a rotation.
LEMMA ShiftStep == ASSUME FileInv, Shift PROVE FileStep
<1>. DEFINE i == writer.turn
<1>0. /\ FileTypes /\ Numbered /\ LogInOrder /\ RoomMade
      /\ i \in 1..(Keep - 1) /\ writer' = [writer EXCEPT !.turn = i - 1]
      /\ UNCHANGED <<file, written, logger>>
  BY DEF FileInv, FileTypes, Shift
<1>1. {"handle", "size", "owner", "turn"} \subseteq DOMAIN writer' /\ writer'.turn = i - 1
  BY <1>0 DEF FileTypes
<1>. HIDE DEF i
<1>2. CASE archive[i] # Gone /\ trouble' = TRUE /\ UNCHANGED archive
  <2>1. \A k \in 0..Keep : Files'[k] = Files[k]
    BY <1>0, <1>2 DEF Files
  <2>2. FileTypes'
    BY <1>0, <1>1, <1>2 DEF FileTypes
  <2>3. Numbered' /\ LogInOrder'
    BY <1>0, <2>1 DEF Numbered, LogInOrder
  <2>4. RoomMade'
    BY <1>2 DEF RoomMade
  <2>. QED
    BY <1>2, <2>2, <2>3, <2>4 DEF FileInv, FileStep
<1>3. CASE /\ archive' = [archive EXCEPT ![i + 1] = IF archive[i] = Gone THEN @ ELSE archive[i], ![i] = Gone]
           /\ UNCHANGED trouble
  <2>1. /\ i + 1 \in 1..Keep /\ i \in 1..Keep /\ i # i + 1
        /\ archive'[i] = Gone
        /\ archive'[i + 1] = (IF archive[i] = Gone THEN archive[i + 1] ELSE archive[i])
        /\ \A k \in 1..Keep : k # i /\ k # i + 1 => archive'[k] = archive[k]
        /\ archive' \in [1..Keep -> Seq(Rows)]
    <3>1. archive' = [archive EXCEPT ![i + 1] = IF archive[i] = Gone THEN archive[i + 1] ELSE archive[i], ![i] = Gone]
      BY <1>3
    <3>2. archive \in [1..Keep -> Seq(Rows)] /\ i + 1 \in 1..Keep /\ i \in 1..Keep /\ i # i + 1
      BY <1>0 DEF FileTypes
    <3>. DEFINE up == IF archive[i] = Gone THEN archive[i + 1] ELSE archive[i]
    <3>3. up \in Seq(Rows)
      BY <3>2
    <3>4. archive' = [archive EXCEPT ![i + 1] = up, ![i] = Gone]
      BY <3>1
    <3>. HIDE DEF up
    <3>5. /\ archive' \in [1..Keep -> Seq(Rows)]
          /\ archive'[i] = Gone /\ archive'[i + 1] = up
          /\ \A k \in 1..Keep : k # i /\ k # i + 1 => archive'[k] = archive[k]
      BY <3>2, <3>3, <3>4, GoneRows
    <3>. QED
      BY <3>2, <3>5 DEF up
  <2>2. /\ Files'[0] = Files[0] /\ Files'[i] = Gone
        /\ Files'[i + 1] = (IF archive[i] = Gone THEN Files[i + 1] ELSE Files[i])
        /\ \A k \in 0..Keep : k # i /\ k # i + 1 => Files'[k] = Files[k]
    <3>1. Files[0] = file /\ Files'[0] = file' /\ \A k \in 1..Keep : Files[k] = archive[k] /\ Files'[k] = archive'[k]
      BY DEF Files
    <3>2. Files'[0] = Files[0]
      BY <1>0, <3>1
    <3>3. /\ Files'[i] = Gone
          /\ Files'[i + 1] = (IF archive[i] = Gone THEN Files[i + 1] ELSE Files[i])
      <4>1. Files'[i] = archive'[i] /\ Files'[i + 1] = archive'[i + 1] /\ Files[i] = archive[i] /\ Files[i + 1] = archive[i + 1]
        BY <2>1, <3>1, Zenon
      <4>. QED
        BY <2>1, <4>1, Zenon
    <3>4. ASSUME NEW k \in 0..Keep, k # i, k # i + 1 PROVE Files'[k] = Files[k]
      <4>1. CASE k = 0
        BY <3>2, <4>1
      <4>2. CASE k # 0
        <5>1. k \in 1..Keep
          BY <4>2
        <5>. QED
          BY <2>1, <3>1, <3>4, <5>1
      <4>. QED
        BY <4>1, <4>2
    <3>. QED
      BY <3>2, <3>3, <3>4
  <2>3. FileTypes'
    <3>1. trouble' \in BOOLEAN
      BY <1>0, <1>3 DEF FileTypes
    <3>2. logger' \in [Loggers -> Nat] /\ written' \in Nat /\ file' \in Seq(Rows)
      BY <1>0 DEF FileTypes
    <3>3. writer'.turn \in -1..(Keep - 1)
      BY <1>0, <1>1
    <3>. QED
      BY <1>1, <2>1, <3>1, <3>2, <3>3 DEF FileTypes
  <2>4. Numbered' /\ LogInOrder'
    <3>. DEFINE J == (0..Keep) \ {i}
                from == [k \in J |-> IF k = i + 1 /\ archive[i] # Gone THEN i ELSE k]
    <3>1. from \in [J -> 0..Keep] /\ \A j, k \in J : j > k => from[j] > from[k]
      BY <1>0
    <3>2. \A k \in J : Files'[k] = Files[from[k]]
      <4>1. ASSUME NEW k \in J PROVE Files'[k] = Files[from[k]]
        <5>1. from[k] = IF k = i + 1 /\ archive[i] # Gone THEN i ELSE k
          OBVIOUS
        <5>2. k \in 0..Keep /\ k # i
          OBVIOUS
        <5>. HIDE DEF J, from
        <5>3. CASE k = i + 1
          <6>1. CASE archive[i] = Gone
            <7>1. from[k] = k /\ Files'[i + 1] = Files[i + 1]
              BY <2>2, <5>1, <6>1, Zenon
            <7>. QED
              BY <5>3, <7>1, Zenon
          <6>2. CASE archive[i] # Gone
            <7>1. from[k] = i /\ Files'[i + 1] = Files[i]
              BY <2>2, <5>1, <5>3, <6>2, Zenon
            <7>. QED
              BY <5>3, <7>1, Zenon
          <6>. QED
            BY <6>1, <6>2
        <5>4. CASE k # i + 1
          BY <2>2, <5>1, <5>2, <5>4
        <5>. QED
          BY <5>3, <5>4
      <4>. HIDE DEF J, from
      <4>. QED
        BY <4>1
    <3>3. \A k \in (0..Keep) \ J : \A a \in DOMAIN Files'[k] : Files'[k][a].n = 0
      <4>1. \A k \in (0..Keep) \ J : k = i
        OBVIOUS
      <4>2. \A a \in DOMAIN Files'[i] : Files'[i][a].n = 0
        BY <2>2, GoneRows
      <4>. HIDE DEF J
      <4>. QED
        BY <4>1, <4>2, Zenon
    <3>4. J \in SUBSET (0..Keep)
      OBVIOUS
    <3>. HIDE DEF J, from
    <3>. QED
      BY <1>0, <3>1, <3>2, <3>3, <3>4, MovedUp
  <2>5. RoomMade'
    BY <1>0, <1>1, <2>1 DEF RoomMade
  <2>6. ASSUME ~trouble' PROVE Kept \ Numbers(Keep) \subseteq Kept'
    <3>1. Numbers(i) = {} \/ Files'[i + 1] = Files[i]
      <4>1. CASE archive[i] = Gone
        <5>1. Files[i] = Gone
          BY <2>1, <4>1 DEF Files
        <5>. QED
          BY <5>1, GoneNumbers
      <4>. QED
        BY <2>2, <4>1
    <3>2. i + 1 = Keep \/ Numbers(i + 1) = {}
      <4>1. CASE i + 1 # Keep
        <5>1. archive[i + 1] = Gone
          BY <1>0, <1>3, <2>1, <2>6, <4>1 DEF RoomMade, i
        <5>. QED
          <6>1. Files[i + 1] = Gone
            BY <2>1, <5>1 DEF Files
          <6>. QED
            BY <6>1, GoneNumbers
      <4>. QED
        BY <4>1
    <3>3. \A j \in 0..Keep : j = Keep \/ Numbers(j) = {} \/ \E k \in 0..Keep : Files'[k] = Files[j]
      <4>. SUFFICES ASSUME NEW j \in 0..Keep, j # Keep, Numbers(j) # {} PROVE \E k \in 0..Keep : Files'[k] = Files[j]
        OBVIOUS
      <4>1. CASE j = i
        <5>1. Files'[i + 1] = Files[j] /\ i + 1 \in 0..Keep
          BY <2>1, <3>1, <4>1
        <5>. QED
          BY <5>1, Zenon
      <4>2. CASE j # i
        BY <2>2, <3>2, <4>2
      <4>. QED
        BY <4>1, <4>2
    <3>. QED
      BY <3>3, KeptRecords
  <2>. QED
    BY <2>3, <2>4, <2>5, <2>6 DEF FileInv, FileStep
<1>. QED
  BY <1>2, <1>3 DEF Shift, i

\* The last rename of a rotation and the open of a new file.
LEMMA ReopenStep == ASSUME FileInv, Reopen PROVE FileStep
<1>0. /\ FileTypes /\ Numbered /\ LogInOrder /\ RoomMade
      /\ writer.turn = 0 /\ UNCHANGED written
  BY DEF FileInv, Reopen
<1>1. PICK renamed, opened \in BOOLEAN :
        /\ file = Gone => renamed
        /\ archive' = (IF renamed /\ file # Gone THEN [archive EXCEPT ![1] = file] ELSE archive)
        /\ file' = (IF ~renamed THEN file ELSE IF opened THEN <<>> ELSE Gone)
        /\ writer' = (IF opened THEN [NewWriter(file') EXCEPT !.owner = writer.owner]
                      ELSE [writer EXCEPT !.owner = Nobody, !.turn = -1])
        /\ logger' = (IF opened THEN logger ELSE [logger EXCEPT ![writer.owner] = 0])
        /\ trouble' = (trouble \/ ~renamed \/ ~opened)
  BY Zenon DEF Reopen
<1>2. {"handle", "size", "owner", "turn"} \subseteq DOMAIN writer' /\ writer'.turn = -1
  <2>1. CASE opened
    BY <1>1, <2>1 DEF NewWriter
  <2>2. CASE ~opened
    BY <1>0, <1>1, <2>2 DEF FileTypes
  <2>. QED
    BY <2>1, <2>2
<1>3. FileTypes'
  <2>1. file' \in Seq(Rows) /\ archive' \in [1..Keep -> Seq(Rows)]
    BY <1>0, <1>1, GoneRows, NoRows DEF FileTypes
  <2>2. logger' \in [Loggers -> Nat] /\ written' \in Nat
    BY <1>0, <1>1 DEF FileTypes
  <2>3. trouble' \in BOOLEAN
    BY <1>1
  <2>. QED
    BY <1>2, <2>1, <2>2, <2>3 DEF FileTypes
<1>4. RoomMade'
  BY <1>2 DEF RoomMade
<1>5. /\ Files[0] = file /\ Files'[0] = file'
      /\ \A k \in 1..Keep : Files[k] = archive[k] /\ Files'[k] = archive'[k]
  BY DEF Files
<1>6. CASE renamed /\ file # Gone
  <2>1. /\ Files'[1] = Files[0] /\ \A k \in 2..Keep : Files'[k] = Files[k]
        /\ \A a \in DOMAIN Files'[0] : Files'[0][a].n = 0
    <3>1. archive' = [archive EXCEPT ![1] = file] /\ file' \in {<<>>, Gone}
      BY <1>1, <1>6
    <3>2. archive'[1] = file /\ \A k \in 2..Keep : archive'[k] = archive[k]
      BY <1>0, <3>1 DEF FileTypes
    <3>3. \A a \in DOMAIN file' : file'[a].n = 0
      BY <3>1, GoneRows, NoRows
    <3>. QED
      BY <1>5, <3>2, <3>3
  <2>2. Numbered' /\ LogInOrder'
    <3>. DEFINE J == 1..Keep
                from == [k \in J |-> IF k = 1 THEN 0 ELSE k]
    <3>1. from \in [J -> 0..Keep] /\ (\A j, k \in J : j > k => from[j] > from[k]) /\ J \in SUBSET (0..Keep)
      OBVIOUS
    <3>2. \A k \in J : Files'[k] = Files[from[k]]
      BY <2>1
    <3>3. \A k \in (0..Keep) \ J : \A a \in DOMAIN Files'[k] : Files'[k][a].n = 0
      <4>1. \A k \in (0..Keep) \ J : k = 0
        OBVIOUS
      <4>. QED
        BY <2>1, <4>1
    <3>. HIDE DEF J, from
    <3>. QED
      BY <1>0, <3>1, <3>2, <3>3, MovedUp
  <2>3. ASSUME ~trouble' PROVE Kept \ Numbers(Keep) \subseteq Kept'
    <3>1. 1 = Keep \/ Numbers(1) = {}
      <4>1. CASE 1 # Keep
        <5>1. archive[1] = Gone
          <6>1. ~trouble
            BY <1>1, <2>3, Zenon
          <6>2. writer.turn \in 0..(Keep - 2) /\ writer.turn + 1 = 1
            BY <1>0, <4>1
          <6>3. archive[writer.turn + 1] = Gone
            BY <1>0, <6>1, <6>2, Zenon DEF RoomMade
          <6>. QED
            BY <6>2, <6>3
        <5>2. Files[1] = Gone
          BY <1>5, <5>1
        <5>. QED
          BY <5>2, GoneNumbers
      <4>. QED
        BY <4>1
    <3>2. ASSUME NEW j \in 0..Keep, j # Keep, Numbers(j) # {} PROVE \E k \in 0..Keep : Files'[k] = Files[j]
      <4>1. CASE j = 0
        BY <2>1, <4>1
      <4>2. CASE j # 0
        <5>1. j # 1
          BY <3>1, <3>2
        <5>. QED
          BY <2>1, <4>2, <5>1
      <4>. QED
        BY <4>1, <4>2
    <3>. QED
      BY <3>2, KeptRecords
  <2>. QED
    BY <1>3, <1>4, <2>2, <2>3 DEF FileInv, FileStep
<1>7. CASE ~renamed \/ file = Gone
  <2>1. /\ \A k \in 1..Keep : Files'[k] = Files[k]
        /\ (Files'[0] = Files[0] \/ (Files[0] = Gone /\ Files'[0] \in {<<>>, Gone}))
    <3>1. archive' = archive
      BY <1>1, <1>7, Zenon
    <3>2. file' = file \/ (file = Gone /\ file' \in {<<>>, Gone})
      <4>1. CASE renamed
        <5>1. file = Gone
          BY <1>7, <4>1, Zenon
        <5>2. file' = <<>> \/ file' = Gone
          BY <1>1, <4>1, Zenon
        <5>. QED
          BY <5>1, <5>2
      <4>2. CASE ~renamed
        BY <1>1, <4>2, Zenon
      <4>. QED
        BY <4>1, <4>2, Zenon
    <3>. QED
      BY <1>5, <3>1, <3>2
  <2>2. Numbered' /\ LogInOrder'
    <3>1. CASE Files'[0] = Files[0]
      <4>1. \A k \in 0..Keep : Files'[k] = Files[k]
        BY <2>1, <3>1
      <4>. QED
        BY <1>0, <4>1 DEF Numbered, LogInOrder
    <3>2. CASE Files'[0] \in {<<>>, Gone}
      <4>. DEFINE J == 1..Keep
                  from == [k \in J |-> k]
      <4>1. from \in [J -> 0..Keep] /\ (\A j, k \in J : j > k => from[j] > from[k]) /\ J \in SUBSET (0..Keep)
        OBVIOUS
      <4>2. \A k \in J : Files'[k] = Files[from[k]]
        BY <2>1
      <4>3. \A k \in (0..Keep) \ J : \A a \in DOMAIN Files'[k] : Files'[k][a].n = 0
        <5>1. \A k \in (0..Keep) \ J : k = 0
          OBVIOUS
        <5>. QED
          BY <3>2, <5>1, GoneRows, NoRows
      <4>. HIDE DEF J, from
      <4>. QED
        BY <1>0, <4>1, <4>2, <4>3, MovedUp
    <3>. QED
      BY <2>1, <3>1, <3>2
  <2>3. Kept \ Numbers(Keep) \subseteq Kept'
    <3>1. ASSUME NEW j \in 0..Keep, j # Keep, Numbers(j) # {} PROVE \E k \in 0..Keep : Files'[k] = Files[j]
      <4>1. CASE j = 0
        BY <2>1, <3>1, <4>1, GoneNumbers
      <4>2. CASE j # 0
        BY <2>1, <4>2
      <4>. QED
        BY <4>1, <4>2
    <3>. QED
      BY <3>1, KeptRecords
  <2>. QED
    BY <1>3, <1>4, <2>2, <2>3 DEF FileInv, FileStep
<1>. QED
  BY <1>6, <1>7

\* The process ends in the middle of a rotation, or anywhere else.
LEMMA RestartStep == ASSUME FileInv, RestartLog PROVE FileStep
<1>0. /\ FileTypes /\ Numbered /\ LogInOrder
      /\ file' = (IF file = Gone THEN <<>> ELSE file) /\ writer' = NewWriter(file')
      /\ logger' = [l \in Loggers |-> 0] /\ UNCHANGED <<archive, written, trouble>>
  BY DEF FileInv, RestartLog
<1>1. {"handle", "size", "owner", "turn"} \subseteq DOMAIN writer' /\ writer'.turn = -1
  BY <1>0 DEF NewWriter
<1>2. CASE file # Gone
  <2>1. file' = file /\ logger' \in [Loggers -> Nat] /\ trouble' \in BOOLEAN
    BY <1>0, <1>2 DEF FileTypes
  <2>. QED
    BY <1>0, <1>1, <2>1, FilesAlone
<1>3. CASE file = Gone
  <2>1. /\ \A k \in 1..Keep : Files'[k] = Files[k]
        /\ Files[0] = Gone /\ Files'[0] = <<>>
    BY <1>0, <1>3 DEF Files
  <2>2. FileTypes'
    <3>1. file' \in Seq(Rows)
      BY <1>0, <1>3, NoRows
    <3>2. archive' \in [1..Keep -> Seq(Rows)] /\ logger' \in [Loggers -> Nat] /\ written' \in Nat
      BY <1>0 DEF FileTypes
    <3>3. trouble' \in BOOLEAN
      BY <1>0 DEF FileTypes
    <3>. QED
      BY <1>1, <3>1, <3>2, <3>3 DEF FileTypes
  <2>3. Numbered' /\ LogInOrder'
    <3>. DEFINE J == 1..Keep
                from == [k \in J |-> k]
    <3>1. from \in [J -> 0..Keep] /\ (\A j, k \in J : j > k => from[j] > from[k]) /\ J \in SUBSET (0..Keep)
      OBVIOUS
    <3>2. \A k \in J : Files'[k] = Files[from[k]]
      BY <2>1
    <3>3. \A k \in (0..Keep) \ J : \A a \in DOMAIN Files'[k] : Files'[k][a].n = 0
      <4>1. \A k \in (0..Keep) \ J : k = 0
        OBVIOUS
      <4>. QED
        BY <2>1, <4>1, NoRows
    <3>. HIDE DEF J, from
    <3>. QED
      BY <1>0, <3>1, <3>2, <3>3, MovedUp
  <2>4. RoomMade'
    BY <1>1 DEF RoomMade
  <2>5. Kept \ Numbers(Keep) \subseteq Kept'
    <3>1. ASSUME NEW j \in 0..Keep, j # Keep, Numbers(j) # {} PROVE \E k \in 0..Keep : Files'[k] = Files[j]
      <4>1. CASE j = 0
        BY <2>1, <3>1, <4>1, GoneNumbers
      <4>2. CASE j # 0
        BY <2>1, <4>2
      <4>. QED
        BY <4>1, <4>2
    <3>. QED
      BY <3>1, KeptRecords
  <2>. QED
    BY <2>2, <2>3, <2>4, <2>5 DEF FileInv, FileStep
<1>. QED
  BY <1>2, <1>3

\* Every step.
LEMMA LogStep == FileInv /\ [LogNext]_logVars => FileStep
<1>. SUFFICES ASSUME FileInv, [LogNext]_logVars PROVE FileStep
  OBVIOUS
<1>0. /\ logger \in [Loggers -> Nat] /\ trouble \in BOOLEAN
      /\ {"handle", "size", "owner", "turn"} \subseteq DOMAIN writer
  BY DEF FileInv, FileTypes
<1>1. ASSUME UNCHANGED <<file, archive, written, trouble, writer>>, logger' \in [Loggers -> Nat]
      PROVE  FileStep
  <2>1. trouble' \in BOOLEAN /\ (trouble => trouble')
    BY <1>0, <1>1
  <2>. QED
    BY <1>0, <1>1, <2>1, FilesAlone
<1>2. CASE UNCHANGED logVars
  BY <1>0, <1>1, <1>2 DEF logVars
<1>3. CASE SetMaxBytes \/ ListEntries
  BY <1>0, <1>1, <1>3 DEF SetMaxBytes, ListEntries
<1>4. ASSUME NEW l \in Loggers, Log(l) \/ Drop(l) PROVE FileStep
  <2>1. logger' \in [Loggers -> Nat]
    BY <1>0, <1>4 DEF Log, Drop
  <2>2. UNCHANGED <<file, archive, written, trouble, writer>>
    BY <1>4 DEF Log, Drop
  <2>. QED
    BY <1>1, <2>1, <2>2
<1>5. ASSUME NEW w, writer' = w, UNCHANGED <<file, archive, written, trouble, logger>>,
             {"handle", "size", "owner", "turn"} \subseteq DOMAIN w,
             w.turn = writer.turn \/ w.turn = Keep - 1
      PROVE  FileStep
  <2>1. trouble' \in BOOLEAN /\ (trouble => trouble')
    BY <1>0, <1>5
  <2>. QED
    BY <1>0, <1>5, <2>1, FilesAlone
<1>6. ASSUME NEW l \in Loggers, StartRotation(l) PROVE FileStep
  <2>. DEFINE w == [writer EXCEPT !.owner = l, !.turn = Keep - 1, !.handle = "stale"]
  <2>1. writer' = w /\ UNCHANGED <<file, archive, written, trouble, logger>>
    BY <1>6, Zenon DEF StartRotation
  <2>2. {"handle", "size", "owner", "turn"} \subseteq DOMAIN w /\ w.turn = Keep - 1
    BY <1>0
  <2>. HIDE DEF w
  <2>. QED
    BY <1>5, <2>1, <2>2
<1>7. CASE CloseLog
  BY <1>0, <1>5, <1>7 DEF CloseLog
<1>. QED
  BY <1>2, <1>3, <1>4, <1>6, <1>7, RecordStep, ShiftStep, ReopenStep, RestartStep DEF LogNext

\* Whatever fails and wherever the process dies, the rotated files and the file
\* hold the records in the order in which they were written, none twice.
THEOREM OrderKept == LogSpec => []LogInOrder
<1>1. FileInv /\ [LogNext]_logVars => FileInv'
  BY LogStep DEF FileStep
<1>2. FileInv => LogInOrder
  BY DEF FileInv
<1>. QED
  BY <1>1, <1>2, InitialFiles, PTL DEF LogSpec

\* While no file operation fails, a record leaves only with the oldest file,
\* through crashes and rotations that were cut off.
THEOREM RecordsKept == LogSpec => RotationKeeps
<1>1. FileInv /\ [LogNext]_logVars => FileInv'
  BY LogStep DEF FileStep
<1>2. FileInv /\ [LogNext]_logVars => [~trouble' => Kept \ Numbers(Keep) \subseteq Kept']_logVars
  BY LogStep DEF FileStep
<1>. QED
  BY <1>1, <1>2, InitialFiles, PTL DEF LogSpec, RotationKeeps

-----------------------------------------------------------------------------
(* The ring.                                                               *)

Entries == [seq : Nat, size : Nat, sent : Nat]

RingTypes ==
    /\ {"entries", "bytes", "max", "next"} \subseteq DOMAIN ring
    /\ ring.entries \in Seq(Entries) /\ ring.next \in Nat /\ cursor \in Nat /\ missed \in Nat
    /\ missed <= cursor /\ (cursor <= ring.next \/ cursor <= missed)

\* A client is ahead of the ring at most until a new process has counted up to
\* its number, the entries are numbered without a gap, and those up to the
\* client's number are the ones that it was sent, but for those it misses.
RingInv == RingTypes /\ WithoutGap /\ ListedOnce

LEMMA Least == ASSUME NEW T \in SUBSET Nat, T # {} PROVE Min(T) \in T /\ \A y \in T : Min(T) <= y
<1>. DEFINE R == OpToRel(<, Nat)
<1>1. PICK x \in T : \A y \in T : ~(<<y, x>> \in R)
  <2>1. IsWellFoundedOn(R, Nat)
    BY NatLessThanWellFounded
  <2>. HIDE DEF R
  <2>. QED
    BY <2>1, WFMin
<1>2. \A y \in T : x <= y
  <2>1. \A y \in T : ~(y < x)
    BY <1>1 DEF OpToRel
  <2>. QED
    BY <2>1
<1>. QED
  BY <1>2 DEF Min

LEMMA Greatest ==
    ASSUME NEW T \in SUBSET Nat, T # {}, NEW n \in Nat, \A y \in T : y <= n
    PROVE  Max(T) \in T /\ \A y \in T : Max(T) >= y
<1>. DEFINE below == {n - y : y \in T}
<1>1. below \in SUBSET Nat /\ below # {}
  OBVIOUS
<1>2. Min(below) \in below /\ \A z \in below : Min(below) <= z
  <2>. HIDE DEF below
  <2>. QED
    BY <1>1, Least
<1>3. PICK x \in T : Min(below) = n - x
  BY <1>2
<1>4. \A y \in T : n - y \in below
  OBVIOUS
<1>5. \A y \in T : n - x <= n - y
  BY <1>2, <1>3, <1>4
<1>6. \A y \in T : x >= y
  BY <1>5
<1>. QED
  BY <1>6 DEF Max

\* Room is made by taking entries, and their bytes, from the front.
LEMMA RoomInFront ==
    ASSUME NEW r, r.entries \in Seq(Entries), {"entries", "bytes", "max", "next"} \subseteq DOMAIN r, NEW more
    PROVE  \E m \in 0..Len(r.entries) :
             /\ m = Len(r.entries) \/ r.bytes - Bytes(SubSeq(r.entries, 1, m)) + more <= r.max
             /\ Evicted(r, more) = [r EXCEPT !.entries = SubSeq(r.entries, m + 1, Len(r.entries)),
                                             !.bytes = r.bytes - Bytes(SubSeq(r.entries, 1, m))]
<1>. DEFINE size(n) == Bytes(SubSeq(r.entries, 1, n))
            enough == {n \in 0..Len(r.entries) : n = Len(r.entries) \/ r.bytes - size(n) + more <= r.max}
            m == Min(enough)
<1>1. Evicted(r, more) = [r EXCEPT !.entries = SubSeq(r.entries, m + 1, Len(r.entries)), !.bytes = r.bytes - size(m)]
  BY DEF Evicted
<1>2. m \in enough
  <2>1. Len(r.entries) \in enough /\ enough \in SUBSET Nat
    OBVIOUS
  <2>. HIDE DEF enough
  <2>. QED
    BY <2>1, Least
<1>. HIDE DEF m
<1>. QED
  BY <1>1, <1>2

\* What is left is the end of the sequence.
LEMMA Rest ==
    ASSUME NEW e \in Seq(Entries), NEW m \in 0..Len(e)
    PROVE  /\ SubSeq(e, m + 1, Len(e)) \in Seq(Entries)
           /\ Len(SubSeq(e, m + 1, Len(e))) = Len(e) - m
           /\ \A i \in 1..(Len(e) - m) : SubSeq(e, m + 1, Len(e))[i] = e[i + m]
<1>1. Len(e) \in Nat /\ (\A i \in 1..Len(e) : e[i] \in Entries)
  OBVIOUS
<1>2. \A i \in (m + 1)..Len(e) : e[i] \in Entries
  BY <1>1
<1>3. /\ SubSeq(e, m + 1, Len(e)) \in Seq(Entries)
      /\ Len(SubSeq(e, m + 1, Len(e))) = (IF m + 1 <= Len(e) THEN Len(e) - (m + 1) + 1 ELSE 0)
      /\ \A i \in 1..(Len(e) - (m + 1) + 1) : SubSeq(e, m + 1, Len(e))[i] = e[m + 1 + i - 1]
  BY <1>1, <1>2, SubSeqProperties
<1>. QED
  BY <1>1, <1>3

\* What a ring without its oldest entries still satisfies.
LEMMA FrontTaken ==
    ASSUME RingInv, NEW s \in Seq(Entries), NEW m \in 0..Len(ring.entries),
           Len(s) = Len(ring.entries) - m,
           \A i \in 1..(Len(ring.entries) - m) : s[i] = ring.entries[i + m]
    PROVE  /\ Len(s) \in Nat /\ DOMAIN s = 1..Len(s)
           /\ \A i \in DOMAIN s : s[i] \in Entries /\ s[i].seq = ring.next - Len(s) + i
           /\ \A i \in DOMAIN s : s[i].sent = (IF missed < s[i].seq /\ s[i].seq <= cursor THEN 1 ELSE 0)
<1>1. /\ Len(ring.entries) \in Nat /\ DOMAIN ring.entries = 1..Len(ring.entries) /\ ring.next \in Nat
      /\ Len(s) \in Nat /\ DOMAIN s = 1..Len(s)
      /\ \A i \in DOMAIN s : s[i] \in Entries
  BY DEF RingInv, RingTypes
<1>2. ASSUME NEW i \in DOMAIN s
      PROVE  /\ s[i].seq = ring.next - Len(s) + i
             /\ s[i].sent = (IF missed < s[i].seq /\ s[i].seq <= cursor THEN 1 ELSE 0)
  <2>1. i + m \in DOMAIN ring.entries /\ s[i] = ring.entries[i + m]
    BY <1>1
  <2>. QED
    BY <1>1, <2>1 DEF RingInv, WithoutGap, ListedOnce
<1>. QED
  BY <1>1, <1>2

\* The ring without its oldest entries.
LEMMA EvictionStep ==
    ASSUME RingInv, NEW r, NEW more, {"entries", "bytes", "max", "next"} \subseteq DOMAIN r,
           r.entries = ring.entries, r.next = ring.next
    PROVE  LET k == Evicted(r, more)
           IN  /\ k.entries \in Seq(Entries) /\ k.next = ring.next /\ k.max = r.max
               /\ {"entries", "bytes", "max", "next"} \subseteq DOMAIN k
               /\ \A i \in DOMAIN k.entries :
                     /\ k.entries[i].seq = ring.next - Len(k.entries) + i
                     /\ k.entries[i].sent = (IF missed < k.entries[i].seq /\ k.entries[i].seq <= cursor THEN 1 ELSE 0)
<1>1. r.entries \in Seq(Entries)
  BY DEF RingInv, RingTypes
<1>2. PICK m \in 0..Len(r.entries) :
        Evicted(r, more) = [r EXCEPT !.entries = SubSeq(r.entries, m + 1, Len(r.entries)),
                                     !.bytes = r.bytes - Bytes(SubSeq(r.entries, 1, m))]
  BY <1>1, RoomInFront
<1>. DEFINE s == SubSeq(r.entries, m + 1, Len(r.entries))
            b == r.bytes - Bytes(SubSeq(r.entries, 1, m))
<1>3. /\ s \in Seq(Entries) /\ Len(s) = Len(ring.entries) - m
      /\ \A i \in 1..(Len(ring.entries) - m) : s[i] = ring.entries[i + m]
  BY <1>1, Rest
<1>. HIDE DEF s, b
<1>4. /\ \A i \in DOMAIN s : s[i].seq = ring.next - Len(s) + i
      /\ \A i \in DOMAIN s : s[i].sent = (IF missed < s[i].seq /\ s[i].seq <= cursor THEN 1 ELSE 0)
  BY <1>3, FrontTaken
<1>5. Evicted(r, more) = [r EXCEPT !.entries = s, !.bytes = b]
  BY <1>2 DEF s, b
<1>. QED
  BY <1>3, <1>4, <1>5

LEMMA LimitStep == ASSUME RingInv, SetMaxBytes PROVE RingInv'
<1>1. PICK max \in RingLimits \ {ring.max} : ring' = Evicted([ring EXCEPT !.max = max], 0)
  BY Zenon DEF SetMaxBytes
<1>2. cursor' = cursor /\ missed' = missed
  BY DEF SetMaxBytes
<1>. DEFINE r == [ring EXCEPT !.max = max]
            k == Evicted(r, 0)
<1>3. r.entries = ring.entries /\ r.next = ring.next /\ {"entries", "bytes", "max", "next"} \subseteq DOMAIN r
  BY DEF RingInv, RingTypes
<1>. HIDE DEF r
<1>4. /\ k.entries \in Seq(Entries) /\ k.next = ring.next
      /\ {"entries", "bytes", "max", "next"} \subseteq DOMAIN k
      /\ \A i \in DOMAIN k.entries :
            /\ k.entries[i].seq = ring.next - Len(k.entries) + i
            /\ k.entries[i].sent = (IF missed < k.entries[i].seq /\ k.entries[i].seq <= cursor THEN 1 ELSE 0)
  BY <1>3, EvictionStep
<1>5. ring' = k
  BY <1>1 DEF r
<1>. HIDE DEF k
<1>. QED
  BY <1>2, <1>4, <1>5 DEF RingInv, RingTypes, WithoutGap, ListedOnce

LEMMA EntryStep == ASSUME RingInv, NEW l \in Loggers, Log(l) PROVE RingInv'
<1>1. PICK size \in Sizes : ring' = Added(ring, size)
  BY Zenon DEF Log
<1>. DEFINE fit == IF size > ring.max \div 2 THEN 1 ELSE size
            k == Evicted(ring, fit)
            e == [seq |-> ring.next + 1, size |-> fit, sent |-> 0]
            s == Append(k.entries, e)
<1>2. /\ ring' = [k EXCEPT !.next = @ + 1, !.bytes = @ + fit, !.entries = s]
      /\ cursor' = cursor /\ missed' = missed
  BY <1>1 DEF Added, Log
<1>3. /\ ring.next \in Nat /\ fit \in Nat /\ cursor \in Nat /\ missed \in Nat
      /\ {"entries", "bytes", "max", "next"} \subseteq DOMAIN ring
  BY SizesAssumption DEF RingInv, RingTypes
<1>4. e \in Entries /\ e.seq = ring.next + 1 /\ e.sent = 0
  BY <1>3 DEF Entries
<1>. HIDE DEF fit
<1>5. /\ k.entries \in Seq(Entries) /\ k.next = ring.next
      /\ {"entries", "bytes", "max", "next"} \subseteq DOMAIN k
      /\ \A i \in DOMAIN k.entries :
            /\ k.entries[i].seq = ring.next - Len(k.entries) + i
            /\ k.entries[i].sent = (IF missed < k.entries[i].seq /\ k.entries[i].seq <= cursor THEN 1 ELSE 0)
  BY <1>3, EvictionStep
<1>. HIDE DEF k, e
<1>. DEFINE kept == k.entries
<1>6. /\ s \in Seq(Entries) /\ Len(s) = Len(kept) + 1 /\ s[Len(kept) + 1] = e
      /\ DOMAIN s = 1..(Len(kept) + 1) /\ Len(kept) \in Nat /\ DOMAIN kept = 1..Len(kept)
      /\ \A i \in 1..Len(kept) : s[i] = kept[i]
  BY <1>4, <1>5, AppendProperties
<1>. HIDE DEF s
<1>7. /\ ring'.entries = s /\ ring'.next = ring.next + 1
      /\ {"entries", "bytes", "max", "next"} \subseteq DOMAIN ring'
  BY <1>2, <1>5
<1>8. RingTypes'
  BY <1>2, <1>3, <1>6, <1>7 DEF RingInv, RingTypes
<1>9. \A i \in DOMAIN s : /\ s[i].seq = ring.next + 1 - Len(s) + i
                          /\ s[i].sent = (IF missed < s[i].seq /\ s[i].seq <= cursor THEN 1 ELSE 0)
  <2>1. ASSUME NEW i \in DOMAIN s
        PROVE  /\ s[i].seq = ring.next + 1 - Len(s) + i
               /\ s[i].sent = (IF missed < s[i].seq /\ s[i].seq <= cursor THEN 1 ELSE 0)
    <3>1. CASE i = Len(kept) + 1
      <4>1. s[i].seq = ring.next + 1 /\ s[i].sent = 0 /\ Len(s) = i
        BY <1>4, <1>6, <3>1
      <4>2. ~(missed < ring.next + 1 /\ ring.next + 1 <= cursor)
        <5>1. cursor <= ring.next \/ cursor <= missed
          BY DEF RingInv, RingTypes
        <5>. QED
          BY <1>3, <5>1
      <4>3. ring.next + 1 = ring.next + 1 - Len(s) + i
        BY <1>3, <1>6, <3>1
      <4>. QED
        BY <4>1, <4>2, <4>3
    <3>2. CASE i # Len(kept) + 1
      <4>1. i \in DOMAIN kept /\ s[i] = kept[i]
        BY <1>6, <3>2
      <4>. QED
        BY <1>3, <1>5, <1>6, <4>1
    <3>. QED
      BY <3>1, <3>2
  <2>. QED
    BY <2>1
<1>10. WithoutGap'
  BY <1>3, <1>6, <1>7, <1>9 DEF WithoutGap
<1>11. ListedOnce'
  BY <1>2, <1>7, <1>9 DEF ListedOnce
<1>. QED
  BY <1>8, <1>10, <1>11 DEF RingInv

\* The page is what comes next: the entries after it are after the client.
LEMMA PageStep == ASSUME RingInv, ListEntries PROVE RingInv'
<1>. DEFINE e == ring.entries
            new == After(cursor)
            page == {i \in new : i < Min(new) + PageLimit}
            s == [i \in DOMAIN e |-> [e[i] EXCEPT !.sent = IF i \in page THEN 1 + @ ELSE @]]
<1>1. /\ new # {} /\ cursor' = e[Max(page)].seq /\ missed' = missed
      /\ ring' = [ring EXCEPT !.entries = s]
  <2>1. new # {} /\ cursor' = e[Max(page)].seq /\ missed' = missed
    BY Zenon DEF ListEntries
  <2>2. ring' = [ring EXCEPT !.entries = s]
    BY DEF ListEntries
  <2>. QED
    BY <2>1, <2>2
<1>2. /\ e \in Seq(Entries) /\ Len(e) \in Nat /\ DOMAIN e = 1..Len(e) /\ ring.next \in Nat
      /\ cursor \in Nat /\ missed \in Nat /\ missed <= cursor
      /\ \A i \in DOMAIN e : e[i] \in Entries /\ e[i].seq = ring.next - Len(e) + i
  BY DEF RingInv, RingTypes, WithoutGap
<1>3. new = {i \in DOMAIN e : e[i].seq > cursor}
  BY DEF After
<1>4. Min(new) \in new /\ \A i \in new : Min(new) <= i
  <2>1. new \in SUBSET Nat
    BY <1>2, <1>3
  <2>. HIDE DEF new
  <2>. QED
    BY <1>1, <2>1, Least
<1>. HIDE DEF new, e
<1>5. page \in SUBSET Nat /\ Min(new) \in page /\ (\A i \in page : i <= Len(e)) /\ page \subseteq DOMAIN e
  BY <1>2, <1>3, <1>4
<1>. DEFINE last == Max(page)
<1>6. last \in page /\ \A i \in page : last >= i
  <2>. HIDE DEF page
  <2>. QED
    BY <1>2, <1>5, Greatest
<1>. HIDE DEF last
<1>7. \A i \in DOMAIN e : i \in page <=> (e[i].seq > cursor /\ i <= last)
  BY <1>2, <1>3, <1>4, <1>5, <1>6
<1>8. last \in DOMAIN e /\ cursor' = e[last].seq /\ \A i \in DOMAIN e : e[i].seq <= cursor' <=> i <= last
  <2>1. last \in DOMAIN e /\ cursor' = e[last].seq
    BY <1>1, <1>5, <1>6 DEF last
  <2>. QED
    BY <1>2, <2>1
<1>9. cursor < cursor'
  BY <1>2, <1>3, <1>6, <1>8
<1>. HIDE DEF page
<1>10. /\ \A i \in DOMAIN e : s[i] \in Entries /\ s[i].seq = e[i].seq
       /\ \A i \in DOMAIN e : s[i].sent = (IF i \in page THEN 1 + e[i].sent ELSE e[i].sent)
       /\ DOMAIN s = DOMAIN e
  <2>1. ASSUME NEW i \in DOMAIN e
        PROVE  /\ s[i] \in Entries /\ s[i].seq = e[i].seq
               /\ s[i].sent = (IF i \in page THEN 1 + e[i].sent ELSE e[i].sent)
    <3>1. s[i] = [e[i] EXCEPT !.sent = IF i \in page THEN 1 + e[i].sent ELSE e[i].sent] /\ e[i] \in Entries
      BY <1>2
    <3>. QED
      BY <3>1 DEF Entries
  <2>. QED
    BY <2>1
<1>11. s \in Seq(Entries) /\ Len(s) = Len(e)
  BY <1>2, <1>10
<1>. HIDE DEF s
<1>12. ring'.entries = s /\ ring'.next = ring.next /\ {"entries", "bytes", "max", "next"} \subseteq DOMAIN ring'
  BY <1>1 DEF RingInv, RingTypes
<1>13. RingTypes'
  <2>1. cursor' \in Nat /\ cursor' <= ring.next /\ missed' <= cursor'
    <3>1. e[last].seq \in Nat /\ e[last].seq = ring.next - Len(e) + last /\ last \in Nat /\ last <= Len(e)
      BY <1>2, <1>8 DEF Entries
    <3>2. cursor' = e[last].seq /\ missed' = missed
      BY <1>1, <1>8
    <3>. QED
      BY <1>2, <1>9, <3>1, <3>2
  <2>. QED
    BY <1>1, <1>2, <1>11, <1>12, <2>1 DEF RingTypes
<1>14. \A i \in DOMAIN e : e[i].sent = (IF missed < e[i].seq /\ e[i].seq <= cursor THEN 1 ELSE 0)
  BY DEF RingInv, ListedOnce, e
<1>15. \A i \in DOMAIN s : s[i].sent = (IF missed < s[i].seq /\ s[i].seq <= cursor' THEN 1 ELSE 0)
  <2>1. ASSUME NEW i \in DOMAIN s PROVE s[i].sent = (IF missed < s[i].seq /\ s[i].seq <= cursor' THEN 1 ELSE 0)
    <3>1. e[i].seq \in Int /\ e[i].sent = (IF missed < e[i].seq /\ e[i].seq <= cursor THEN 1 ELSE 0) /\ s[i].seq = e[i].seq
      BY <1>2, <1>10, <1>14 DEF Entries
    <3>2. cursor' \in Int
      BY <1>2, <1>8 DEF Entries
    <3>3. CASE i \in page
      BY <1>2, <1>7, <1>8, <1>10, <3>1, <3>2, <3>3
    <3>4. CASE i \notin page
      BY <1>2, <1>7, <1>8, <1>9, <1>10, <3>1, <3>2, <3>4
    <3>. QED
      BY <3>3, <3>4
  <2>. QED
    BY <2>1
<1>16. \A i \in DOMAIN s : s[i].seq = ring.next - Len(s) + i
  BY <1>2, <1>10, <1>11
<1>. QED
  BY <1>1, <1>12, <1>13, <1>15, <1>16 DEF RingInv, WithoutGap, ListedOnce

LEMMA EmptyRing ==
    ASSUME NEW max, ring' = NewRing(max), missed' \in Nat, cursor' = missed'
    PROVE  RingInv'
  BY DEF NewRing, RingInv, RingTypes, WithoutGap, ListedOnce

LEMMA RingStep == RingInv /\ [LogNext]_logVars => RingInv'
<1>. SUFFICES ASSUME RingInv, [LogNext]_logVars PROVE RingInv'
  OBVIOUS
<1>1. CASE UNCHANGED <<ring, cursor, missed>>
  BY <1>1 DEF RingInv, RingTypes, WithoutGap, ListedOnce
<1>2. CASE RestartLog
  BY <1>2, EmptyRing DEF RestartLog, RingInv, RingTypes
<1>3. CASE Shift \/ Reopen \/ CloseLog \/ UNCHANGED logVars
  <2>1. UNCHANGED <<ring, cursor, missed>>
    BY <1>3, Zenon DEF Shift, Reopen, CloseLog, logVars
  <2>. QED
    BY <1>1, <2>1
<1>4. ASSUME NEW l \in Loggers, Write(l) \/ Drop(l) \/ StartRotation(l) PROVE RingInv'
  <2>1. UNCHANGED <<ring, cursor, missed>>
    BY <1>4, Zenon DEF Write, Drop, StartRotation
  <2>. QED
    BY <1>1, <2>1
<1>. QED
  BY <1>2, <1>3, <1>4, LimitStep, EntryStep, PageStep, Zenon DEF LogNext

\* A client that lists the log in pages gets each entry once, in spite of what
\* is added, and of the entries that leave, between two of its pages; after a
\* restart of the gateway, each entry above the number it continues with.
THEOREM OnceEach == LogSpec => []ListedOnce
<1>1. LogInit => RingInv
  BY DEF LogInit, NewRing, RingInv, RingTypes, WithoutGap, ListedOnce
<1>2. RingInv => ListedOnce
  BY DEF RingInv
<1>. QED
  BY <1>1, <1>2, RingStep, PTL DEF LogSpec

\* The entries of the ring are the latest ones, without a gap.
THEOREM NoGap == LogSpec => []WithoutGap
<1>1. LogInit => RingInv
  BY DEF LogInit, NewRing, RingInv, RingTypes, WithoutGap, ListedOnce
<1>2. RingInv => WithoutGap
  BY DEF RingInv
<1>. QED
  BY <1>1, <1>2, RingStep, PTL DEF LogSpec

-----------------------------------------------------------------------------
(* The bytes of the ring.                                                  *)

LEMMA Inductive == ASSUME NEW T \in SUBSET Nat, 0 \in T, \A n \in T : n + 1 \in T PROVE T = Nat
<1>. SUFFICES ASSUME Nat \ T # {} PROVE FALSE
  OBVIOUS
<1>1. PICK m \in Nat \ T : \A y \in Nat \ T : m <= y
  BY Least
<1>2. m - 1 \in Nat /\ m - 1 \in T
  BY <1>1
<1>. QED
  BY <1>1, <1>2

Defined(V, b, n, step) == \E f \in [0..n -> V] : f[0] = b /\ \A k \in 1..n : f[k] = step[k][f[k - 1]]

\* A function on 0..N may be defined step by step.
LEMMA Recursion ==
    ASSUME NEW V, NEW b \in V, NEW N \in Nat, NEW step \in [1..N -> [V -> V]]
    PROVE  Defined(V, b, N, step)
<1>. DEFINE Upto(n) == Defined(V, b, n, step)
            T == {n \in Nat : n <= N => Upto(n)}
<1>1. 0 \in T
  <2>1. [k \in 0..0 |-> b] \in [0..0 -> V] /\ [k \in 0..0 |-> b][0] = b /\ \A k \in 1..0 : FALSE
    OBVIOUS
  <2>. QED
    BY <2>1 DEF Defined
<1>. HIDE DEF Upto
<1>2. ASSUME NEW n \in T PROVE n + 1 \in T
  <2>. SUFFICES ASSUME n + 1 <= N, n \in Nat, Upto(n) PROVE Upto(n + 1)
    BY <1>2
  <2>1. PICK f \in [0..n -> V] : f[0] = b /\ \A k \in 1..n : f[k] = step[k][f[k - 1]]
    BY DEF Upto, Defined
  <2>. DEFINE g == [k \in 0..(n + 1) |-> IF k = n + 1 THEN step[n + 1][f[n]] ELSE f[k]]
  <2>2. step[n + 1][f[n]] \in V
    <3>1. n + 1 \in 1..N /\ f[n] \in V
      BY <2>1
    <3>. QED
      BY <3>1
  <2>3. g \in [0..(n + 1) -> V] /\ g[0] = b
    BY <2>1, <2>2
  <2>4. ASSUME NEW k \in 1..(n + 1) PROVE g[k] = step[k][g[k - 1]]
    BY <2>1
  <2>. QED
    BY <2>3, <2>4 DEF Upto, Defined
<1>. HIDE DEF T
<1>3. T = Nat
  <2>1. T \in SUBSET Nat
    BY DEF T
  <2>. QED
    BY <1>1, <1>2, <2>1, Inductive
<1>4. Upto(N)
  BY <1>3 DEF T
<1>. QED
  BY <1>4 DEF Upto

LEMMA EntrySizes ==
    ASSUME NEW s \in Seq(Entries)
    PROVE  /\ Len(s) \in Nat /\ DOMAIN s = 1..Len(s)
           /\ \A n \in 1..Len(s) : s[n] \in Entries /\ s[n].size \in Nat
<1>1. Len(s) \in Nat /\ DOMAIN s = 1..Len(s) /\ \A n \in 1..Len(s) : s[n] \in Entries
  OBVIOUS
<1>. QED
  BY <1>1 DEF Entries

\* Whatever adds the sizes up from the front arrives at the byte count.
LEMMA BytesOf ==
    ASSUME NEW s \in Seq(Entries), NEW f, f[0] = 0, \A n \in 1..Len(s) : f[n] = f[n - 1] + s[n].size
    PROVE  Bytes(s) = f[Len(s)]
<1>. DEFINE Step(g) == [n \in 0..Len(s) |-> IF n = 0 THEN 0 ELSE g[n - 1] + s[n].size]
            sum == CHOOSE g : g = Step(g)
            own == [n \in 0..Len(s) |-> f[n]]
            T == {n \in Nat : n <= Len(s) => sum[n] = f[n]}
<1>1. Bytes(s) = sum[Len(s)]
  BY DEF Bytes
<1>2. sum = Step(sum)
  <2>1. own = Step(own)
    <3>1. \A n \in 0..Len(s) : own[n] = Step(own)[n]
      OBVIOUS
    <3>. QED
      BY <3>1
  <2>. HIDE DEF own, Step
  <2>. QED
    BY <2>1
<1>. HIDE DEF sum
<1>3. \A n \in 0..Len(s) : sum[n] = IF n = 0 THEN 0 ELSE sum[n - 1] + s[n].size
  BY <1>2
<1>4. 0 \in T /\ \A n \in T : n + 1 \in T
  BY <1>3
<1>5. T = Nat
  <2>. HIDE DEF T
  <2>1. T \in SUBSET Nat
    BY DEF T
  <2>. QED
    BY <1>4, <2>1, Inductive
<1>. QED
  BY <1>1, <1>5

LEMMA BytesSummed ==
    ASSUME NEW s \in Seq(Entries)
    PROVE  \E f \in [0..Len(s) -> Nat] :
             f[0] = 0 /\ (\A n \in 1..Len(s) : f[n] = f[n - 1] + s[n].size) /\ Bytes(s) = f[Len(s)]
<1>. DEFINE step == [n \in 1..Len(s) |-> [v \in Nat |-> v + s[n].size]]
<1>1. Len(s) \in Nat /\ \A n \in 1..Len(s) : s[n].size \in Nat
  BY EntrySizes
<1>2. step \in [1..Len(s) -> [Nat -> Nat]]
  BY <1>1
<1>3. PICK f \in [0..Len(s) -> Nat] : f[0] = 0 /\ \A n \in 1..Len(s) : f[n] = step[n][f[n - 1]]
  <2>. HIDE DEF step
  <2>1. Defined(Nat, 0, Len(s), step)
    BY <1>1, <1>2, Recursion
  <2>. QED
    BY <2>1 DEF Defined
<1>4. ASSUME NEW n \in 1..Len(s) PROVE f[n] = f[n - 1] + s[n].size
  <2>1. f[n - 1] \in Nat /\ f[n] = step[n][f[n - 1]]
    <3>1. n - 1 \in 0..Len(s)
      BY <1>1
    <3>. HIDE DEF step
    <3>. QED
      BY <1>3, <3>1
  <2>. QED
    BY <2>1
<1>. QED
  BY <1>3, <1>4, BytesOf

LEMMA BytesNat == ASSUME NEW s \in Seq(Entries) PROVE Bytes(s) \in Nat
  BY BytesSummed

LEMMA BytesNone == Bytes(<<>>) = 0
<1>. DEFINE f == [n \in 0..0 |-> 0]
<1>1. /\ <<>> \in Seq(Entries) /\ Len(<<>>) = 0 /\ f[0] = 0
      /\ \A n \in 1..Len(<<>>) : f[n] = f[n - 1] + <<>>[n].size
  OBVIOUS
<1>2. Bytes(<<>>) = f[Len(<<>>)]
  <2>. HIDE DEF f
  <2>. QED
    BY <1>1, BytesOf
<1>. QED
  BY <1>1, <1>2

LEMMA BytesAppend ==
    ASSUME NEW s \in Seq(Entries), NEW e \in Entries
    PROVE  Bytes(Append(s, e)) = Bytes(s) + e.size
<1>1. PICK f \in [0..Len(s) -> Nat] :
        f[0] = 0 /\ (\A n \in 1..Len(s) : f[n] = f[n - 1] + s[n].size) /\ Bytes(s) = f[Len(s)]
  BY BytesSummed
<1>. DEFINE t == Append(s, e)
            g == [n \in 0..(Len(s) + 1) |-> IF n = Len(s) + 1 THEN f[Len(s)] + e.size ELSE f[n]]
<1>2. /\ t \in Seq(Entries) /\ Len(t) = Len(s) + 1 /\ Len(s) \in Nat
      /\ (\A i \in 1..Len(s) : t[i] = s[i]) /\ t[Len(s) + 1] = e
  BY AppendProperties
<1>. HIDE DEF t
<1>3. g[0] = 0 /\ g[Len(t)] = Bytes(s) + e.size
  BY <1>1, <1>2
<1>4. ASSUME NEW n \in 1..Len(t) PROVE g[n] = g[n - 1] + t[n].size
  <2>1. CASE n = Len(s) + 1
    BY <1>2, <2>1
  <2>2. CASE n # Len(s) + 1
    <3>1. n \in 1..Len(s)
      BY <1>2, <2>2
    <3>2. g[n] = f[n] /\ g[n - 1] = f[n - 1] /\ t[n] = s[n]
      BY <1>2, <3>1
    <3>. QED
      BY <1>1, <3>1, <3>2
  <2>. QED
    BY <2>1, <2>2
<1>5. Bytes(t) = g[Len(t)]
  <2>. HIDE DEF g
  <2>. QED
    BY <1>2, <1>3, <1>4, BytesOf
<1>. QED
  BY <1>3, <1>5 DEF t

\* Entries of the same sizes have the same bytes.
LEMMA SameBytes ==
    ASSUME NEW s \in Seq(Entries), NEW t \in Seq(Entries), Len(s) = Len(t),
           \A i \in 1..Len(s) : s[i].size = t[i].size
    PROVE  Bytes(s) = Bytes(t)
<1>1. PICK f \in [0..Len(s) -> Nat] :
        f[0] = 0 /\ (\A n \in 1..Len(s) : f[n] = f[n - 1] + s[n].size) /\ Bytes(s) = f[Len(s)]
  BY BytesSummed
<1>2. \A n \in 1..Len(t) : f[n] = f[n - 1] + t[n].size
  BY <1>1
<1>. QED
  BY <1>1, <1>2, BytesOf

\* The front and the rest make up the whole.
LEMMA BytesSplit ==
    ASSUME NEW s \in Seq(Entries), NEW m \in 0..Len(s)
    PROVE  /\ Bytes(SubSeq(s, 1, m)) \in Nat
           /\ Bytes(SubSeq(s, m + 1, Len(s))) = Bytes(s) - Bytes(SubSeq(s, 1, m))
<1>1. PICK f \in [0..Len(s) -> Nat] :
        f[0] = 0 /\ (\A n \in 1..Len(s) : f[n] = f[n - 1] + s[n].size) /\ Bytes(s) = f[Len(s)]
  BY BytesSummed
<1>2. Len(s) \in Nat /\ \A i \in 1..Len(s) : s[i] \in Entries /\ s[i].size \in Nat
  BY EntrySizes
<1>3. Bytes(SubSeq(s, 1, m)) = f[m]
  <2>. DEFINE t == SubSeq(s, 1, m)
  <2>1. t \in Seq(Entries) /\ Len(t) = m /\ \A i \in 1..m : t[i] = s[i]
    <3>1. \A i \in 1..m : s[i] \in Entries
      BY <1>2
    <3>. QED
      BY <1>2, <3>1, SubSeqProperties
  <2>. HIDE DEF t
  <2>2. \A n \in 1..Len(t) : f[n] = f[n - 1] + t[n].size
    BY <1>1, <1>2, <2>1
  <2>3. Bytes(t) = f[Len(t)]
    BY <1>1, <2>1, <2>2, BytesOf
  <2>. QED
    BY <2>1, <2>3 DEF t
<1>4. Bytes(SubSeq(s, m + 1, Len(s))) = f[Len(s)] - f[m]
  <2>. DEFINE t == SubSeq(s, m + 1, Len(s))
              g == [n \in 0..(Len(s) - m) |-> f[n + m] - f[m]]
  <2>1. t \in Seq(Entries) /\ Len(t) = Len(s) - m /\ \A i \in 1..(Len(s) - m) : t[i] = s[i + m]
    BY Rest
  <2>. HIDE DEF t
  <2>2. g[0] = 0 /\ g[Len(t)] = f[Len(s)] - f[m]
    BY <1>1, <1>2, <2>1
  <2>3. ASSUME NEW n \in 1..Len(t) PROVE g[n] = g[n - 1] + t[n].size
    <3>1. /\ n + m \in 1..Len(s) /\ n \in 0..(Len(s) - m) /\ n - 1 \in 0..(Len(s) - m)
          /\ t[n] = s[n + m] /\ n - 1 + m = n + m - 1 /\ n + m - 1 \in 0..Len(s)
      BY <1>2, <2>1
    <3>2. f[n + m] = f[n + m - 1] + t[n].size
      BY <1>1, <3>1
    <3>3. f[n + m] \in Nat /\ f[n + m - 1] \in Nat /\ f[m] \in Nat /\ t[n].size \in Nat
      <4>1. n + m \in 0..Len(s) /\ m \in 0..Len(s)
        BY <1>2, <3>1
      <4>. QED
        BY <1>1, <1>2, <3>1, <4>1
    <3>4. g[n] = f[n + m] - f[m] /\ g[n - 1] = f[n + m - 1] - f[m]
      BY <3>1
    <3>. HIDE DEF g
    <3>. QED
      BY <3>2, <3>3, <3>4
  <2>4. Bytes(t) = g[Len(t)]
    <3>. HIDE DEF g
    <3>. QED
      BY <2>1, <2>2, <2>3, BytesOf
  <2>. QED
    BY <2>2, <2>4 DEF t
<1>5. f[m] \in Nat
  BY <1>2
<1>. QED
  BY <1>1, <1>3, <1>4, <1>5

\* A count that was right stays right, and there is room for what made it or
\* the ring is empty.
LEMMA CountKept ==
    ASSUME NEW r, r.entries \in Seq(Entries), {"entries", "bytes", "max", "next"} \subseteq DOMAIN r,
           r.bytes = Bytes(r.entries), NEW more
    PROVE  LET k == Evicted(r, more)
           IN  /\ k.bytes \in Nat /\ k.bytes = Bytes(k.entries)
               /\ k.entries = <<>> \/ k.bytes + more <= r.max
<1>. DEFINE size(m) == Bytes(SubSeq(r.entries, 1, m))
            rest(m) == SubSeq(r.entries, m + 1, Len(r.entries))
<1>1. PICK m \in 0..Len(r.entries) :
        /\ m = Len(r.entries) \/ r.bytes - size(m) + more <= r.max
        /\ Evicted(r, more) = [r EXCEPT !.entries = rest(m), !.bytes = r.bytes - size(m)]
  BY RoomInFront
<1>2. rest(m) \in Seq(Entries) /\ Bytes(rest(m)) = r.bytes - size(m)
  BY BytesSplit, Rest
<1>3. m = Len(r.entries) => rest(m) = <<>>
  BY SubSeqEmpty
<1>. DEFINE b == r.bytes - size(m)
<1>4. b \in Nat /\ b = Bytes(rest(m)) /\ (rest(m) = <<>> \/ b + more <= r.max)
  <2>. HIDE DEF size, rest
  <2>. QED
    BY <1>1, <1>2, <1>3, BytesNat
<1>. HIDE DEF b, rest
<1>5. Evicted(r, more) = [r EXCEPT !.entries = rest(m), !.bytes = b]
  BY <1>1 DEF b
<1>. QED
  BY <1>4, <1>5

ByteInv ==
    /\ ring.max \in Nat \ {0}
    /\ ring.bytes = Bytes(ring.entries) /\ ring.bytes <= ring.max

LEMMA LimitBytes == ASSUME RingInv, ByteInv, SetMaxBytes PROVE ByteInv'
<1>1. PICK max \in RingLimits \ {ring.max} : ring' = Evicted([ring EXCEPT !.max = max], 0)
  BY Zenon DEF SetMaxBytes
<1>. DEFINE r == [ring EXCEPT !.max = max]
            k == Evicted(r, 0)
<1>2. /\ r.entries = ring.entries /\ r.bytes = ring.bytes /\ r.max = max /\ r.next = ring.next
      /\ {"entries", "bytes", "max", "next"} \subseteq DOMAIN r
  BY DEF RingInv, RingTypes
<1>3. max \in Nat \ {0}
  BY SizesAssumption
<1>. HIDE DEF r
<1>4. /\ k.bytes \in Nat /\ k.bytes = Bytes(k.entries) /\ (k.entries = <<>> \/ k.bytes + 0 <= max)
      /\ k.max = max
  BY <1>2, CountKept, EvictionStep DEF RingInv, RingTypes, ByteInv
<1>5. ring' = k
  BY <1>1 DEF r
<1>. HIDE DEF k
<1>6. k.bytes <= max
  BY <1>3, <1>4, BytesNone
<1>. QED
  BY <1>3, <1>4, <1>5, <1>6 DEF ByteInv

LEMMA EntryBytes == ASSUME RingInv, ByteInv, NEW l \in Loggers, Log(l) PROVE ByteInv'
<1>1. PICK size \in Sizes : ring' = Added(ring, size)
  BY Zenon DEF Log
<1>. DEFINE fit == IF size > ring.max \div 2 THEN 1 ELSE size
            k == Evicted(ring, fit)
            e == [seq |-> ring.next + 1, size |-> fit, sent |-> 0]
            s == Append(k.entries, e)
            b == k.bytes + fit
<1>2. ring' = [k EXCEPT !.next = @ + 1, !.bytes = b, !.entries = s]
  BY <1>1 DEF Added
<1>3. /\ ring.entries \in Seq(Entries) /\ ring.next \in Nat /\ ring.max \in Nat \ {0}
      /\ {"entries", "bytes", "max", "next"} \subseteq DOMAIN ring
  BY DEF RingInv, RingTypes, ByteInv
<1>4. fit \in Nat /\ fit <= ring.max
  <2>1. size \in Nat
    BY SizesAssumption
  <2>. QED
    BY <1>3, <2>1
<1>5. e \in Entries /\ e.size = fit
  <2>. HIDE DEF fit
  <2>. QED
    BY <1>3, <1>4 DEF Entries
<1>. HIDE DEF fit
<1>6. /\ k.bytes \in Nat /\ k.bytes = Bytes(k.entries)
      /\ k.entries = <<>> \/ k.bytes + fit <= ring.max
      /\ k.entries \in Seq(Entries) /\ k.max = ring.max
      /\ {"entries", "bytes", "max", "next"} \subseteq DOMAIN k
  BY <1>3, CountKept, EvictionStep DEF ByteInv
<1>. HIDE DEF k, e
<1>7. Bytes(s) = b
  BY <1>5, <1>6, BytesAppend
<1>8. b <= ring.max
  BY <1>3, <1>4, <1>6, BytesNone
<1>. HIDE DEF b, s
<1>9. ring'.entries = s /\ ring'.bytes = b /\ ring'.max = ring.max
  BY <1>2, <1>6
<1>. QED
  BY <1>3, <1>7, <1>8, <1>9 DEF ByteInv

LEMMA PageBytes == ASSUME RingInv, ByteInv, ListEntries PROVE ByteInv'
<1>. DEFINE e == ring.entries
            new == After(cursor)
            page == {i \in new : i < Min(new) + PageLimit}
            s == [i \in DOMAIN e |-> [e[i] EXCEPT !.sent = IF i \in page THEN 1 + @ ELSE @]]
<1>1. ring' = [ring EXCEPT !.entries = s]
  BY DEF ListEntries
<1>2. /\ e \in Seq(Entries) /\ Len(e) \in Nat /\ DOMAIN e = 1..Len(e)
      /\ \A i \in DOMAIN e : e[i] \in Entries
  BY DEF RingInv, RingTypes
<1>3. s = ring'.entries /\ ring'.bytes = ring.bytes /\ ring'.max = ring.max
  <2>. HIDE DEF s
  <2>. QED
    BY <1>1 DEF RingInv, RingTypes
<1>4. s \in Seq(Entries)
  BY <1>3, PageStep DEF RingInv, RingTypes
<1>. HIDE DEF page, e
<1>5. DOMAIN s = DOMAIN e /\ \A i \in DOMAIN e : s[i].size = e[i].size
  BY <1>2 DEF Entries
<1>6. Bytes(s) = Bytes(e)
  <2>. HIDE DEF s
  <2>1. Len(s) = Len(e)
    BY <1>2, <1>4, <1>5
  <2>. QED
    BY <1>2, <1>4, <1>5, <2>1, SameBytes
<1>. HIDE DEF s
<1>. QED
  BY <1>3, <1>6 DEF ByteInv, e

LEMMA ByteStep == RingInv /\ ByteInv /\ [LogNext]_logVars => ByteInv'
<1>. SUFFICES ASSUME RingInv, ByteInv, [LogNext]_logVars PROVE ByteInv'
  OBVIOUS
<1>1. CASE UNCHANGED ring
  BY <1>1 DEF ByteInv
<1>2. CASE RestartLog
  <2>1. ring' = NewRing(ring.max)
    BY <1>2 DEF RestartLog
  <2>. QED
    BY <2>1, BytesNone DEF NewRing, ByteInv
<1>3. CASE Shift \/ Reopen \/ CloseLog \/ UNCHANGED logVars
  <2>1. UNCHANGED ring
    BY <1>3, Zenon DEF Shift, Reopen, CloseLog, logVars
  <2>. QED
    BY <1>1, <2>1
<1>4. ASSUME NEW l \in Loggers, Write(l) \/ Drop(l) \/ StartRotation(l) PROVE ByteInv'
  <2>1. UNCHANGED ring
    BY <1>4, Zenon DEF Write, Drop, StartRotation
  <2>. QED
    BY <1>1, <2>1
<1>. QED
  BY <1>2, <1>3, <1>4, LimitBytes, EntryBytes, PageBytes, Zenon DEF LogNext

\* Whatever the sizes and the limits that reloads set, the byte count of the
\* ring is that of its entries and within the limit, and no entry is missing.
THEOREM BytesCounted == LogSpec => []RingAccounted
<1>1. LogInit => RingInv /\ ByteInv
  <2>. SUFFICES ASSUME LogInit PROVE RingInv /\ ByteInv
    OBVIOUS
  <2>1. PICK max \in RingLimits : ring = NewRing(max)
    BY DEF LogInit
  <2>2. max \in Nat \ {0}
    BY SizesAssumption
  <2>3. RingInv
    BY <2>1 DEF LogInit, NewRing, RingInv, RingTypes, WithoutGap, ListedOnce
  <2>. QED
    BY <2>1, <2>2, <2>3, BytesNone DEF NewRing, ByteInv
<1>2. RingInv /\ ByteInv => RingAccounted
  BY DEF RingInv, ByteInv, RingAccounted
<1>. QED
  BY <1>1, <1>2, RingStep, ByteStep, PTL DEF LogSpec

=============================================================================
