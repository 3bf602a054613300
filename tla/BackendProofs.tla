--------------------------- MODULE BackendProofs ---------------------------
(***************************************************************************)
(* Proofs about Backend, for every number of workers and every value of    *)
(* the bounds: who holds initMu, who owns the clients, and, while no       *)
(* reload removes the backend, in which era requests are sent.             *)
(***************************************************************************)
EXTENDS Backend, TLAPS

USE WorkersAssumption, BoundsAssumption

-----------------------------------------------------------------------------
(* Types *)

\* What the types rest on: the stages that use the local client have one, and a worker that
\* waits, waits for a process; parameters are built for requests only.
LocalInv ==
    \A w \in Workers :
        /\ pc[w] \in {"running", "check", "opened", "waiting", "record"} => held[w] # 0
        /\ pc[w] = "waiting" => sentTo[w] # 0
        /\ pc[w] = "params" => doing[w] = "request"

TypeInv == TypeOK /\ LocalInv

\* The initial values have their types.
LEMMA InitTyped == Init => TypeInv
<1>. SUFFICES ASSUME Init PROVE TypeInv
  OBVIOUS
<1>1. starter \in [Clients \X Gens -> Tasks \cup {"none"}] /\ shaken \subseteq Clients \X Gens
  BY DEF Init
<1>2. seen \in [Workers -> BOOLEAN \X (Gens \cup {0})]
  BY DEF Init
<1>3. /\ pc \in [Workers -> Stages] /\ doing \in [Workers -> Tasks]
      /\ open \in [Clients -> BOOLEAN] /\ form \in [Workers -> BOOLEAN]
      /\ held \in [Workers -> Clients \cup {0}] /\ sentTo \in [Workers -> Gens \cup {0}]
      /\ attempt \in [Workers -> Nat]
  BY DEF Init, Stages, Tasks
<1>4. /\ gen \in [Clients -> Gens \cup {0}] /\ proc \in [Clients -> Gens \cup {0}]
      /\ \A k \in Clients : proc[k] \in {0, gen[k]}
  BY DEF Init
<1>5. LocalInv
  BY DEF Init, LocalInv
<1>6. /\ removal \in {"listed", "unlisted", "detached"} /\ era \in {"modern", "legacy"}
      /\ client \in Clients \cup {0} /\ made \in Nat /\ crashes \in Nat /\ closing \subseteq Clients
      /\ initialized \in BOOLEAN /\ modern \in BOOLEAN /\ initGen \in Gens \cup {0}
      /\ initMu \in Workers \cup {NoWorker} /\ discoverMu \in Workers \cup {NoWorker}
  BY DEF Init
<1>. QED
  BY <1>1, <1>2, <1>3, <1>4, <1>5, <1>6 DEF TypeInv, TypeOK

\* The ways a failed call goes on leave the types of what they change.
LEMMA CallFailsTyped ==
    ASSUME TypeOK, NEW w \in Workers, CallFails(w)
    PROVE  /\ \E s \in {"call", "failed"} : pc' = [pc EXCEPT ![w] = s]
           /\ doing' \in [Workers -> Tasks] /\ attempt' \in [Workers -> Nat]
           /\ initMu' \in Workers \cup {NoWorker} /\ discoverMu' \in Workers \cup {NoWorker}
<1>1. attempt' \in [Workers -> Nat] /\ doing' \in [Workers -> Tasks]
  <2>1. \E n \in Nat : attempt' = attempt \/ attempt' = [attempt EXCEPT ![w] = n]
    BY DEF CallFails, CallFor, TypeOK
  <2>2. doing' = doing \/ doing' = [doing EXCEPT ![w] = "initialize"]
    BY DEF CallFails, CallFor
  <2>3. attempt' \in [Workers -> Nat]
    BY <2>1 DEF TypeOK
  <2>4. doing' \in [Workers -> Tasks]
    BY <2>2 DEF TypeOK, Tasks
  <2>. QED
    BY <2>3, <2>4
<1>2. initMu' \in Workers \cup {NoWorker} /\ discoverMu' \in Workers \cup {NoWorker}
  BY DEF CallFails, Finish, Unlock, lockVars, TypeOK
<1>3. \E s \in {"call", "failed"} : pc' = [pc EXCEPT ![w] = s]
  BY DEF CallFails, CallFor, Finish, Goto, TypeOK
<1>. QED
  BY <1>1, <1>2, <1>3

\* Only worker w moves.
Only(w) == \A v \in Workers \ {w} : pc'[v] = pc[v] /\ doing'[v] = doing[v]

\* A failed call either goes on negotiating or leaves, unlocking initMu.
LEMMA FailureMoves ==
    ASSUME TypeOK, NEW w \in Workers, CallFails(w)
    PROVE  /\ Only(w)
           /\ \/ /\ doing[w] # "request" /\ pc'[w] = "call" /\ doing'[w] = "initialize"
                 /\ initMu' = initMu
              \/ pc'[w] = "failed" /\ initMu' = Unlock(initMu, w)
<1>1. CASE CallFor(w, "initialize") /\ UNCHANGED lockVars /\ doing[w] # "request"
  BY <1>1 DEF CallFor, Goto, TypeOK, Only, lockVars
<1>2. CASE Finish(w, "failed") /\ UNCHANGED <<doing, attempt>>
  BY <1>2 DEF Finish, Goto, TypeOK, Only
<1>. QED
  BY <1>1, <1>2 DEF CallFails

callCore == <<removal, era, client, initialized, initGen, modern, made, open, gen, proc, closing,
              shaken, starter, crashes, held, seen, form, sentTo>>

\* A failed call keeps the types.
LEMMA FailureTyped ==
    ASSUME TypeInv, NEW w \in Workers, CallFails(w), UNCHANGED callCore
    PROVE  TypeInv'
<1>1. TypeOK
  BY DEF TypeInv
<1>2. PICK s \in {"call", "failed"} : pc' = [pc EXCEPT ![w] = s]
  BY <1>1, CallFailsTyped
<1>3. pc' \in [Workers -> Stages]
  BY <1>1, <1>2 DEF TypeOK, Stages
<1>4. LocalInv'
  <2>1. Only(w)
    BY <1>1, FailureMoves
  <2>. QED
    BY <1>1, <1>2, <2>1 DEF TypeInv, TypeOK, LocalInv, callCore, Only
<1>5. /\ doing' \in [Workers -> Tasks] /\ attempt' \in [Workers -> Nat]
      /\ initMu' \in Workers \cup {NoWorker} /\ discoverMu' \in Workers \cup {NoWorker}
  BY <1>1, CallFailsTyped
<1>. QED
  BY <1>1, <1>3, <1>4, <1>5 DEF TypeInv, TypeOK, callCore

\* Every step keeps the types.
LEMMA TypeStep == TypeInv /\ [Next]_vars => TypeInv'
<1>. SUFFICES ASSUME TypeInv, [Next]_vars PROVE TypeInv'
  OBVIOUS
<1>. USE DEF TypeInv, TypeOK, LocalInv, Stages
<1>1. CASE UNCHANGED vars
  BY <1>1 DEF vars, backendVars, lockVars, clientVars, localVars
<1>2. ASSUME NEW w \in Workers, Find(w) PROVE TypeInv'
  <2>1. /\ UNCHANGED <<removal, era, backendVars, lockVars, clientVars, doing, localVars>>
        /\ \E s \in {"lock", "peek", "queue", "failed"} : pc' = [pc EXCEPT ![w] = s]
    BY <1>2 DEF Find, Goto
  <2>2. pc' \in [Workers -> Stages] /\ LocalInv'
    BY <2>1 DEF localVars
  <2>. QED
    BY <2>1, <2>2 DEF backendVars, lockVars, clientVars, localVars
<1>3. ASSUME NEW w \in Workers, LockDiscover(w) PROVE TypeInv'
  BY <1>3 DEF LockDiscover, Goto, backendVars, lockVars, clientVars, localVars
<1>4. ASSUME NEW w \in Workers, Peek(w) PROVE TypeInv'
  BY <1>4 DEF Peek, Goto, backendVars, lockVars, clientVars, localVars
<1>5. ASSUME NEW w \in Workers, IsRunning(w) PROVE TypeInv'
  BY <1>5 DEF IsRunning, Goto, backendVars, lockVars, clientVars, localVars
<1>6. ASSUME NEW w \in Workers, Forget(w) PROVE TypeInv'
  BY <1>6 DEF Forget, Goto, backendVars, lockVars, clientVars, localVars
<1>7. ASSUME NEW w \in Workers, EnterInit(w) PROVE TypeInv'
  BY <1>7 DEF EnterInit, Goto, backendVars, lockVars, clientVars, localVars
<1>8. ASSUME NEW w \in Workers, Create(w) PROVE TypeInv'
  <2>1. CASE Finish(w, "failed") /\ UNCHANGED <<client, made, open, held>>
    BY <1>8, <2>1 DEF Create, Finish, Unlock, Goto
  <2>2. CASE /\ made < MaxClients /\ client = 0 /\ made' = made + 1
             /\ open' = [open EXCEPT ![made + 1] = TRUE] /\ client' = made + 1
             /\ held' = [held EXCEPT ![w] = made + 1] /\ Goto(w, "check") /\ UNCHANGED lockVars
    <3>1. made + 1 \in Clients /\ made + 1 # 0
      BY <2>2 DEF Clients
    <3>. QED
      BY <1>8, <2>2, <3>1 DEF Create, Goto, lockVars
  <2>. QED
    BY <1>8, <2>1, <2>2 DEF Create
<1>9. ASSUME NEW w \in Workers, Check(w) PROVE TypeInv'
  <2>1. /\ UNCHANGED <<removal, era, backendVars, discoverMu, clientVars, localVars>>
        /\ held[w] # 0 /\ initMu' \in Workers \cup {NoWorker}
    BY <1>9 DEF Check
  <2>2. /\ \E s \in {"ready", "call"} : pc' = [pc EXCEPT ![w] = s]
        /\ doing' \in [Workers -> Tasks]
    BY <1>9 DEF Check, CallFor, Goto, Tasks
  <2>3. \A v \in Workers \ {w} : doing'[v] = doing[v]
    BY <1>9 DEF Check, CallFor
  <2>4. pc' \in [Workers -> Stages] /\ LocalInv'
    BY <2>1, <2>2, <2>3 DEF localVars
  <2>. QED
    BY <2>1, <2>2, <2>4 DEF backendVars, clientVars, localVars
<1>10. ASSUME NEW w \in Workers, Record(w) PROVE TypeInv'
  <2>1. modern' \in BOOLEAN
    BY <1>10 DEF Record
  <2>2. gen[held[w]] \in Gens \cup {0}
    BY <1>10 DEF Record
  <2>. QED
    BY <1>10, <2>1, <2>2 DEF Record, Goto, clientVars, localVars
<1>11. ASSUME NEW w \in Workers, ReadClient(w) PROVE TypeInv'
  <2>1. /\ UNCHANGED <<removal, era, backendVars, lockVars, clientVars, seen, attempt, sentTo>>
        /\ held' = [held EXCEPT ![w] = client] /\ pc[w] = "ready"
        /\ doing' \in [Workers -> Tasks]
    BY <1>11 DEF ReadClient, Tasks
  <2>2. form' \in [Workers -> BOOLEAN]
    BY <1>11 DEF ReadClient
  <2>3. \E s \in {"call", "params"} : pc' = [pc EXCEPT ![w] = s]
    BY <1>11 DEF ReadClient, Goto
  <2>4. pc' \in [Workers -> Stages] /\ LocalInv'
    <3>1. doing' = [doing EXCEPT ![w] = "request"]
      BY <1>11 DEF ReadClient
    <3>. QED
      BY <2>1, <2>3, <3>1
  <2>. QED
    BY <2>1, <2>2, <2>4 DEF backendVars, lockVars, clientVars
<1>12. ASSUME NEW w \in Workers, Params(w) PROVE TypeInv'
  BY <1>12 DEF Params, Goto, backendVars, lockVars, clientVars, localVars
<1>13. ASSUME NEW w \in Workers, Panic(w) PROVE TypeInv'
  BY <1>13 DEF Panic, Finish, Unlock, Goto, backendVars, lockVars, clientVars, localVars
<1>14. ASSUME NEW w \in Workers, EnsureStarted(w) PROVE TypeInv'
  <2>1. UNCHANGED <<removal, era, backendVars, made, open, closing, shaken, crashes, held, seen, form, sentTo>>
        /\ pc[w] = "call" /\ held[w] # 0
    BY <1>14 DEF EnsureStarted
  <2>2. CASE Goto(w, "opened") /\ UNCHANGED <<lockVars, gen, proc, starter, doing, attempt>>
    BY <2>1, <2>2 DEF Goto, backendVars, lockVars
  <2>3. CASE /\ Goto(w, "opened") /\ UNCHANGED <<lockVars, doing, attempt>>
             /\ gen[held[w]] < MaxGen
             /\ gen' = [gen EXCEPT ![held[w]] = gen[held[w]] + 1]
             /\ proc' = [proc EXCEPT ![held[w]] = gen[held[w]] + 1]
             /\ starter' = [starter EXCEPT ![<<held[w], gen[held[w]] + 1>>] = doing[w]]
    <3>1. gen[held[w]] + 1 \in Gens
      BY <2>1, <2>3 DEF Gens
    <3>2. starter' \in [Clients \X Gens -> Tasks \cup {"none"}]
      BY <2>1, <2>3, <3>1
    <3>3. gen' \in [Clients -> Gens \cup {0}] /\ proc' \in [Clients -> Gens \cup {0}]
          /\ \A k \in Clients : proc'[k] \in {0, gen'[k]}
      BY <2>1, <2>3, <3>1
    <3>. QED
      BY <2>1, <2>3, <3>2, <3>3 DEF Goto, backendVars, lockVars
  <2>4. CASE CallFails(w) /\ UNCHANGED <<gen, proc, starter>>
    <3>1. UNCHANGED callCore
      BY <2>1, <2>4 DEF callCore, backendVars
    <3>. HIDE DEF TypeInv
    <3>. QED
      BY <2>4, <3>1, FailureTyped
  <2>. QED
    BY <1>14, <2>2, <2>3, <2>4 DEF EnsureStarted
<1>15. ASSUME NEW w \in Workers, Submit(w) PROVE TypeInv'
  <2>1. UNCHANGED <<removal, era, backendVars, clientVars, held, seen, form>> /\ pc[w] = "opened"
    BY <1>15 DEF Submit
  <2>2. CASE /\ proc[held[w]] # 0
             /\ sentTo' = [sentTo EXCEPT ![w] = proc[held[w]]]
             /\ Goto(w, IF doing[w] = "initialized" THEN "record" ELSE "waiting")
             /\ UNCHANGED <<lockVars, doing, attempt>>
    BY <2>1, <2>2 DEF Goto, backendVars, lockVars, clientVars
  <2>3. CASE CallFails(w) /\ UNCHANGED sentTo
    <3>1. UNCHANGED callCore
      BY <2>1, <2>3 DEF callCore, backendVars, clientVars
    <3>. HIDE DEF TypeInv
    <3>. QED
      BY <2>3, <3>1, FailureTyped
  <2>. QED
    BY <1>15, <2>2, <2>3 DEF Submit
<1>16. ASSUME NEW w \in Workers, Answer(w) PROVE TypeInv'
  <2>1. /\ UNCHANGED <<removal, era, backendVars, made, open, gen, proc, closing, starter, crashes,
                       held, seen, form, sentTo>>
        /\ pc[w] = "waiting" /\ held[w] # 0 /\ sentTo[w] # 0
    BY <1>16 DEF Answer
  <2>2. CASE Goto(w, "record") /\ UNCHANGED <<lockVars, shaken, doing, attempt>>
    BY <2>1, <2>2 DEF Goto, backendVars, lockVars
  <2>3. CASE shaken' = shaken \cup {<<held[w], sentTo[w]>>} /\ CallFor(w, "initialized")
             /\ UNCHANGED <<lockVars, attempt>>
    BY <2>1, <2>3 DEF CallFor, Goto, Tasks, backendVars, lockVars
  <2>4. CASE Finish(w, "done") /\ UNCHANGED <<shaken, doing, attempt>>
    BY <2>1, <2>4 DEF Finish, Unlock, Goto, backendVars
  <2>5. CASE CallFails(w) /\ UNCHANGED shaken
    <3>1. UNCHANGED callCore
      BY <2>1, <2>5 DEF callCore, backendVars
    <3>. HIDE DEF TypeInv
    <3>. QED
      BY <2>5, <3>1, FailureTyped
  <2>. QED
    BY <1>16, <2>2, <2>3, <2>4, <2>5 DEF Answer
<1>17. ASSUME NEW w \in Workers, Lost(w) PROVE TypeInv'
  <2>1. CallFails(w) /\ UNCHANGED callCore
    BY <1>17 DEF Lost, callCore, backendVars, clientVars
  <2>. HIDE DEF TypeInv
  <2>. QED
    BY <2>1, FailureTyped
<1>18. ASSUME NEW w \in Workers, Timeout(w) PROVE TypeInv'
  BY <1>18 DEF Timeout, Finish, Unlock, Goto, backendVars, clientVars, localVars
<1>19. ASSUME NEW k \in Clients, IdleStop(k) PROVE TypeInv'
  <2>1. gen[k] + 1 \in Gens
    BY <1>19 DEF IdleStop, Gens
  <2>. QED
    BY <1>19, <2>1 DEF IdleStop, backendVars, lockVars, localVars
<1>20. ASSUME NEW k \in Clients, Crash(k) PROVE TypeInv'
  BY <1>20 DEF Crash, backendVars, lockVars, localVars
<1>22. ASSUME NEW k \in Clients, CloseClient(k) PROVE TypeInv'
  BY <1>22 DEF CloseClient, backendVars, lockVars, localVars
<1>21. CASE Unlist \/ Detach
  BY <1>21 DEF Unlist, Detach, backendVars, lockVars, clientVars, localVars
<1>23. CASE ProcessEnds
  BY <1>23 DEF ProcessEnds, backendVars, clientVars, localVars
<1>. HIDE DEF TypeInv
<1>. QED
  BY <1>1, <1>2, <1>3, <1>4, <1>5, <1>6, <1>7, <1>8, <1>9, <1>10, <1>11, <1>12, <1>13, <1>14,
     <1>15, <1>16, <1>17, <1>18, <1>19, <1>20, <1>21, <1>22, <1>23
     DEF Next, WorkerStep, NegotiationStep, CallStep

\* Every variable of the backend keeps its type.
THEOREM TypeCorrect == Spec => []TypeOK
<1>1. TypeInv => TypeOK
  BY DEF TypeInv
<1>. QED
  BY <1>1, InitTyped, TypeStep, PTL DEF Spec

-----------------------------------------------------------------------------
(* Who holds initMu *)

\* A worker that negotiates after its step holds initMu, any other lets go of it.
LEMMA MoveKeepsLock ==
    ASSUME TypeOK, LockHeldToNegotiate, NEW w \in Workers, Only(w),
           \/ Negotiating(w)' /\ initMu' = w /\ initMu \in {w, NoWorker}
           \/ ~Negotiating(w)' /\ initMu' = Unlock(initMu, w)
    PROVE  LockHeldToNegotiate'
<1>1. ASSUME NEW v \in Workers, v # w PROVE (initMu = v <=> Negotiating(v))'
  <2>1. Negotiating(v)' <=> Negotiating(v)
    BY <1>1 DEF Only, Negotiating
  <2>2. initMu' = v <=> initMu = v
    BY <1>1 DEF Unlock
  <2>. QED
    BY <2>1, <2>2 DEF LockHeldToNegotiate
<1>2. (initMu = w <=> Negotiating(w))'
  BY DEF Unlock
<1>. QED
  BY <1>1, <1>2 DEF LockHeldToNegotiate

\* The failure of a call, by a worker that holds initMu exactly when it negotiates.
LEMMA FailureKeepsLock ==
    ASSUME TypeOK, LockHeldToNegotiate, NEW w \in Workers, CallFails(w),
           pc[w] \in {"call", "opened", "waiting"}
    PROVE  LockHeldToNegotiate'
<1>1. CASE /\ doing[w] # "request" /\ pc'[w] = "call" /\ doing'[w] = "initialize"
           /\ initMu' = initMu
  <2>1. Negotiating(w)' /\ initMu = w
    BY <1>1 DEF Negotiating, LockHeldToNegotiate
  <2>. QED
    BY <1>1, <2>1, FailureMoves, MoveKeepsLock
<1>2. CASE pc'[w] = "failed" /\ initMu' = Unlock(initMu, w)
  <2>1. ~Negotiating(w)'
    BY <1>2 DEF Negotiating
  <2>. QED
    BY <1>2, <2>1, FailureMoves, MoveKeepsLock
<1>. QED
  BY <1>1, <1>2, FailureMoves

\* Every step keeps the rule.
LEMMA LockStep == TypeInv /\ LockHeldToNegotiate /\ [Next]_vars => LockHeldToNegotiate'
<1>. SUFFICES ASSUME TypeOK, LocalInv, LockHeldToNegotiate, [Next]_vars PROVE LockHeldToNegotiate'
  BY DEF TypeInv
<1>1. CASE UNCHANGED vars
  BY <1>1 DEF vars, lockVars, LockHeldToNegotiate, Negotiating
<1>2. ASSUME NEW w \in Workers,
             \/ Find(w) \/ LockDiscover(w) \/ Peek(w) \/ IsRunning(w) \/ Forget(w)
             \/ ReadClient(w) \/ Params(w)
      PROVE  LockHeldToNegotiate'
  <2>1. Only(w) /\ ~Negotiating(w) /\ initMu' = initMu
    BY <1>2 DEF Find, LockDiscover, Peek, IsRunning, Forget, ReadClient, Params, Goto, lockVars,
                Only, Negotiating, TypeOK
  <2>2. \/ pc'[w] \in {"lock", "peek", "queue", "failed", "done", "running", "forget"}
        \/ pc'[w] \in {"call", "params"} /\ doing'[w] = "request"
    <3>1. CASE ReadClient(w)
      BY <3>1 DEF ReadClient, Goto, TypeOK
    <3>2. CASE Params(w)
      <4>1. doing[w] = "request"
        BY <3>2 DEF Params, LocalInv
      <4>. QED
        BY <3>2, <4>1 DEF Params, Goto, TypeOK
    <3>3. CASE Find(w) \/ LockDiscover(w) \/ Peek(w) \/ IsRunning(w) \/ Forget(w)
      BY <3>3 DEF Find, LockDiscover, Peek, IsRunning, Forget, Goto, TypeOK
    <3>. QED
      BY <1>2, <3>1, <3>2, <3>3
  <2>3. ~Negotiating(w)'
    BY <2>2 DEF Negotiating
  <2>. QED
    BY <2>1, <2>3, MoveKeepsLock DEF Unlock, LockHeldToNegotiate
<1>3. ASSUME NEW w \in Workers, EnterInit(w) PROVE LockHeldToNegotiate'
  <2>1. Only(w) /\ initMu = NoWorker /\ initMu' = w /\ Negotiating(w)'
    BY <1>3 DEF EnterInit, Goto, Only, Negotiating, TypeOK
  <2>. QED
    BY <2>1, MoveKeepsLock
<1>4. ASSUME NEW w \in Workers, Create(w) PROVE LockHeldToNegotiate'
  <2>1. Only(w) /\ initMu = w
    BY <1>4 DEF Create, Finish, Goto, Only, Negotiating, LockHeldToNegotiate, TypeOK
  <2>2. \/ Negotiating(w)' /\ initMu' = initMu
        \/ ~Negotiating(w)' /\ initMu' = Unlock(initMu, w)
    BY <1>4 DEF Create, Finish, Goto, Negotiating, lockVars, TypeOK
  <2>. QED
    BY <2>1, <2>2, MoveKeepsLock
<1>5. ASSUME NEW w \in Workers, Check(w) PROVE LockHeldToNegotiate'
  <2>1. Only(w) /\ initMu = w
    BY <1>5 DEF Check, CallFor, Goto, Only, Negotiating, LockHeldToNegotiate, TypeOK
  <2>2. \/ Negotiating(w)' /\ initMu' = initMu
        \/ ~Negotiating(w)' /\ initMu' = NoWorker
    BY <1>5 DEF Check, CallFor, Goto, Negotiating, TypeOK
  <2>. QED
    BY <2>1, <2>2, MoveKeepsLock DEF Unlock
<1>6. ASSUME NEW w \in Workers, Record(w) PROVE LockHeldToNegotiate'
  <2>1. Only(w) /\ initMu = w /\ initMu' = NoWorker /\ ~Negotiating(w)'
    BY <1>6 DEF Record, Goto, Only, Negotiating, LockHeldToNegotiate, TypeOK
  <2>. QED
    BY <2>1, MoveKeepsLock DEF Unlock
<1>7. ASSUME NEW w \in Workers, Panic(w) \/ Timeout(w) PROVE LockHeldToNegotiate'
  <2>1. Only(w) /\ ~Negotiating(w)' /\ initMu' = Unlock(initMu, w)
    BY <1>7 DEF Panic, Timeout, Finish, Goto, Only, Negotiating, TypeOK
  <2>. QED
    BY <2>1, MoveKeepsLock
<1>8. ASSUME NEW w \in Workers, CallStep(w) PROVE LockHeldToNegotiate'
  <2>1. pc[w] \in {"call", "opened", "waiting"}
    BY <1>8 DEF CallStep, EnsureStarted, Submit, Answer, Lost
  <2>2. CASE CallFails(w)
    BY <2>1, <2>2, FailureKeepsLock
  <2>3. CASE ~CallFails(w)
    <3>1. /\ Only(w)
          /\ \/ (Negotiating(w)' <=> Negotiating(w)) /\ initMu' = initMu
             \/ ~Negotiating(w)' /\ initMu' = Unlock(initMu, w)
      <4>1. CASE EnsureStarted(w)
        BY <2>3, <4>1 DEF EnsureStarted, Goto, Only, Negotiating, lockVars, TypeOK
      <4>2. CASE Submit(w)
        BY <2>3, <4>2 DEF Submit, Goto, Only, Negotiating, lockVars, TypeOK
      <4>3. CASE Answer(w)
        BY <2>3, <4>3 DEF Answer, CallFor, Finish, Goto, Only, Negotiating, lockVars, TypeOK
      <4>4. CASE Lost(w)
        BY <2>3, <4>4 DEF Lost
      <4>. QED
        BY <1>8, <4>1, <4>2, <4>3, <4>4 DEF CallStep
    <3>. QED
      BY <3>1, MoveKeepsLock DEF LockHeldToNegotiate, Unlock
  <2>. QED
    BY <2>2, <2>3
<1>9. CASE Unlist \/ Detach \/ \E k \in Clients : IdleStop(k) \/ Crash(k) \/ CloseClient(k)
  <2>1. UNCHANGED <<pc, doing, lockVars>>
    BY <1>9 DEF Unlist, Detach, IdleStop, Crash, CloseClient
  <2>. QED
    BY <2>1 DEF lockVars, LockHeldToNegotiate, Negotiating
<1>10. CASE ProcessEnds
  <2>1. initMu' = NoWorker /\ \A w \in Workers : pc'[w] = "panic"
    BY <1>10 DEF ProcessEnds
  <2>. QED
    BY <2>1, WorkersAssumption DEF LockHeldToNegotiate, Negotiating
<1>. QED
  BY <1>1, <1>2, <1>3, <1>4, <1>5, <1>6, <1>7, <1>8, <1>9, <1>10 DEF Next, WorkerStep, NegotiationStep

\* Initially nobody negotiates and nobody holds initMu.
LEMMA LockInit == Init => LockHeldToNegotiate
  BY DEF Init, LockHeldToNegotiate, Negotiating

\* initMu is held by whoever negotiates, and by nobody who does not: no way out of
\* ensureInitialized leaves it locked, and no two workers negotiate at a time.
THEOREM LockCorrect == Spec => []LockHeldToNegotiate
  BY InitTyped, TypeStep, LockInit, LockStep, PTL DEF Spec

-----------------------------------------------------------------------------
(* Who owns the clients *)

\* Worker w sets out to create a client only when the backend has none.
LEMMA CreatorSees ==
    ASSUME TypeOK, NEW w \in Workers, WorkerStep(w), ~Create(w)
    PROVE  /\ UNCHANGED <<removal, client, open, closing>>
           /\ \A v \in Workers : pc'[v] = "create" => pc[v] = "create" \/ client = 0
<1>1. CASE CallStep(w) /\ CallFails(w)
  <2>1. pc'[w] # "create" /\ Only(w)
    BY <1>1, FailureMoves
  <2>. QED
    BY <1>1, <2>1 DEF Only, CallStep, EnsureStarted, Submit, Answer, Lost, backendVars, clientVars
<1>2. CASE CallStep(w) /\ ~CallFails(w)
  BY <1>2 DEF CallStep, EnsureStarted, Submit, Answer, Lost, CallFor, Finish, Goto, TypeOK,
              backendVars, clientVars
<1>3. CASE Find(w) \/ LockDiscover(w) \/ Peek(w) \/ IsRunning(w) \/ Forget(w)
  BY <1>3 DEF Find, LockDiscover, Peek, IsRunning, Forget, Goto, TypeOK, backendVars, clientVars
<1>4. CASE EnterInit(w)
  BY <1>4 DEF EnterInit, Goto, TypeOK, backendVars, clientVars
<1>5. CASE Check(w) \/ Record(w)
  BY <1>5 DEF Check, Record, CallFor, Goto, TypeOK, backendVars, clientVars
<1>6. CASE ReadClient(w) \/ Params(w) \/ Panic(w) \/ Timeout(w)
  BY <1>6 DEF ReadClient, Params, Panic, Timeout, Finish, Goto, TypeOK, backendVars, clientVars
<1>. QED
  BY <1>1, <1>2, <1>3, <1>4, <1>5, <1>6 DEF WorkerStep, NegotiationStep

\* With initMu held by the creator alone, every step keeps the client single.
LEMMA ClientStep ==
    TypeOK /\ LockHeldToNegotiate /\ NoRivalClient /\ OneClient /\ [Next]_vars
        => (NoRivalClient /\ OneClient)'
<1>. SUFFICES ASSUME TypeOK, LockHeldToNegotiate, NoRivalClient, OneClient, [Next]_vars
              PROVE  (NoRivalClient /\ OneClient)'
  OBVIOUS
<1>1. CASE UNCHANGED vars
  BY <1>1 DEF vars, backendVars, clientVars, NoRivalClient, OneClient
<1>2. ASSUME NEW w \in Workers, WorkerStep(w), ~Create(w) PROVE (NoRivalClient /\ OneClient)'
  BY <1>2, CreatorSees DEF NoRivalClient, OneClient
<1>3. ASSUME NEW w \in Workers, Create(w) PROVE (NoRivalClient /\ OneClient)'
  <2>1. pc'[w] # "create" /\ Only(w)
    BY <1>3 DEF Create, Finish, Goto, Only, TypeOK
  <2>2. \A v \in Workers : v # w => pc[v] # "create"
    BY <1>3 DEF Create, LockHeldToNegotiate, Negotiating
  <2>3. NoRivalClient'
    BY <2>1, <2>2 DEF NoRivalClient, Only
  <2>4. OneClient'
    <3>1. CASE UNCHANGED <<removal, client, open, closing>>
      BY <3>1 DEF OneClient
    <3>2. CASE /\ client = 0 /\ client' = made + 1 /\ closing' = closing /\ removal' = removal
               /\ open' = [open EXCEPT ![made + 1] = TRUE]
      <4>1. ASSUME NEW k \in Clients, open'[k]
            PROVE  k = client' \/ (removal' = "detached" /\ k \in closing')
        <5>1. k = made + 1 \/ open[k]
          BY <3>2, <4>1 DEF TypeOK
        <5>2. k # 0
          BY DEF Clients
        <5>. QED
          BY <3>2, <5>1, <5>2 DEF OneClient
      <4>. QED
        BY <4>1 DEF OneClient
    <3>. QED
      BY <1>3, <3>1, <3>2 DEF Create
  <2>. QED
    BY <2>3, <2>4
<1>4. ASSUME NEW k \in Clients, IdleStop(k) \/ Crash(k) \/ CloseClient(k)
      PROVE  (NoRivalClient /\ OneClient)'
  <2>1. UNCHANGED <<removal, pc, client>>
    BY <1>4 DEF IdleStop, Crash, CloseClient, backendVars
  <2>2. \/ UNCHANGED <<open, closing>>
        \/ open' = [open EXCEPT ![k] = FALSE] /\ closing' = closing \ {k}
    BY <1>4 DEF IdleStop, Crash, CloseClient
  <2>. QED
    BY <2>1, <2>2 DEF NoRivalClient, OneClient, TypeOK
<1>5. CASE Unlist
  BY <1>5 DEF Unlist, backendVars, clientVars, NoRivalClient, OneClient
<1>6. CASE Detach
  <2>1. /\ client' = 0 /\ closing' = closing \cup ({client} \ {0}) /\ UNCHANGED <<pc, open>>
        /\ removal = "unlisted" /\ removal' = "detached"
    BY <1>6 DEF Detach
  <2>2. \A k \in Clients : k # 0
    BY DEF Clients
  <2>. QED
    BY <2>1, <2>2 DEF NoRivalClient, OneClient
<1>7. CASE ProcessEnds
  BY <1>7 DEF ProcessEnds, backendVars, clientVars, NoRivalClient, OneClient
<1>. QED
  BY <1>1, <1>2, <1>3, <1>4, <1>5, <1>6, <1>7 DEF Next

\* Initially there is no client.
LEMMA ClientInit == Init => NoRivalClient /\ OneClient
  BY DEF Init, NoRivalClient, OneClient

\* Whoever creates a client finds the backend without one, and an open client is the backend's,
\* or a reload has closed the backend and close() has the client.
THEOREM ClientsOwned == Spec => [](NoRivalClient /\ OneClient)
<1>1. TypeInv => TypeOK
  BY DEF TypeInv
<1>. QED
  BY <1>1, InitTyped, TypeStep, LockInit, LockStep, ClientInit, ClientStep, PTL DEF Spec

-----------------------------------------------------------------------------
(* In which era requests are sent, until a reload has closed the backend *)

\* The backend has recorded what the server speaks.
Known == modern <=> era = "modern"

\* How far worker w has come justifies what it goes by.
Justified(w) ==
    /\ pc[w] \in {"create", "check"} /\ seen[w][1] => Known
    /\ pc[w] \in {"ready", "params"} => Known
    /\ pc[w] \in {"call", "opened", "waiting"} /\ doing[w] = "request"
          => Known /\ (form[w] <=> era = "modern")
    /\ pc[w] \in {"call", "opened", "waiting"} /\ doing[w] = "initialized" => era = "legacy"
    /\ pc[w] = "record" => (era = "modern" <=> doing[w] = "probe")

\* The first record fixes modern for good, and nobody requests before it.
EraInv ==
    /\ removal # "detached"
    /\ initialized => Known
    /\ \A w \in Workers : Justified(w)

\* Steps that keep what is recorded leave the other workers justified.
LEMMA OthersJustified ==
    ASSUME NEW w \in Workers, NEW v \in Workers, v # w, Justified(v), Only(w), Known => Known', era' = era,
           seen'[v] = seen[v], form'[v] = form[v]
    PROVE  Justified(v)'
  BY DEF Justified, Only

\* Recording the outcome makes the era known.
LEMMA RecordEra == ASSUME TypeOK, EraInv, NEW w \in Workers, Record(w) PROVE EraInv'
<1>1. /\ Only(w) /\ pc'[w] = "ready" /\ UNCHANGED <<removal, era, seen, form>>
  BY DEF Record, Goto, Only, TypeOK, localVars
<1>2. Known'
  BY DEF Record, Known, EraInv, Justified
<1>3. Justified(w)'
  BY <1>1, <1>2 DEF Justified
<1>4. ASSUME NEW v \in Workers, v # w PROVE Justified(v)'
  BY <1>1, <1>2, <1>4, OthersJustified DEF EraInv
<1>. QED
  BY <1>1, <1>2, <1>3, <1>4 DEF EraInv

\* A failed call sends its worker on to initialize, or away.
LEMMA FailureEra ==
    ASSUME TypeOK, EraInv, NEW w \in Workers, CallFails(w),
           UNCHANGED <<removal, era, initialized, modern, seen, form>>
    PROVE  EraInv'
<1>1. /\ Only(w)
      /\ \/ pc'[w] = "failed"
         \/ pc'[w] = "call" /\ doing'[w] = "initialize"
  <2>. HIDE DEF CallFails
  <2>. QED
    BY FailureMoves
<1>2. Known' <=> Known
  BY DEF Known
<1>3. Justified(w)'
  BY <1>1 DEF Justified
<1>4. ASSUME NEW v \in Workers, v # w PROVE Justified(v)'
  BY <1>1, <1>2, <1>4, OthersJustified DEF EraInv
<1>. QED
  BY <1>2, <1>3, <1>4 DEF EraInv

\* Every step of a worker keeps it justified.
LEMMA EraWorkerStep ==
    ASSUME TypeInv, EraInv, NEW w \in Workers, WorkerStep(w)
    PROVE  EraInv'
<1>. USE DEF TypeInv
<1>1. CASE Record(w)
  BY <1>1, RecordEra
<1>2. CASE CallStep(w) /\ CallFails(w)
  <2>1. UNCHANGED <<removal, era, initialized, modern, seen, form>>
    BY <1>2 DEF CallStep, EnsureStarted, Submit, Answer, Lost, backendVars
  <2>. QED
    BY <1>2, <2>1, FailureEra
<1>3. CASE ~Record(w) /\ ~(CallStep(w) /\ CallFails(w))
  <2>1. UNCHANGED <<removal, era, modern>> /\ initialized' \in {initialized, FALSE}
    BY <1>3 DEF WorkerStep, Find, LockDiscover, Peek, IsRunning, Forget, NegotiationStep, EnterInit,
                Create, Check, ReadClient, Params, Panic, CallStep, EnsureStarted, Submit, Answer, Lost,
                Timeout, backendVars
  <2>2. Only(w) /\ \A v \in Workers : v # w => seen'[v] = seen[v] /\ form'[v] = form[v]
    <3>1. CASE CallStep(w)
      BY <1>3, <3>1 DEF CallStep, EnsureStarted, Submit, Answer, Lost, CallFor, Finish, Goto, Only, TypeOK
    <3>2. CASE NegotiationStep(w)
      BY <1>3, <3>2 DEF NegotiationStep, EnterInit, Create, Check, CallFor, Finish, Goto, Only, TypeOK,
                        localVars
    <3>3. CASE Find(w) \/ LockDiscover(w) \/ Peek(w) \/ IsRunning(w) \/ Forget(w)
      BY <3>3 DEF Find, LockDiscover, Peek, IsRunning, Forget, Goto, Only, TypeOK, localVars
    <3>4. CASE ReadClient(w) \/ Params(w) \/ Panic(w) \/ Timeout(w)
      BY <3>4 DEF ReadClient, Params, Panic, Timeout, Finish, Goto, Only, TypeOK, localVars
    <3>. QED
      BY <1>3, <3>1, <3>2, <3>3, <3>4 DEF WorkerStep
  <2>3. Known' <=> Known
    BY <2>1 DEF Known
  <2>4. Justified(w)'
    <3>1. CASE Find(w) \/ LockDiscover(w) \/ Peek(w) \/ IsRunning(w) \/ Forget(w)
      <4>1. pc'[w] \in {"lock", "peek", "queue", "failed", "done", "running", "forget"}
        BY <3>1 DEF Find, LockDiscover, Peek, IsRunning, Forget, Goto, TypeOK
      <4>. QED
        BY <4>1 DEF Justified
    <3>2. CASE EnterInit(w)
      <4>1. pc'[w] \in {"create", "check"} /\ seen'[w][1] = initialized
        BY <3>2 DEF EnterInit, Goto, TypeOK
      <4>. QED
        BY <4>1, <2>3 DEF Justified, EraInv
    <3>3. CASE Create(w)
      <4>1. pc'[w] \in {"failed", "check"} /\ seen'[w] = seen[w] /\ pc[w] = "create"
        BY <3>3 DEF Create, Finish, Goto, TypeOK
      <4>. QED
        BY <4>1, <2>3 DEF Justified, EraInv
    <3>4. CASE Check(w)
      <4>1. \/ pc'[w] = "ready" /\ seen[w][1]
            \/ pc'[w] = "call" /\ doing'[w] = "probe"
        BY <3>4 DEF Check, Cached, CallFor, Goto, TypeOK
      <4>2. pc[w] = "check"
        BY <3>4 DEF Check
      <4>. QED
        BY <4>1, <4>2, <2>3 DEF Justified, EraInv
    <3>5. CASE ReadClient(w)
      <4>1. /\ pc[w] = "ready" /\ doing'[w] = "request"
            /\ \/ pc'[w] = "call" /\ ~modern /\ form'[w] = FALSE
               \/ pc'[w] = "params"
        BY <3>5 DEF ReadClient, Goto, TypeOK
      <4>2. Known
        BY <4>1 DEF Justified, EraInv
      <4>. QED
        BY <4>1, <4>2, <2>1, <2>3 DEF Justified, Known
    <3>6. CASE Params(w)
      <4>1. pc[w] = "params" /\ pc'[w] = "call" /\ form'[w] = modern /\ doing[w] = "request"
            /\ doing' = doing
        BY <3>6 DEF Params, Goto, TypeOK, LocalInv
      <4>2. Known
        BY <4>1 DEF Justified, EraInv
      <4>. QED
        BY <4>1, <4>2, <2>1, <2>3 DEF Justified, Known
    <3>7. CASE Panic(w) \/ Timeout(w)
      <4>1. pc'[w] \in {"panic", "failed"}
        BY <3>7 DEF Panic, Timeout, Finish, Goto, TypeOK
      <4>. QED
        BY <4>1 DEF Justified
    <3>8. CASE EnsureStarted(w) \/ Submit(w)
      <4>1. /\ pc[w] \in {"call", "opened"} /\ doing' = doing /\ form' = form
            /\ pc'[w] \in {"opened", "waiting", "record"}
            /\ pc'[w] = "record" => doing[w] = "initialized"
        BY <1>3, <3>8 DEF CallStep, EnsureStarted, Submit, Goto, TypeOK
      <4>. QED
        BY <4>1, <2>1, <2>3 DEF Justified, EraInv
    <3>9. CASE Answer(w)
      <4>1. \/ pc'[w] = "record" /\ era = "modern" /\ doing'[w] = "probe"
            \/ pc'[w] = "call" /\ era = "legacy" /\ doing'[w] = "initialized"
            \/ pc'[w] = "done"
        BY <1>3, <3>9 DEF CallStep, Answer, CallFor, Finish, Goto, TypeOK
      <4>. QED
        BY <4>1, <2>1 DEF Justified
    <3>10. CASE Lost(w)
      BY <1>3, <3>10 DEF CallStep, Lost
    <3>. QED
      BY <1>3, <3>1, <3>2, <3>3, <3>4, <3>5, <3>6, <3>7, <3>8, <3>9, <3>10
         DEF WorkerStep, NegotiationStep, CallStep
  <2>5. ASSUME NEW v \in Workers, v # w PROVE Justified(v)'
    BY <2>1, <2>2, <2>3, <2>5, OthersJustified DEF EraInv
  <2>6. initialized' => Known'
    <3>1. initialized' => initialized
      BY <2>1 DEF TypeOK
    <3>. QED
      BY <3>1, <2>3 DEF EraInv
  <2>. QED
    BY <2>1, <2>4, <2>5, <2>6 DEF EraInv
<1>. QED
  BY <1>1, <1>2, <1>3

\* The invariant holds until close() has detached the client, which is final.
EraUntilClosed == removal = "detached" \/ EraInv

\* Every step of the system keeps the invariant or comes after close() has detached the client.
LEMMA EraStep == TypeInv /\ EraUntilClosed /\ [Next]_vars => EraUntilClosed'
<1>. SUFFICES ASSUME TypeInv, EraUntilClosed, [Next]_vars PROVE EraUntilClosed'
  OBVIOUS
<1>1. CASE removal = "detached"
  <2>1. ASSUME NEW w \in Workers, WorkerStep(w) PROVE UNCHANGED removal
    BY <2>1 DEF WorkerStep, Find, LockDiscover, Peek, IsRunning, Forget, NegotiationStep, EnterInit,
                Create, Check, Record, ReadClient, Params, Panic, CallStep, EnsureStarted, Submit,
                Answer, Lost, Timeout
  <2>2. ASSUME NEW k \in Clients, IdleStop(k) \/ Crash(k) \/ CloseClient(k) PROVE UNCHANGED removal
    BY <2>2 DEF IdleStop, Crash, CloseClient
  <2>3. ~Unlist /\ ~Detach
    BY <1>1 DEF Unlist, Detach
  <2>4. ProcessEnds => UNCHANGED removal
    BY DEF ProcessEnds
  <2>. QED
    BY <1>1, <2>1, <2>2, <2>3, <2>4 DEF Next, vars, EraUntilClosed
<1>2. CASE EraInv
  <2>1. ASSUME NEW w \in Workers, WorkerStep(w) PROVE EraInv'
    BY <1>2, <2>1, EraWorkerStep
  <2>2. CASE \/ UNCHANGED vars
             \/ \E k \in Clients : IdleStop(k) \/ Crash(k) \/ CloseClient(k)
    <3>1. UNCHANGED <<removal, era, initialized, modern, pc, doing, seen, form>>
      BY <2>2 DEF vars, IdleStop, Crash, CloseClient, backendVars, localVars
    <3>2. Known' = Known
      BY <3>1 DEF Known
    <3>3. ASSUME NEW w \in Workers PROVE Justified(w)'
      BY <1>2, <3>1, <3>2 DEF EraInv, Justified
    <3>. QED
      BY <1>2, <3>1, <3>2, <3>3 DEF EraInv, EraUntilClosed
  <2>3. CASE Unlist
    <3>1. removal' = "unlisted" /\ UNCHANGED <<era, initialized, modern, pc, doing, seen, form>>
      BY <2>3 DEF Unlist, backendVars, localVars
    <3>2. Known' = Known
      BY <3>1 DEF Known
    <3>3. ASSUME NEW w \in Workers PROVE Justified(w)'
      BY <1>2, <3>1, <3>2 DEF EraInv, Justified
    <3>. QED
      BY <1>2, <3>1, <3>2, <3>3 DEF EraInv, EraUntilClosed
  <2>4. CASE Detach
    BY <2>4 DEF Detach, EraUntilClosed
  <2>5. CASE ProcessEnds
    <3>1. UNCHANGED <<removal, era, initialized, modern>> /\ \A w \in Workers : pc'[w] = "panic"
      BY <2>5 DEF ProcessEnds, backendVars
    <3>. QED
      BY <1>2, <3>1 DEF EraInv, EraUntilClosed, Justified, Known
  <2>. QED
    BY <2>1, <2>2, <2>3, <2>4, <2>5 DEF Next, EraUntilClosed
<1>. QED
  BY <1>1, <1>2 DEF EraUntilClosed

\* Initially nothing is recorded and nobody goes by it.
LEMMA EraInit == Init => EraInv
  BY DEF Init, EraInv, Justified

\* Until a reload has closed the backend, a request reaches the server in the server's own era,
\* through any number of restarts, crashes and repeated negotiations.
THEOREM EraCorrect == Spec => []FormMatchesServer
<1>1. EraUntilClosed => FormMatchesServer
  BY DEF EraUntilClosed, EraInv, Justified, FormMatchesServer
<1>2. Init => EraUntilClosed
  BY EraInit DEF EraUntilClosed
<1>. QED
  BY <1>1, <1>2, InitTyped, TypeStep, EraStep, PTL DEF Spec

-----------------------------------------------------------------------------
(* What was negotiated with, until a reload has closed the backend *)

\* The backend has had one client at most, and nobody holds another.
OnlyClient == made = client /\ client \in {0, 1} /\ \A w \in Workers : held[w] \in {0, client}

\* The process of client k was negotiated with, if a negotiation started it.
Fresh(k) ==
    proc[k] # 0 /\ starter[<<k, proc[k]>>] \in {"probe", "initialize"} => <<k, proc[k]>> \in shaken

\* The cache never runs ahead of the client, and what it says of a running process holds; so does
\* what a worker is about to record.
CacheInv ==
    /\ client = 0 => initGen = 0
    /\ client # 0 => initGen <= gen[client]
    /\ (initialized /\ ~modern /\ client # 0 /\ initGen # 0 /\ proc[client] = initGen) => Fresh(client)
    /\ \A w \in Workers : /\ pc[w] = "record" => doing[w] \in {"probe", "initialized"}
                          /\ (pc[w] \in {"call", "opened", "record"} /\ doing[w] = "initialized")
                               => held[w] # 0 /\ Fresh(held[w])

\* The first process is gone, or was negotiated with.
Met == client # 0 /\ (gen[client] > 1 \/ <<client, 1>> \in shaken)

\* Worker w goes by a negotiation that has succeeded.
GoesBy(w) ==
    \/ pc[w] \in {"create", "check"} /\ seen[w][1]
    \/ pc[w] \in {"ready", "params", "record"}
    \/ pc[w] \in {"call", "opened", "waiting"} /\ doing[w] \in {"initialized", "request"}

FirstInv ==
    /\ initialized => Met
    /\ \A w \in Workers : GoesBy(w) => Met
    /\ \A w \in Workers :
            pc[w] = "waiting" /\ doing[w] = "request" /\ sentTo[w] = 1 => <<held[w], 1>> \in shaken

\* What a step of a call comes to: it fails, finds a process, starts one, hands it the request,
\* is told that initialize was accepted, or ends.
Fails(w) == CallFails(w) /\ UNCHANGED callCore
Joins(w) == pc[w] = "call" /\ Goto(w, "opened") /\ UNCHANGED doing /\ UNCHANGED callCore
Starts(w) ==
    /\ pc[w] = "call" /\ held[w] # 0 /\ gen[held[w]] < MaxGen
    /\ gen' = [gen EXCEPT ![held[w]] = gen[held[w]] + 1]
    /\ proc' = [proc EXCEPT ![held[w]] = gen[held[w]] + 1]
    /\ starter' = [starter EXCEPT ![<<held[w], gen[held[w]] + 1>>] = doing[w]]
    /\ Goto(w, "opened")
    /\ UNCHANGED <<removal, era, client, initialized, initGen, modern, made, shaken, doing, held, seen, sentTo>>
Sends(w) ==
    /\ pc[w] = "opened" /\ proc[held[w]] # 0
    /\ sentTo' = [sentTo EXCEPT ![w] = proc[held[w]]]
    /\ Goto(w, IF doing[w] = "initialized" THEN "record" ELSE "waiting")
    /\ UNCHANGED <<removal, era, client, initialized, initGen, modern, made, gen, proc, starter, shaken,
                   doing, held, seen>>
Accepted(w) ==
    /\ pc[w] = "waiting" /\ proc[held[w]] = sentTo[w] /\ era = "legacy"
    /\ shaken' = shaken \cup {<<held[w], sentTo[w]>>}
    /\ CallFor(w, "initialized")
    /\ UNCHANGED <<removal, era, client, initialized, initGen, modern, made, gen, proc, starter, held, seen, sentTo>>
Ends(w) ==
    /\ \/ pc[w] = "waiting" /\ doing[w] = "probe" /\ era = "modern" /\ Goto(w, "record")
       \/ Goto(w, "done")
    /\ UNCHANGED doing /\ UNCHANGED callCore

LEMMA CallMoves ==
    ASSUME TypeInv, NEW w \in Workers, CallStep(w)
    PROVE  Fails(w) \/ Joins(w) \/ Starts(w) \/ Sends(w) \/ Accepted(w) \/ Ends(w)
<1>1. CASE EnsureStarted(w)
  <2>1. /\ UNCHANGED <<removal, era, backendVars, made, open, closing, shaken, crashes, held, seen, form, sentTo>>
        /\ pc[w] = "call" /\ held[w] # 0
    BY <1>1, Zenon DEF EnsureStarted
  <2>2. CASE Goto(w, "opened") /\ UNCHANGED <<lockVars, gen, proc, starter, doing, attempt>>
    BY <2>1, <2>2 DEF Joins, callCore, backendVars
  <2>3. CASE /\ Goto(w, "opened") /\ UNCHANGED <<lockVars, doing, attempt>>
             /\ gen[held[w]] < MaxGen
             /\ gen' = [gen EXCEPT ![held[w]] = gen[held[w]] + 1]
             /\ proc' = [proc EXCEPT ![held[w]] = gen[held[w]] + 1]
             /\ starter' = [starter EXCEPT ![<<held[w], gen[held[w]] + 1>>] = doing[w]]
    BY <2>1, <2>3 DEF Starts, backendVars
  <2>4. CASE CallFails(w) /\ UNCHANGED <<gen, proc, starter>>
    BY <2>1, <2>4 DEF Fails, callCore, backendVars
  <2>. QED
    BY <1>1, <2>2, <2>3, <2>4 DEF EnsureStarted
<1>2. CASE Submit(w)
  <2>1. UNCHANGED <<removal, era, backendVars, clientVars, held, seen, form>> /\ pc[w] = "opened"
    BY <1>2, Zenon DEF Submit
  <2>2. CASE /\ proc[held[w]] # 0
             /\ sentTo' = [sentTo EXCEPT ![w] = proc[held[w]]]
             /\ Goto(w, IF doing[w] = "initialized" THEN "record" ELSE "waiting")
             /\ UNCHANGED <<lockVars, doing, attempt>>
    BY <2>1, <2>2 DEF Sends, backendVars, clientVars
  <2>3. CASE CallFails(w) /\ UNCHANGED sentTo
    BY <2>1, <2>3 DEF Fails, callCore, backendVars, clientVars
  <2>. QED
    BY <1>2, <2>2, <2>3 DEF Submit
<1>3. CASE Answer(w)
  <2>1. /\ UNCHANGED <<removal, era, backendVars, made, open, gen, proc, closing, starter, crashes,
                       held, seen, form, sentTo>>
        /\ pc[w] = "waiting" /\ proc[held[w]] = sentTo[w]
    BY <1>3, Zenon DEF Answer
  <2>2. CASE /\ doing[w] = "probe" /\ era = "modern" /\ Goto(w, "record")
             /\ UNCHANGED <<lockVars, shaken, doing, attempt>>
    BY <2>1, <2>2 DEF Ends, callCore, backendVars
  <2>3. CASE /\ doing[w] = "initialize" /\ era = "legacy"
             /\ shaken' = shaken \cup {<<held[w], sentTo[w]>>} /\ CallFor(w, "initialized")
             /\ UNCHANGED <<lockVars, attempt>>
    BY <2>1, <2>3 DEF Accepted, backendVars
  <2>4. CASE Finish(w, "done") /\ UNCHANGED <<shaken, doing, attempt>>
    BY <2>1, <2>4 DEF Ends, Finish, callCore, backendVars
  <2>5. CASE CallFails(w) /\ UNCHANGED shaken
    BY <2>1, <2>5 DEF Fails, callCore, backendVars
  <2>. QED
    BY <1>3, <2>2, <2>3, <2>4, <2>5 DEF Answer
<1>4. CASE Lost(w)
  BY <1>4 DEF Lost, Fails, callCore, backendVars, clientVars
<1>. QED
  BY <1>1, <1>2, <1>3, <1>4 DEF CallStep

LEMMA OtherMoves ==
    ASSUME TypeInv, NEW w \in Workers, WorkerStep(w), ~CallStep(w)
    PROVE  UNCHANGED <<removal, era, gen, proc, starter, shaken, sentTo>>
  BY DEF WorkerStep, Find, LockDiscover, Peek, IsRunning, Forget, NegotiationStep, EnterInit, Create, Check,
         Record, ReadClient, Params, Panic, Timeout, clientVars, localVars

\* The state of a worker is its own.
Alone(w) ==
    \A v \in Workers \ {w} : /\ pc'[v] = pc[v] /\ doing'[v] = doing[v] /\ held'[v] = held[v]
                             /\ seen'[v] = seen[v] /\ sentTo'[v] = sentTo[v]

LEMMA MovesAlone == ASSUME TypeInv, NEW w \in Workers, WorkerStep(w) PROVE Alone(w)
<1>. USE DEF TypeInv
<1>1. CASE CallStep(w)
  <2>1. CASE Fails(w)
    BY <2>1, FailureMoves DEF Fails, callCore, Only, Alone
  <2>2. CASE Joins(w) \/ Ends(w)
    BY <2>2 DEF Joins, Ends, Goto, callCore, TypeOK, Alone
  <2>3. CASE Starts(w)
    BY <2>3 DEF Starts, Goto, TypeOK, Alone
  <2>4. CASE Sends(w)
    BY <2>4 DEF Sends, Goto, TypeOK, Alone
  <2>5. CASE Accepted(w)
    BY <2>5 DEF Accepted, CallFor, Goto, TypeOK, Alone
  <2>. QED
    BY <1>1, <2>1, <2>2, <2>3, <2>4, <2>5, CallMoves
<1>2. CASE NegotiationStep(w)
  BY <1>2 DEF NegotiationStep, EnterInit, Create, Check, Record, CallFor, Finish, Goto, Alone, TypeOK, localVars
<1>3. CASE Find(w) \/ LockDiscover(w) \/ Peek(w) \/ IsRunning(w) \/ Forget(w)
  BY <1>3 DEF Find, LockDiscover, Peek, IsRunning, Forget, Goto, Alone, TypeOK, localVars
<1>4. CASE ReadClient(w) \/ Params(w) \/ Panic(w) \/ Timeout(w)
  BY <1>4 DEF ReadClient, Params, Panic, Timeout, Finish, Goto, Alone, TypeOK, localVars
<1>. QED
  BY <1>1, <1>2, <1>3, <1>4 DEF WorkerStep

\* Processes are only started, one after the other, and what was accepted stays so.
LEMMA ProcessesGoOn ==
    ASSUME TypeInv, NEW w \in Workers, WorkerStep(w)
    PROVE  /\ shaken \subseteq shaken' /\ UNCHANGED <<removal, era>>
           /\ UNCHANGED <<gen, proc, starter>> \/ Starts(w)
<1>1. CASE CallStep(w)
  BY <1>1, CallMoves DEF Fails, Joins, Ends, Sends, Accepted, Starts, callCore
<1>2. CASE ~CallStep(w)
  BY <1>2, OtherMoves
<1>. QED
  BY <1>1, <1>2

LEMMA GenerationsGrow ==
    ASSUME TypeInv, NEW w \in Workers, WorkerStep(w), NEW k \in Clients
    PROVE  gen[k] \in Nat /\ gen'[k] \in Nat /\ gen[k] <= gen'[k]
<1>1. gen[k] \in Nat
  BY DEF TypeInv, TypeOK, Gens
<1>2. CASE Starts(w)
  BY <1>1, <1>2 DEF Starts, TypeInv, TypeOK
<1>3. CASE UNCHANGED gen
  BY <1>1, <1>3
<1>. QED
  BY <1>2, <1>3, ProcessesGoOn

\* Whoever starts a process otherwise than by negotiating leaves the others as fresh as they are.
LEMMA FreshStays ==
    ASSUME TypeInv, NEW w \in Workers, WorkerStep(w), NEW k \in Clients, Fresh(k),
           pc[w] = "call" => doing[w] \in {"initialized", "request"}
    PROVE  Fresh(k)'
<1>1. CASE UNCHANGED <<gen, proc, starter>>
  BY <1>1, ProcessesGoOn DEF Fresh
<1>2. CASE Starts(w)
  <2>. DEFINE h == held[w]
              g == gen[held[w]] + 1
  <2>1. h \in Clients /\ g \in Gens
    BY <1>2 DEF Starts, TypeInv, TypeOK, Gens
  <2>2. starter'[<<h, g>>] \in {"initialized", "request"}
    BY <1>2, <2>1 DEF Starts, TypeInv, TypeOK
  <2>3. CASE k = h
    <3>1. proc'[k] = g
      BY <1>2, <2>1, <2>3 DEF Starts, TypeInv, TypeOK
    <3>. QED
      BY <2>2, <2>3, <3>1 DEF Fresh
  <2>4. CASE k # h
    <3>1. proc'[k] = proc[k]
      BY <1>2, <2>4 DEF Starts, TypeInv, TypeOK
    <3>2. proc[k] # 0 => <<k, proc[k]>> \in Clients \X Gens /\ <<k, proc[k]>> # <<h, g>>
      BY <2>4 DEF TypeInv, TypeOK
    <3>3. proc[k] # 0 => starter'[<<k, proc[k]>>] = starter[<<k, proc[k]>>]
      BY <1>2, <3>2 DEF Starts, TypeInv, TypeOK
    <3>. QED
      BY <3>1, <3>3, ProcessesGoOn DEF Fresh
  <2>. QED
    BY <2>3, <2>4
<1>. QED
  BY <1>1, <1>2, ProcessesGoOn

\* A worker that negotiates does so alone.
LEMMA NegotiatesAlone ==
    ASSUME LockHeldToNegotiate, NEW w \in Workers, NEW v \in Workers, v # w, Negotiating(v), pc[w] = "call"
    PROVE  doing[w] = "request"
  BY DEF LockHeldToNegotiate, Negotiating

\* Until the backend is closed it creates one client.
LEMMA OnlyClientStep ==
    ASSUME TypeInv, OnlyClient, NEW w \in Workers, WorkerStep(w)
    PROVE  OnlyClient' /\ (client' = client \/ (Create(w) /\ client = 0 /\ client' = 1))
<1>. USE DEF TypeInv
<1>1. CASE Create(w)
  <2>1. CASE UNCHANGED <<client, made, held>>
    BY <2>1 DEF OnlyClient
  <2>2. CASE client = 0 /\ made' = made + 1 /\ client' = made + 1 /\ held' = [held EXCEPT ![w] = made + 1]
    <3>1. made = 0
      BY <2>2 DEF OnlyClient
    <3>2. client' = 1 /\ made' = 1 /\ \A v \in Workers : held'[v] \in {0, 1}
      BY <2>2, <3>1 DEF OnlyClient, TypeOK
    <3>. QED
      BY <1>1, <2>2, <3>2 DEF OnlyClient
  <2>. QED
    BY <1>1, <2>1, <2>2 DEF Create
<1>2. CASE CallStep(w)
  <2>1. UNCHANGED <<made, client, held>>
    BY <1>2, CallMoves DEF Fails, Joins, Ends, Sends, Accepted, Starts, callCore
  <2>. QED
    BY <2>1 DEF OnlyClient
<1>3. CASE ~Create(w) /\ ~CallStep(w)
  <2>1. UNCHANGED <<made, client>> /\ (held' = held \/ held' = [held EXCEPT ![w] = client])
    BY <1>3 DEF WorkerStep, Find, LockDiscover, Peek, IsRunning, Forget, NegotiationStep, EnterInit, Check,
                Record, ReadClient, Params, Panic, Timeout, backendVars, clientVars, localVars
  <2>. QED
    BY <2>1 DEF OnlyClient, TypeOK
<1>. QED
  BY <1>1, <1>2, <1>3

\* Only Record changes what is recorded, apart from forgetting it.
LEMMA RecordsAlone ==
    ASSUME TypeInv, NEW w \in Workers, WorkerStep(w), ~Record(w)
    PROVE  UNCHANGED <<modern, initGen>> /\ (initialized' => initialized)
<1>1. CASE CallStep(w)
  BY <1>1, CallMoves DEF Fails, Joins, Ends, Sends, Accepted, Starts, callCore
<1>2. CASE ~CallStep(w)
  BY <1>2 DEF WorkerStep, Find, LockDiscover, Peek, IsRunning, Forget, NegotiationStep, EnterInit, Create,
              Check, ReadClient, Params, Panic, Timeout, backendVars
<1>. QED
  BY <1>1, <1>2

\* A worker comes to the announcement, and to the record, only from an accepted initialize.
LEMMA AnnouncesFresh ==
    ASSUME TypeInv, LockHeldToNegotiate, EraInv, OnlyClient, CacheInv, NEW w \in Workers, WorkerStep(w)
    PROVE  /\ pc'[w] = "record" => doing'[w] \in {"probe", "initialized"}
           /\ (pc'[w] \in {"call", "opened", "record"} /\ doing'[w] = "initialized")
                => held'[w] # 0 /\ Fresh(held[w])'
<1>. USE DEF TypeInv
<1>1. CASE CallStep(w)
  <2>1. CASE Fails(w)
    <3>1. pc'[w] = "failed" \/ (pc'[w] = "call" /\ doing'[w] = "initialize")
      BY <2>1, FailureMoves DEF Fails
    <3>. QED
      BY <3>1
  <2>2. CASE Joins(w) \/ Starts(w)
    <3>1. pc[w] = "call" /\ pc'[w] = "opened" /\ doing' = doing /\ held' = held
      BY <2>2 DEF Joins, Starts, Goto, callCore, TypeOK
    <3>2. doing[w] = "initialized" => held[w] # 0 /\ Fresh(held[w])'
      <4>1. CASE Joins(w)
        BY <3>1, <4>1 DEF Joins, callCore, CacheInv, Fresh
      <4>2. ASSUME Starts(w), doing[w] = "initialized" PROVE Fresh(held[w])'
        <5>1. PICK k \in Clients : k = held[w]
          BY <4>2 DEF Starts, TypeOK
        <5>2. Fresh(k)
          BY <3>1, <4>2, <5>1 DEF CacheInv
        <5>3. Fresh(k)'
          BY <4>2, <5>2, FreshStays
        <5>. QED
          BY <3>1, <5>1, <5>3
      <4>3. doing[w] = "initialized" => held[w] # 0
        BY <3>1 DEF CacheInv
      <4>. QED
        BY <2>2, <4>1, <4>2, <4>3
    <3>. QED
      BY <3>1, <3>2
  <2>3. CASE Sends(w)
    <3>1. /\ pc[w] = "opened" /\ pc'[w] = (IF doing[w] = "initialized" THEN "record" ELSE "waiting")
          /\ UNCHANGED <<doing, held, proc, starter, shaken>>
      BY <2>3 DEF Sends, Goto, TypeOK
    <3>. QED
      BY <3>1 DEF CacheInv, Fresh
  <2>4. CASE Accepted(w)
    <3>1. /\ pc'[w] = "call" /\ proc[held[w]] = sentTo[w] /\ UNCHANGED <<held, proc>> /\ held[w] # 0
          /\ shaken' = shaken \cup {<<held[w], sentTo[w]>>}
      BY <2>4 DEF Accepted, CallFor, Goto, TypeOK, LocalInv
    <3>. QED
      BY <3>1 DEF Fresh
  <2>5. CASE Ends(w)
    <3>1. (pc'[w] = "done" \/ (pc'[w] = "record" /\ doing'[w] = "probe"))
      BY <2>5 DEF Ends, Goto, TypeOK
    <3>. QED
      BY <3>1
  <2>. QED
    BY <1>1, <2>1, <2>2, <2>3, <2>4, <2>5, CallMoves
<1>2. CASE NegotiationStep(w) \/ ReadClient(w) \/ Params(w)
  <2>1. \/ pc'[w] \in {"create", "check", "ready", "failed", "params"}
        \/ pc'[w] = "call" /\ doing'[w] \in {"probe", "request"}
    BY <1>2 DEF NegotiationStep, EnterInit, Create, Check, Record, ReadClient, Params, CallFor, Finish, Goto,
                TypeOK, LocalInv
  <2>. QED
    BY <2>1
<1>3. CASE Find(w) \/ LockDiscover(w) \/ Peek(w) \/ IsRunning(w) \/ Forget(w) \/ Panic(w) \/ Timeout(w)
  <2>1. pc'[w] \in {"lock", "peek", "queue", "failed", "done", "running", "forget", "panic"}
    BY <1>3 DEF Find, LockDiscover, Peek, IsRunning, Forget, Panic, Timeout, Finish, Goto, TypeOK
  <2>. QED
    BY <2>1
<1>. QED
  BY <1>1, <1>2, <1>3 DEF WorkerStep

\* Steps of workers keep the cache honest.
LEMMA CacheWorkerStep ==
    ASSUME TypeInv, LockHeldToNegotiate, EraInv, OnlyClient, CacheInv, NEW w \in Workers, WorkerStep(w)
    PROVE  CacheInv'
<1>1. /\ OnlyClient' /\ (client' = client \/ (Create(w) /\ client = 0 /\ client' = 1))
      /\ Alone(w) /\ client \in Clients \cup {0} /\ client' \in Clients \cup {0}
  <2>1. TypeOK'
    BY TypeStep DEF Next, TypeInv
  <2>. QED
    BY <2>1, OnlyClientStep, MovesAlone DEF TypeInv, TypeOK
<1>2. CASE Record(w)
  <2>1. /\ held[w] = client /\ client # 0 /\ initGen' = gen[client] /\ modern' = (doing[w] = "probe")
        /\ UNCHANGED <<client, gen, proc, starter, shaken>> /\ pc[w] = "record"
    BY <1>2 DEF Record, OnlyClient, TypeInv, LocalInv, clientVars
  <2>2. gen[client] \in Nat
    BY <1>1, <2>1 DEF TypeInv, TypeOK, Gens
  <2>3. ~modern' => Fresh(client)
    BY <2>1 DEF CacheInv
  <2>4. ~modern' => Fresh(client)'
    BY <2>1, <2>3 DEF Fresh
  <2>5. ASSUME NEW v \in Workers
        PROVE  /\ pc'[v] = "record" => doing'[v] \in {"probe", "initialized"}
               /\ (pc'[v] \in {"call", "opened", "record"} /\ doing'[v] = "initialized") => held'[v] # 0 /\ Fresh(held[v])'
    <3>1. CASE v = w
      BY <3>1, AnnouncesFresh
    <3>2. CASE v # w
      BY <1>1, <2>1, <3>2 DEF Alone, CacheInv, Fresh
    <3>. QED
      BY <3>1, <3>2
  <2>. QED
    BY <2>1, <2>2, <2>4, <2>5 DEF CacheInv
<1>3. CASE ~Record(w)
  <2>1. UNCHANGED <<modern, initGen>> /\ (initialized' => initialized)
    BY <1>3, RecordsAlone
  <2>2. initGen \in Nat
    BY DEF TypeInv, TypeOK, Gens
  <2>3. (client' = 0 => initGen' = 0) /\ (client' # 0 => initGen' <= gen'[client'])
    <3>1. CASE client' = client
      BY <1>1, <2>1, <2>2, <3>1, GenerationsGrow DEF CacheInv
    <3>2. CASE client = 0 /\ client' = 1
      <4>1. initGen' = 0 /\ gen'[client'] \in Nat
        BY <1>1, <2>1, <3>2, GenerationsGrow DEF CacheInv
      <4>. QED
        BY <3>2, <4>1
    <3>. QED
      BY <1>1, <3>1, <3>2
  <2>4. ASSUME initialized', ~modern', client' # 0, initGen' # 0, proc'[client'] = initGen' PROVE Fresh(client)'
    <3>1. client' = client /\ client \in Clients /\ initGen <= gen[client]
      BY <1>1, <2>1, <2>4 DEF CacheInv
    <3>2. CASE UNCHANGED <<gen, proc, starter>>
      <4>1. Fresh(client)
        BY <2>1, <2>4, <3>1, <3>2 DEF CacheInv
      <4>. QED
        BY <3>1, <3>2, <4>1, ProcessesGoOn DEF Fresh
    <3>3. CASE Starts(w)
      <4>1. held[w] = client
        BY <3>3 DEF Starts, OnlyClient
      <4>2. proc'[client] = gen[client] + 1 /\ gen[client] \in Nat
        BY <3>1, <3>3, <4>1, GenerationsGrow DEF Starts, TypeInv, TypeOK
      <4>. QED
        BY <2>1, <2>2, <2>4, <3>1, <4>2
    <3>. QED
      BY <3>2, <3>3, ProcessesGoOn
  <2>5. ASSUME NEW v \in Workers
        PROVE  /\ pc'[v] = "record" => doing'[v] \in {"probe", "initialized"}
               /\ (pc'[v] \in {"call", "opened", "record"} /\ doing'[v] = "initialized") => held'[v] # 0 /\ Fresh(held[v])'
    <3>1. CASE v = w
      BY <3>1, AnnouncesFresh
    <3>2. CASE v # w
      <4>1. pc'[v] = pc[v] /\ doing'[v] = doing[v] /\ held'[v] = held[v]
        BY <1>1, <3>2 DEF Alone
      <4>2. ASSUME pc[v] \in {"call", "opened", "record"}, doing[v] = "initialized" PROVE Fresh(held[v])'
        <5>1. Negotiating(v)
          BY <4>2 DEF Negotiating
        <5>2. pc[w] = "call" => doing[w] = "request"
          BY <3>2, <5>1, NegotiatesAlone
        <5>3. Fresh(held[v])
          BY <4>2 DEF CacheInv
        <5>4. PICK k \in Clients : k = held[v]
          BY <4>2 DEF CacheInv, TypeInv, TypeOK
        <5>5. Fresh(k)'
          BY <5>2, <5>3, <5>4, FreshStays
        <5>. QED
          BY <4>1, <5>4, <5>5
      <4>. QED
        BY <4>1, <4>2 DEF CacheInv
    <3>. QED
      BY <3>1, <3>2
  <2>. QED
    BY <2>3, <2>4, <2>5, <1>1 DEF CacheInv
<1>. QED
  BY <1>2, <1>3

\* What a worker goes by, step by step, on a legacy server.
LEMMA GoesByNext ==
    ASSUME TypeInv, EraInv, era = "legacy", NEW w \in Workers, WorkerStep(w), GoesBy(w)'
    PROVE  GoesBy(w) \/ initialized \/ Accepted(w)
<1>. USE DEF TypeInv
<1>1. CASE CallStep(w)
  <2>1. CASE Fails(w)
    <3>1. pc'[w] = "failed" \/ (pc'[w] = "call" /\ doing'[w] = "initialize")
      BY <2>1, FailureMoves DEF Fails
    <3>. QED
      BY <3>1 DEF GoesBy
  <2>2. CASE Joins(w) \/ Starts(w)
    <3>1. pc[w] = "call" /\ pc'[w] = "opened" /\ doing' = doing
      BY <2>2 DEF Joins, Starts, Goto, callCore, TypeOK
    <3>. QED
      BY <3>1 DEF GoesBy
  <2>3. CASE Sends(w)
    <3>1. /\ pc[w] = "opened" /\ pc'[w] = (IF doing[w] = "initialized" THEN "record" ELSE "waiting")
          /\ doing' = doing
      BY <2>3 DEF Sends, Goto, TypeOK
    <3>. QED
      BY <3>1 DEF GoesBy
  <2>4. CASE Ends(w)
    <3>1. pc'[w] = "done"
      BY <2>4 DEF Ends, Goto, TypeOK
    <3>. QED
      BY <3>1 DEF GoesBy
  <2>. QED
    BY <1>1, <2>1, <2>2, <2>3, <2>4, CallMoves
<1>2. CASE EnterInit(w)
  <2>1. pc'[w] \in {"create", "check"} /\ seen'[w][1] = initialized
    BY <1>2 DEF EnterInit, Goto, TypeOK
  <2>. QED
    BY <2>1 DEF GoesBy
<1>3. CASE Create(w)
  <2>1. pc[w] = "create" /\ seen'[w] = seen[w] /\ pc'[w] \in {"failed", "check"}
    BY <1>3 DEF Create, Finish, Goto, TypeOK
  <2>. QED
    BY <2>1 DEF GoesBy
<1>4. CASE Check(w)
  <2>1. pc[w] = "check" /\ (seen[w][1] \/ (pc'[w] = "call" /\ doing'[w] = "probe"))
    BY <1>4 DEF Check, Cached, CallFor, Goto, TypeOK
  <2>. QED
    BY <2>1 DEF GoesBy
<1>5. CASE Record(w) \/ ReadClient(w) \/ Params(w)
  BY <1>5 DEF Record, ReadClient, Params, GoesBy
<1>6. CASE Find(w) \/ LockDiscover(w) \/ Peek(w) \/ IsRunning(w) \/ Forget(w) \/ Panic(w) \/ Timeout(w)
  <2>1. pc'[w] \in {"lock", "peek", "queue", "failed", "done", "running", "forget", "panic"}
    BY <1>6 DEF Find, LockDiscover, Peek, IsRunning, Forget, Panic, Timeout, Finish, Goto, TypeOK
  <2>. QED
    BY <2>1 DEF GoesBy
<1>. QED
  BY <1>1, <1>2, <1>3, <1>4, <1>5, <1>6 DEF WorkerStep, NegotiationStep

\* The first process stays negotiated with, or gone.
LEMMA MetStays ==
    ASSUME TypeInv, OnlyClient, Met, NEW w \in Workers, WorkerStep(w)
    PROVE  Met'
<1>1. client' = client /\ client \in Clients
  BY OnlyClientStep DEF Met, TypeInv, TypeOK
<1>2. gen[client] \in Nat /\ gen'[client] \in Nat /\ gen[client] <= gen'[client]
  BY <1>1, GenerationsGrow
<1>. QED
  BY <1>1, <1>2, ProcessesGoOn DEF Met

LEMMA FirstWorkerStep ==
    ASSUME TypeInv, EraInv, era = "legacy", OnlyClient, FirstInv, NEW w \in Workers, WorkerStep(w)
    PROVE  FirstInv'
<1>. USE DEF TypeInv
<1>1. Accepted(w) => Met'
  <2>. SUFFICES ASSUME Accepted(w) PROVE Met'
    OBVIOUS
  <2>1. /\ held[w] = client /\ client # 0 /\ sentTo[w] # 0 /\ sentTo[w] = proc[client] /\ UNCHANGED <<client, gen>>
        /\ <<client, sentTo[w]>> \in shaken'
    BY DEF Accepted, LocalInv, OnlyClient
  <2>2. sentTo[w] = gen[client] /\ gen[client] \in Nat
    BY <2>1 DEF TypeOK, Gens
  <2>. QED
    BY <2>1, <2>2 DEF Met
<1>2. initialized \/ GoesBy(w) => Met'
  BY MetStays DEF FirstInv
<1>3. initialized' => Met'
  <2>1. CASE Record(w)
    <3>1. GoesBy(w)
      BY <2>1 DEF Record, GoesBy
    <3>. QED
      BY <1>2, <3>1
  <2>2. CASE ~Record(w)
    BY <1>2, <2>2, RecordsAlone
  <2>. QED
    BY <2>1, <2>2
<1>4. ASSUME NEW v \in Workers, GoesBy(v)' PROVE Met'
  <2>1. CASE v = w
    BY <1>1, <1>2, <1>4, <2>1, GoesByNext
  <2>2. CASE v # w
    <3>1. GoesBy(v)
      BY <1>4, <2>2, MovesAlone DEF Alone, GoesBy
    <3>. QED
      BY <3>1, MetStays DEF FirstInv
  <2>. QED
    BY <2>1, <2>2
<1>5. ASSUME NEW v \in Workers, pc'[v] = "waiting", doing'[v] = "request", sentTo'[v] = 1
      PROVE  <<held'[v], 1>> \in shaken'
  <2>1. CASE v # w
    BY <1>5, <2>1, MovesAlone, ProcessesGoOn DEF Alone, FirstInv
  <2>2. CASE v = w /\ CallStep(w)
    <3>1. CASE Sends(w)
      <4>1. /\ pc[w] = "opened" /\ doing[w] = "request" /\ held[w] = client /\ client # 0
            /\ proc[client] = 1 /\ UNCHANGED <<held, shaken>>
        BY <1>5, <2>2, <3>1 DEF Sends, LocalInv, OnlyClient, TypeOK
      <4>2. Met
        BY <4>1 DEF FirstInv, GoesBy
      <4>3. ~(gen[client] > 1)
        BY <4>1 DEF TypeOK
      <4>. QED
        BY <2>2, <4>1, <4>2, <4>3 DEF Met
    <3>2. CASE ~Sends(w)
      <4>1. pc'[w] # "waiting"
        <5>1. Fails(w) => pc'[w] \in {"call", "failed"}
          BY FailureMoves DEF Fails
        <5>2. Joins(w) \/ Starts(w) \/ Accepted(w) \/ Ends(w) => pc'[w] # "waiting"
          BY DEF Joins, Starts, Accepted, Ends, CallFor, Goto, TypeOK
        <5>. QED
          BY <2>2, <3>2, <5>1, <5>2, CallMoves
      <4>. QED
        BY <1>5, <2>2, <4>1
    <3>. QED
      BY <3>1, <3>2
  <2>3. CASE v = w /\ ~CallStep(w)
    <3>1. pc'[w] # "waiting"
      <4>1. CASE NegotiationStep(w) \/ ReadClient(w) \/ Params(w)
        BY <4>1 DEF NegotiationStep, EnterInit, Create, Check, Record, ReadClient, Params, CallFor, Finish, Goto,
                    TypeOK
      <4>2. CASE Find(w) \/ LockDiscover(w) \/ Peek(w) \/ IsRunning(w) \/ Forget(w) \/ Panic(w) \/ Timeout(w)
        BY <4>2 DEF Find, LockDiscover, Peek, IsRunning, Forget, Panic, Timeout, Finish, Goto, TypeOK
      <4>. QED
        BY <2>3, <4>1, <4>2 DEF WorkerStep
    <3>. QED
      BY <1>5, <2>3, <3>1
  <2>. QED
    BY <2>1, <2>2, <2>3
<1>. QED
  BY <1>3, <1>4, <1>5 DEF FirstInv

HandshakeInv == OnlyClient /\ CacheInv /\ (era = "legacy" => FirstInv)

LEMMA HandshakeInit == Init => HandshakeInv
<1>. SUFFICES ASSUME Init PROVE HandshakeInv
  OBVIOUS
<1>1. OnlyClient
  BY DEF Init, OnlyClient
<1>2. CacheInv
  BY DEF Init, CacheInv
<1>3. FirstInv
  BY DEF Init, FirstInv, GoesBy
<1>. QED
  BY <1>1, <1>2, <1>3 DEF HandshakeInv

\* An idle stop, a crash or a close leaves no process to speak of; a removal from the list nothing.
LEMMA HandshakeElsewhere ==
    ASSUME TypeInv, HandshakeInv,
           \/ UNCHANGED vars
           \/ \E k \in Clients : IdleStop(k) \/ Crash(k) \/ CloseClient(k)
           \/ Unlist
    PROVE  HandshakeInv'
<1>1. /\ UNCHANGED <<era, client, initialized, initGen, modern, made, starter, shaken, pc, doing, held, seen, sentTo>>
      /\ \A k \in Clients : /\ proc'[k] \in {0, proc[k]} /\ gen[k] \in Nat /\ gen'[k] \in {gen[k], gen[k] + 1}
  <2>1. CASE UNCHANGED vars \/ Unlist
    BY <2>1 DEF vars, Unlist, backendVars, clientVars, localVars, TypeInv, TypeOK, Gens
  <2>2. ASSUME NEW k \in Clients, IdleStop(k) \/ Crash(k) \/ CloseClient(k)
        PROVE  /\ UNCHANGED <<era, client, initialized, initGen, modern, made, starter, shaken, pc, doing, held, seen, sentTo>>
               /\ proc' = [proc EXCEPT ![k] = 0] /\ (gen' = gen \/ gen' = [gen EXCEPT ![k] = gen[k] + 1])
    BY <2>2 DEF IdleStop, Crash, CloseClient, backendVars, localVars
  <2>. QED
    BY <2>1, <2>2 DEF TypeInv, TypeOK, Gens
<1>2. ASSUME NEW k \in Clients, Fresh(k) PROVE Fresh(k)'
  BY <1>1, <1>2 DEF Fresh
<1>3. client = 0 \/ client \in Clients
  BY DEF TypeInv, TypeOK
<1>4. OnlyClient'
  BY <1>1 DEF HandshakeInv, OnlyClient
<1>5. CacheInv'
  <2>1. initGen \in Nat
    BY DEF TypeInv, TypeOK, Gens
  <2>2. client # 0 => initGen <= gen'[client]
    BY <1>1, <1>3, <2>1 DEF HandshakeInv, CacheInv
  <2>3. ASSUME initialized, ~modern, client # 0, initGen # 0, proc'[client] = initGen PROVE Fresh(client)'
    <3>1. PICK k \in Clients : k = client
      BY <1>3, <2>3
    <3>2. Fresh(k)
      BY <1>1, <2>3, <3>1 DEF HandshakeInv, CacheInv
    <3>. QED
      BY <1>1, <1>2, <3>1, <3>2
  <2>4. ASSUME NEW w \in Workers, pc[w] \in {"call", "opened", "record"}, doing[w] = "initialized"
        PROVE  held[w] # 0 /\ Fresh(held[w])'
    <3>1. PICK k \in Clients : k = held[w]
      BY <2>4 DEF HandshakeInv, CacheInv, TypeInv, TypeOK
    <3>2. held[w] # 0 /\ Fresh(k)
      BY <2>4, <3>1 DEF HandshakeInv, CacheInv
    <3>. QED
      BY <1>1, <1>2, <3>1, <3>2
  <2>. QED
    BY <1>1, <2>2, <2>3, <2>4 DEF HandshakeInv, CacheInv
<1>6. era = "legacy" => FirstInv'
  <2>1. Met => Met'
    BY <1>1, <1>3 DEF Met
  <2>2. \A w \in Workers : GoesBy(w)' <=> GoesBy(w)
    BY <1>1 DEF GoesBy
  <2>. QED
    BY <1>1, <2>1, <2>2 DEF HandshakeInv, FirstInv
<1>. QED
  BY <1>1, <1>4, <1>5, <1>6 DEF HandshakeInv

HandshakeUntilClosed == removal = "detached" \/ HandshakeInv

LEMMA HandshakeStep ==
    TypeInv /\ LockHeldToNegotiate /\ EraUntilClosed /\ HandshakeUntilClosed /\ [Next]_vars => HandshakeUntilClosed'
<1>. SUFFICES ASSUME TypeInv, LockHeldToNegotiate, EraUntilClosed, HandshakeUntilClosed, [Next]_vars
              PROVE  HandshakeUntilClosed'
  OBVIOUS
<1>1. ASSUME NEW w \in Workers, WorkerStep(w) PROVE HandshakeUntilClosed'
  <2>1. UNCHANGED <<removal, era>>
    BY <1>1, ProcessesGoOn
  <2>2. CASE removal = "detached"
    BY <2>1, <2>2 DEF HandshakeUntilClosed
  <2>3. CASE removal # "detached"
    <3>1. EraInv /\ OnlyClient /\ CacheInv /\ (era = "legacy" => FirstInv)
      BY <2>3 DEF EraUntilClosed, HandshakeUntilClosed, HandshakeInv
    <3>2. OnlyClient' /\ CacheInv' /\ (era = "legacy" => FirstInv')
      BY <1>1, <3>1, OnlyClientStep, CacheWorkerStep, FirstWorkerStep
    <3>. QED
      BY <2>1, <3>2 DEF HandshakeUntilClosed, HandshakeInv
  <2>. QED
    BY <2>2, <2>3
<1>2. CASE UNCHANGED vars \/ (\E k \in Clients : IdleStop(k) \/ Crash(k) \/ CloseClient(k)) \/ Unlist
  <2>1. removal = "detached" => removal' = "detached"
    BY <1>2 DEF vars, IdleStop, Crash, CloseClient, Unlist
  <2>. QED
    BY <1>2, <2>1, HandshakeElsewhere DEF HandshakeUntilClosed
<1>3. CASE Detach
  BY <1>3 DEF Detach, HandshakeUntilClosed
<1>4. CASE ProcessEnds
  <2>1. UNCHANGED <<removal, era, client, initialized, initGen, modern, made, gen, proc, starter, shaken, held, seen, sentTo>>
    BY <1>4 DEF ProcessEnds, backendVars, clientVars, localVars
  <2>2. \A w \in Workers : pc'[w] = "panic"
    BY <1>4 DEF ProcessEnds
  <2>3. HandshakeInv => OnlyClient' /\ CacheInv'
    BY <2>1, <2>2 DEF HandshakeInv, OnlyClient, CacheInv, Fresh
  <2>4. HandshakeInv /\ era = "legacy" => FirstInv'
    BY <2>1, <2>2 DEF HandshakeInv, FirstInv, GoesBy, Met
  <2>. QED
    BY <2>1, <2>3, <2>4 DEF HandshakeUntilClosed, HandshakeInv
<1>. QED
  BY <1>1, <1>2, <1>3, <1>4 DEF Next

LEMMA HandshakeHolds == Spec => [](HandshakeUntilClosed /\ EraUntilClosed)
<1>1. Init => HandshakeUntilClosed /\ EraUntilClosed
  BY HandshakeInit, EraInit DEF HandshakeUntilClosed, EraUntilClosed
<1>. QED
  BY <1>1, InitTyped, TypeStep, LockInit, LockStep, EraStep, HandshakeStep, PTL DEF Spec

\* Until a reload has closed the backend, the cache does not take for negotiated a running process
\* that a negotiation started and that has not accepted an initialize: ensureInitialized against
\* itself, crashes, idle stops and the health check that clears initialized.
THEOREM CacheHonest == Spec => []CacheIsNegotiated
<1>1. HandshakeUntilClosed => CacheIsNegotiated
  <2>. SUFFICES ASSUME removal # "detached", HandshakeInv, initialized, ~modern, client # 0, initGen # 0,
                       proc[client] = initGen, starter[<<client, initGen>>] \in {"probe", "initialize"}
                PROVE  <<client, initGen>> \in shaken
    BY DEF HandshakeUntilClosed, CacheIsNegotiated
  <2>. QED
    BY DEF HandshakeInv, CacheInv, Fresh
<1>. QED
  BY <1>1, HandshakeHolds, PTL

\* Until a reload has closed the backend, the first process of its client gets no request before it
\* has accepted an initialize, if the server is a legacy one.
THEOREM FirstUse == Spec => []FirstUseNegotiated
<1>1. HandshakeUntilClosed => FirstUseNegotiated
  BY DEF HandshakeUntilClosed, HandshakeInv, FirstInv, FirstUseNegotiated
<1>. QED
  BY <1>1, HandshakeHolds, PTL

=============================================================================
