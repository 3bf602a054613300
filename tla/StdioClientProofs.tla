-------------------------- MODULE StdioClientProofs --------------------------
(***************************************************************************)
(* Proofs about StdioClient, for every number of calls and notifications   *)
(* and every value of the bounds.                                          *)
(***************************************************************************)
EXTENDS StdioRefinement, TLAPS

\* Every step of the client keeps the variables within their types.
LEMMA TypeStep == TypeOK /\ [Next]_vars => TypeOK'
<1>. SUFFICES ASSUME TypeOK, [Next]_vars PROVE TypeOK'
  OBVIOUS
<1>. USE BoundsAssumption, OpsAssumption, ModeAssumption DEF TypeOK, GenOrNil, Ops, Stages, Results, Kinds
<1>1. CASE UNCHANGED vars
  BY <1>1 DEF vars, clientVars, callVars, readVars, procVars
<1>2. ASSUME NEW o \in Ops, Refuse(o) PROVE TypeOK'
  BY <1>2 DEF Refuse, clientVars, callVars, readVars, procVars, Return, Goto
<1>3. ASSUME NEW o \in Ops, FindRunning(o) PROVE TypeOK'
  BY <1>3 DEF FindRunning, clientVars, callVars, readVars, procVars, Return, Goto
<1>4. ASSUME NEW o \in Ops, StartProcess(o) PROVE TypeOK'
  BY <1>4 DEF Gens, StartProcess, clientVars, callVars, readVars, procVars, Return, Goto, ResetIdle
<1>5. ASSUME NEW o \in Ops, WriteBegin(o) PROVE TypeOK'
  <2>1. UNCHANGED <<closed, cmd, generation, pending, timer, fired, id, ch, nextID, readVars, procVars, sends, toKill>>
    BY <1>5 DEF WriteBegin, clientVars
  <2>2. AfterWriteError(o) \in Stages
    BY DEF AfterWriteError
  <2>3. writeMu' \in BOOLEAN
    BY <1>5 DEF WriteBegin
  <2>5. target' \in [Ops -> GenOrNil]
    BY <1>5 DEF WriteBegin
  <2>4. pc' \in [Ops -> Stages] /\ result' \in [Ops -> Results]
    BY <1>5, <2>2 DEF WriteBegin, Return, Goto
  <2>. QED
    BY <2>1, <2>3, <2>4, <2>5 DEF readVars, procVars
<1>6. ASSUME NEW o \in Ops, WriteEnd(o) PROVE TypeOK'
  <2>1. UNCHANGED <<closed, cmd, generation, pending, timer, fired, id, target, ch, nextID, readVars,
                    proc, seen, outbox, faults, asks, sends, toKill>>
    BY <1>6 DEF WriteEnd, clientVars
  <2>2. AfterWriteError(o) \in Stages /\ AfterWrite(o) \in Stages
    BY DEF AfterWriteError, AfterWrite
  <2>3. writeMu' \in BOOLEAN
    BY <1>6 DEF WriteEnd
  <2>4. pc' \in [Ops -> Stages]
    BY <1>6, <2>2 DEF WriteEnd, Return, Goto
  <2>5. Written(o) \in Results
    BY DEF Written
  <2>6. result' \in [Ops -> Results]
    BY <1>6, <2>5 DEF WriteEnd, Return
  <2>7. LineOf(o) \in Lines
    BY DEF LineOf, Lines
  <2>8. inbox' \in [Gens -> SUBSET Lines]
    BY <1>6, <2>7 DEF WriteEnd
  <2>. QED
    BY <2>1, <2>3, <2>4, <2>6, <2>8 DEF readVars
<1>7. ASSUME NEW o \in Ops, Touch(o) PROVE TypeOK'
  BY <1>7 DEF Touch, clientVars, callVars, readVars, procVars, Return, Goto, ResetIdle
<1>8. ASSUME NEW c \in Calls, Register(c) PROVE TypeOK'
  BY <1>8 DEF Register, clientVars, callVars, readVars, procVars, Return, Goto
<1>9. ASSUME NEW c \in Calls, Receive(c) PROVE TypeOK'
  BY <1>9 DEF Receive, clientVars, callVars, readVars, procVars, Return, Goto, EmptyChan
<1>10. ASSUME NEW c \in Calls, Timeout(c) PROVE TypeOK'
  BY <1>10 DEF Timeout, clientVars, callVars, readVars, procVars, Return, Goto
<1>11. ASSUME NEW c \in Calls, Unregister(c) PROVE TypeOK'
  BY <1>11 DEF Unregister, clientVars, callVars, readVars, procVars, Return, Goto
<1>12. ASSUME NEW g \in Gens, StopIdle(g) PROVE TypeOK'
  <2>1. UNCHANGED <<closed, pending, callVars, readVars, procVars, writeMu, sends>> /\ fired' \subseteq Gens
    BY <1>12 DEF MayStop, StopIdle
  <2>2. CASE UNCHANGED <<cmd, timer, generation, toKill>>
    BY <2>1, <2>2 DEF callVars, readVars, procVars
  <2>3. CASE cmd # 0 /\ cmd' = 0 /\ timer' = 0 /\ generation' = generation + 1 /\ toKill' = toKill \cup {cmd}
    BY <2>1, <2>3 DEF callVars, readVars, procVars
  <2>. QED
    BY <1>12, <2>2, <2>3 DEF MayStop, StopIdle
<1>13. ASSUME NEW g \in Gens, Kill(g) PROVE TypeOK'
  BY <1>13 DEF Kill, Dies, clientVars, callVars, readVars, procVars, Return, Goto
<1>14. ASSUME NEW g \in Gens, HandleExit(g) PROVE TypeOK'
  BY <1>14 DEF IsCurrent, HandleExit, clientVars, callVars, readVars, procVars, Return, Goto, FlushPending
<1>15. ASSUME NEW g \in Gens, ReplyBegin(g) PROVE TypeOK'
  <2>1. UNCHANGED <<clientVars, callVars, exited, procVars, sends, toKill>>
    BY <1>15 DEF ReplyBegin
  <2>2. writeMu' \in BOOLEAN
    BY <1>15 DEF ReplyBegin
  <2>4. replyTo' \in [Gens -> GenOrNil]
    BY <1>15 DEF ReplyBegin
  <2>3. reader' \in [Gens -> {"none", "reading", "reply", "replying", "ended"}]
    BY <1>15 DEF ReplyBegin
  <2>. QED
    BY <2>1, <2>2, <2>3, <2>4 DEF clientVars, callVars, procVars
<1>16. ASSUME NEW g \in Gens, ReplyEnd(g) PROVE TypeOK'
  <2>1. UNCHANGED <<clientVars, callVars, replyTo, exited, proc, seen, outbox, faults, asks, sends, toKill>>
    BY <1>16 DEF ReplyEnd
  <2>2. <<"reply", g, NoOp>> \in Lines
    BY DEF Lines, Gens
  <2>3. inbox' \in [Gens -> SUBSET Lines]
    BY <1>16, <2>2 DEF ReplyEnd
  <2>4. writeMu' \in BOOLEAN /\ reader' \in [Gens -> {"none", "reading", "reply", "replying", "ended"}]
    BY <1>16 DEF ReplyEnd
  <2>. QED
    BY <2>1, <2>3, <2>4 DEF clientVars, callVars
<1>17. ASSUME NEW g \in Gens, ReaderEnd(g) PROVE TypeOK'
  BY <1>17 DEF IsCurrent, ReaderEnd, clientVars, callVars, readVars, procVars, Return, Goto
<1>18. ASSUME NEW g \in Gens, ServerRead(g) PROVE TypeOK'
  BY <1>18 DEF ServerRead, clientVars, callVars, readVars, procVars, Return, Goto, Lines
<1>19. ASSUME NEW g \in Gens, ServerAnswer(g) PROVE TypeOK'
  BY <1>19 DEF ServerAnswer, clientVars, callVars, readVars, procVars, Return, Goto, Lines
<1>20. ASSUME NEW g \in Gens, ServerAsk(g) PROVE TypeOK'
  BY <1>20 DEF ServerAsk, clientVars, callVars, readVars, procVars, Return, Goto, Lines
<1>21. ASSUME NEW g \in Gens, Crash(g) PROVE TypeOK'
  BY <1>21 DEF Crash, Dies, clientVars, callVars, readVars, procVars, Return, Goto
<1>22. ASSUME NEW g \in Gens, NEW line \in outbox[g], Deliver(g, line) PROVE TypeOK'
  BY <1>22 DEF Deliver, clientVars, callVars, readVars, procVars, Return, Goto, Lines
<1>23. ASSUME NEW g \in Gens, NEW line \in outbox[g], ReadAsk(g, line) PROVE TypeOK'
  BY <1>23 DEF ReadAsk, clientVars, callVars, readVars, procVars, Return, Goto
<1>24. ASSUME NEW s \in sends, Send(s) PROVE TypeOK'
  BY <1>24 DEF Send, clientVars, callVars, readVars, procVars, Return, Goto
<1>25. CASE FireTimer
  BY <1>25 DEF FireTimer, clientVars, callVars, readVars, procVars, Return, Goto
<1>26. CASE Close
  BY <1>26 DEF Close, clientVars, callVars, readVars, procVars, Return, Goto, FlushPending
<1>. HIDE DEF TypeOK
<1>. QED
  BY <1>1, <1>2, <1>3, <1>4, <1>5, <1>6, <1>7, <1>8, <1>9, <1>10, <1>11, <1>12, <1>13, <1>14, <1>15, <1>16, <1>17, <1>18, <1>19, <1>20, <1>21, <1>22, <1>23, <1>24, <1>25, <1>26,
     SMTT(30) DEF Next, CallerStep, CallStep, ReaderStep, ServerStep

\* The initial values have their types.
LEMMA InitTyped == Init => TypeOK
<1>1. ASSUME Init PROVE TypeOK
  <2>1. inbox \in [Gens -> SUBSET Lines] /\ seen \in [Gens -> SUBSET Lines] /\ outbox \in [Gens -> SUBSET Lines]
    BY <1>1 DEF Init
  <2>2. ch \in [Calls -> Kinds \X (Ops \cup {NoOp})]
    BY <1>1 DEF Init, EmptyChan, Kinds
  <2>. QED
    BY <1>1, <2>1, <2>2 DEF Init, TypeOK, GenOrNil, Stages, Results
<1>. QED
  BY <1>1

\* Every variable of the stdio client keeps its type.
THEOREM TypeCorrect == Spec => []TypeOK
  BY InitTyped, TypeStep, PTL DEF Spec
(***************************************************************************)
(* Processes.  Only the actions that start, stop, kill or reap a process   *)
(* matter; the others leave procCore alone.                                *)
(***************************************************************************)
procCore == <<closed, cmd, generation, proc, exited, toKill>>

\* Every step keeps track of the processes: the one in c.cmd, those about to be killed and
\* the dead ones are all there are.
LEMMA ProcStep == TypeOK /\ ProcInv /\ [Next]_vars => ProcInv'
<1>. SUFFICES ASSUME TypeOK, ProcInv, [Next]_vars PROVE ProcInv'
  OBVIOUS
<1>. USE BoundsAssumption DEF TypeOK, ProcInv, NoOrphanProcess
<1>1. CASE UNCHANGED procCore
  BY <1>1 DEF procCore
<1>2. ASSUME NEW o \in Ops, StartProcess(o) PROVE ProcInv'
  BY <1>2 DEF StartProcess, Gens
<1>3. ASSUME NEW g \in Gens, StopIdle(g) PROVE ProcInv'
  <2>1. UNCHANGED <<closed, proc, exited>>
    BY <1>3 DEF MayStop, StopIdle, readVars, procVars
  <2>2. CASE UNCHANGED <<cmd, generation, toKill>>
    BY <2>1, <2>2
  <2>3. CASE cmd' = 0 /\ generation' = generation + 1 /\ toKill' = toKill \cup {cmd} /\ cmd # 0
    BY <2>1, <2>3 DEF Gens
  <2>. QED
    BY <1>3, <2>2, <2>3 DEF MayStop, StopIdle
<1>4. ASSUME NEW g \in Gens, Kill(g) PROVE ProcInv'
  BY <1>4 DEF Kill, Dies, clientVars, readVars, Gens
<1>5. ASSUME NEW g \in Gens, HandleExit(g) PROVE ProcInv'
  BY <1>5 DEF IsCurrent, HandleExit, procVars, Gens
<1>6. ASSUME NEW g \in Gens, ReaderEnd(g) PROVE ProcInv'
  BY <1>6 DEF IsCurrent, ReaderEnd, clientVars, Gens
<1>7. ASSUME NEW g \in Gens, Crash(g) PROVE ProcInv'
  BY <1>7 DEF Crash, Dies, clientVars, readVars, Gens
<1>8. CASE Close
  BY <1>8 DEF Close, readVars, procVars, Gens
<1>9. ASSUME NEW o \in Ops, Refuse(o) \/ FindRunning(o) \/ WriteBegin(o) \/ WriteEnd(o) \/ Touch(o)
      PROVE  UNCHANGED procCore
  BY <1>9 DEF Refuse, FindRunning, WriteBegin, WriteEnd, Touch, procCore, clientVars, readVars, procVars
<1>10. ASSUME NEW c \in Calls, CallStep(c) PROVE UNCHANGED procCore
  BY <1>10 DEF CallStep, Register, Receive, Timeout, Unregister, procCore, clientVars, readVars, procVars
<1>11. ASSUME NEW g \in Gens, ReplyBegin(g) \/ ReplyEnd(g) \/ ServerRead(g) \/ ServerAnswer(g) \/ ServerAsk(g)
       PROVE  UNCHANGED procCore
  BY <1>11 DEF ReplyBegin, ReplyEnd, ServerRead, ServerAnswer, ServerAsk, procCore, clientVars, readVars, procVars
<1>12. ASSUME NEW g \in Gens, NEW line \in outbox[g], Deliver(g, line) \/ ReadAsk(g, line)
       PROVE  UNCHANGED procCore
  BY <1>12 DEF Deliver, ReadAsk, procCore, clientVars, readVars, procVars
<1>13. ASSUME NEW s \in sends, Send(s) PROVE UNCHANGED procCore
  BY <1>13 DEF Send, procCore, clientVars, readVars, procVars
<1>14. CASE FireTimer
  BY <1>1, <1>14 DEF FireTimer, procCore, readVars, procVars
<1>15. CASE UNCHANGED vars
  BY <1>1, <1>15 DEF vars, procCore, clientVars, readVars, procVars
<1>. QED
  BY <1>1, <1>2, <1>3, <1>4, <1>5, <1>6, <1>7, <1>8, <1>9, <1>10, <1>11, <1>12, <1>13, <1>14, <1>15
     DEF Next, CallerStep, ReaderStep, ServerStep
(***************************************************************************)
(* Calls.  The actions that leave callCore alone cannot disturb what is    *)
(* known about ids, outcomes and the process each call waits for.          *)
(***************************************************************************)
callCore == <<closed, cmd, pending, sends, pc, id, ch, nextID, target>>

\* Every step keeps the ids of the calls apart and the pending map free of calls that returned.
LEMMA IdStep == TypeOK /\ IdInv /\ OutcomeInv /\ [Next]_vars => IdInv'
<1>. SUFFICES ASSUME TypeOK, IdInv, OutcomeInv, [Next]_vars PROVE IdInv'
  OBVIOUS
<1>. USE OpsAssumption DEF TypeOK, Ops, IdInv, PendingIsLive
<1>1. CASE UNCHANGED callCore
  BY <1>1 DEF callCore
<1>2. ASSUME NEW o \in Ops, Refuse(o) PROVE IdInv'
  BY <1>2 DEF Refuse, Return, Goto, clientVars, callVars
<1>3. ASSUME NEW o \in Ops, FindRunning(o) PROVE IdInv'
  BY <1>3 DEF FindRunning, Return, Goto, clientVars, callVars
<1>4. ASSUME NEW o \in Ops, StartProcess(o) PROVE IdInv'
  BY <1>4 DEF StartProcess, Return, Goto, clientVars, callVars
<1>5. ASSUME NEW o \in Ops, WriteBegin(o) PROVE IdInv'
  BY <1>5 DEF WriteBegin, Return, Goto, clientVars, callVars, AfterWriteError
<1>6. ASSUME NEW o \in Ops, WriteEnd(o) PROVE IdInv'
  BY <1>6 DEF WriteEnd, Return, Goto, clientVars, callVars, AfterWriteError, AfterWrite
<1>7. ASSUME NEW o \in Ops, Touch(o) PROVE IdInv'
  BY <1>7 DEF Touch, Return, Goto, clientVars, callVars
<1>8. ASSUME NEW c \in Calls, Register(c) PROVE IdInv'
  BY <1>8 DEF Register, Return, Goto, clientVars, callVars
<1>9. ASSUME NEW c \in Calls, Receive(c) PROVE IdInv'
  <2>1. <<id[c], c>> \notin pending
    BY <1>9 DEF Receive, OutcomeInv, HasOutcome
  <2>2. pc' = [pc EXCEPT ![c] = "touch"] /\ UNCHANGED <<closed, pending, id, nextID>>
    BY <1>9 DEF Receive, Return, Goto, clientVars
  <2>. QED
    BY <2>1, <2>2
<1>10. ASSUME NEW c \in Calls, Timeout(c) PROVE IdInv'
  BY <1>10 DEF Timeout, Return, Goto, clientVars, callVars
<1>11. ASSUME NEW c \in Calls, Unregister(c) PROVE IdInv'
  BY <1>11 DEF Unregister, Return, Goto, clientVars, callVars
<1>12. ASSUME NEW g \in Gens, StopIdle(g) PROVE IdInv'
  BY <1>12 DEF MayStop, StopIdle, Return, Goto, clientVars, callVars
<1>13. ASSUME NEW g \in Gens, HandleExit(g) PROVE IdInv'
  BY <1>13 DEF IsCurrent, HandleExit, Return, Goto, clientVars, callVars, FlushPending
<1>14. ASSUME NEW g \in Gens, NEW line \in outbox[g], Deliver(g, line) PROVE IdInv'
  BY <1>14 DEF Deliver, Return, Goto, clientVars, callVars
<1>15. ASSUME NEW s \in sends, Send(s) PROVE IdInv'
  BY <1>15 DEF Send, Return, Goto, clientVars, callVars
<1>16. CASE Close
  BY <1>16 DEF Close, Return, Goto, clientVars, callVars, FlushPending
<1>17. ASSUME NEW g \in Gens, Kill(g) \/ ReplyBegin(g) \/ ReplyEnd(g) \/ ReaderEnd(g)
        \/ ServerRead(g) \/ ServerAnswer(g) \/ ServerAsk(g) \/ Crash(g)
      PROVE  UNCHANGED callCore
  BY <1>17 DEF Kill, Dies, ReplyBegin, ReplyEnd, ReaderEnd, ServerRead, ServerAnswer, ServerAsk, Crash,
     callCore, clientVars, callVars
<1>18. ASSUME NEW g \in Gens, NEW line \in outbox[g], ReadAsk(g, line) PROVE UNCHANGED callCore
  BY <1>18 DEF ReadAsk, callCore, clientVars, callVars
<1>19. CASE FireTimer
  BY <1>1, <1>19 DEF FireTimer, callCore, callVars
<1>20. CASE UNCHANGED vars
  BY <1>1, <1>20 DEF vars, callCore, clientVars, callVars
<1>. QED
  BY <1>1, <1>2, <1>3, <1>4, <1>5, <1>6, <1>7, <1>8, <1>9, <1>10, <1>11, <1>12, <1>13, <1>14, <1>15, <1>16, <1>17, <1>18, <1>19, <1>20
     DEF Next, CallerStep, CallStep, ReaderStep, ServerStep

\* Taking entries out of the pending map and sending each of their calls an outcome: what
\* deliver, handleExit and Close have in common.
LEMMA SettleKeepsOutcomes ==
    ASSUME TypeOK, IdInv, OutcomeInv,
           NEW taken \in SUBSET pending, NEW kind \in Kinds \ {"none"}, NEW op,
           pending' = pending \ taken,
           sends' = sends \cup {<<e[2], kind, op>> : e \in taken},
           UNCHANGED <<pc, id, ch>>
    PROVE  OutcomeInv'
<1>1. \A e \in pending : e[2] \in Calls /\ e = <<id[e[2]], e[2]>> /\ ~HasOutcome(e[2])
  BY DEF TypeOK, IdInv, PendingIsLive, OutcomeInv
<1>2. \A s \in sends' : s \in sends \/ \E e \in taken : s = <<e[2], kind, op>>
  OBVIOUS
<1>3. \A c \in Calls : HasSend(c)' <=> HasSend(c) \/ <<id[c], c>> \in taken
  <2>1. ASSUME NEW c \in Calls, NEW s \in sends', s[1] = c PROVE HasSend(c) \/ <<id[c], c>> \in taken
    BY <1>1, <1>2, <2>1 DEF HasSend
  <2>2. ASSUME NEW c \in Calls, <<id[c], c>> \in taken PROVE HasSend(c)'
    <3>1. <<c, kind, op>> \in sends'
      BY <2>2
    <3>. QED
      BY <3>1 DEF HasSend
  <2>3. ASSUME NEW c \in Calls, HasSend(c) PROVE HasSend(c)'
    BY <2>3 DEF HasSend
  <2>. QED
    BY <2>1, <2>2, <2>3 DEF HasSend
<1>4. ASSUME NEW s \in sends' PROVE ch[s[1]] = EmptyChan /\ s[2] # "none"
  <2>1. CASE s \in sends
    BY <2>1 DEF OutcomeInv, NoBlockedSender
  <2>2. ASSUME NEW e \in taken, s = <<e[2], kind, op>> PROVE ch[s[1]] = EmptyChan /\ s[2] # "none"
    BY <1>1, <2>2 DEF HasOutcome
  <2>. QED
    BY <1>2, <2>1, <2>2
<1>5. ASSUME NEW s \in sends', NEW t \in sends', t[1] = s[1] PROVE t = s
  <2>1. CASE s \in sends /\ t \in sends
    BY <1>5, <2>1 DEF OutcomeInv, NoBlockedSender
  <2>2. ASSUME NEW e \in taken, s = <<e[2], kind, op>> PROVE t \notin sends
    BY <1>1, <1>5, <2>2 DEF HasOutcome, HasSend
  <2>3. ASSUME NEW e \in taken, t = <<e[2], kind, op>> PROVE s \notin sends
    BY <1>1, <1>5, <2>3 DEF HasOutcome, HasSend
  <2>4. ASSUME NEW e \in taken, s = <<e[2], kind, op>>, NEW f \in taken, t = <<f[2], kind, op>> PROVE t = s
    BY <1>5, <2>4
  <2>. QED
    BY <1>2, <2>1, <2>2, <2>3, <2>4
<1>6. \A c \in Calls : HasOutcome(c)' <=> HasOutcome(c) \/ <<id[c], c>> \in taken
  BY <1>3 DEF HasOutcome, EmptyChan
<1>7. NoBlockedSender' /\ \A s \in sends' : s[2] # "none"
  BY <1>4, <1>5 DEF NoBlockedSender, EmptyChan
<1>8. ASSUME NEW c \in Calls
      PROVE  /\ pc[c] \in {"idle", "started"} => ~HasOutcome(c)'
             /\ pc[c] \in {"registered", "writing", "waiting"} => <<id[c], c>> \in pending' \/ HasOutcome(c)'
             /\ <<id[c], c>> \in pending' => ~HasOutcome(c)'
  <2>1. <<id[c], c>> \in pending => pc[c] \notin {"idle", "started"}
    BY DEF IdInv, PendingIsLive
  <2>. QED
    BY <1>6, <2>1 DEF OutcomeInv
<1>. QED
  BY <1>7, <1>8 DEF OutcomeInv

\* Every step keeps, for each registered call, at most one outcome in sight and, until it has
\* been received or given up, at least one or an entry in the pending map.
LEMMA OutcomeStep == TypeOK /\ IdInv /\ OutcomeInv /\ [Next]_vars => OutcomeInv'
<1>. SUFFICES ASSUME TypeOK, IdInv, OutcomeInv, [Next]_vars PROVE OutcomeInv'
  OBVIOUS
<1>. USE OpsAssumption DEF TypeOK, Ops, IdInv, PendingIsLive, OutcomeInv, NoBlockedSender, HasOutcome, HasSend, EmptyChan
<1>1. CASE UNCHANGED callCore
  BY <1>1 DEF callCore
<1>2. ASSUME NEW o \in Ops, Refuse(o) PROVE OutcomeInv'
  BY <1>2 DEF Refuse, Return, Goto, clientVars, callVars
<1>3. ASSUME NEW o \in Ops, FindRunning(o) PROVE OutcomeInv'
  BY <1>3 DEF FindRunning, Return, Goto, clientVars, callVars
<1>4. ASSUME NEW o \in Ops, StartProcess(o) PROVE OutcomeInv'
  BY <1>4 DEF StartProcess, Return, Goto, clientVars, callVars
<1>5. ASSUME NEW o \in Ops, WriteBegin(o) PROVE OutcomeInv'
  BY <1>5 DEF WriteBegin, Return, Goto, clientVars, callVars, AfterWriteError
<1>6. ASSUME NEW o \in Ops, WriteEnd(o) PROVE OutcomeInv'
  BY <1>6 DEF WriteEnd, Return, Goto, clientVars, callVars, AfterWriteError, AfterWrite
<1>7. ASSUME NEW o \in Ops, Touch(o) PROVE OutcomeInv'
  BY <1>7 DEF Touch, Return, Goto, clientVars, callVars
<1>8. ASSUME NEW c \in Calls, Register(c) PROVE OutcomeInv'
  <2>1. pc[c] = "started" /\ ~HasOutcome(c) /\ UNCHANGED <<ch, sends>>
    BY <1>8 DEF Register
  <2>2. CASE pc' = [pc EXCEPT ![c] = "done"] /\ UNCHANGED <<id, pending>>
    BY <2>1, <2>2
  <2>3. CASE /\ pc' = [pc EXCEPT ![c] = "registered"]
             /\ id' = [id EXCEPT ![c] = nextID + 1]
             /\ pending' = pending \cup {<<nextID + 1, c>>}
    <3>1. <<id'[c], c>> \in pending' /\ ~HasOutcome(c)'
      BY <2>1, <2>3
    <3>2. ASSUME NEW d \in Calls, d # c
          PROVE  /\ pc'[d] = pc[d] /\ id'[d] = id[d] /\ HasOutcome(d)' = HasOutcome(d)
                 /\ <<id[d], d>> \in pending' <=> <<id[d], d>> \in pending
      BY <2>1, <2>3, <3>2
    <3>3. pc'[c] = "registered" /\ NoBlockedSender' /\ \A s \in sends' : s[2] # "none"
      BY <2>1, <2>3
    <3>. HIDE DEF HasOutcome
    <3>. QED
      BY <3>1, <3>2, <3>3
  <2>. QED
    BY <1>8, <2>2, <2>3 DEF Register, Return, Goto
<1>9. ASSUME NEW c \in Calls, Receive(c) PROVE OutcomeInv'
  BY <1>9 DEF Receive, Return, Goto, clientVars, callVars
<1>10. ASSUME NEW c \in Calls, Timeout(c) PROVE OutcomeInv'
  BY <1>10 DEF Timeout, Return, Goto, clientVars, callVars
<1>11. ASSUME NEW c \in Calls, Unregister(c) PROVE OutcomeInv'
  BY <1>11 DEF Unregister, Return, Goto, clientVars, callVars
<1>12. ASSUME NEW g \in Gens, StopIdle(g) PROVE OutcomeInv'
  BY <1>12 DEF MayStop, StopIdle, Return, Goto, clientVars, callVars
<1>13. ASSUME NEW g \in Gens, HandleExit(g) PROVE OutcomeInv'
  <2>1. CASE UNCHANGED <<cmd, timer, pending, sends>>
    BY <1>1, <1>13, <2>1 DEF IsCurrent, HandleExit, callVars, callCore
  <2>2. CASE FlushPending("exit")
    <3>. HIDE DEF TypeOK, IdInv, PendingIsLive, OutcomeInv, NoBlockedSender, HasOutcome, HasSend, EmptyChan, Ops
    <3>1. /\ pending' = pending \ pending
          /\ sends' = sends \cup {<<e[2], "exit", NoOp>> : e \in pending}
          /\ UNCHANGED <<pc, id, ch>>
      BY <1>13, <2>2 DEF IsCurrent, HandleExit, callVars, FlushPending
    <3>2. "exit" \in Kinds \ {"none"} /\ pending \in SUBSET pending
      BY DEF Kinds
    <3>. QED
      BY <3>1, <3>2, SettleKeepsOutcomes, Zenon
  <2>. QED
    BY <1>13, <2>1, <2>2 DEF IsCurrent, HandleExit
<1>14. ASSUME NEW g \in Gens, NEW line \in outbox[g], Deliver(g, line) PROVE OutcomeInv'
  <2>. DEFINE taken == {e \in pending : e[1] = line[2]}
  <2>1. /\ taken \in SUBSET pending
        /\ pending' = pending \ taken
        /\ sends' = sends \cup {<<e[2], "answer", line[3]>> : e \in taken}
        /\ UNCHANGED <<pc, id, ch>>
    BY <1>14 DEF Deliver, callVars
  <2>. HIDE DEF taken, TypeOK, IdInv, PendingIsLive, OutcomeInv, NoBlockedSender, HasOutcome, HasSend,
                EmptyChan, Ops
  <2>2. "answer" \in Kinds \ {"none"}
    BY DEF Kinds
  <2>. QED
    BY <2>1, <2>2, SettleKeepsOutcomes, Zenon
<1>15. ASSUME NEW s \in sends, Send(s) PROVE OutcomeInv'
  BY <1>15, SMTT(30) DEF Send, Return, Goto, clientVars, callVars
<1>16. CASE Close
  <2>. HIDE DEF TypeOK, IdInv, PendingIsLive, OutcomeInv, NoBlockedSender, HasOutcome, HasSend, EmptyChan, Ops
  <2>1. /\ pending' = pending \ pending
        /\ sends' = sends \cup {<<e[2], "closed", NoOp>> : e \in pending}
        /\ UNCHANGED <<pc, id, ch>>
    BY <1>16 DEF Close, callVars, FlushPending
  <2>2. "closed" \in Kinds \ {"none"} /\ pending \in SUBSET pending
    BY DEF Kinds
  <2>. QED
    BY <2>1, <2>2, SettleKeepsOutcomes, Zenon
<1>17. ASSUME NEW g \in Gens, Kill(g) \/ ReplyBegin(g) \/ ReplyEnd(g) \/ ReaderEnd(g)
        \/ ServerRead(g) \/ ServerAnswer(g) \/ ServerAsk(g) \/ Crash(g)
      PROVE  UNCHANGED callCore
  BY <1>17 DEF Kill, Dies, ReplyBegin, ReplyEnd, ReaderEnd, ServerRead, ServerAnswer, ServerAsk, Crash,
     callCore, clientVars, callVars
<1>18. ASSUME NEW g \in Gens, NEW line \in outbox[g], ReadAsk(g, line) PROVE UNCHANGED callCore
  BY <1>18 DEF ReadAsk, callCore, clientVars, callVars
<1>19. CASE FireTimer
  BY <1>1, <1>19 DEF FireTimer, callCore, callVars
<1>20. CASE UNCHANGED vars
  BY <1>1, <1>20 DEF vars, callCore, clientVars, callVars
<1>. HIDE DEF TypeOK, IdInv, OutcomeInv
<1>. QED
  BY <1>1, <1>2, <1>3, <1>4, <1>5, <1>6, <1>7, <1>8, <1>9, <1>10, <1>11, <1>12, <1>13, <1>14, <1>15, <1>16, <1>17, <1>18, <1>19, <1>20
     DEF Next, CallerStep, CallStep, ReaderStep, ServerStep

\* Every step keeps the pending calls that took a stdin with the process that is current: an
\* idle stop cannot happen while they are pending, and an exit settles them.
LEMMA ServedStep == TypeOK /\ IdInv /\ ServedInv /\ [Next]_vars => ServedInv'
<1>. SUFFICES ASSUME TypeOK, IdInv, ServedInv, [Next]_vars PROVE ServedInv'
  OBVIOUS
<1>. USE OpsAssumption DEF TypeOK, Ops, IdInv, PendingIsLive, ServedInv
<1>1. CASE UNCHANGED callCore
  BY <1>1 DEF callCore
<1>2. ASSUME NEW o \in Ops, Refuse(o) PROVE ServedInv'
  BY <1>2 DEF Refuse, Return, Goto, clientVars, callVars
<1>3. ASSUME NEW o \in Ops, FindRunning(o) PROVE ServedInv'
  BY <1>3 DEF FindRunning, Return, Goto, clientVars, callVars
<1>4. ASSUME NEW o \in Ops, StartProcess(o) PROVE ServedInv'
  BY <1>4 DEF StartProcess, Return, Goto, clientVars, callVars
<1>5. ASSUME NEW o \in Ops, WriteBegin(o) PROVE ServedInv'
  BY <1>5 DEF WriteBegin, Return, Goto, clientVars, callVars, AfterWriteError
<1>6. ASSUME NEW o \in Ops, WriteEnd(o) PROVE ServedInv'
  BY <1>6 DEF WriteEnd, Return, Goto, clientVars, callVars, AfterWriteError, AfterWrite
<1>7. ASSUME NEW o \in Ops, Touch(o) PROVE ServedInv'
  BY <1>7 DEF Touch, Return, Goto, clientVars, callVars
<1>8. ASSUME NEW c \in Calls, Register(c) PROVE ServedInv'
  BY <1>8 DEF Register, Return, Goto, clientVars, callVars
<1>9. ASSUME NEW c \in Calls, Receive(c) PROVE ServedInv'
  BY <1>9 DEF Receive, Return, Goto, clientVars, callVars
<1>10. ASSUME NEW c \in Calls, Timeout(c) PROVE ServedInv'
  BY <1>10 DEF Timeout, Return, Goto, clientVars, callVars
<1>11. ASSUME NEW c \in Calls, Unregister(c) PROVE ServedInv'
  BY <1>11 DEF Unregister, Return, Goto, clientVars, callVars
<1>12. ASSUME NEW g \in Gens, StopIdle(g) PROVE ServedInv'
  BY <1>12 DEF MayStop, StopIdle, Return, Goto, clientVars, callVars
<1>13. ASSUME NEW g \in Gens, HandleExit(g) PROVE ServedInv'
  BY <1>13 DEF IsCurrent, HandleExit, Return, Goto, clientVars, callVars, FlushPending
<1>14. ASSUME NEW g \in Gens, NEW line \in outbox[g], Deliver(g, line) PROVE ServedInv'
  BY <1>14 DEF Deliver, Return, Goto, clientVars, callVars
<1>15. ASSUME NEW s \in sends, Send(s) PROVE ServedInv'
  BY <1>15 DEF Send, Return, Goto, clientVars, callVars
<1>16. CASE Close
  BY <1>16 DEF Close, Return, Goto, clientVars, callVars, FlushPending
<1>17. ASSUME NEW g \in Gens, Kill(g) \/ ReplyBegin(g) \/ ReplyEnd(g) \/ ReaderEnd(g)
        \/ ServerRead(g) \/ ServerAnswer(g) \/ ServerAsk(g) \/ Crash(g)
      PROVE  UNCHANGED callCore
  BY <1>17 DEF Kill, Dies, ReplyBegin, ReplyEnd, ReaderEnd, ServerRead, ServerAnswer, ServerAsk, Crash,
     callCore, clientVars, callVars
<1>18. ASSUME NEW g \in Gens, NEW line \in outbox[g], ReadAsk(g, line) PROVE UNCHANGED callCore
  BY <1>18 DEF ReadAsk, callCore, clientVars, callVars
<1>19. CASE FireTimer
  BY <1>1, <1>19 DEF FireTimer, callCore, callVars
<1>20. CASE UNCHANGED vars
  BY <1>1, <1>20 DEF vars, callCore, clientVars, callVars
<1>. QED
  BY <1>1, <1>2, <1>3, <1>4, <1>5, <1>6, <1>7, <1>8, <1>9, <1>10, <1>11, <1>12, <1>13, <1>14, <1>15, <1>16, <1>17, <1>18, <1>19, <1>20
     DEF Next, CallerStep, CallStep, ReaderStep, ServerStep
(***************************************************************************)
(* Lines.  Requests, and the answers servers make of them, keep the id of  *)
(* the call they were written for, in pipes of every generation.           *)
(***************************************************************************)
lineCore == <<inbox, seen, outbox, sends, ch, id>>

\* Every step keeps requests and answers, in every pipe, under the id of their call.
LEMMA LineStep == TypeOK /\ IdInv /\ LineInv /\ [Next]_vars => LineInv'
<1>. SUFFICES ASSUME TypeOK, IdInv, LineInv, [Next]_vars PROVE LineInv'
  OBVIOUS
<1>. USE OpsAssumption DEF TypeOK, LineInv, AnswersMatch, Tagged
<1>1. CASE UNCHANGED lineCore
  BY <1>1 DEF lineCore
<1>2. ASSUME NEW o \in Ops, WriteEnd(o) PROVE LineInv'
  <2>1. LineOf(o)[1] = "request" => Tagged(LineOf(o))
    BY <1>2 DEF WriteEnd, LineOf, IdInv
  <2>. QED
    BY <1>2, <2>1 DEF WriteEnd
<1>3. ASSUME NEW c \in Calls, Register(c) PROVE LineInv'
  <2>1. \A line : Tagged(line) => Tagged(line)'
    BY <1>3 DEF Register, IdInv
  <2>. QED
    BY <1>3, <2>1 DEF Register, procVars
<1>4. ASSUME NEW g \in Gens, HandleExit(g) PROVE LineInv'
  BY <1>4 DEF IsCurrent, HandleExit, FlushPending, callVars, procVars
<1>5. CASE Close
  BY <1>5 DEF Close, FlushPending, callVars, procVars
<1>6. ASSUME NEW g \in Gens, NEW line \in outbox[g], Deliver(g, line) PROVE LineInv'
  <2>1. ASSUME NEW e \in pending, e[1] = line[2] PROVE line[3] = e[2]
    BY <1>6, <2>1 DEF Deliver, IdInv, PendingIsLive
  <2>2. \A s \in sends' : s[2] = "answer" => s[3] = s[1]
    BY <1>6, <2>1 DEF Deliver
  <2>. QED
    BY <1>6, <2>2 DEF Deliver, callVars
<1>7. ASSUME NEW g \in Gens, NEW line \in outbox[g], ReadAsk(g, line) PROVE LineInv'
  BY <1>7 DEF ReadAsk, callVars
<1>8. ASSUME NEW s \in sends, Send(s) PROVE LineInv'
  BY <1>8 DEF Send, procVars
<1>9. ASSUME NEW g \in Gens, ReplyEnd(g) PROVE LineInv'
  BY <1>9 DEF ReplyEnd, callVars
<1>10. ASSUME NEW g \in Gens, ServerRead(g) PROVE LineInv'
  BY <1>10 DEF ServerRead, callVars
<1>11. ASSUME NEW g \in Gens, ServerAnswer(g) PROVE LineInv'
  BY <1>11 DEF ServerAnswer, callVars
<1>12. ASSUME NEW g \in Gens, ServerAsk(g) PROVE LineInv'
  BY <1>12 DEF ServerAsk, callVars
<1>13. ASSUME NEW o \in Ops, Refuse(o) \/ FindRunning(o) \/ StartProcess(o) \/ WriteBegin(o) \/ Touch(o)
       PROVE  UNCHANGED lineCore
  BY <1>13 DEF Refuse, FindRunning, StartProcess, WriteBegin, Touch, lineCore, procVars
<1>14. ASSUME NEW c \in Calls, Receive(c) \/ Timeout(c) \/ Unregister(c) PROVE UNCHANGED lineCore
  BY <1>14 DEF Receive, Timeout, Unregister, lineCore, procVars
<1>15. ASSUME NEW g \in Gens, StopIdle(g) \/ ReplyBegin(g) PROVE UNCHANGED lineCore
  BY <1>15 DEF MayStop, StopIdle, ReplyBegin, lineCore, callVars, procVars
<1>18. ASSUME NEW g \in Gens, Kill(g) \/ ReaderEnd(g) \/ Crash(g) PROVE LineInv'
  BY <1>18 DEF Kill, ReaderEnd, Crash, Dies, callVars
<1>16. CASE FireTimer
  BY <1>1, <1>16 DEF FireTimer, lineCore, callVars, procVars
<1>17. CASE UNCHANGED vars
  BY <1>1, <1>17 DEF vars, lineCore, callVars, procVars
<1>. QED
  BY <1>1, <1>2, <1>3, <1>4, <1>5, <1>6, <1>7, <1>8, <1>9, <1>10, <1>11, <1>12, <1>13, <1>14, <1>15, <1>18,
     <1>16, <1>17
     DEF Next, CallerStep, CallStep, ReaderStep, ServerStep

(***************************************************************************)
(* The invariant and what follows from it.                                 *)
(***************************************************************************)

\* The inductive invariant of the stdio client holds in every behaviour.
THEOREM Invariance == Spec => [](TypeOK /\ IInv)
<1>1. Init => TypeOK
  BY InitTyped
<1>2. Init => IInv
  BY DEF Init, IInv, ProcInv, NoOrphanProcess, IdInv, PendingIsLive, OutcomeInv, NoBlockedSender,
         HasOutcome, HasSend, ServedInv, LineInv, AnswersMatch, EmptyChan, Ops
<1>3. TypeOK /\ IInv /\ [Next]_vars => TypeOK' /\ IInv'
  BY TypeStep, ProcStep, IdStep, OutcomeStep, ServedStep, LineStep DEF IInv
<1>. QED
  BY <1>1, <1>2, <1>3, PTL DEF Spec

\* No subprocess is ever lost: what still runs is the current process or about to be killed.
THEOREM ProcessesTracked == Spec => []NoOrphanProcess
<1>1. IInv => NoOrphanProcess
  BY DEF IInv, ProcInv
<1>. QED
  BY <1>1, Invariance, PTL

\* Senders of outcomes never block: a call gets at most one.
THEOREM OneOutcome == Spec => []NoBlockedSender
<1>1. IInv => NoBlockedSender
  BY DEF IInv, OutcomeInv
<1>. QED
  BY <1>1, Invariance, PTL

\* Calls that wait have an outcome or are with the current process.
THEOREM NobodyStranded == Spec => []WaitingIsServed
<1>1. IInv => WaitingIsServed
  BY DEF IInv, OutcomeInv, ServedInv, HasOutcome, WaitingIsServed
<1>. QED
  BY <1>1, Invariance, PTL

\* The pending map never keeps an entry of a call that returned.
THEOREM NothingLeaks == Spec => []PendingIsLive
<1>1. IInv => PendingIsLive
  BY DEF IInv, IdInv
<1>. QED
  BY <1>1, Invariance, PTL

\* Answers reach the calls they answer, across restarts.
THEOREM AnswersRouted == Spec => []AnswersMatch
<1>1. IInv => AnswersMatch
  BY DEF IInv, LineInv
<1>. QED
  BY <1>1, Invariance, PTL

finalCore == <<closed, cmd, generation, pending>>

\* No step leads out of the closed state: with c.cmd nil and the map empty, starts and
\* registrations are refused and idle stops, exits and Close find nothing to do.
LEMMA FinalStep ==
    ASSUME TypeOK, ProcInv, IdInv, closed, [Next]_vars
    PROVE  closed' /\ cmd' = 0 /\ pending' = {} /\ generation' = generation
<1>1. cmd = 0 /\ pending = {}
  BY DEF ProcInv, IdInv
<1>2. ASSUME UNCHANGED finalCore
      PROVE  closed' /\ cmd' = 0 /\ pending' = {} /\ generation' = generation
  BY <1>1, <1>2 DEF finalCore
<1>3. ASSUME NEW o \in Ops, CallerStep(o) PROVE UNCHANGED finalCore
  BY <1>3 DEF CallerStep, Refuse, FindRunning, StartProcess, WriteBegin, WriteEnd, Touch, finalCore, clientVars
<1>4. ASSUME NEW c \in Calls, CallStep(c) PROVE UNCHANGED finalCore
  <2>1. Unregister(c) => pending' = pending
    BY <1>1 DEF Unregister
  <2>. QED
    BY <1>4, <2>1 DEF CallStep, Register, Receive, Timeout, Unregister, finalCore, clientVars
<1>5. ASSUME NEW g \in Gens, StopIdle(g) \/ Kill(g) \/ ServerStep(g) PROVE UNCHANGED finalCore
  BY <1>5 DEF StopIdle, MayStop, Kill, Dies, ServerStep, ServerRead, ServerAnswer, ServerAsk, Crash,
              finalCore, clientVars
<1>6. ASSUME NEW g \in Gens, HandleExit(g) PROVE UNCHANGED finalCore
  BY <1>1, <1>6 DEF HandleExit, FlushPending, finalCore
<1>7. ASSUME NEW g \in Gens, ReaderStep(g) PROVE UNCHANGED finalCore
  <2>1. ASSUME NEW line \in outbox[g], Deliver(g, line) PROVE UNCHANGED finalCore
    BY <1>1, <2>1 DEF Deliver, finalCore
  <2>2. ASSUME NEW line \in outbox[g], ReadAsk(g, line) PROVE UNCHANGED finalCore
    BY <2>2 DEF ReadAsk, finalCore, clientVars
  <2>. QED
    BY <1>7, <2>1, <2>2 DEF ReaderStep, ReplyBegin, ReplyEnd, ReaderEnd, finalCore, clientVars
<1>8. ASSUME NEW s \in sends, Send(s) PROVE UNCHANGED finalCore
  BY <1>8 DEF Send, finalCore, clientVars
<1>9. CASE FireTimer \/ Close \/ UNCHANGED vars
  BY <1>2, <1>9 DEF FireTimer, Close, vars, finalCore, clientVars
<1>. QED
  BY <1>2, <1>3, <1>4, <1>5, <1>6, <1>7, <1>8, <1>9 DEF Next

\* After Close nothing starts, nothing is registered, and the client stays closed.
THEOREM CloseIsFinal == Spec => ClosedIsFinal
<1>1. TypeOK /\ IInv /\ [Next]_vars
        => [closed => closed' /\ cmd' = 0 /\ pending' = {} /\ generation' = generation]_vars
  BY FinalStep DEF IInv
<1>. QED
  BY <1>1, Invariance, PTL DEF Spec, ClosedIsFinal
(***************************************************************************)
(* Refinement.  Each action of the client is one action of RpcSession, or  *)
(* leaves the session alone.                                               *)
(***************************************************************************)
sessionCore == <<closed, generation, cmd, pc, id, pending>>

\* An invocation that moves on leaves the status of the others alone.
LEMMA OthersKeepStatus ==
    ASSUME TypeOK, NEW o \in Ops, NEW stage \in Stages, Goto(o, stage),
           \A p \in Calls \ {o} : id'[p] = id[p] /\ (<<id[p], p>> \in pending' <=> <<id[p], p>> \in pending)
    PROVE  \A p \in Ops \ {o} : StatusOf(p)' = StatusOf(p)
<1>. SUFFICES ASSUME NEW p \in Ops \ {o} PROVE StatusOf(p)' = StatusOf(p)
  OBVIOUS
<1>1. pc'[p] = pc[p]
  BY DEF Goto, TypeOK
<1>2. CASE p \in Calls
  BY <1>1, <1>2 DEF StatusOf
<1>3. CASE p \notin Calls
  BY <1>1, <1>3 DEF StatusOf
<1>. QED
  BY <1>2, <1>3

\* What an action on one invocation does to the abstract status function.
LEMMA StatusBecomes ==
    ASSUME NEW o \in Ops, NEW v, StatusOf(o)' = v,
           \A p \in Ops \ {o} : StatusOf(p)' = StatusOf(p)
    PROVE  Session!Becomes(o, v)
  BY DEF Session!Becomes

\* The abstract status depends only on the stages and results of the invocations.
LEMMA StatusKept ==
    ASSUME \A o \in Ops : StatusOf(o)' = StatusOf(o), UNCHANGED <<closed, generation, cmd>>
    PROVE  UNCHANGED Session!sessionVars
  BY DEF Session!sessionVars

\* Taking the whole pending map settles what is in flight and nothing else.
LEMMA FlushSettlesAll ==
    ASSUME TypeOK, UNCHANGED <<pc, id>>, pending' = {}
    PROVE  Session!SettleAll
<1>1. \A o \in Ops : StatusOf(o)' = IF StatusOf(o) = "inflight" THEN "settled" ELSE StatusOf(o)
  BY DEF StatusOf, TypeOK, Stages
<1>. QED
  BY <1>1 DEF Session!SettleAll

\* Every step of the client is a step of the abstract session or leaves it as it is.
LEMMA SessionStep ==
    TypeOK /\ IInv /\ [Next]_vars => [Session!Next]_(Session!sessionVars)
<1>. SUFFICES ASSUME TypeOK, IInv, [Next]_vars PROVE [Session!Next]_(Session!sessionVars)
  OBVIOUS
<1>. USE DEF Stages
<1>1. ASSUME UNCHANGED sessionCore PROVE UNCHANGED Session!sessionVars
  BY <1>1, StatusKept DEF sessionCore, StatusOf
<1>2. ASSUME NEW o \in Ops, Refuse(o) PROVE Session!Refuse(o)
  <2>1. Goto(o, "done") /\ UNCHANGED <<id, pending>>
    BY <1>2 DEF Refuse, Return, clientVars
  <2>2. StatusOf(o) = "idle" /\ StatusOf(o)' = "done"
    BY <1>2, <2>1 DEF Refuse, Goto, StatusOf, TypeOK
  <2>3. \A p \in Ops \ {o} : StatusOf(p)' = StatusOf(p)
    BY <2>1, OthersKeepStatus
  <2>4. Session!Becomes(o, "done")
    BY <2>2, <2>3, StatusBecomes
  <2>. QED
    BY <1>2, <2>2, <2>4 DEF Refuse, Session!Refuse, clientVars
<1>3. ASSUME NEW o \in Ops, FindRunning(o) PROVE Session!Join(o)
  <2>1. Goto(o, "started") /\ UNCHANGED <<id, pending>>
    BY <1>3 DEF FindRunning, Return, clientVars
  <2>2. StatusOf(o) = "idle" /\ StatusOf(o)' = "open"
    BY <1>3, <2>1 DEF FindRunning, Goto, StatusOf, TypeOK
  <2>3. \A p \in Ops \ {o} : StatusOf(p)' = StatusOf(p)
    BY <2>1, OthersKeepStatus
  <2>4. Session!Becomes(o, "open")
    BY <2>2, <2>3, StatusBecomes
  <2>. QED
    BY <1>3, <2>2, <2>4 DEF FindRunning, Session!Join, clientVars
<1>4. ASSUME NEW o \in Ops, StartProcess(o) PROVE Session!Start(o)
  <2>1. Goto(o, "started") /\ UNCHANGED <<id, pending>>
    BY <1>4 DEF StartProcess, Return, clientVars
  <2>2. StatusOf(o) = "idle" /\ StatusOf(o)' = "open"
    BY <1>4, <2>1 DEF StartProcess, Goto, StatusOf, TypeOK
  <2>3. \A p \in Ops \ {o} : StatusOf(p)' = StatusOf(p)
    BY <2>1, OthersKeepStatus
  <2>4. Session!Becomes(o, "open")
    BY <2>2, <2>3, StatusBecomes
  <2>. QED
    BY <1>4, <2>2, <2>4 DEF StartProcess, Session!Start, clientVars
<1>5. ASSUME NEW o \in Ops, WriteBegin(o) PROVE Session!Leave(o) \/ UNCHANGED Session!sessionVars
  <2>1. UNCHANGED <<closed, generation, cmd, id, pending>> /\ StatusOf(o) = "open"
    BY <1>5 DEF WriteBegin, clientVars, StatusOf
  <2>2. CASE Goto(o, AfterWriteError(o))
    <3>1. AfterWriteError(o) \in {"unreg", "touch"} /\ StatusOf(o)' = "settled"
      BY <2>2 DEF AfterWriteError, Goto, StatusOf, TypeOK
    <3>2. \A p \in Ops \ {o} : StatusOf(p)' = StatusOf(p)
      BY <2>1, <2>2, <3>1, OthersKeepStatus
    <3>. QED
      BY <2>1, <3>1, <3>2, StatusBecomes DEF Session!Leave
  <2>3. CASE Goto(o, "writing")
    <3>1. StatusOf(o)' = "open"
      BY <2>3 DEF Goto, StatusOf, TypeOK
    <3>2. \A p \in Ops \ {o} : StatusOf(p)' = StatusOf(p)
      BY <2>1, <2>3, OthersKeepStatus
    <3>. QED
      BY <2>1, <3>1, <3>2, StatusKept
  <2>. QED
    BY <1>5, <2>2, <2>3 DEF WriteBegin, Return
<1>6. ASSUME NEW o \in Ops, WriteEnd(o) PROVE Session!Submit(o) \/ Session!Leave(o)
  <2>1. UNCHANGED <<closed, generation, cmd, id, pending>> /\ StatusOf(o) = "open"
    BY <1>6 DEF WriteEnd, clientVars, StatusOf
  <2>2. Goto(o, AfterWriteError(o)) \/ Goto(o, AfterWrite(o))
    BY <1>6 DEF WriteEnd, Return
  <2>3. AfterWriteError(o) \in Stages /\ AfterWrite(o) \in Stages
    BY DEF AfterWriteError, AfterWrite
  <2>4. \A p \in Ops \ {o} : StatusOf(p)' = StatusOf(p)
    BY <2>1, <2>2, <2>3, OthersKeepStatus
  <2>5. StatusOf(o)' \in {"inflight", "settled"}
    BY <2>2 DEF AfterWriteError, AfterWrite, Goto, StatusOf, TypeOK
  <2>6. StatusOf(o)' = "inflight" => cmd # 0
    <3>1. SUFFICES ASSUME StatusOf(o)' = "inflight" PROVE o \in Calls /\ <<id[o], o>> \in pending
      BY <1>6 DEF WriteEnd, IInv, ServedInv
    <3>. QED
      BY <2>1, <2>2, <3>1 DEF AfterWriteError, AfterWrite, Goto, StatusOf, TypeOK
  <2>. QED
    BY <2>1, <2>4, <2>5, <2>6, StatusBecomes DEF Session!Submit, Session!Leave
<1>7. ASSUME NEW o \in Ops, Touch(o) PROVE Session!Return(o)
  <2>1. Goto(o, "done") /\ UNCHANGED <<id, pending>>
    BY <1>7 DEF Touch, Return, clientVars
  <2>2. StatusOf(o) = "settled" /\ StatusOf(o)' = "done"
    BY <1>7, <2>1 DEF Touch, Goto, StatusOf, TypeOK
  <2>3. \A p \in Ops \ {o} : StatusOf(p)' = StatusOf(p)
    BY <2>1, OthersKeepStatus
  <2>4. Session!Becomes(o, "done")
    BY <2>2, <2>3, StatusBecomes
  <2>. QED
    BY <1>7, <2>2, <2>4 DEF Touch, Session!Return, clientVars
<1>8. ASSUME NEW c \in Calls, Register(c) PROVE Session!Refuse(c) \/ UNCHANGED Session!sessionVars
  <2>1. UNCHANGED <<closed, generation, cmd>> /\ StatusOf(c) = "open" /\ c \in Ops
    BY <1>8 DEF Register, StatusOf, Ops
  <2>2. \A p \in Calls \ {c} : id'[p] = id[p] /\ (<<id[p], p>> \in pending' <=> <<id[p], p>> \in pending)
    BY <1>8 DEF Register, TypeOK
  <2>3. CASE Goto(c, "done")
    <3>1. StatusOf(c)' = "done" /\ \A p \in Ops \ {c} : StatusOf(p)' = StatusOf(p)
      BY <2>1, <2>2, <2>3, OthersKeepStatus DEF Goto, StatusOf, TypeOK
    <3>. QED
      BY <2>1, <3>1, StatusBecomes DEF Session!Refuse
  <2>4. CASE Goto(c, "registered")
    <3>1. StatusOf(c)' = "open" /\ \A p \in Ops \ {c} : StatusOf(p)' = StatusOf(p)
      BY <2>1, <2>2, <2>4, OthersKeepStatus DEF Goto, StatusOf, TypeOK
    <3>. QED
      BY <2>1, <3>1, StatusKept
  <2>. QED
    BY <1>8, <2>3, <2>4 DEF Register, Return
<1>9. ASSUME NEW c \in Calls, Receive(c) PROVE Session!Settle(c) \/ UNCHANGED Session!sessionVars
  <2>1. UNCHANGED <<closed, generation, cmd, id, pending>> /\ Goto(c, "touch") /\ c \in Ops
    BY <1>9 DEF Receive, Return, clientVars, Ops
  <2>2. StatusOf(c) \in {"inflight", "settled"} /\ StatusOf(c)' = "settled"
    BY <1>9, <2>1 DEF Receive, Goto, StatusOf, TypeOK
  <2>3. \A p \in Ops \ {c} : StatusOf(p)' = StatusOf(p)
    BY <2>1, OthersKeepStatus
  <2>. QED
    BY <2>1, <2>2, <2>3, StatusBecomes, StatusKept DEF Session!Settle
<1>10. ASSUME NEW c \in Calls, Timeout(c) PROVE Session!Settle(c) \/ UNCHANGED Session!sessionVars
  <2>1. UNCHANGED <<closed, generation, cmd, id, pending>> /\ Goto(c, "unreg") /\ c \in Ops
    BY <1>10 DEF Timeout, Return, clientVars, Ops
  <2>2. StatusOf(c) \in {"inflight", "settled"} /\ StatusOf(c)' = "settled"
    BY <1>10, <2>1 DEF Timeout, Goto, StatusOf, TypeOK
  <2>3. \A p \in Ops \ {c} : StatusOf(p)' = StatusOf(p)
    BY <2>1, OthersKeepStatus
  <2>. QED
    BY <2>1, <2>2, <2>3, StatusBecomes, StatusKept DEF Session!Settle
<1>11. ASSUME NEW c \in Calls, Unregister(c) PROVE Session!Return(c) \/ UNCHANGED Session!sessionVars
  <2>1. /\ UNCHANGED <<closed, generation, cmd, id>> /\ c \in Ops /\ StatusOf(c) = "settled"
        /\ \A p \in Calls \ {c} : <<id[p], p>> \in pending' <=> <<id[p], p>> \in pending
    BY <1>11 DEF Unregister, StatusOf, Ops
  <2>2. CASE Goto(c, "done")
    <3>1. StatusOf(c)' = "done" /\ \A p \in Ops \ {c} : StatusOf(p)' = StatusOf(p)
      BY <2>1, <2>2, OthersKeepStatus DEF Goto, StatusOf, TypeOK
    <3>. QED
      BY <2>1, <3>1, StatusBecomes DEF Session!Return
  <2>3. CASE Goto(c, "touch")
    <3>1. StatusOf(c)' = "settled" /\ \A p \in Ops \ {c} : StatusOf(p)' = StatusOf(p)
      BY <2>1, <2>3, OthersKeepStatus DEF Goto, StatusOf, TypeOK
    <3>. QED
      BY <2>1, <3>1, StatusKept
  <2>. QED
    BY <1>11, <2>2, <2>3 DEF Unregister
<1>12. ASSUME NEW g \in Gens, StopIdle(g) PROVE Session!IdleStop \/ UNCHANGED Session!sessionVars
  <2>1. UNCHANGED <<closed, pc, id, pending>> /\ \A o \in Ops : StatusOf(o)' = StatusOf(o)
    BY <1>12 DEF MayStop, StopIdle, callVars, StatusOf
  <2>2. CASE UNCHANGED <<cmd, timer, generation, toKill>>
    BY <2>1, <2>2, StatusKept
  <2>3. CASE cmd # 0 /\ pending = {} /\ cmd' = 0 /\ generation' = generation + 1
    <3>1. Session!InFlight = {}
      BY <2>3 DEF Session!InFlight, StatusOf, TypeOK
    <3>. QED
      BY <2>1, <2>3, <3>1 DEF Session!IdleStop
  <2>. QED
    BY <1>12, <2>2, <2>3 DEF MayStop, StopIdle
<1>13. ASSUME NEW g \in Gens, HandleExit(g) PROVE Session!Exit \/ UNCHANGED Session!sessionVars
  <2>1. UNCHANGED <<closed, generation, pc, id>>
    BY <1>13 DEF IsCurrent, HandleExit, callVars
  <2>2. CASE UNCHANGED <<cmd, timer, pending, sends>>
    BY <1>1, <2>1, <2>2 DEF sessionCore
  <2>3. CASE cmd' = 0 /\ pending' = {}
    <3>1. Session!SettleAll
      BY <2>1, <2>3, FlushSettlesAll
    <3>2. CASE cmd # 0
      BY <2>1, <2>3, <3>1, <3>2 DEF Session!Exit
    <3>3. CASE cmd = 0
      <4>1. \A o \in Ops : StatusOf(o) # "inflight"
        BY <3>3 DEF IInv, ServedInv, StatusOf, TypeOK
      <4>2. \A o \in Ops : StatusOf(o)' = StatusOf(o)
        BY <2>1, <2>3, <4>1 DEF StatusOf
      <4>. QED
        BY <2>1, <2>3, <3>3, <4>2, StatusKept
    <3>. QED
      BY <3>2, <3>3
  <2>. QED
    BY <1>13, <2>2, <2>3 DEF IsCurrent, HandleExit, FlushPending
<1>14. CASE Close
  <2>1. Session!Close
    BY <1>14, FlushSettlesAll DEF Close, FlushPending, callVars, Session!Close
  <2>. QED
    BY <2>1 DEF Session!Next
<1>15. ASSUME NEW g \in Gens, NEW line \in outbox[g], Deliver(g, line)
       PROVE  (\E c \in Ops : Session!Settle(c)) \/ UNCHANGED Session!sessionVars
  <2>. DEFINE taken == {e \in pending : e[1] = line[2]}
  <2>1. pending' = pending \ taken /\ UNCHANGED <<closed, generation, cmd, pc, id>>
    BY <1>15 DEF Deliver, callVars
  <2>2. CASE taken = {}
    BY <1>1, <2>1, <2>2 DEF sessionCore
  <2>3. ASSUME NEW e \in taken PROVE (\E c \in Ops : Session!Settle(c)) \/ UNCHANGED Session!sessionVars
    <3>1. e[2] \in Calls /\ e[2] \in Ops /\ e = <<id[e[2]], e[2]>>
      BY DEF TypeOK, IInv, IdInv, PendingIsLive, Ops
    <3>2. \A p \in Calls \ {e[2]} : <<id[p], p>> \in pending' <=> <<id[p], p>> \in pending
      <4>1. ASSUME NEW p \in Calls \ {e[2]}, <<id[p], p>> \in taken PROVE FALSE
        <5>1. id[p] = id[e[2]]
          BY <3>1, <4>1
        <5>2. id[e[2]] # 0
          BY <3>1 DEF IInv, IdInv, PendingIsLive
        <5>. QED
          BY <3>1, <5>1, <5>2 DEF IInv, IdInv
      <4>. QED
        BY <2>1, <4>1
    <3>3. \A p \in Ops \ {e[2]} : StatusOf(p)' = StatusOf(p)
      BY <2>1, <3>2 DEF StatusOf
    <3>4. CASE pc[e[2]] = "waiting"
      <4>1. StatusOf(e[2]) = "inflight" /\ StatusOf(e[2])' = "settled"
        BY <2>1, <3>1, <3>4 DEF StatusOf
      <4>. QED
        BY <2>1, <3>1, <3>3, <4>1, StatusBecomes DEF Session!Settle
    <3>5. CASE pc[e[2]] # "waiting"
      <4>1. StatusOf(e[2])' = StatusOf(e[2])
        BY <2>1, <3>5 DEF StatusOf
      <4>. QED
        BY <2>1, <3>3, <4>1, StatusKept
    <3>. QED
      BY <3>4, <3>5
  <2>. QED
    BY <2>2, <2>3
<1>16. ASSUME NEW g \in Gens, Kill(g) \/ ReplyBegin(g) \/ ReplyEnd(g) \/ ReaderEnd(g)
        \/ ServerRead(g) \/ ServerAnswer(g) \/ ServerAsk(g) \/ Crash(g)
      PROVE  UNCHANGED sessionCore
  BY <1>16 DEF Kill, Dies, ReplyBegin, ReplyEnd, ReaderEnd, ServerRead, ServerAnswer, ServerAsk, Crash,
     sessionCore, clientVars, callVars
<1>17. ASSUME NEW g \in Gens, NEW line \in outbox[g], ReadAsk(g, line) PROVE UNCHANGED sessionCore
  BY <1>17 DEF ReadAsk, sessionCore, clientVars, callVars
<1>18. ASSUME NEW s \in sends, Send(s) PROVE UNCHANGED sessionCore
  BY <1>18 DEF Send, sessionCore, clientVars
<1>19. CASE FireTimer
  BY <1>1, <1>19 DEF FireTimer, sessionCore, callVars
<1>20. CASE UNCHANGED vars
  BY <1>1, <1>20 DEF vars, sessionCore, clientVars, callVars
<1>21. Calls \subseteq Ops
  BY DEF Ops
<1>. QED
  BY <1>1, <1>2, <1>3, <1>4, <1>5, <1>6, <1>7, <1>8, <1>9, <1>10, <1>11, <1>12, <1>13, <1>14, <1>15,
     <1>16, <1>17, <1>18, <1>19, <1>20, <1>21
     DEF Next, CallerStep, CallStep, ReaderStep, ServerStep, Session!Next

\* The stdio client implements the abstract session: an idle stop never catches a request in
\* flight, an exit settles all of them at once, and a closed session stays closed.
THEOREM ImplementsSession == Spec => SessionRefined
<1>1. Init => Session!Init
  BY DEF Init, Session!Init, StatusOf
<1>. QED
  BY <1>1, SessionStep, Invariance, PTL DEF Spec, SessionRefined, Session!Spec
=============================================================================
