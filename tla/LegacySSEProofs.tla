-------------------------- MODULE LegacySSEProofs --------------------------
(***************************************************************************)
(* Proofs about LegacySSE, for every number of calls and notifications and *)
(* every value of the bounds.                                              *)
(***************************************************************************)
EXTENDS LegacySSE, TLAPS

\* The failure of a stream keeps the types, whatever it counts.
LEMMA FailTyped ==
    ASSUME TypeOK, NEW g \in Gens, FailStream(g), faults' \in Nat
    PROVE  TypeOK'
<1>1. sends' \subseteq Calls \X Kinds
  BY DEF TypeOK, FailStream, FlushPending, Kinds
<1>2. stream' \in [Gens -> {"none", "failing", "ended"} \cup Live] /\ tell' \in [Gens -> GenOrNil]
  BY DEF TypeOK, FailStream
<1>. QED
  BY <1>1, <1>2 DEF TypeOK, FailStream, FlushPending, callVars, GenOrNil

\* Every step of the client keeps the variables within their types.
LEMMA TypeStep == TypeOK /\ StreamInv /\ [Next]_vars => TypeOK'
<1>. SUFFICES ASSUME TypeOK, StreamInv, [Next]_vars PROVE TypeOK'
  OBVIOUS
<1>. USE BoundsAssumption DEF TypeOK, GenOrNil, Ops, Stages, Kinds, Live
<1>1. CASE UNCHANGED vars
  BY <1>1 DEF vars, sharedVars, streamVars, callVars
<1>2. ASSUME NEW o \in Ops, Refuse(o) PROVE TypeOK'
  BY <1>2 DEF Refuse, Goto, sharedVars, streamVars
<1>3. ASSUME NEW o \in Ops, OpenStream(o) PROVE TypeOK'
  BY <1>3 DEF OpenStream, Goto, StreamInv, Gens
<1>4. ASSUME NEW o \in Ops, JoinStream(o) PROVE TypeOK'
  BY <1>4 DEF JoinStream, Goto, sharedVars, streamVars
<1>5. ASSUME NEW o \in Ops, TakeReady(o) PROVE TypeOK'
  <2>1. pc' \in [Ops -> Stages]
    BY <1>5 DEF TakeReady, Goto
  <2>. QED
    BY <1>5, <2>1 DEF TakeReady, sharedVars, streamVars
<1>6. ASSUME NEW o \in Ops, ExpireWait(o) PROVE TypeOK'
  BY <1>6 DEF ExpireWait, Goto, sharedVars, streamVars
<1>7. ASSUME NEW o \in Ops, PutBack(o) PROVE TypeOK'
  <2>1. pc' \in [Ops -> Stages] /\ chan' \in [Gens -> {"empty", "nil", "err"}]
    BY <1>7 DEF PutBack, Goto, Offer
  <2>. QED
    BY <1>7, <2>1 DEF PutBack, streamVars
<1>8. ASSUME NEW o \in Ops, PostArrives(o) PROVE TypeOK'
  BY <1>8 DEF PostArrives, sharedVars, streamVars
<1>9. ASSUME NEW o \in Ops, PostFails(o) PROVE TypeOK'
  <2>1. pc' \in [Ops -> Stages]
    BY <1>9 DEF PostFails, Goto
  <2>. QED
    BY <1>9, <2>1 DEF PostFails, sharedVars, streamVars
<1>10. ASSUME NEW o \in Ops, PostSucceeds(o) PROVE TypeOK'
  <2>1. pc' \in [Ops -> Stages]
    BY <1>10 DEF PostSucceeds, Goto
  <2>. QED
    BY <1>10, <2>1 DEF PostSucceeds, sharedVars, streamVars
<1>11. ASSUME NEW c \in Calls, Register(c) PROVE TypeOK'
  BY <1>11 DEF Register, Goto, streamVars
<1>12. ASSUME NEW c \in Calls, Receive(c) PROVE TypeOK'
  BY <1>12 DEF Receive, Goto, sharedVars, streamVars
<1>13. ASSUME NEW c \in Calls, Timeout(c) PROVE TypeOK'
  BY <1>13 DEF Timeout, Goto, sharedVars, streamVars
<1>14. ASSUME NEW c \in Calls, Unregister(c) PROVE TypeOK'
  BY <1>14 DEF Unregister, Goto, streamVars
<1>15. ASSUME NEW c \in Calls, Deliver(c) PROVE TypeOK'
  BY <1>15 DEF Deliver, streamVars, callVars
<1>16. ASSUME NEW n \in Notices, ReadEndpoint(n) PROVE TypeOK'
  BY <1>16 DEF ReadEndpoint, Goto, sharedVars, streamVars
<1>17. ASSUME NEW g \in Gens, Opened(g) PROVE TypeOK'
  BY <1>17 DEF Opened, sharedVars, callVars
<1>18. ASSUME NEW g \in Gens, Announce(g) PROVE TypeOK'
  BY <1>18 DEF Announce, callVars
<1>19. ASSUME NEW g \in Gens, Signal(g) PROVE TypeOK'
  BY <1>19 DEF Signal, Offer, sharedVars, callVars
<1>20. ASSUME NEW g \in Gens, Breaks(g) PROVE TypeOK'
  BY <1>20, FailTyped DEF Breaks
<1>21. ASSUME NEW g \in Gens, OpeningCancelled(g) PROVE TypeOK'
  BY <1>21, FailTyped DEF OpeningCancelled
<1>22. ASSUME NEW g \in Gens, ReadingCancelled(g) PROVE TypeOK'
  BY <1>22 DEF ReadingCancelled, sharedVars, callVars
<1>23. ASSUME NEW g \in Gens, TellFailure(g) PROVE TypeOK'
  BY <1>23 DEF TellFailure, Offer, sharedVars, callVars
<1>24. ASSUME NEW s \in sends, Send(s) PROVE TypeOK'
  BY <1>24 DEF Send, sharedVars, streamVars, callVars
<1>25. CASE Close
  BY <1>25 DEF Close, FlushPending, StreamInv, callVars
<1>. HIDE DEF TypeOK
<1>. QED
  BY <1>1, <1>2, <1>3, <1>4, <1>5, <1>6, <1>7, <1>8, <1>9, <1>10, <1>11, <1>12, <1>13, <1>14, <1>15,
     <1>16, <1>17, <1>18, <1>19, <1>20, <1>21, <1>22, <1>23, <1>24, <1>25
     DEF Next, CallerStep, CallStep, StreamStep
-----------------------------------------------------------------------------
(* Streams.  Only the actions that start, announce, fail, cancel or end a stream, and those     *)
(* that choose a readiness channel, matter.                                                     *)

\* The variables that StreamInv reads.
streamCore == <<closed, running, generation, endpoint, ready, cancelled, stream, tell>>

\* A failing stream is the only one, so that none is left.
LEMMA FailEndsStreams ==
    ASSUME TypeOK, StreamInv, NEW g \in Gens, FailStream(g), stream[g] \in Live
    PROVE  StreamInv'
<1>1. /\ running' = FALSE /\ endpoint' = 0 /\ generation # 0 /\ ready # 0
      /\ stream' = [stream EXCEPT ![g] = "failing"] /\ tell' = [tell EXCEPT ![g] = ready]
      /\ UNCHANGED <<closed, generation, ready, cancelled, pc, mine>>
  BY DEF FailStream, StreamInv, TypeOK, Gens, callVars
<1>2. \A h \in Gens : stream'[h] \notin Live
  BY <1>1 DEF StreamInv, OneStream, TypeOK, FailStream, Live
<1>. QED
  BY <1>1, <1>2 DEF StreamInv, OneStream, TypeOK, Live, FailStream

LEMMA StreamsKept == TypeOK /\ StreamInv /\ [Next]_vars => StreamInv'
<1>. SUFFICES ASSUME TypeOK, StreamInv, [Next]_vars PROVE StreamInv'
  OBVIOUS
<1>1. ASSUME UNCHANGED streamCore,
             \A o \in Ops : pc'[o] \in {"waitReady", "gotReady"} => mine'[o] # 0
      PROVE  StreamInv'
  BY <1>1 DEF streamCore, StreamInv, OneStream
<1>2. ASSUME NEW o \in Ops, OpenStream(o) PROVE StreamInv'
  <2>1. /\ ~running /\ ~closed /\ generation' = generation + 1 /\ ready' = generation' /\ running'
        /\ stream' = [stream EXCEPT ![generation'] = "opening"] /\ generation' \in Gens
        /\ mine' = [mine EXCEPT ![o] = generation'] /\ Goto(o, "waitReady")
        /\ UNCHANGED <<closed, endpoint, cancelled, tell>>
    BY <1>2, BoundsAssumption DEF OpenStream, TypeOK, GenOrNil, Gens
  <2>2. \A p \in Ops : pc'[p] \in {"waitReady", "gotReady"} => mine'[p] # 0
    BY <2>1 DEF Goto, StreamInv, TypeOK, Gens
  <2>3. OneStream'
    BY <2>1 DEF OneStream, StreamInv, TypeOK, Live
  <2>4. \A g \in Gens : /\ g > generation' => stream'[g] = "none"
                        /\ stream'[g] \in {"signal", "failing"} => tell'[g] # 0
    BY <2>1 DEF StreamInv, TypeOK, Gens, GenOrNil
  <2>. QED
    BY <2>1, <2>2, <2>3, <2>4 DEF StreamInv, Gens
<1>3. ASSUME NEW o \in Ops, JoinStream(o) PROVE StreamInv'
  <2>1. ready # 0
    BY <1>3 DEF JoinStream, StreamInv
  <2>. QED
    BY <1>1, <1>3, <2>1 DEF JoinStream, Goto, sharedVars, streamVars, streamCore, StreamInv, TypeOK
<1>4. ASSUME NEW o \in Ops, TakeReady(o) PROVE StreamInv'
  BY <1>1, <1>4 DEF TakeReady, Goto, sharedVars, streamVars, streamCore, StreamInv, TypeOK
<1>5. ASSUME NEW o \in Ops, PutBack(o) PROVE StreamInv'
  <2>1. /\ UNCHANGED <<closed, running, generation, endpoint, cancelled, stream, tell, mine>>
        /\ ready' # 0 <=> ready # 0
    BY <1>5 DEF PutBack, streamVars, StreamInv
  <2>2. \A p \in Ops : pc'[p] \in {"waitReady", "gotReady"} => mine'[p] # 0
    BY <1>5, <2>1 DEF PutBack, Goto, StreamInv, TypeOK
  <2>. QED
    BY <2>1, <2>2 DEF StreamInv, OneStream
<1>6. ASSUME NEW o \in Ops,
             Refuse(o) \/ ExpireWait(o) \/ PostArrives(o) \/ PostFails(o) \/ PostSucceeds(o)
      PROVE  StreamInv'
  BY <1>1, <1>6 DEF Refuse, ExpireWait, PostArrives, PostFails, PostSucceeds, Goto, sharedVars,
     streamVars, streamCore, StreamInv, TypeOK
<1>7. ASSUME NEW c \in Calls,
             Register(c) \/ Receive(c) \/ Timeout(c) \/ Unregister(c) \/ Deliver(c)
      PROVE  StreamInv'
  BY <1>1, <1>7 DEF Register, Receive, Timeout, Unregister, Deliver, Goto, sharedVars, streamVars,
     callVars, streamCore, StreamInv, TypeOK, Ops
<1>8. ASSUME NEW n \in Notices, ReadEndpoint(n) PROVE StreamInv'
  BY <1>1, <1>8 DEF ReadEndpoint, Goto, sharedVars, streamVars, streamCore, StreamInv, TypeOK, Ops
<1>9. ASSUME NEW g \in Gens, Opened(g) PROVE StreamInv'
  BY <1>9 DEF Opened, sharedVars, callVars, StreamInv, OneStream, TypeOK, Live
<1>10. ASSUME NEW g \in Gens, Announce(g) PROVE StreamInv'
  <2>1. g = generation /\ running /\ ready # 0
    BY <1>10 DEF Announce, StreamInv, OneStream, Live, Gens
  <2>. QED
    BY <1>10, <2>1 DEF Announce, callVars, StreamInv, OneStream, TypeOK, Live
<1>11. ASSUME NEW g \in Gens, Signal(g) PROVE StreamInv'
  BY <1>11 DEF Signal, sharedVars, callVars, StreamInv, OneStream, TypeOK, Live
<1>12. ASSUME NEW g \in Gens, Breaks(g) PROVE StreamInv'
  BY <1>12, FailEndsStreams DEF Breaks, Live
<1>13. ASSUME NEW g \in Gens, OpeningCancelled(g) PROVE StreamInv'
  BY <1>13, FailEndsStreams DEF OpeningCancelled, Live
<1>14. ASSUME NEW g \in Gens, ReadingCancelled(g) PROVE StreamInv'
  BY <1>14 DEF ReadingCancelled, sharedVars, callVars, StreamInv, OneStream, TypeOK, Live
<1>15. ASSUME NEW g \in Gens, TellFailure(g) PROVE StreamInv'
  BY <1>15 DEF TellFailure, sharedVars, callVars, StreamInv, OneStream, TypeOK, Live
<1>16. ASSUME NEW s \in sends, Send(s) PROVE StreamInv'
  BY <1>1, <1>16 DEF Send, sharedVars, streamVars, callVars, streamCore, StreamInv
<1>17. CASE Close
  BY <1>17 DEF Close, callVars, StreamInv, OneStream, TypeOK
<1>18. CASE UNCHANGED vars
  BY <1>1, <1>18 DEF vars, sharedVars, streamVars, callVars, streamCore, StreamInv
<1>. QED
  BY <1>2, <1>3, <1>4, <1>5, <1>6, <1>7, <1>8, <1>9, <1>10, <1>11, <1>12, <1>13, <1>14, <1>15,
     <1>16, <1>17, <1>18 DEF Next, CallerStep, CallStep, StreamStep
-----------------------------------------------------------------------------
(* Outcomes.                                                                                    *)

\* Taking calls out of the pending map and sending each of them an outcome: what deliver,
\* failStream and Close have in common.
LEMMA SettlingKeepsOutcomes ==
    ASSUME TypeOK, OutcomeInv, NEW taken \in SUBSET pending, NEW kind \in Kinds,
           pending' = pending \ taken,
           sends' = sends \cup {<<c, kind>> : c \in taken},
           closed' => pending' = {},
           UNCHANGED <<pc, ch>>
    PROVE  OutcomeInv'
<1>1. ASSUME NEW c \in Calls PROVE HasSend(c)' <=> HasSend(c) \/ c \in taken
  <2>1. CASE c \in taken
    <3>1. <<c, kind>> \in sends'
      BY <2>1
    <3>. QED
      BY <2>1, <3>1 DEF HasSend
  <2>2. CASE c \notin taken
    BY <2>2 DEF HasSend
  <2>. QED
    BY <2>1, <2>2
<1>2. \A c \in taken : c \in Calls /\ c \notin ch /\ ~HasSend(c)
  BY DEF TypeOK, OutcomeInv
<1>3. NoBlockedSender'
  <2>1. ASSUME NEW s \in sends' PROVE s[1] \notin ch
    BY <1>2, <2>1 DEF OutcomeInv, NoBlockedSender
  <2>2. ASSUME NEW s \in sends', NEW t \in sends', t[1] = s[1] PROVE t = s
    <3>1. CASE s \in sends /\ t \in sends
      BY <2>2, <3>1 DEF OutcomeInv, NoBlockedSender
    <3>2. ASSUME NEW c \in taken, s = <<c, kind>> PROVE t = s
      BY <1>2, <2>2, <3>2 DEF HasSend
    <3>3. ASSUME NEW c \in taken, t = <<c, kind>> PROVE t = s
      BY <1>2, <2>2, <3>3 DEF HasSend
    <3>. QED
      BY <3>1, <3>2, <3>3
  <2>. QED
    BY <2>1, <2>2 DEF NoBlockedSender
<1>4. ASSUME NEW c \in pending'
      PROVE  pc'[c] \in {"posting", "waiting", "unreg"} /\ c \notin ch' /\ ~HasSend(c)'
  BY <1>1, <1>4 DEF TypeOK, OutcomeInv
<1>5. ASSUME NEW c \in Calls
      PROVE  /\ c \in ch' \/ HasSend(c)' => pc'[c] \in {"posting", "waiting", "unreg", "done"}
             /\ pc'[c] \in {"posting", "waiting"} => c \in pending' \/ c \in ch' \/ HasSend(c)'
  BY <1>1, <1>5 DEF OutcomeInv
<1>. QED
  BY <1>3, <1>4, <1>5 DEF OutcomeInv

\* One call moves on, and neither its entry in the map nor its outcome changes.
LEMMA MovingKeepsOutcomes ==
    ASSUME TypeOK, OutcomeInv, NEW o \in Ops, NEW stage \in Stages, Goto(o, stage),
           UNCHANGED <<closed, pending, sends, ch>>,
           o \in Calls =>
              /\ o \in pending => stage \in {"posting", "waiting", "unreg"}
              /\ o \in ch \/ HasSend(o) => stage \in {"posting", "waiting", "unreg", "done"}
              /\ stage \in {"posting", "waiting"} => pc[o] \in {"posting", "waiting"}
    PROVE  OutcomeInv'
<1>1. \A c \in Calls : HasSend(c)' <=> HasSend(c)
  BY DEF HasSend
<1>2. \A c \in Calls : IF c = o THEN pc'[c] = stage ELSE pc'[c] = pc[c]
  BY DEF Goto, TypeOK, Ops
<1>3. NoBlockedSender'
  BY DEF OutcomeInv, NoBlockedSender
<1>. QED
  BY <1>1, <1>2, <1>3 DEF OutcomeInv, TypeOK

LEMMA OutcomesKept == TypeOK /\ OutcomeInv /\ [Next]_vars => OutcomeInv'
<1>. SUFFICES ASSUME TypeOK, OutcomeInv, [Next]_vars PROVE OutcomeInv'
  OBVIOUS
<1>1. ASSUME UNCHANGED <<closed, pending, sends, ch, pc>> PROVE OutcomeInv'
  BY <1>1 DEF OutcomeInv, NoBlockedSender, HasSend
<1>2. ASSUME NEW o \in Ops, NEW stage \in {"waitReady", "gotReady", "streaming", "done"},
             pc[o] \in {"idle", "waitReady", "gotReady", "streaming"},
             Goto(o, stage), UNCHANGED <<closed, pending, sends, ch>>
      PROVE  OutcomeInv'
  <2>1. o \in Calls => o \notin pending /\ o \notin ch /\ ~HasSend(o)
    BY <1>2 DEF OutcomeInv
  <2>. QED
    BY <1>2, <2>1, MovingKeepsOutcomes DEF Stages
<1>3. ASSUME NEW o \in Ops, Refuse(o) \/ OpenStream(o) \/ JoinStream(o) \/ ExpireWait(o) \/ PutBack(o)
      PROVE  OutcomeInv'
  BY <1>2, <1>3 DEF Refuse, OpenStream, JoinStream, ExpireWait, PutBack, sharedVars
<1>4. ASSUME NEW o \in Ops, TakeReady(o) PROVE OutcomeInv'
  BY <1>2, <1>4 DEF TakeReady, sharedVars
<1>5. ASSUME NEW o \in Ops, PostArrives(o) PROVE OutcomeInv'
  BY <1>1, <1>5 DEF PostArrives, sharedVars
<1>6. ASSUME NEW o \in Ops, PostFails(o) \/ PostSucceeds(o) PROVE OutcomeInv'
  <2>1. CASE o \in Calls
    <3>1. /\ Goto(o, "unreg") \/ Goto(o, "waiting")
          /\ pc[o] = "posting" /\ UNCHANGED <<closed, pending, sends, ch>>
      BY <1>6, <2>1 DEF PostFails, PostSucceeds, sharedVars
    <3>. QED
      BY <3>1, MovingKeepsOutcomes DEF Stages
  <2>2. CASE o \notin Calls
    <3>1. Goto(o, "done") /\ UNCHANGED <<closed, pending, sends, ch>>
      BY <1>6, <2>2 DEF PostFails, PostSucceeds, sharedVars
    <3>. QED
      BY <2>2, <3>1, MovingKeepsOutcomes DEF Stages
  <2>. QED
    BY <2>1, <2>2
<1>7. ASSUME NEW c \in Calls, Register(c) PROVE OutcomeInv'
  <2>1. CASE closed
    BY <1>2, <1>7, <2>1 DEF Register, Ops
  <2>2. CASE ~closed
    <3>1. /\ pending' = pending \cup {c} /\ Goto(c, "posting") /\ UNCHANGED <<closed, sends, ch>>
          /\ pc[c] = "streaming" /\ c \notin ch /\ ~HasSend(c)
      BY <1>7, <2>2 DEF Register, OutcomeInv
    <3>2. \A d \in Calls : HasSend(d)' <=> HasSend(d)
      BY <3>1 DEF HasSend
    <3>3. \A d \in Calls : IF d = c THEN pc'[d] = "posting" ELSE pc'[d] = pc[d]
      BY <3>1 DEF Goto, TypeOK, Ops
    <3>4. NoBlockedSender'
      BY <3>1 DEF OutcomeInv, NoBlockedSender
    <3>. QED
      BY <2>2, <3>1, <3>2, <3>3, <3>4 DEF OutcomeInv, TypeOK
  <2>. QED
    BY <2>1, <2>2
<1>8. ASSUME NEW c \in Calls, Receive(c) PROVE OutcomeInv'
  <2>1. /\ ch' = ch \ {c} /\ Goto(c, "done") /\ UNCHANGED <<closed, pending, sends>>
        /\ c \in ch /\ c \notin pending /\ ~HasSend(c)
    BY <1>8 DEF Receive, OutcomeInv, NoBlockedSender, HasSend, sharedVars
  <2>2. \A d \in Calls : HasSend(d)' <=> HasSend(d)
    BY <2>1 DEF HasSend
  <2>3. \A d \in Calls : IF d = c THEN pc'[d] = "done" ELSE pc'[d] = pc[d]
    BY <2>1 DEF Goto, TypeOK, Ops
  <2>4. NoBlockedSender'
    BY <2>1 DEF OutcomeInv, NoBlockedSender
  <2>. QED
    BY <2>1, <2>2, <2>3, <2>4 DEF OutcomeInv, TypeOK
<1>9. ASSUME NEW c \in Calls, Timeout(c) PROVE OutcomeInv'
  BY <1>9, MovingKeepsOutcomes DEF Timeout, sharedVars, Stages, Ops
<1>10. ASSUME NEW c \in Calls, Unregister(c) PROVE OutcomeInv'
  <2>1. pending' = pending \ {c} /\ Goto(c, "done") /\ UNCHANGED <<closed, sends, ch>>
    BY <1>10 DEF Unregister
  <2>2. \A d \in Calls : HasSend(d)' <=> HasSend(d)
    BY <2>1 DEF HasSend
  <2>3. \A d \in Calls : IF d = c THEN pc'[d] = "done" ELSE pc'[d] = pc[d]
    BY <2>1 DEF Goto, TypeOK, Ops
  <2>4. NoBlockedSender'
    BY <2>1 DEF OutcomeInv, NoBlockedSender
  <2>. QED
    BY <2>1, <2>2, <2>3, <2>4 DEF OutcomeInv, TypeOK
<1>11. ASSUME NEW c \in Calls, Deliver(c) PROVE OutcomeInv'
  <2>1. CASE c \in pending
    <3>1. {c} \in SUBSET pending /\ pending' = pending \ {c} /\ sends' = sends \cup {<<d, "answer">> : d \in {c}}
      BY <1>11, <2>1 DEF Deliver
    <3>. QED
      BY <1>11, <3>1, SettlingKeepsOutcomes DEF Deliver, callVars, OutcomeInv, Kinds
  <2>2. CASE c \notin pending
    BY <1>1, <1>11, <2>2 DEF Deliver, callVars
  <2>. QED
    BY <2>1, <2>2
<1>12. ASSUME NEW n \in Notices, ReadEndpoint(n) PROVE OutcomeInv'
  <2>1. CASE n \in Calls
    BY <2>1, OpsAssumption
  <2>2. CASE n \notin Calls
    BY <1>12, <2>2, MovingKeepsOutcomes DEF ReadEndpoint, sharedVars, Stages, Ops
  <2>. QED
    BY <2>1, <2>2
<1>13. ASSUME NEW g \in Gens, Breaks(g) \/ OpeningCancelled(g) PROVE OutcomeInv'
  <2>1. FlushPending("failed") /\ UNCHANGED <<closed, pc, ch>>
    BY <1>13 DEF Breaks, OpeningCancelled, FailStream, callVars
  <2>2. pending \in SUBSET pending /\ pending' = pending \ pending /\ pending' = {}
    BY <2>1 DEF FlushPending
  <2>. QED
    BY <2>1, <2>2, SettlingKeepsOutcomes DEF FlushPending, Kinds
<1>14. CASE Close
  <2>1. FlushPending("closed") /\ UNCHANGED <<pc, ch>>
    BY <1>14 DEF Close, callVars
  <2>2. pending \in SUBSET pending /\ pending' = pending \ pending /\ pending' = {}
    BY <2>1 DEF FlushPending
  <2>. QED
    BY <2>1, <2>2, SettlingKeepsOutcomes DEF FlushPending, Kinds
<1>15. ASSUME NEW g \in Gens,
              Opened(g) \/ Announce(g) \/ Signal(g) \/ ReadingCancelled(g) \/ TellFailure(g)
       PROVE  OutcomeInv'
  BY <1>1, <1>15 DEF Opened, Announce, Signal, ReadingCancelled, TellFailure, sharedVars, callVars
<1>16. ASSUME NEW s \in sends, Send(s) PROVE OutcomeInv'
  <2>1. /\ s[1] \notin ch /\ ch' = ch \cup {s[1]} /\ sends' = sends \ {s} /\ s[1] \in Calls
        /\ UNCHANGED <<closed, pending, pc>>
    BY <1>16 DEF Send, sharedVars, callVars, TypeOK
  <2>2. \A d \in Calls : HasSend(d)' <=> HasSend(d) /\ d # s[1]
    BY <2>1 DEF HasSend, OutcomeInv, NoBlockedSender
  <2>3. NoBlockedSender'
    BY <2>1 DEF OutcomeInv, NoBlockedSender
  <2>4. HasSend(s[1])
    BY DEF HasSend
  <2>5. s[1] \notin pending
    BY <2>1, <2>4 DEF OutcomeInv
  <2>. QED
    BY <2>1, <2>2, <2>3, <2>4, <2>5 DEF OutcomeInv, TypeOK
<1>17. CASE UNCHANGED vars
  BY <1>1, <1>17 DEF vars, sharedVars, callVars
<1>. QED
  BY <1>3, <1>4, <1>5, <1>6, <1>7, <1>8, <1>9, <1>10, <1>11, <1>12, <1>13, <1>14, <1>15, <1>16, <1>17
     DEF Next, CallerStep, CallStep, StreamStep
-----------------------------------------------------------------------------
(* Served calls.                                                                                *)

LEMMA ServedKept == TypeOK /\ StreamInv /\ OutcomeInv /\ ServedInv /\ [Next]_vars => ServedInv'
<1>. SUFFICES ASSUME TypeOK, StreamInv, OutcomeInv, ServedInv, [Next]_vars PROVE ServedInv'
  OBVIOUS
<1>1. ASSUME UNCHANGED <<running, generation, ep>>, pending' \subseteq pending,
             \A c \in Calls : pc'[c] = "waiting" => pc[c] = "waiting"
      PROVE  ServedInv'
  BY <1>1 DEF ServedInv
<1>2. ASSUME NEW o \in Ops, NEW stage \in Stages \ {"waiting"}, Goto(o, stage),
             UNCHANGED <<running, generation, ep>>, pending' \subseteq pending
      PROVE  ServedInv'
  BY <1>1, <1>2 DEF Goto, TypeOK, Ops
<1>3. ASSUME NEW o \in Ops, Refuse(o) \/ JoinStream(o) \/ ExpireWait(o) \/ PutBack(o)
      PROVE  ServedInv'
  BY <1>2, <1>3 DEF Refuse, JoinStream, ExpireWait, PutBack, sharedVars, Stages
<1>4. ASSUME NEW o \in Ops, OpenStream(o) PROVE ServedInv'
  <2>1. \A c \in pending : ep[c] = 0
    BY <1>4 DEF OpenStream, ServedInv
  <2>. QED
    BY <1>4, <2>1 DEF OpenStream, Goto, ServedInv, TypeOK, Ops
<1>5. ASSUME NEW o \in Ops, TakeReady(o) PROVE ServedInv'
  BY <1>2, <1>5 DEF TakeReady, sharedVars, Stages
<1>6. ASSUME NEW o \in Ops, PostArrives(o) PROVE ServedInv'
  BY <1>1, <1>6 DEF PostArrives, sharedVars
<1>7. ASSUME NEW o \in Ops, PostFails(o) PROVE ServedInv'
  BY <1>2, <1>7 DEF PostFails, sharedVars, Stages
<1>8. ASSUME NEW o \in Ops, PostSucceeds(o) PROVE ServedInv'
  BY <1>8 DEF PostSucceeds, Goto, sharedVars, ServedInv, TypeOK, Ops
<1>9. ASSUME NEW c \in Calls, Register(c) PROVE ServedInv'
  <2>1. CASE closed
    BY <1>2, <1>9, <2>1 DEF Register, Stages, Ops
  <2>2. CASE ~closed
    <3>1. /\ pending' = pending \cup {c} /\ ep' = [ep EXCEPT ![c] = endpoint] /\ Goto(c, "posting")
          /\ UNCHANGED <<running, generation>> /\ c \in Ops
      BY <1>9, <2>2 DEF Register, Ops
    <3>2. endpoint # 0 => running /\ endpoint = generation
      BY DEF TypeOK, StreamInv
    <3>3. \A d \in Calls : /\ ep'[d] = IF d = c THEN endpoint ELSE ep[d]
                           /\ pc'[d] = IF d = c THEN "posting" ELSE pc[d]
      BY <3>1 DEF Goto, TypeOK, Ops
    <3>. QED
      BY <3>1, <3>2, <3>3 DEF ServedInv, TypeOK
  <2>. QED
    BY <2>1, <2>2
<1>10. ASSUME NEW c \in Calls, Receive(c) \/ Timeout(c) \/ Unregister(c) PROVE ServedInv'
  BY <1>2, <1>10 DEF Receive, Timeout, Unregister, sharedVars, Stages, Ops
<1>11. ASSUME NEW c \in Calls, Deliver(c) PROVE ServedInv'
  BY <1>1, <1>11 DEF Deliver, callVars
<1>12. ASSUME NEW n \in Notices, ReadEndpoint(n) PROVE ServedInv'
  <2>1. n \notin Calls
    BY OpsAssumption
  <2>. QED
    BY <1>12, <2>1 DEF ReadEndpoint, Goto, sharedVars, ServedInv, TypeOK, Ops
<1>13. ASSUME NEW g \in Gens, Breaks(g) \/ OpeningCancelled(g) PROVE ServedInv'
  BY <1>13 DEF Breaks, OpeningCancelled, FailStream, FlushPending, callVars, ServedInv
<1>14. CASE Close
  BY <1>1, <1>14 DEF Close, FlushPending, callVars
<1>15. ASSUME NEW g \in Gens,
              Opened(g) \/ Announce(g) \/ Signal(g) \/ ReadingCancelled(g) \/ TellFailure(g)
       PROVE  ServedInv'
  BY <1>1, <1>15 DEF Opened, Announce, Signal, ReadingCancelled, TellFailure, sharedVars, callVars
<1>16. ASSUME NEW s \in sends, Send(s) PROVE ServedInv'
  BY <1>1, <1>16 DEF Send, sharedVars, callVars
<1>17. CASE UNCHANGED vars
  BY <1>1, <1>17 DEF vars, sharedVars, callVars
<1>. QED
  BY <1>3, <1>4, <1>5, <1>6, <1>7, <1>8, <1>9, <1>10, <1>11, <1>12, <1>13, <1>14, <1>15, <1>16, <1>17
     DEF Next, CallerStep, CallStep, StreamStep

-----------------------------------------------------------------------------
(* The token of the first stream.                                                               *)

\* The variables that BatonInv reads, but for pc.
batonCore == <<running, generation, ready, tell, stream, chan, mine>>

\* A step that lets go of nobody's token.
LEMMA TokenStays ==
    ASSUME TypeOK, BatonInv, UNCHANGED batonCore,
           \A o \in Ops : pc[o] = "gotReady" => pc'[o] = "gotReady"
    PROVE  BatonInv'
BY DEF BatonInv, FirstStreamWakesAll, batonCore

LEMMA BatonKept == TypeOK /\ StreamInv /\ BatonInv /\ [Next]_vars => BatonInv'
<1>. SUFFICES ASSUME TypeOK, StreamInv, BatonInv, [Next]_vars PROVE BatonInv'
  OBVIOUS
<1>. USE DEF GenOrNil, Gens
<1>1. ASSUME NEW o \in Ops, NEW stage \in Stages, pc[o] # "gotReady", Goto(o, stage)
      PROVE  \A p \in Ops : pc[p] = "gotReady" => pc'[p] = "gotReady"
  BY <1>1 DEF Goto, TypeOK
<1>2. ASSUME NEW o \in Ops, Refuse(o) \/ ExpireWait(o) \/ PostFails(o) \/ PostSucceeds(o)
      PROVE  BatonInv'
  BY <1>1, <1>2, TokenStays DEF Refuse, ExpireWait, PostFails, PostSucceeds, sharedVars, streamVars,
     batonCore, Stages
<1>3. ASSUME NEW o \in Ops, OpenStream(o) PROVE BatonInv'
  <2>1. /\ ~running /\ generation' = generation + 1 /\ generation' \in Gens /\ ready' = generation'
        /\ stream' = [stream EXCEPT ![generation'] = "opening"]
        /\ mine' = [mine EXCEPT ![o] = generation'] /\ UNCHANGED <<tell, chan>>
    BY <1>3, BoundsAssumption DEF OpenStream, TypeOK
  <2>2. \A p \in Ops : mine'[p] <= generation'
    BY <2>1 DEF BatonInv, TypeOK
  <2>3. generation' = 1 => chan'[1] = "empty" /\ stream'[1] = "opening"
    BY <2>1 DEF BatonInv, TypeOK
  <2>4. \A g \in Gens : tell'[g] <= generation' /\ (g > generation' => chan'[g] = "empty")
    BY <2>1 DEF BatonInv, TypeOK
  <2>. QED
    BY <2>1, <2>2, <2>3, <2>4 DEF BatonInv, FirstStreamWakesAll
<1>4. ASSUME NEW o \in Ops, JoinStream(o) PROVE BatonInv'
  <2>1. \A p \in Ops : pc[p] = "gotReady" => pc'[p] = "gotReady"
    BY <1>1, <1>4 DEF JoinStream, Stages
  <2>2. \A p \in Ops : mine'[p] <= generation
    BY <1>4 DEF JoinStream, BatonInv, TypeOK
  <2>. QED
    BY <1>4, <2>1, <2>2 DEF JoinStream, sharedVars, streamVars, BatonInv, FirstStreamWakesAll
<1>5. ASSUME NEW o \in Ops, TakeReady(o) PROVE BatonInv'
  <2>1. /\ mine[o] \in Gens /\ chan' = [chan EXCEPT ![mine[o]] = "empty"] /\ chan[mine[o]] # "empty"
        /\ UNCHANGED <<running, generation, ready, tell, stream, mine>>
    BY <1>5 DEF TakeReady, sharedVars, streamVars, StreamInv, TypeOK
  <2>2. \A p \in Ops : pc[p] = "gotReady" => pc'[p] = "gotReady"
    BY <1>5 DEF TakeReady, Goto, TypeOK
  <2>3. CASE chan[mine[o]] = "nil"
    <3>1. pc'[o] = "gotReady"
      BY <1>5, <2>3 DEF TakeReady, Goto, TypeOK
    <3>. QED
      BY <2>1, <3>1 DEF BatonInv, FirstStreamWakesAll, TypeOK
  <2>4. CASE chan[mine[o]] = "err"
    <3>1. generation = 1 => mine[o] = 1 /\ stream[1] = "ended"
      BY <2>1, <2>4 DEF BatonInv, TypeOK
    <3>. QED
      BY <2>1, <2>2, <3>1 DEF BatonInv, FirstStreamWakesAll, TypeOK
  <2>. QED
    BY <2>1, <2>3, <2>4 DEF TypeOK
<1>6. ASSUME NEW o \in Ops, PutBack(o) PROVE BatonInv'
  <2>1. UNCHANGED <<running, generation, tell, stream, mine>> /\ mine[o] \in Gens
    BY <1>6 DEF PutBack, streamVars, StreamInv, TypeOK
  <2>2. CASE ~running
    BY <1>6, <2>1, <2>2 DEF PutBack, BatonInv, FirstStreamWakesAll
  <2>3. CASE running
    <3>1. ready' = mine[o] /\ Offer(mine[o], "nil")
      BY <1>6, <2>3 DEF PutBack
    <3>2. \A r \in Gens : /\ r # mine[o] => chan'[r] = chan[r]
                          /\ chan'[r] = "err" => chan[r] = "err"
      BY <2>1, <3>1 DEF Offer, TypeOK
    <3>3. generation = 1 /\ stream[1] = "ready" => chan'[1] = "nil"
      BY <2>1, <3>1 DEF Offer, BatonInv, TypeOK
    <3>. QED
      BY <2>1, <3>1, <3>2, <3>3 DEF BatonInv, FirstStreamWakesAll, TypeOK
  <2>. QED
    BY <2>2, <2>3 DEF TypeOK
<1>7. ASSUME NEW o \in Ops, PostArrives(o) PROVE BatonInv'
  BY <1>7, TokenStays DEF PostArrives, sharedVars, streamVars, batonCore
<1>8. ASSUME NEW c \in Calls, Register(c) \/ Receive(c) \/ Timeout(c) \/ Unregister(c) PROVE BatonInv'
  BY <1>1, <1>8, TokenStays DEF Register, Receive, Timeout, Unregister, sharedVars, streamVars,
     batonCore, Stages, Ops
<1>9. ASSUME NEW c \in Calls, Deliver(c) PROVE BatonInv'
  BY <1>9, TokenStays DEF Deliver, streamVars, callVars, batonCore
<1>10. ASSUME NEW n \in Notices, ReadEndpoint(n) PROVE BatonInv'
  BY <1>1, <1>10, TokenStays DEF ReadEndpoint, sharedVars, streamVars, batonCore, Stages, Ops
<1>11. ASSUME NEW g \in Gens, Opened(g) PROVE BatonInv'
  BY <1>11 DEF Opened, sharedVars, callVars, BatonInv, FirstStreamWakesAll, TypeOK
<1>12. ASSUME NEW g \in Gens, Announce(g) PROVE BatonInv'
  BY <1>12 DEF Announce, callVars, BatonInv, FirstStreamWakesAll, TypeOK
<1>13. ASSUME NEW g \in Gens, Signal(g) PROVE BatonInv'
  <2>1. /\ stream[g] = "signal" /\ tell[g] \in Gens /\ Offer(tell[g], "nil")
        /\ stream' = [stream EXCEPT ![g] = "ready"]
        /\ UNCHANGED <<running, generation, ready, tell, mine, pc>>
    BY <1>13 DEF Signal, sharedVars, callVars, StreamInv, TypeOK
  <2>2. g = generation
    BY <2>1 DEF StreamInv, OneStream, Live
  <2>3. \A r \in Gens : /\ r # tell[g] => chan'[r] = chan[r]
                        /\ chan'[r] = "err" => chan[r] = "err"
    BY <2>1 DEF Offer, TypeOK
  <2>4. generation = 1 => tell[g] = 1 /\ chan[1] # "err"
    BY <2>1, <2>2 DEF BatonInv, TypeOK
  <2>5. generation = 1 => chan'[1] = "nil"
    BY <2>1, <2>4 DEF Offer, TypeOK
  <2>. QED
    BY <2>1, <2>2, <2>3, <2>5 DEF BatonInv, FirstStreamWakesAll, TypeOK
<1>14. ASSUME NEW g \in Gens, Breaks(g) \/ OpeningCancelled(g) PROVE BatonInv'
  <2>1. /\ running' = FALSE /\ stream' = [stream EXCEPT ![g] = "failing"]
        /\ tell' = [tell EXCEPT ![g] = ready] /\ UNCHANGED <<generation, ready, chan, mine>>
        /\ stream[g] # "ended"
    BY <1>14 DEF Breaks, OpeningCancelled, FailStream, callVars
  <2>. QED
    BY <2>1 DEF BatonInv, FirstStreamWakesAll, TypeOK
<1>15. ASSUME NEW g \in Gens, ReadingCancelled(g) PROVE BatonInv'
  BY <1>15 DEF ReadingCancelled, sharedVars, callVars, BatonInv, FirstStreamWakesAll, TypeOK
<1>16. ASSUME NEW g \in Gens, TellFailure(g) PROVE BatonInv'
  <2>1. /\ stream[g] = "failing" /\ tell[g] \in Gens /\ Offer(tell[g], "err")
        /\ stream' = [stream EXCEPT ![g] = "ended"]
        /\ UNCHANGED <<running, generation, ready, tell, mine, pc>>
    BY <1>16 DEF TellFailure, sharedVars, callVars, StreamInv, TypeOK
  <2>2. g <= generation
    BY <2>1 DEF StreamInv, TypeOK
  <2>3. \A r \in Gens : r # tell[g] => chan'[r] = chan[r]
    BY <2>1 DEF Offer, TypeOK
  <2>4. generation = 1 => stream'[1] = "ended"
    BY <2>1, <2>2 DEF TypeOK
  <2>. QED
    BY <2>1, <2>3, <2>4 DEF BatonInv, FirstStreamWakesAll, TypeOK
<1>17. ASSUME NEW s \in sends, Send(s) PROVE BatonInv'
  BY <1>17, TokenStays DEF Send, sharedVars, streamVars, callVars, batonCore
<1>18. CASE Close
  BY <1>18, TokenStays DEF Close, callVars, batonCore
<1>19. CASE UNCHANGED vars
  BY <1>19, TokenStays DEF vars, sharedVars, streamVars, callVars, batonCore
<1>. QED
  BY <1>2, <1>3, <1>4, <1>5, <1>6, <1>7, <1>8, <1>9, <1>10, <1>11, <1>12, <1>13, <1>14, <1>15,
     <1>16, <1>17, <1>18, <1>19 DEF Next, CallerStep, CallStep, StreamStep

-----------------------------------------------------------------------------
(* The theorems.                                                                                *)

LEMMA InitHolds == Init => TypeOK /\ IInv
<1>. SUFFICES ASSUME Init PROVE TypeOK /\ IInv
  OBVIOUS
<1>1. TypeOK
  BY DEF Init, TypeOK, GenOrNil, Stages
<1>2. StreamInv /\ OutcomeInv /\ ServedInv
  BY OpsAssumption DEF Init, StreamInv, OneStream, OutcomeInv, NoBlockedSender, HasSend, ServedInv, Live, Ops
<1>3. BatonInv
  BY DEF Init, BatonInv, FirstStreamWakesAll, Gens
<1>. QED
  BY <1>1, <1>2, <1>3 DEF IInv

\* The types and the inductive invariant, in every state.
THEOREM Invariance == Spec => [](TypeOK /\ IInv)
<1>1. TypeOK /\ IInv /\ [Next]_vars => (TypeOK /\ IInv)'
  BY TypeStep, StreamsKept, OutcomesKept, ServedKept, BatonKept DEF IInv
<1>. QED
  BY <1>1, InitHolds, PTL DEF Spec

\* Every variable of the event-stream client keeps its type.
THEOREM TypeCorrect == Spec => []TypeOK
  BY Invariance, PTL

\* A call gets at most one outcome, so that no sender to its one-place channel blocks.
THEOREM OneOutcome == Spec => []NoBlockedSender
<1>1. IInv => NoBlockedSender
  BY DEF IInv, OutcomeInv
<1>. QED
  BY <1>1, Invariance, PTL

\* There is one stream at a time, known to the client, and cancelled after Close.
THEOREM StreamsTracked == Spec => []OneStream
<1>1. IInv => OneStream
  BY DEF IInv, StreamInv
<1>. QED
  BY <1>1, Invariance, PTL

\* A call that waits without an outcome waits for the stream that runs now.
THEOREM NobodyStranded == Spec => []WaitingIsServed
<1>1. TypeOK /\ IInv => WaitingIsServed
  <2>. SUFFICES ASSUME TypeOK, IInv, NEW c \in Calls, pc[c] = "waiting", c \notin ch, ~HasSend(c)
                PROVE  /\ c \in pending /\ ~closed /\ running
                       /\ ep[c] = generation /\ stream[generation] \in Live
    BY DEF WaitingIsServed
  <2>1. c \in pending /\ ~closed
    BY DEF IInv, OutcomeInv
  <2>2. running /\ ep[c] = generation
    BY <2>1 DEF IInv, ServedInv
  <2>. QED
    BY <2>1, <2>2 DEF IInv, StreamInv, OneStream
<1>. QED
  BY <1>1, Invariance, PTL

\* While the first stream lives, the token that wakes those who wait for it is never lost.
THEOREM TokenKept == Spec => []FirstStreamWakesAll
<1>1. IInv => FirstStreamWakesAll
  BY DEF IInv, BatonInv
<1>. QED
  BY <1>1, Invariance, PTL
-----------------------------------------------------------------------------
(* Refinement.                                                                                  *)

\* A step that leaves everything the session sees alone.
LEMMA SessionStutters ==
    ASSUME UNCHANGED <<closed, running, generation>>,
           \A o \in Ops : StatusOf(o)' = StatusOf(o)
    PROVE  UNCHANGED Session!sessionVars
BY DEF Session!sessionVars

\* One invocation changes its status.
LEMMA StatusBecomes ==
    ASSUME NEW o \in Ops, NEW st, StatusOf(o)' = st,
           \A p \in Ops \ {o} : StatusOf(p)' = StatusOf(p)
    PROVE  Session!Becomes(o, st)
BY DEF Session!Becomes

\* A step of one invocation does not change the status of the others.
LEMMA OthersKeepStatus ==
    ASSUME TypeOK, NEW o \in Ops, NEW stage, Goto(o, stage),
           \A p \in Ops \ {o} : p \in pending' <=> p \in pending
    PROVE  \A p \in Ops \ {o} : StatusOf(p)' = StatusOf(p)
<1>1. \A p \in Ops \ {o} : pc'[p] = pc[p]
  BY DEF Goto, TypeOK
<1>. QED
  BY <1>1 DEF StatusOf

\* Emptying the pending map settles all that is in flight.
LEMMA FlushSettlesAll ==
    ASSUME TypeOK, pending' = {}, pc' = pc
    PROVE  Session!SettleAll
<1>1. ASSUME NEW o \in Ops
      PROVE  StatusOf(o)' = IF StatusOf(o) = "inflight" THEN "settled" ELSE StatusOf(o)
  <2>1. CASE pc[o] = "waiting"
    BY <2>1 DEF StatusOf
  <2>2. CASE pc[o] # "waiting"
    <3>1. StatusOf(o)' = StatusOf(o) /\ StatusOf(o) # "inflight"
      BY <2>2 DEF StatusOf, TypeOK, Stages
    <3>. QED
      BY <3>1
  <2>. QED
    BY <2>1, <2>2
<1>. QED
  BY <1>1 DEF Session!SettleAll

\* The failure of the stream in use is an exit; after Close it is nothing.
LEMMA FailureIsExit ==
    ASSUME TypeOK, IInv, NEW g \in Gens, FailStream(g), stream[g] \in Live
    PROVE  Session!Exit \/ UNCHANGED Session!sessionVars
<1>1. /\ running /\ g = generation /\ running' = FALSE /\ pending' = {}
      /\ UNCHANGED <<closed, generation, pc>>
  BY DEF FailStream, FlushPending, callVars, IInv, StreamInv, OneStream
<1>2. Session!SettleAll
  BY <1>1, FlushSettlesAll
<1>3. CASE ~closed
  BY <1>1, <1>2, <1>3 DEF Session!Exit, Gens
<1>4. CASE closed
  <2>1. pending = {}
    BY <1>4 DEF IInv, OutcomeInv
  <2>2. \A o \in Ops : StatusOf(o)' = StatusOf(o)
    BY <1>1, <2>1 DEF StatusOf
  <2>. QED
    BY <1>1, <1>4, <2>2 DEF Session!sessionVars
<1>. QED
  BY <1>3, <1>4

LEMMA SessionStep == TypeOK /\ IInv /\ [Next]_vars => [Session!Next]_(Session!sessionVars)
<1>. SUFFICES ASSUME TypeOK, IInv, [Next]_vars
              PROVE  Session!Next \/ UNCHANGED Session!sessionVars
  OBVIOUS
<1>. USE DEF Stages
<1>1. ASSUME UNCHANGED <<closed, running, generation, pc, pending>>
      PROVE  UNCHANGED Session!sessionVars
  BY <1>1, SessionStutters DEF StatusOf
<1>2. ASSUME NEW o \in Ops, StatusOf(o) \in {"idle", "open"}, Goto(o, "done"),
             UNCHANGED <<closed, running, generation, pending>>
      PROVE  Session!Refuse(o)
  <2>1. StatusOf(o)' = "done" /\ \A p \in Ops \ {o} : StatusOf(p)' = StatusOf(p)
    BY <1>2, OthersKeepStatus DEF Goto, StatusOf, TypeOK
  <2>. QED
    BY <1>2, <2>1, StatusBecomes DEF Session!Refuse
<1>3. ASSUME NEW o \in Ops, NEW stage \in {"gotReady", "streaming", "posting"}, Goto(o, stage),
             pc[o] \in {"waitReady", "gotReady", "streaming"}, UNCHANGED <<closed, running, generation>>,
             \A p \in Ops \ {o} : p \in pending' <=> p \in pending
      PROVE  UNCHANGED Session!sessionVars
  <2>1. StatusOf(o)' = "open" /\ StatusOf(o) = "open"
    BY <1>3 DEF Goto, StatusOf, TypeOK
  <2>. QED
    BY <1>3, <2>1, OthersKeepStatus, SessionStutters
<1>4. ASSUME NEW o \in Ops, Refuse(o) \/ ExpireWait(o) PROVE Session!Refuse(o)
  BY <1>2, <1>4 DEF Refuse, ExpireWait, sharedVars, StatusOf
<1>5. ASSUME NEW o \in Ops, OpenStream(o) PROVE Session!Start(o)
  <2>1. /\ ~running /\ ~closed /\ generation' = generation + 1 /\ running' /\ pc[o] = "idle"
        /\ Goto(o, "waitReady") /\ UNCHANGED <<closed, pending>>
    BY <1>5 DEF OpenStream
  <2>2. StatusOf(o) = "idle" /\ StatusOf(o)' = "open" /\ \A p \in Ops \ {o} : StatusOf(p)' = StatusOf(p)
    BY <2>1, OthersKeepStatus DEF Goto, StatusOf, TypeOK
  <2>. QED
    BY <2>1, <2>2, StatusBecomes DEF Session!Start
<1>6. ASSUME NEW o \in Ops, JoinStream(o) PROVE Session!Join(o)
  <2>1. /\ running /\ ~closed /\ generation # 0 /\ pc[o] = "idle" /\ Goto(o, "waitReady")
        /\ UNCHANGED <<closed, running, generation, pending>>
    BY <1>6 DEF JoinStream, sharedVars, IInv, StreamInv
  <2>2. StatusOf(o) = "idle" /\ StatusOf(o)' = "open" /\ \A p \in Ops \ {o} : StatusOf(p)' = StatusOf(p)
    BY <2>1, OthersKeepStatus DEF Goto, StatusOf, TypeOK
  <2>. QED
    BY <2>1, <2>2, StatusBecomes DEF Session!Join
<1>7. ASSUME NEW o \in Ops, TakeReady(o) PROVE Session!Refuse(o) \/ UNCHANGED Session!sessionVars
  <2>1. pc[o] = "waitReady" /\ UNCHANGED <<closed, running, generation, pending>>
    BY <1>7 DEF TakeReady, sharedVars
  <2>2. Goto(o, "gotReady") \/ Goto(o, "done")
    BY <1>7 DEF TakeReady
  <2>3. StatusOf(o) = "open"
    BY <2>1 DEF StatusOf
  <2>. QED
    BY <1>2, <1>3, <2>1, <2>2, <2>3
<1>8. ASSUME NEW o \in Ops, PutBack(o) PROVE UNCHANGED Session!sessionVars
  BY <1>3, <1>8 DEF PutBack
<1>9. ASSUME NEW o \in Ops, PostArrives(o) PROVE UNCHANGED Session!sessionVars
  BY <1>1, <1>9 DEF PostArrives, sharedVars
<1>10. ASSUME NEW o \in Ops, PostFails(o) \/ PostSucceeds(o)
       PROVE  Session!Refuse(o) \/ Session!Leave(o) \/ Session!Submit(o)
  <2>1. pc[o] = "posting" /\ StatusOf(o) = "open" /\ UNCHANGED <<closed, running, generation, pending>>
    BY <1>10 DEF PostFails, PostSucceeds, sharedVars, StatusOf
  <2>2. CASE Goto(o, "done")
    BY <1>2, <2>1, <2>2
  <2>3. CASE Goto(o, "unreg") \/ (Goto(o, "waiting") /\ o \notin pending)
    <3>1. StatusOf(o)' = "settled" /\ \A p \in Ops \ {o} : StatusOf(p)' = StatusOf(p)
      BY <2>1, <2>3, OthersKeepStatus DEF Goto, StatusOf, TypeOK
    <3>. QED
      BY <2>1, <3>1, StatusBecomes DEF Session!Leave
  <2>4. CASE Goto(o, "waiting") /\ o \in pending /\ ep[o] # 0
    <3>1. StatusOf(o)' = "inflight" /\ \A p \in Ops \ {o} : StatusOf(p)' = StatusOf(p)
      BY <2>1, <2>4, OthersKeepStatus DEF Goto, StatusOf, TypeOK
    <3>2. running /\ ~closed /\ generation # 0
      BY <2>4 DEF IInv, ServedInv, OutcomeInv
    <3>. QED
      BY <2>1, <3>1, <3>2, StatusBecomes DEF Session!Submit
  <2>5. Goto(o, "done") \/ Goto(o, "unreg") \/ (Goto(o, "waiting") /\ ep[o] # 0)
    BY <1>10 DEF PostFails, PostSucceeds
  <2>. QED
    BY <2>2, <2>3, <2>4, <2>5
<1>11. ASSUME NEW c \in Calls, Register(c) PROVE Session!Refuse(c) \/ UNCHANGED Session!sessionVars
  <2>1. c \in Ops /\ pc[c] = "streaming" /\ StatusOf(c) = "open" /\ UNCHANGED <<closed, running, generation>>
    BY <1>11 DEF Register, Ops, StatusOf
  <2>2. CASE closed
    BY <1>2, <1>11, <2>1, <2>2 DEF Register
  <2>3. CASE ~closed
    BY <1>3, <1>11, <2>1, <2>3 DEF Register
  <2>. QED
    BY <2>2, <2>3
<1>12. ASSUME NEW c \in Calls, Receive(c) PROVE Session!Return(c)
  <2>1. /\ c \in Ops /\ c \notin pending /\ Goto(c, "done") /\ pc[c] = "waiting"
        /\ UNCHANGED <<closed, running, generation, pending>>
    BY <1>12 DEF Receive, Ops, sharedVars, IInv, OutcomeInv
  <2>2. StatusOf(c) = "settled" /\ StatusOf(c)' = "done" /\ \A p \in Ops \ {c} : StatusOf(p)' = StatusOf(p)
    BY <2>1, OthersKeepStatus DEF Goto, StatusOf, TypeOK
  <2>. QED
    BY <2>1, <2>2, StatusBecomes DEF Session!Return
<1>13. ASSUME NEW c \in Calls, Timeout(c) PROVE Session!Settle(c) \/ UNCHANGED Session!sessionVars
  <2>1. c \in Ops /\ Goto(c, "unreg") /\ pc[c] = "waiting" /\ UNCHANGED <<closed, running, generation, pending>>
    BY <1>13 DEF Timeout, Ops, sharedVars
  <2>2. /\ StatusOf(c) \in {"inflight", "settled"} /\ StatusOf(c)' = "settled"
        /\ \A p \in Ops \ {c} : StatusOf(p)' = StatusOf(p)
    BY <2>1, OthersKeepStatus DEF Goto, StatusOf, TypeOK
  <2>. QED
    BY <2>1, <2>2, StatusBecomes, SessionStutters DEF Session!Settle
<1>14. ASSUME NEW c \in Calls, Unregister(c) PROVE Session!Return(c)
  <2>1. /\ c \in Ops /\ Goto(c, "done") /\ pc[c] = "unreg" /\ pending' = pending \ {c}
        /\ UNCHANGED <<closed, running, generation>>
    BY <1>14 DEF Unregister, Ops
  <2>2. StatusOf(c) = "settled" /\ StatusOf(c)' = "done" /\ \A p \in Ops \ {c} : StatusOf(p)' = StatusOf(p)
    BY <2>1, OthersKeepStatus DEF Goto, StatusOf, TypeOK
  <2>. QED
    BY <2>1, <2>2, StatusBecomes DEF Session!Return
<1>15. ASSUME NEW c \in Calls, Deliver(c) PROVE Session!Settle(c) \/ UNCHANGED Session!sessionVars
  <2>1. c \in Ops /\ pending' = pending \ {c} /\ UNCHANGED <<closed, running, generation, pc>>
    BY <1>15 DEF Deliver, Ops, callVars
  <2>2. \A p \in Ops \ {c} : StatusOf(p)' = StatusOf(p)
    BY <2>1 DEF StatusOf
  <2>3. CASE StatusOf(c) = "inflight"
    <3>1. StatusOf(c)' = "settled"
      BY <2>1, <2>3 DEF StatusOf, TypeOK
    <3>. QED
      BY <2>1, <2>2, <2>3, <3>1, StatusBecomes DEF Session!Settle
  <2>4. CASE StatusOf(c) # "inflight"
    <3>1. StatusOf(c)' = StatusOf(c)
      BY <2>1, <2>4 DEF StatusOf, TypeOK
    <3>. QED
      BY <2>1, <2>2, <3>1, SessionStutters
  <2>. QED
    BY <2>3, <2>4
<1>16. ASSUME NEW n \in Notices, ReadEndpoint(n) PROVE UNCHANGED Session!sessionVars
  BY <1>3, <1>16 DEF ReadEndpoint, sharedVars, Ops
<1>17. ASSUME NEW g \in Gens, Breaks(g) \/ OpeningCancelled(g)
       PROVE  Session!Exit \/ UNCHANGED Session!sessionVars
  BY <1>17, FailureIsExit DEF Breaks, OpeningCancelled, Live
<1>18. CASE Close
  <2>1. Session!SettleAll
    BY <1>18, FlushSettlesAll DEF Close, FlushPending, callVars
  <2>. QED
    BY <1>18, <2>1 DEF Close, Session!Close, Session!Next
<1>19. ASSUME NEW g \in Gens,
              Opened(g) \/ Announce(g) \/ Signal(g) \/ ReadingCancelled(g) \/ TellFailure(g)
       PROVE  UNCHANGED Session!sessionVars
  BY <1>1, <1>19 DEF Opened, Announce, Signal, ReadingCancelled, TellFailure, sharedVars, callVars
<1>20. ASSUME NEW s \in sends, Send(s) PROVE UNCHANGED Session!sessionVars
  BY <1>1, <1>20 DEF Send, sharedVars, callVars
<1>21. CASE UNCHANGED vars
  BY <1>1, <1>21 DEF vars, sharedVars, callVars
<1>22. Calls \subseteq Ops
  BY DEF Ops
<1>. QED
  BY <1>4, <1>5, <1>6, <1>7, <1>8, <1>9, <1>10, <1>11, <1>12, <1>13, <1>14, <1>15, <1>16, <1>17,
     <1>18, <1>19, <1>20, <1>21, <1>22
     DEF Next, CallerStep, CallStep, StreamStep, Session!Next

\* The event-stream client implements the abstract session, the stream being its process: the
\* end of a stream and Close settle everything in flight in one step, a request is in flight
\* only with the stream that runs now, and a closed session stays closed.
THEOREM ImplementsSession == Spec => SessionRefined
<1>1. Init => Session!Init
  BY DEF Init, Session!Init, StatusOf
<1>. QED
  BY <1>1, SessionStep, Invariance, PTL DEF Spec, SessionRefined, Session!Spec
=============================================================================
