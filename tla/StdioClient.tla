---------------------------- MODULE StdioClient ----------------------------
(***************************************************************************)
(* The stdio transport (internal/transport/stdio.go): a client that keeps  *)
(* at most one MCP server subprocess, multiplexes concurrent calls over    *)
(* its stdin and stdout, stops it when idle and starts a new one on        *)
(* demand.                                                                 *)
(*                                                                         *)
(* Every goroutine is an actor: one per caller (Calls, Notices), the read  *)
(* loop and the Wait goroutine of each process, the idle-timer callbacks   *)
(* and Close.  A section the code runs under c.mu is one action; what it   *)
(* does after the unlock (a kill, a channel send) is another one.          *)
(***************************************************************************)
EXTENDS Naturals, FiniteSets

CONSTANTS
    Calls,       \* invocations of Call (Health is a Call of "ping")
    Notices,     \* invocations of Notify
    NoOp,        \* stands for "no invocation"
    Persistent,  \* opts.Persistent: the idle timer is never armed
    MaxGen,      \* bound: generations in which a process may be started
    PipeCap,     \* bound: lines a stdin pipe holds before a write blocks
    MaxFaults,   \* bound: crashes and broken output streams
    MaxAsks      \* bound: requests the servers send to the gateway

Ops  == Calls \cup Notices
Gens == 1 .. MaxGen
GenOrNil == Gens \cup {0}

ASSUME OpsAssumption    == NoOp \notin Ops /\ Calls \cap Notices = {}
ASSUME BoundsAssumption == MaxGen \in Nat /\ PipeCap \in Nat /\ MaxFaults \in Nat /\ MaxAsks \in Nat
ASSUME ModeAssumption   == Persistent \in BOOLEAN

VARIABLES
    closed,      \* c.closed
    cmd,         \* c.cmd with c.stdin: the generation of the process they belong to, 0 for nil
    generation,  \* c.generation
    pending,     \* c.pending: pairs <<id, call>>
    timer,       \* c.idleTimer: the generation its callback was armed for, 0 when not running
    fired,       \* generations whose stopIdle callback has been launched and has not run
    writeMu,     \* c.writeMu is held
    nextID,      \* c.nextID
    pc,          \* where each invocation is
    id,          \* the request id of each call, 0 before it has one
    target,      \* the stdin a writer took from c.stdin, as a generation
    ch,          \* the channel of each call, <<kind, invocation answered>>
    result,      \* what each invocation returns
    sends,       \* channel sends about to happen: <<call, kind, invocation answered>>
    toKill,      \* processes whose stdin is about to be closed and that are about to be killed
    reader,      \* the read loop of each generation
    replyTo,     \* the stdin a read loop took to answer a server request
    exited,      \* generations whose handleExit has run
    proc,        \* the process of each generation
    inbox,       \* lines in its stdin pipe
    seen,        \* lines it has read
    outbox,      \* lines in its stdout pipe
    faults, asks \* counters of the bounds MaxFaults and MaxAsks

clientVars == <<closed, cmd, generation, pending, timer, fired>>
callVars   == <<pc, id, target, ch, result, nextID>>
readVars   == <<reader, replyTo, exited>>
procVars   == <<proc, inbox, seen, outbox, faults, asks>>
vars == <<clientVars, callVars, readVars, procVars, writeMu, sends, toKill>>

Kinds   == {"none", "answer", "exit", "closed"}
Results == {"none", "answer", "exit", "closed", "cancelled", "notRunning",
            "writeErr", "startErr", "sent"}
Stages  == {"idle", "started", "registered", "writing", "waiting", "unreg", "touch", "done"}
Lines   == {"request", "notice", "reply", "answer", "ask"} \X Nat \X (Ops \cup {NoOp})

TypeOK ==
    /\ closed \in BOOLEAN /\ writeMu \in BOOLEAN
    /\ cmd \in GenOrNil /\ cmd \in {0, generation} /\ timer \in GenOrNil
    /\ fired \subseteq Gens /\ toKill \subseteq Gens
    /\ generation \in Nat /\ nextID \in Nat /\ faults \in Nat /\ asks \in Nat
    /\ pending \subseteq Nat \X Calls
    /\ pc \in [Ops -> Stages]
    /\ id \in [Calls -> Nat]
    /\ target \in [Ops -> GenOrNil]
    /\ ch \in [Calls -> Kinds \X (Ops \cup {NoOp})]
    /\ result \in [Ops -> Results]
    /\ sends \subseteq Calls \X Kinds \X (Ops \cup {NoOp})
    /\ reader \in [Gens -> {"none", "reading", "reply", "replying", "ended"}]
    /\ replyTo \in [Gens -> GenOrNil]
    /\ exited \in [Gens -> BOOLEAN]
    /\ proc \in [Gens -> {"none", "up", "dead"}]
    /\ inbox \in [Gens -> SUBSET Lines]
    /\ seen \in [Gens -> SUBSET Lines]
    /\ outbox \in [Gens -> SUBSET Lines]

EmptyChan == <<"none", NoOp>>

Init ==
    /\ closed = FALSE /\ writeMu = FALSE
    /\ cmd = 0 /\ timer = 0 /\ generation = 0
    /\ fired = {} /\ toKill = {} /\ pending = {} /\ sends = {}
    /\ nextID = 0 /\ faults = 0 /\ asks = 0
    /\ pc = [o \in Ops |-> "idle"]
    /\ id = [c \in Calls |-> 0]
    /\ target = [o \in Ops |-> 0]
    /\ ch = [c \in Calls |-> EmptyChan]
    /\ result = [o \in Ops |-> "none"]
    /\ reader = [g \in Gens |-> "none"]
    /\ replyTo = [g \in Gens |-> 0]
    /\ exited = [g \in Gens |-> FALSE]
    /\ proc = [g \in Gens |-> "none"]
    /\ inbox = [g \in Gens |-> {}]
    /\ seen = [g \in Gens |-> {}]
    /\ outbox = [g \in Gens |-> {}]

-----------------------------------------------------------------------------
(* Helpers.  Definitions marked "Variant" are seeded faults: Next does not use them. *)

\* An invocation moves on, with the result it will return.
Goto(o, stage)      == pc' = [pc EXCEPT ![o] = stage]
Return(o, stage, r) == Goto(o, stage) /\ result' = [result EXCEPT ![o] = r]

\* resetIdleLocked: the timer after a reset, for the process and generation given.
ResetIdle(process, g) ==
    timer' = IF Persistent \/ closed \/ process = 0 THEN timer ELSE g

\* Variant: the map is not replaced.
FlushKeepsEntries(kind) ==
    /\ pending' = pending
    /\ sends' = sends \cup {<<e[2], kind, NoOp>> : e \in pending}

\* Variant: the map is replaced and nobody in it hears of it.
FlushTellsNobody(kind) == pending' = {} /\ sends' = sends

\* Take the whole pending map; the sends to its channels follow after the unlock.
FlushPending(kind) ==
    /\ pending' = {}
    /\ sends' = sends \cup {<<e[2], kind, NoOp>> : e \in pending}

\* Is g still the generation of the client?
AnyGeneration(g) == TRUE  \* Variant: the comparison is missing.
IsCurrent(g)     == g = generation

\* The line an invocation writes.
LineOf(o) == IF o \in Calls THEN <<"request", id[o], o>> ELSE <<"notice", 0, o>>

HasRoom(g) == Cardinality(inbox[g]) < PipeCap

-----------------------------------------------------------------------------
(* ensureStarted, at the head of Call and Notify *)

\* The context is already over, the client is closed, or no process can be started.
Refuse(o) ==
    /\ pc[o] = "idle"
    /\ \/ Return(o, "done", "cancelled")
       \/ closed /\ Return(o, "done", "closed")
       \/ ~closed /\ cmd = 0 /\ Return(o, "done", "startErr")
    /\ UNCHANGED <<clientVars, id, target, ch, nextID, readVars, procVars, writeMu, sends, toKill>>

FindRunning(o) ==
    /\ pc[o] = "idle" /\ ~closed /\ cmd # 0
    /\ Goto(o, "started")
    /\ UNCHANGED <<clientVars, id, target, ch, result, nextID, readVars, procVars, writeMu, sends, toKill>>

\* Variant: request ids start again with every process.
StartProcessResetsIds(o) ==
    /\ pc[o] = "idle" /\ ~closed /\ cmd = 0
    /\ generation < MaxGen
    /\ generation' = generation + 1
    /\ cmd' = generation + 1
    /\ nextID' = 0
    /\ proc' = [proc EXCEPT ![generation + 1] = "up"]
    /\ reader' = [reader EXCEPT ![generation + 1] = "reading"]
    /\ ResetIdle(generation + 1, generation + 1)
    /\ Goto(o, "started")
    /\ UNCHANGED <<closed, pending, fired, id, target, ch, result, replyTo, exited,
                   inbox, seen, outbox, faults, asks, writeMu, sends, toKill>>

StartProcess(o) ==
    /\ pc[o] = "idle" /\ ~closed /\ cmd = 0
    /\ generation < MaxGen
    /\ generation' = generation + 1
    /\ cmd' = generation + 1
    /\ proc' = [proc EXCEPT ![generation + 1] = "up"]
    /\ reader' = [reader EXCEPT ![generation + 1] = "reading"]
    /\ ResetIdle(generation + 1, generation + 1)
    /\ Goto(o, "started")
    /\ UNCHANGED <<closed, pending, fired, id, target, ch, result, nextID, replyTo, exited,
                   inbox, seen, outbox, faults, asks, writeMu, sends, toKill>>

-----------------------------------------------------------------------------
(* The rest of Call and Notify *)

\* Call takes an id and enters its channel in the pending map.
Register(c) ==
    /\ pc[c] = "started"
    /\ nextID' = nextID + 1
    /\ \/ /\ closed
          /\ Return(c, "done", "closed")
          /\ UNCHANGED <<id, pending>>
       \/ /\ ~closed
          /\ id' = [id EXCEPT ![c] = nextID + 1]
          /\ pending' = pending \cup {<<nextID + 1, c>>}
          /\ Goto(c, "registered")
          /\ UNCHANGED result
    /\ UNCHANGED <<closed, cmd, generation, timer, fired, target, ch, readVars, procVars,
                   writeMu, sends, toKill>>

\* Where a failed or finished write leads: only Notify goes through touch() in every case.
AfterWriteError(o) == IF o \in Calls THEN "unreg" ELSE "touch"
AfterWrite(o)      == IF o \in Calls THEN "waiting" ELSE "touch"
Written(o)         == IF o \in Calls THEN "none" ELSE "sent"

\* write(), up to stdin.Write: the stdin is read under c.mu while c.writeMu is held.
WriteBegin(o) ==
    /\ pc[o] = IF o \in Calls THEN "registered" ELSE "started"
    /\ ~writeMu
    /\ \/ /\ closed
          /\ Return(o, AfterWriteError(o), "closed")
          /\ UNCHANGED <<target, writeMu>>
       \/ /\ ~closed /\ cmd = 0
          /\ Return(o, AfterWriteError(o), "notRunning")
          /\ UNCHANGED <<target, writeMu>>
       \/ /\ ~closed /\ cmd # 0
          /\ target' = [target EXCEPT ![o] = cmd]
          /\ writeMu' = TRUE
          /\ Goto(o, "writing")
          /\ UNCHANGED result
    /\ UNCHANGED <<clientVars, id, ch, nextID, readVars, procVars, sends, toKill>>

\* stdin.Write returns: the line fits in the pipe of a live process, or the pipe is broken.
\* It does neither, and the writer stays, while a live process leaves its pipe full.
WriteEnd(o) ==
    /\ pc[o] = "writing"
    /\ writeMu' = FALSE
    /\ \/ /\ proc[target[o]] = "up" /\ HasRoom(target[o])
          /\ inbox' = [inbox EXCEPT ![target[o]] = @ \cup {LineOf(o)}]
          /\ Return(o, AfterWrite(o), Written(o))
       \/ /\ proc[target[o]] = "dead"
          /\ Return(o, AfterWriteError(o), "writeErr")
          /\ UNCHANGED inbox
    /\ UNCHANGED <<clientVars, id, target, ch, nextID, readVars, proc, seen, outbox, faults, asks,
                   sends, toKill>>

\* select: the channel has an outcome.
Receive(c) ==
    /\ pc[c] = "waiting" /\ ch[c] # EmptyChan
    /\ Return(c, "touch", ch[c][1])
    /\ UNCHANGED <<clientVars, id, target, ch, nextID, readVars, procVars, writeMu, sends, toKill>>

\* select: the context is done.
Timeout(c) ==
    /\ pc[c] = "waiting"
    /\ Return(c, "unreg", "cancelled")
    /\ UNCHANGED <<clientVars, id, target, ch, nextID, readVars, procVars, writeMu, sends, toKill>>

\* removePending, on the way out of a Call that was cancelled or could not write.
Unregister(c) ==
    /\ pc[c] = "unreg"
    /\ pending' = pending \ {<<id[c], c>>}
    /\ Goto(c, IF result[c] = "cancelled" THEN "touch" ELSE "done")
    /\ UNCHANGED <<closed, cmd, generation, timer, fired, id, target, ch, result, nextID, readVars,
                   procVars, writeMu, sends, toKill>>

\* Variant: the timer is armed for the process the invocation wrote to.
TouchOwnProcess(o) ==
    /\ pc[o] = "touch"
    /\ ResetIdle(cmd, target[o])
    /\ Goto(o, "done")
    /\ UNCHANGED <<closed, cmd, generation, pending, fired, id, target, ch, result, nextID, readVars,
                   procVars, writeMu, sends, toKill>>

\* The deferred touch().
Touch(o) ==
    /\ pc[o] = "touch"
    /\ ResetIdle(cmd, generation)
    /\ Goto(o, "done")
    /\ UNCHANGED <<closed, cmd, generation, pending, fired, id, target, ch, result, nextID, readVars,
                   procVars, writeMu, sends, toKill>>

-----------------------------------------------------------------------------
(* Idle timer, Close, and what they do after the unlock *)

\* The timer goes off: the runtime starts a goroutine, which Stop can no longer call back.
FireTimer ==
    /\ timer # 0
    /\ fired' = fired \cup {timer}
    /\ timer' = 0
    /\ UNCHANGED <<closed, cmd, generation, pending, callVars, readVars, procVars, writeMu, sends, toKill>>

\* What stopIdle checks before it stops the process of generation g.
MayStopBusy(g) == ~closed /\ ~Persistent /\ g = generation /\ cmd # 0  \* Variant: pending calls are ignored.
MayStop(g)     == ~closed /\ ~Persistent /\ g = generation /\ cmd # 0 /\ pending = {}

\* A timer armed meanwhile is dropped without Stop: its callback will find another generation.
StopIdle(g) ==
    /\ g \in fired
    /\ fired' = fired \ {g}
    /\ \/ ~MayStop(g) /\ UNCHANGED <<cmd, timer, generation, toKill>>
       \/ /\ MayStop(g)
          /\ cmd' = 0
          /\ timer' = 0
          /\ generation' = generation + 1
          /\ toKill' = toKill \cup {cmd}
    /\ UNCHANGED <<closed, pending, callVars, readVars, procVars, writeMu, sends>>

Close ==
    /\ ~closed
    /\ closed' = TRUE
    /\ timer' = 0
    /\ cmd' = 0
    /\ toKill' = toKill \cup ({cmd} \ {0})
    /\ FlushPending("closed")
    /\ UNCHANGED <<generation, fired, callVars, readVars, procVars, writeMu>>

\* A process ends, and with it what it was given.
Dies(g) ==
    /\ proc' = [proc EXCEPT ![g] = "dead"]
    /\ inbox' = [inbox EXCEPT ![g] = {}] /\ seen' = [seen EXCEPT ![g] = {}]

\* stdin.Close and Process.Kill.
Kill(g) ==
    /\ g \in toKill
    /\ toKill' = toKill \ {g}
    /\ Dies(g)
    /\ UNCHANGED <<clientVars, callVars, readVars, outbox, faults, asks, writeMu, sends>>

\* One of the sends to a call's channel, which has room for one value.
Send(s) ==
    /\ s \in sends
    /\ ch[s[1]] = EmptyChan
    /\ ch' = [ch EXCEPT ![s[1]] = <<s[2], s[3]>>]
    /\ sends' = sends \ {s}
    /\ UNCHANGED <<clientVars, pc, id, target, result, nextID, readVars, procVars, writeMu, toKill>>

-----------------------------------------------------------------------------
(* readLoop and the Wait goroutine of generation g *)

\* A response: deliver takes the channel out of the pending map, if it is there.
Deliver(g, line) ==
    /\ reader[g] = "reading" /\ line \in outbox[g] /\ line[1] = "answer"
    /\ outbox' = [outbox EXCEPT ![g] = @ \ {line}]
    /\ LET taken == {e \in pending : e[1] = line[2]}
       IN  /\ pending' = pending \ taken
           /\ sends' = sends \cup {<<e[2], "answer", line[3]>> : e \in taken}
    /\ UNCHANGED <<closed, cmd, generation, timer, fired, callVars, readVars, proc, inbox, seen,
                   faults, asks, writeMu, toKill>>

\* A request of the server: the read loop itself writes the error reply.
ReadAsk(g, line) ==
    /\ reader[g] = "reading" /\ line \in outbox[g] /\ line[1] = "ask"
    /\ outbox' = [outbox EXCEPT ![g] = @ \ {line}]
    /\ reader' = [reader EXCEPT ![g] = "reply"]
    /\ UNCHANGED <<clientVars, callVars, replyTo, exited, proc, inbox, seen, faults, asks, writeMu,
                   sends, toKill>>

\* write() again; its error is ignored.
ReplyBegin(g) ==
    /\ reader[g] = "reply"
    /\ ~writeMu
    /\ \/ /\ closed \/ cmd = 0
          /\ reader' = [reader EXCEPT ![g] = "reading"]
          /\ UNCHANGED <<replyTo, writeMu>>
       \/ /\ ~closed /\ cmd # 0
          /\ replyTo' = [replyTo EXCEPT ![g] = cmd]
          /\ writeMu' = TRUE
          /\ reader' = [reader EXCEPT ![g] = "replying"]
    /\ UNCHANGED <<clientVars, callVars, exited, procVars, sends, toKill>>

ReplyEnd(g) ==
    /\ reader[g] = "replying"
    /\ writeMu' = FALSE
    /\ reader' = [reader EXCEPT ![g] = "reading"]
    /\ \/ /\ proc[replyTo[g]] = "up" /\ HasRoom(replyTo[g])
          /\ inbox' = [inbox EXCEPT ![replyTo[g]] = @ \cup {<<"reply", g, NoOp>>}]
       \/ proc[replyTo[g]] = "dead" /\ UNCHANGED inbox
    /\ UNCHANGED <<clientVars, callVars, replyTo, exited, proc, seen, outbox, faults, asks, sends, toKill>>

\* The scan is over.  For a dead process that may be before all its lines were read, because
\* Wait closes the pipe; for a live one it is a closed stdout or a line beyond the limit.
\* handleStreamClosed then kills the process if it is still the current one.  Nobody reads
\* what is left in the pipe.
ReaderEnd(g) ==
    /\ reader[g] = "reading"
    /\ \/ proc[g] = "dead" /\ UNCHANGED faults
       \/ proc[g] = "up" /\ faults < MaxFaults /\ faults' = faults + 1
    /\ reader' = [reader EXCEPT ![g] = "ended"]
    /\ toKill' = IF IsCurrent(g) /\ cmd # 0 THEN toKill \cup {cmd} ELSE toKill
    /\ outbox' = [outbox EXCEPT ![g] = {}]
    /\ UNCHANGED <<clientVars, callVars, replyTo, exited, proc, inbox, seen, asks, writeMu, sends>>

\* cmd.Wait returns and handleExit runs.
HandleExit(g) ==
    /\ proc[g] = "dead" /\ ~exited[g]
    /\ exited' = [exited EXCEPT ![g] = TRUE]
    /\ \/ ~IsCurrent(g) /\ UNCHANGED <<cmd, timer, pending, sends>>
       \/ IsCurrent(g) /\ cmd' = 0 /\ timer' = 0 /\ FlushPending("exit")
    /\ UNCHANGED <<closed, generation, fired, callVars, reader, replyTo, procVars, writeMu, toKill>>

-----------------------------------------------------------------------------
(* The server subprocess: it reads its lines when it likes, answers what it has read in any    *)
(* order, perhaps twice or never, may ask the gateway something, and may die.                  *)

ServerRead(g) ==
    /\ proc[g] = "up"
    /\ \E line \in inbox[g] :
          /\ inbox' = [inbox EXCEPT ![g] = @ \ {line}]
          /\ seen' = [seen EXCEPT ![g] = @ \cup {line}]
    /\ UNCHANGED <<clientVars, callVars, readVars, proc, outbox, faults, asks, writeMu, sends, toKill>>

ServerAnswer(g) ==
    /\ proc[g] = "up"
    /\ \E line \in seen[g] :
          /\ line[1] = "request"
          /\ outbox' = [outbox EXCEPT ![g] = @ \cup {<<"answer", line[2], line[3]>>}]
    /\ UNCHANGED <<clientVars, callVars, readVars, proc, inbox, seen, faults, asks, writeMu, sends, toKill>>

ServerAsk(g) ==
    /\ proc[g] = "up" /\ asks < MaxAsks
    /\ asks' = asks + 1
    /\ outbox' = [outbox EXCEPT ![g] = @ \cup {<<"ask", asks, NoOp>>}]
    /\ UNCHANGED <<clientVars, callVars, readVars, proc, inbox, seen, faults, writeMu, sends, toKill>>

Crash(g) ==
    /\ proc[g] = "up" /\ faults < MaxFaults
    /\ faults' = faults + 1
    /\ Dies(g)
    /\ UNCHANGED <<clientVars, callVars, readVars, outbox, asks, writeMu, sends, toKill>>

-----------------------------------------------------------------------------
CallerStep(o) ==
    \/ Refuse(o) \/ FindRunning(o) \/ StartProcess(o)
    \/ WriteBegin(o) \/ WriteEnd(o) \/ Touch(o)

CallStep(c) == Register(c) \/ Receive(c) \/ Timeout(c) \/ Unregister(c)

ReaderStep(g) ==
    \/ \E line \in outbox[g] : Deliver(g, line) \/ ReadAsk(g, line)
    \/ ReplyBegin(g) \/ ReplyEnd(g) \/ ReaderEnd(g)

ServerStep(g) == ServerRead(g) \/ ServerAnswer(g) \/ ServerAsk(g) \/ Crash(g)

Next ==
    \/ \E o \in Ops : CallerStep(o)
    \/ \E c \in Calls : CallStep(c)
    \/ \E g \in Gens : StopIdle(g) \/ Kill(g) \/ HandleExit(g) \/ ReaderStep(g) \/ ServerStep(g)
    \/ \E s \in sends : Send(s)
    \/ FireTimer \/ Close

Spec == Init /\ [][Next]_vars
-----------------------------------------------------------------------------
(* Safety *)

HasSend(c) == \E s \in sends : s[1] = c

\* The outcome channel of a call has room for one value, and nobody who sends to it ever
\* blocks: of deliver, handleExit and Close, only one can ever have an outcome for a call.
NoBlockedSender ==
    \A s \in sends : /\ ch[s[1]] = EmptyChan
                     /\ \A t \in sends : t[1] = s[1] => t = s

\* A response reaches the call whose request it answers, also when a process that is being
\* replaced still answers while its successor already serves other calls.
AnswersMatch == \A c \in Calls : ch[c][1] = "answer" => ch[c][2] = c

\* A live process is the one the client uses, or it is about to be killed: no interleaving of
\* idle stops, exits, restarts and Close loses track of a subprocess.
NoOrphanProcess == \A g \in Gens : proc[g] = "up" => g = cmd \/ g \in toKill

\* A call in the select either has an outcome (or a send of one on its way), or is in the
\* pending map and was written to the process the client has now.  So a stop, an exit or a
\* restart never strands it with nobody left to answer.
WaitingIsServed ==
    \A c \in Calls :
        pc[c] = "waiting" /\ ch[c] = EmptyChan /\ ~HasSend(c)
            => /\ <<id[c], c>> \in pending
               /\ cmd # 0 /\ target[c] = cmd

\* The pending map holds only calls that are still running, under their own id: timeouts,
\* failed writes and flushes leave no entry behind (it would also keep the process from ever
\* stopping when idle).
PendingIsLive ==
    \A e \in pending : /\ pc[e[2]] \in {"registered", "writing", "waiting", "unreg"}
                       /\ e[1] = id[e[2]]

\* The inductive invariant behind the safety properties, in five parts.
\* Which processes exist, and which of them the client knows.
ProcInv ==
    /\ cmd # 0 => ~closed /\ proc[cmd] # "none" /\ ~exited[cmd]
    /\ \A g \in Gens : g > generation => proc[g] = "none"
    /\ \A g \in Gens : exited[g] => proc[g] = "dead"
    /\ \A g \in toKill : proc[g] # "none"
    /\ NoOrphanProcess

\* Ids are unique, and only calls under way are in the pending map.
IdInv ==
    /\ closed => pending = {}
    /\ PendingIsLive
    /\ \A c \in Calls :
          /\ id[c] <= nextID
          /\ \A d \in Calls : id[c] = id[d] /\ id[c] # 0 => c = d
          /\ pc[c] \in {"idle", "started"} => id[c] = 0
          /\ pc[c] \in {"registered", "writing", "waiting", "unreg"} => id[c] # 0

\* An outcome is still to come from the pending map, or about to be sent, or in the channel:
\* one of these, and never two.
HasOutcome(c) == HasSend(c) \/ ch[c] # EmptyChan

OutcomeInv ==
    /\ NoBlockedSender
    /\ \A s \in sends : s[2] # "none"
    /\ \A c \in Calls :
          /\ pc[c] \in {"idle", "started"} => ~HasOutcome(c)
          /\ pc[c] \in {"registered", "writing", "waiting"}
                => <<id[c], c>> \in pending \/ HasOutcome(c)
          /\ <<id[c], c>> \in pending => ~HasOutcome(c)

\* A call that took a stdin and is still pending took the stdin of the current process.
ServedInv ==
    \A c \in Calls :
        pc[c] \in {"writing", "waiting"} /\ <<id[c], c>> \in pending => cmd # 0 /\ target[c] = cmd

\* Requests and answers carry the id of their call.
Tagged(line) == line[3] \in Calls /\ line[2] = id[line[3]] /\ line[2] # 0

LineInv ==
    /\ \A g \in Gens : \A line \in inbox[g] \cup seen[g] : line[1] = "request" => Tagged(line)
    /\ \A g \in Gens : \A line \in outbox[g] : line[1] = "answer" => Tagged(line)
    /\ \A s \in sends : s[2] = "answer" => s[3] = s[1]
    /\ AnswersMatch

IInv == ProcInv /\ IdInv /\ OutcomeInv /\ ServedInv /\ LineInv

\* After Close nothing starts, nothing is registered, and the client stays closed.
ClosedIsFinal ==
    [][closed => closed' /\ cmd' = 0 /\ pending' = {} /\ generation' = generation]_vars

-----------------------------------------------------------------------------
(* Fairness and liveness *)

\* Goroutines run; Go's mutexes do not starve a waiter; killed processes are reaped; timers
\* go off.  Nothing here says that a server reads or answers, or that a context ever ends.
GatewayFairness ==
    /\ \A o \in Ops : WF_vars(WriteBegin(o) \/ WriteEnd(o) \/ Touch(o))
    /\ \A c \in Calls : WF_vars(Register(c) \/ Receive(c) \/ Unregister(c))
    /\ \A g \in Gens : /\ WF_vars(StopIdle(g)) /\ WF_vars(Kill(g)) /\ WF_vars(HandleExit(g))
                        /\ WF_vars(ReplyBegin(g) \/ ReplyEnd(g))
                        /\ WF_vars(\E line \in outbox[g] : Deliver(g, line) \/ ReadAsk(g, line))
    /\ WF_vars(\E s \in sends : Send(s))
    /\ WF_vars(FireTimer)

\* The server keeps reading its stdin.
ServerFairness == \A g \in Gens : WF_vars(ServerRead(g))
FairSpec == Spec /\ GatewayFairness /\ ServerFairness

\* Every invocation returns, unless its request is with a live process that never answers: no
\* stop, exit, Close, broken pipe or reply to the server keeps a caller.  Nothing is said of
\* deadlines (the gateway's own stdio mode sets none).  Needs a server that drains its stdin.
OnlyServersKeepCallers ==
    \A o \in Ops :
        \/ <>[](pc[o] \in {"idle", "done"})
        \/ <>[](pc[o] = "waiting" /\ proc[target[o]] = "up")

\* Everybody is done with the process, and no call failed because it was stopped under it.
Finished == (\A o \in Ops : pc[o] = "done") /\ (\A c \in Calls : result[c] # "notRunning")

\* After Close every process comes to its end.  So does a lazy one that everybody is done
\* with, however timers, calls, idle stops, exits and restarts interleaved before.
ProcessesReclaimed == closed \/ (Finished /\ ~Persistent) ~> \A g \in Gens : proc[g] # "up"
=============================================================================
