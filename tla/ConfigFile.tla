----------------------------- MODULE ConfigFile -----------------------------
(***************************************************************************)
(* The configuration file and the configuration the process runs with.     *)
(* Four parties change them: requests of the HTTP API (httpapi             *)
(* mutateConfig), the commands init, server add and server remove          *)
(* (cmd/mcp-gate), an editor, and the watcher that loads the file when its *)
(* time or size changed.  API requests exclude each other with configMu;   *)
(* nothing else is excluded.                                               *)
(*                                                                         *)
(* A configuration is what only a restart can change ("fixed": listener    *)
(* and storage) and the definitions of the servers.  Completed fills in    *)
(* the defaults of a definition, Valid is what Validate asks of one, and   *)
(* Resolved puts the directory of the file in front of a relative working  *)
(* directory (which is absolute then only if the file's path is).          *)
(***************************************************************************)
EXTENDS Integers

CONSTANTS
    Servers, Defs, Completed(_), Valid(_), Resolved(_),
    Fixed,          \* values of the restart-only part; 1 is that of Default
    Requests,       \* concurrent API requests
    Commands,       \* concurrent CLI commands
    Texts,          \* configurations an editor may leave in the file
    MaxEdits        \* bound: edits of the configuration by anybody

None == -1    \* no such server
Free == -2    \* nothing promised about a server

Default == [fixed |-> 1, servers |-> [s \in Servers |-> None]]
Missing == [fixed |-> -1, servers |-> Default.servers]
Torn    == [fixed |-> -2, servers |-> Default.servers]

\* The definitions that are in memory, or in a file the program has written.
Saved == {Completed(d) : d \in Defs} \union {Resolved(Completed(d)) : d \in Defs}

ASSUME DefsAssumption    == {None, Free} \cap (Defs \union Saved) = {}
ASSUME FixedAssumption   == {Missing.fixed, Torn.fixed} \cap Fixed = {}
ASSUME WritersAssumption == Requests \cap Commands = {}
ASSUME TextsAssumption   == Texts \subseteq [fixed : Fixed \union {1}, servers : [Servers -> Defs \union {None}]]
ASSUME EditsAssumption   == MaxEdits \in Nat
\* ApplyDefaults fills in what is empty, and a definition stays filled in.
ASSUME CompletedAssumption == \A e \in Saved : Completed(e) = e

\* The path of the file is absolute, or a plain name: a working directory is
\* resolved once.  With "dir/file" it is put under dir again every time.
ResolvedOnce == \A e \in Saved : Resolved(Resolved(e)) = Resolved(e)

VARIABLES
    file,      \* what a reader of the path finds
    disk,      \* what may be there after a power failure
    stamp,     \* modification time and size of the file, new with every change
    up,        \* the gateway runs
    running,   \* manager.cfg
    watcher,   \* [pc, seen (lastMod, lastSize), cfg (what Load returned)]
    writer,    \* [Requests \union Commands -> the edit and how far its Save is]
    edits,
    promised,  \* history: [Servers -> the last acknowledged API edit, or Free]
    overtaken, \* history: a request applied its configuration after the watcher
               \* had seen a newer file
    excused    \* history: an editor wrote in place, or an fsync failed unnoticed

Nothing == [s \in Servers |-> Free]

vars == <<file, disk, stamp, up, running, watcher, writer, edits, promised, overtaken, excused>>

Writers == Requests \union Commands
Idle == [pc |-> "idle", cfg |-> Default, server |-> CHOOSE s \in Servers : TRUE, stamp |-> 0, synced |-> TRUE]
Asleep == [pc |-> "idle", seen |-> 0, cfg |-> Default]

Effective(c) == [c EXCEPT !.servers = [s \in Servers |-> IF @[s] = None THEN None ELSE Resolved(@[s])]]

ApplyDefaults(c) ==
    [c EXCEPT !.servers = [s \in Servers |-> IF @[s] = None THEN None ELSE Completed(@[s])]]

Validate(c) == \A s \in Servers : c.servers[s] # None => Valid(c.servers[s])

\* Load: a missing file is the default configuration; Torn does not decode.
Loaded(f) == IF f = Missing THEN Default ELSE ApplyDefaults(f)
Loads(f) == f # Torn /\ Validate(Loaded(f))

Init ==
    /\ file \in {Missing} \union {[Default EXCEPT !.fixed = n] : n \in Fixed}
    /\ disk = {file} /\ stamp = 1
    /\ up = FALSE /\ running = Default /\ watcher = Asleep
    /\ writer = [w \in Writers |-> Idle] /\ edits = 0
    /\ promised = Nothing
    /\ overtaken = FALSE /\ excused = FALSE

-----------------------------------------------------------------------------
(* The process.                                                            *)

\* serve: load, resolve, start; the watcher has seen nothing yet.
Serve ==
    /\ ~up /\ Loads(file)
    /\ up' = TRUE /\ running' = Effective(Loaded(file))
    /\ watcher' = Asleep /\ overtaken' = FALSE
    /\ UNCHANGED <<file, disk, stamp, writer, edits, promised, excused>>

\* The process ends, and requests with it; running loses its meaning.
Down ==
    /\ up' = FALSE /\ running' = Default /\ watcher' = Asleep
    /\ overtaken' = FALSE

Exit ==
    /\ up /\ Down
    /\ writer' = [w \in Writers |-> IF w \in Requests THEN Idle ELSE writer[w]]
    /\ UNCHANGED <<file, disk, stamp, edits, promised, excused>>

PowerFailure ==
    /\ Down
    /\ file' \in disk /\ disk' = {file'}
    /\ writer' = [w \in Writers |-> Idle]
    /\ promised' = IF excused THEN Nothing ELSE promised
    /\ UNCHANGED <<stamp, edits, excused>>

-----------------------------------------------------------------------------
(* Edits, by requests and by commands.                                     *)

Edited(c, s, d) == [c EXCEPT !.servers[s] = d]

\* Only what is valid is saved.
StartEdit(w, c, s) ==
    /\ writer[w].pc = "idle" /\ edits < MaxEdits /\ Validate(ApplyDefaults(c))
    /\ writer' = [writer EXCEPT ![w] =
            [Idle EXCEPT !.pc = "save", !.cfg = ApplyDefaults(c), !.server = s]]
    /\ edits' = edits + 1
    /\ UNCHANGED <<file, disk, stamp, up, running, watcher, promised, overtaken, excused>>

\* Variant: mutateConfig copies the configuration before it takes configMu.
MutateConfigUnlocked(r, s, d) ==
    /\ up /\ StartEdit(r, Edited(running, s, d), s)

\* mutateConfig under configMu: edit a copy of the running configuration.
MutateConfig(r, s, d) ==
    /\ up /\ \A q \in Requests : writer[q].pc = "idle"
    /\ StartEdit(r, Edited(running, s, d), s)

\* POST adds, PUT replaces, DELETE removes; otherwise the request fails.
PostServer(r)   == \E s \in Servers, d \in Defs : running.servers[s] = None /\ MutateConfig(r, s, d)
PutServer(r)    == \E s \in Servers, d \in Defs : running.servers[s] # None /\ MutateConfig(r, s, d)
RemoveServer(r) == \E s \in Servers : running.servers[s] # None /\ MutateConfig(r, s, None)

\* server add, server remove: of the file as it is; init: only without a file,
\* or forced.
ServerAdd(c) ==
    \E s \in Servers, d \in Defs :
        /\ Loads(file) /\ Loaded(file).servers[s] = None
        /\ StartEdit(c, Edited(Loaded(file), s, d), s)

ServerRemove(c) ==
    \E s \in Servers :
        /\ Loads(file) /\ Loaded(file).servers[s] # None
        /\ StartEdit(c, Edited(Loaded(file), s, None), s)

InitConfig(c) == \E s \in Servers : StartEdit(c, Default, s)

-----------------------------------------------------------------------------
(* Save.                                                                   *)

\* Variant: the temporary file is not synced.
WriteTmpUnsynced(w) ==
    /\ writer[w].pc = "save"
    /\ writer' = [writer EXCEPT ![w] = [@ EXCEPT !.pc = "rename", !.synced = FALSE]]
    /\ UNCHANGED <<file, disk, stamp, up, running, watcher, edits, promised, overtaken, excused>>

\* The temporary file, of a name of its own; an error of its Sync is ignored.
WriteTmp(w) ==
    /\ writer[w].pc = "save"
    /\ \E ok \in BOOLEAN :
        /\ writer' = [writer EXCEPT ![w] = [@ EXCEPT !.pc = "rename", !.synced = ok]]
        /\ excused' = (excused \/ ~ok)
    /\ UNCHANGED <<file, disk, stamp, up, running, watcher, edits, promised, overtaken>>

\* Until the directory is synced, the old file may come back.
Rename(w) ==
    LET p == writer[w] IN
    /\ p.pc = "rename"
    /\ file' = p.cfg /\ stamp' = stamp + 1
    /\ disk' = disk \union {p.cfg} \union (IF p.synced THEN {} ELSE {Torn})
    /\ writer' = [writer EXCEPT ![w] = [p EXCEPT !.pc = "dir", !.stamp = stamp + 1]]
    /\ promised' = [s \in Servers |->
            IF w \in Commands \/ s = p.server THEN Free ELSE promised[s]]
    /\ UNCHANGED <<up, running, watcher, edits, overtaken, excused>>

\* The directory is synced, or that fails unnoticed.  A command is done.
SyncDir(w) ==
    /\ writer[w].pc = "dir"
    /\ \E ok \in BOOLEAN :
        /\ disk' = IF ok THEN {file} \union (disk \intersect {Torn}) ELSE disk
        /\ excused' = (excused \/ ~ok)
    /\ writer' = [writer EXCEPT ![w] = IF w \in Requests THEN [@ EXCEPT !.pc = "apply"] ELSE Idle]
    /\ UNCHANGED <<file, stamp, up, running, watcher, edits, promised, overtaken>>

\* Save fails before the rename, or a command is interrupted.
FailSave(w) ==
    /\ writer[w].pc \in {"save", "rename"}
    /\ writer' = [writer EXCEPT ![w] = Idle]
    /\ UNCHANGED <<file, disk, stamp, up, running, watcher, edits, promised, overtaken, excused>>

\* ApplyConfig, and the answer to the request.
Answer(r) ==
    LET p == writer[r] IN
    /\ p.pc = "apply"
    /\ running' = p.cfg
    /\ overtaken' = (stamp # p.stamp)
    /\ promised' = IF stamp = p.stamp THEN [promised EXCEPT ![p.server] = p.cfg.servers[p.server]]
                   ELSE Nothing
    /\ writer' = [writer EXCEPT ![r] = Idle]
    /\ UNCHANGED <<file, disk, stamp, up, watcher, edits, excused>>

-----------------------------------------------------------------------------
(* An editor: in place, or by removing the file first.                     *)

Touch(f) ==
    /\ file' = f /\ stamp' = stamp + 1 /\ disk' = {f}
    /\ promised' = Nothing
    /\ UNCHANGED <<up, running, watcher, writer, overtaken>>

StartEditor ==
    /\ edits < MaxEdits /\ file \notin {Torn, Missing}
    /\ \E f \in {Torn, Missing} : Touch(f)
    /\ edits' = edits + 1 /\ excused' = TRUE

EndEditor ==
    /\ file \in {Torn, Missing}
    /\ \E f \in Texts : Touch(f)
    /\ UNCHANGED <<edits, excused>>

-----------------------------------------------------------------------------
(* The watcher.                                                            *)

\* Stat: no file, or an unchanged one, is left alone; otherwise what it looks
\* like is noted before it is read.
Check ==
    /\ up /\ watcher.pc = "idle" /\ file # Missing /\ watcher.seen # stamp
    /\ watcher' = [watcher EXCEPT !.pc = "load", !.seen = stamp]
    /\ UNCHANGED <<file, disk, stamp, up, running, writer, edits, promised, overtaken, excused>>

\* Load; a file that cannot be decoded, or is not valid, is reported and left.
Load ==
    /\ watcher.pc = "load"
    /\ watcher' = IF ~Loads(file) THEN [watcher EXCEPT !.pc = "idle"]
                  ELSE [watcher EXCEPT !.pc = "apply", !.cfg = Loaded(file)]
    /\ UNCHANGED <<file, disk, stamp, up, running, writer, edits, promised, overtaken, excused>>

\* Variant: what the file looks like is noted when its content is applied.
ReloadAndNote ==
    /\ watcher.pc = "apply"
    /\ running' = [Effective(watcher.cfg) EXCEPT !.fixed = running.fixed]
    /\ promised' = IF watcher.cfg = Loaded(file) THEN promised ELSE Nothing
    /\ overtaken' = FALSE
    /\ watcher' = [pc |-> "idle", seen |-> stamp, cfg |-> Default]
    /\ UNCHANGED <<file, disk, stamp, up, writer, edits, excused>>

\* The callback: paths are resolved, the restart-only part stays, the rest is
\* applied.
Reload ==
    /\ watcher.pc = "apply"
    /\ running' = [Effective(watcher.cfg) EXCEPT !.fixed = running.fixed]
    /\ promised' = IF watcher.cfg = Loaded(file) THEN promised ELSE Nothing
    /\ overtaken' = FALSE
    /\ watcher' = [watcher EXCEPT !.pc = "idle", !.cfg = Default]
    /\ UNCHANGED <<file, disk, stamp, up, writer, edits, excused>>

-----------------------------------------------------------------------------
Step(w) == WriteTmp(w) \/ Rename(w) \/ SyncDir(w) \/ FailSave(w)

Next ==
    \/ Serve \/ Exit \/ PowerFailure
    \/ \E r \in Requests : PostServer(r) \/ PutServer(r) \/ RemoveServer(r) \/ Answer(r)
    \/ \E c \in Commands : ServerAdd(c) \/ ServerRemove(c) \/ InitConfig(c)
    \/ \E w \in Writers : Step(w)
    \/ StartEditor \/ EndEditor
    \/ Check \/ Load \/ Reload

\* The watcher's ticker and goroutine go on, and so do requests and commands.
Fairness ==
    /\ WF_vars(Check) /\ WF_vars(Load) /\ WF_vars(Reload)
    /\ \A w \in Writers : WF_vars(Step(w))
    /\ \A r \in Requests : WF_vars(Answer(r))

Spec == Init /\ [][Next]_vars /\ Fairness

-----------------------------------------------------------------------------
(* Properties.                                                             *)

\* Whenever the power fails, even in the middle of a Save, a complete
\* configuration is found afterwards: the old or the new one.
NeverTorn == Torn \in disk \union {file} => excused

SameServer(c, s, d) ==
    Effective(ApplyDefaults(c)).servers[s] = IF d = None THEN None ELSE Resolved(d)

\* A server edit that the API has acknowledged is in the running configuration
\* and in the file, and survives a power failure, until a command or an editor
\* changes the file, a later request edits the server again, or the watcher
\* applies a file that it read before the edit.
AcknowledgedKept ==
    \A s \in Servers : promised[s] # Free =>
        /\ \A c \in {file} \union (IF excused THEN {} ELSE disk) : SameServer(c, s, promised[s])
        /\ up => SameServer(running, s, promised[s])

\* The process runs what the file says, if it says anything.
InStep == up /\ file # Missing /\ Loads(file) =>
    Effective(running).servers = Effective(Loaded(file)).servers

\* When nobody changes the file any more the process comes to run what it says
\* and stays with it, unless a request applied an older configuration after
\* the watcher had looked at the last change.
ReloadConverges == <>[](InStep \/ overtaken)

=============================================================================
